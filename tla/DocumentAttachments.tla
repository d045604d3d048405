------------------------- MODULE DocumentAttachments -------------------------
(***************************************************************************)
(* Images of documents (services/document_attachment_service.py): a row of *)
(* document_attachments in the database and a file on a volume, written by *)
(* requests that may fail or be killed between any two steps.              *)
(*                                                                         *)
(* A document keeps the attachments its text links to; folders, names and  *)
(* visibility by role are those of module Documents.  Temporary files,     *)
(* sizes, types and checksums are left out: a refused upload is Fail.      *)
(***************************************************************************)
EXTENDS Naturals, FiniteSets

CONSTANTS
  Uploaders,          \* requests in flight
  MaxAttachments,     \* bound on identifiers of attachments
  MaxDocuments,       \* bound on identifiers of documents
  MaxRequests         \* bound on requests

ASSUME AttachmentsAssumption ==
  MaxAttachments \in Nat \ {0} /\ MaxDocuments \in Nat \ {0, 1} /\ MaxRequests \in Nat

VARIABLES
  attRows,       \* the document of each committed row, NoDocument if none
  attFiles,      \* files in their final place
  attUsed,       \* identifiers given out
  attDocs,       \* documents, as far as attachments see them
  attReq,        \* what each request is doing
  attBegun,      \* requests begun
  lost           \* files an inconsistent restore of the volume took away

attachmentsVars == <<attRows, attFiles, attUsed, attDocs, attReq, attBegun, lost>>

AttIds == 1 .. MaxAttachments
DocIds == 1 .. MaxDocuments
NoDocument == 0
Resting == [op |-> "rest"]

\* "links" is content_md; "copied" are the links it has had since it was made
\* as a copy of one of "sources".
Document == [made : BOOLEAN, live : BOOLEAN, links : SUBSET AttIds, copied : SUBSET AttIds,
             sources : SUBSET DocIds]
NoDoc == [made |-> FALSE, live |-> FALSE, links |-> {}, copied |-> {}, sources |-> {}]

\* The tables: a row names the document it belongs to, a file is named after
\* the identifier of its row alone.
AttachmentRows == [AttIds -> 0 .. MaxDocuments]
_file_path == SUBSET AttIds

AttVisible(n) == n # NoDocument /\ attDocs[n].live

\* _resolve_visible, list_for_nodes: what a reading transaction sees.
_resolve_visible(a) == AttVisible(attRows[a])
list_for_nodes(S) == {a \in AttIds : attRows[a] \in S}

\* get_file: row, document, file, or else one and the same 404.
get_file(a) == _resolve_visible(a) /\ a \in attFiles

-----------------------------------------------------------------------------
CanEnter(u) == attReq[u] = Resting /\ attBegun < MaxRequests

Enter(u, request) ==
  /\ attReq' = [attReq EXCEPT ![u] = request] /\ attBegun' = attBegun + 1
  /\ UNCHANGED <<attRows, attFiles, attUsed, attDocs, lost>>

\* upload: the document is looked up before the body is read.
BeginUpload(u) ==
  /\ CanEnter(u)
  /\ \E n \in DocIds : AttVisible(n) /\ Enter(u, [op |-> "upload", node |-> n])

\* The row is flushed, which gives the identifier, and the file is put in its
\* place under it; nobody sees the row yet.
PlaceUpload(u) ==
  /\ attReq[u].op = "upload" /\ attUsed < MaxAttachments
  /\ attUsed' = attUsed + 1
  /\ attFiles' = attFiles \cup {attUsed + 1}
  /\ attReq' = [attReq EXCEPT ![u] = [op |-> "uploaded", node |-> @.node, id |-> attUsed + 1]]
  /\ UNCHANGED <<attRows, attDocs, attBegun, lost>>

CommitUpload(u) ==
  /\ attReq[u].op = "uploaded"
  /\ attRows' = [attRows EXCEPT ![attReq[u].id] = attReq[u].node]
  /\ attReq' = [attReq EXCEPT ![u] = Resting]
  /\ UNCHANGED <<attFiles, attUsed, attDocs, attBegun, lost>>

\* delete: look up, commit the removal of the row, and only then the file.
BeginDeleteAttachment(u) ==
  /\ CanEnter(u)
  /\ \E a \in AttIds : _resolve_visible(a) /\ Enter(u, [op |-> "delete", id |-> a])

\* Fault: the file goes before the commit.
CommitDeleteFileFirst(u) ==
  /\ attReq[u].op \in {"delete", "removed"}
  /\ IF attReq[u].op = "delete"
     THEN /\ attFiles' = attFiles \ {attReq[u].id}
          /\ attReq' = [attReq EXCEPT ![u].op = "removed"]
          /\ UNCHANGED attRows
     ELSE /\ attRows' = [attRows EXCEPT ![attReq[u].id] = NoDocument]
          /\ attReq' = [attReq EXCEPT ![u].op = "deleted"]
          /\ UNCHANGED attFiles
  /\ UNCHANGED <<attUsed, attDocs, attBegun, lost>>

CommitDelete(u) ==
  /\ attReq[u].op = "delete"
  /\ attRows' = [attRows EXCEPT ![attReq[u].id] = NoDocument]
  /\ attReq' = [attReq EXCEPT ![u].op = "deleted"]
  /\ UNCHANGED <<attFiles, attUsed, attDocs, attBegun, lost>>

\* _unlink_quietly: a missing file is no error, a failure is only logged.
_unlink_quietly(u) ==
  /\ attReq[u].op = "deleted"
  /\ attFiles' \in {attFiles, attFiles \ {attReq[u].id}}
  /\ attReq' = [attReq EXCEPT ![u] = Resting]
  /\ UNCHANGED <<attRows, attUsed, attDocs, attBegun, lost>>

-----------------------------------------------------------------------------
(* copy_node with copy_for_nodes.  A subtree is any set of live documents. *)

BeginCopyDocuments(u) ==
  /\ CanEnter(u)
  /\ \E S \in SUBSET {n \in DocIds : attDocs[n].live} :
       /\ S # {}
       /\ Enter(u, [op |-> "copy", texts |-> [n \in S |-> attDocs[n].links]])

ListSources(u) ==
  /\ attReq[u].op = "copy"
  /\ attReq' = [attReq EXCEPT ![u] = [op |-> "listed", texts |-> @.texts,
                                      owner |-> [a \in list_for_nodes(DOMAIN @.texts) |->
                                                   attRows[a]]]]
  /\ UNCHANGED <<attRows, attFiles, attUsed, attDocs, attBegun, lost>>

\* _stage_copy: sources whose file is gone are skipped.  The rows of the
\* copies are flushed and their files placed.
StageCopy(u) ==
  LET r == attReq[u] staged == DOMAIN r.owner \cap attFiles IN
    /\ r.op = "listed" /\ attUsed + Cardinality(staged) <= MaxAttachments
    /\ attUsed' = attUsed + Cardinality(staged)
    /\ LET map == [a \in staged |-> attUsed + Cardinality({b \in staged : b <= a})] IN
         /\ attFiles' = attFiles \cup {map[a] : a \in staged}
         /\ attReq' = [attReq EXCEPT ![u] =
              [op |-> "staged", texts |-> r.texts, map |-> map,
               owner |-> [a \in staged |-> r.owner[a]]]]
    /\ UNCHANGED <<attRows, attDocs, attBegun, lost>>

\* _rewrite_attachment_links: every old address in every copied text.
_rewrite_attachment_links(r, n) ==
  {IF a \in DOMAIN r.map THEN r.map[a] ELSE a : a \in r.texts[n]}

CommitCopy(u) ==
  LET r == attReq[u]
      old == DOMAIN r.texts
      top == Cardinality({n \in DocIds : attDocs[n].made})
      new(n) == top + Cardinality({m \in old : m <= n})
      made(k) == \E n \in old : new(n) = k
  IN
    /\ r.op = "staged" /\ top + Cardinality(old) <= MaxDocuments
    /\ attDocs' = [k \in DocIds |->
         IF made(k)
         THEN LET links == _rewrite_attachment_links(r, CHOOSE n \in old : new(n) = k)
              IN  [made |-> TRUE, live |-> TRUE, links |-> links, copied |-> links,
                   sources |-> old]
         ELSE attDocs[k]]
    /\ attRows' = [a \in AttIds |->
         IF \E b \in DOMAIN r.map : r.map[b] = a
         THEN new(r.owner[CHOOSE b \in DOMAIN r.map : r.map[b] = a])
         ELSE attRows[a]]
    /\ attReq' = [attReq EXCEPT ![u] = Resting]
    /\ UNCHANGED <<attFiles, attUsed, attBegun, lost>>

-----------------------------------------------------------------------------
\* An error, a refusal or a restart ends a request: its transaction is rolled
\* back and a file it has put in place stays there without a row.
Fail(u) ==
  /\ attReq[u] # Resting
  /\ attReq' = [attReq EXCEPT ![u] = Resting]
  /\ UNCHANGED <<attRows, attFiles, attUsed, attDocs, attBegun, lost>>

\* PATCH of the text: the address of a stored image is put in or taken out.
EditLinks(n, a) ==
  /\ attBegun < MaxRequests /\ AttVisible(n) /\ _resolve_visible(a)
  /\ attBegun' = attBegun + 1
  /\ attDocs' = [attDocs EXCEPT
       ![n].links = IF a \in @ THEN @ \ {a} ELSE @ \cup {a},
       ![n].copied = @ \ {a}]
  /\ UNCHANGED <<attRows, attFiles, attUsed, attReq, lost>>

\* Deleting a document keeps its rows and its files.
DeleteDocument(n) ==
  /\ attBegun < MaxRequests /\ AttVisible(n)
  /\ attBegun' = attBegun + 1
  /\ attDocs' = [attDocs EXCEPT ![n].live = FALSE]
  /\ UNCHANGED <<attRows, attFiles, attUsed, attReq, lost>>

\* The volume is restored to an older state than the database.
LoseFile(a) ==
  /\ a \in attFiles /\ lost = {}
  /\ lost' = {a} /\ attFiles' = attFiles \ {a}
  /\ UNCHANGED <<attRows, attUsed, attDocs, attReq, attBegun>>

AttachmentsInit ==
  /\ attRows = [a \in AttIds |-> NoDocument] /\ attFiles = {} /\ attUsed = 0
  /\ attDocs = [n \in DocIds |-> IF n <= 2 THEN [NoDoc EXCEPT !.made = TRUE, !.live = TRUE]
                                ELSE NoDoc]
  /\ attReq = [u \in Uploaders |-> Resting] /\ attBegun = 0 /\ lost = {}

AttachmentsNext ==
  \/ \E u \in Uploaders :
       \/ BeginUpload(u) \/ PlaceUpload(u) \/ CommitUpload(u)
       \/ BeginDeleteAttachment(u) \/ CommitDelete(u) \/ _unlink_quietly(u)
       \/ BeginCopyDocuments(u) \/ ListSources(u) \/ StageCopy(u) \/ CommitCopy(u)
       \/ Fail(u)
  \/ \E n \in DocIds : DeleteDocument(n) \/ \E a \in AttIds : EditLinks(n, a)
  \/ \E a \in AttIds : LoseFile(a)

AttachmentsSpec == AttachmentsInit /\ [][AttachmentsNext]_attachmentsVars

-----------------------------------------------------------------------------
\* The shape of rows, files, documents and requests.
AttachmentsTypeOK ==
  /\ attRows \in AttachmentRows
  /\ attFiles \in _file_path /\ attFiles \subseteq 1 .. attUsed /\ attUsed \in 0 .. MaxAttachments
  /\ attDocs \in [DocIds -> Document]
  /\ \A u \in Uploaders : attReq[u].op \in
       {"rest", "upload", "uploaded", "delete", "deleted", "copy", "listed", "staged"}
  /\ lost \subseteq AttIds

\* There is no row without its file: whatever requests do to the same image at
\* once and wherever they stop, an image that a committed row names and whose
\* document is live is served, unless the volume itself has lost it.
StoredIsServed ==
  \A a \in AttIds :
    attRows[a] # NoDocument /\ attDocs[attRows[a]].live /\ a \notin lost => get_file(a)

\* A copy stands on its own: the texts of a copied subtree do not show images
\* of the documents they were copied from, so deleting the originals does not
\* break them.  Only links that were already dead were left as they were.
CopyStandsAlone ==
  \A n \in DocIds : \A a \in attDocs[n].copied :
    attRows[a] \in attDocs[n].sources => a \notin attFiles

\* What holds of images at any moment.
DocumentAttachmentsHold == AttachmentsTypeOK /\ StoredIsServed /\ CopyStandsAlone
=============================================================================
