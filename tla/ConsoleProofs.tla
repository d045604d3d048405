---------------------------- MODULE ConsoleProofs ----------------------------
(***************************************************************************)
(* Theorems about the services behind the console's pages, for every set   *)
(* of requests, every number of documents, rows and users, and every       *)
(* bound.  Each service has its section: its own invariant is proved of    *)
(* its own specification, and carried over to the one that composes them.  *)
(***************************************************************************)
EXTENDS MCConsole, FiniteSetTheorems, FunctionTheorems, TLAPS

----------------------------------------------------------------------------
(* Ranks: both copies and reorders number the members of a finite set from  *)
(* one up, in their order.                                                  *)

\* The rank of a member is between one and the size of the set.
LEMMA RankBounds ==
  ASSUME NEW S, IsFiniteSet(S), S \subseteq Nat, NEW n \in S
  PROVE  Cardinality({m \in S : m <= n}) \in 1 .. Cardinality(S)
<1> DEFINE T == {m \in S : m <= n}
<1>1. T \in SUBSET S /\ n \in T
  OBVIOUS
<1>2. IsFiniteSet(T) /\ Cardinality(T) <= Cardinality(S)
  BY <1>1, FS_Subset
<1>3. Cardinality(T) \in Nat /\ Cardinality(S) \in Nat
  BY <1>2, FS_CardinalityType
<1>4. Cardinality(T) # 0
  BY <1>1, <1>2, FS_EmptySet
<1>5. QED
  BY <1>2, <1>3, <1>4

\* Two members have different ranks.
LEMMA RankInjective ==
  ASSUME NEW S, IsFiniteSet(S), S \subseteq Nat, NEW n \in S, NEW k \in S, n # k
  PROVE  Cardinality({m \in S : m <= n}) # Cardinality({m \in S : m <= k})
<1>1. ASSUME NEW i \in S, NEW j \in S, i < j
      PROVE  Cardinality({m \in S : m <= i}) # Cardinality({m \in S : m <= j})
  <2> DEFINE A == {m \in S : m <= i}
             B == {m \in S : m <= j}
  <2>0. i \in Nat /\ j \in Nat /\ \A m \in S : m \in Nat
    OBVIOUS
  <2>1. A \in SUBSET B /\ B \in SUBSET S /\ j \in B /\ j \notin A
    <3>1. \A m \in S : m <= i => m <= j
      BY <1>1, <2>0
    <3>2. j <= j /\ ~(j <= i)
      BY <1>1, <2>0
    <3>3. QED
      BY <3>1, <3>2
  <2>2. IsFiniteSet(B)
    BY <2>1, FS_Subset
  <2>3. QED
    BY <2>1, <2>2, FS_Subset
<1>2. n < k \/ k < n
  OBVIOUS
<1>3. QED
  BY <1>1, <1>2

\* The ranks of a set are as many as its members.
LEMMA RankImage ==
  ASSUME NEW S, IsFiniteSet(S), S \subseteq Nat, NEW b \in Nat,
         NEW R, R = {b + Cardinality({m \in S : m <= n}) : n \in S}
  PROVE  IsFiniteSet(R) /\ Cardinality(R) = Cardinality(S)
<1> DEFINE f == [n \in S |-> b + Cardinality({m \in S : m <= n})]
<1>1. \A n \in S : Cardinality({m \in S : m <= n}) \in Nat
  <2> SUFFICES ASSUME NEW n \in S PROVE Cardinality({m \in S : m <= n}) \in Nat
    OBVIOUS
  <2>1. {m \in S : m <= n} \in SUBSET S
    OBVIOUS
  <2>2. QED
    BY <2>1, FS_Subset, FS_CardinalityType
<1>2. \A n, k \in S : f[n] = f[k] => n = k
  <2> SUFFICES ASSUME NEW n \in S, NEW k \in S, n # k PROVE f[n] # f[k]
    OBVIOUS
  <2>1. Cardinality({m \in S : m <= n}) # Cardinality({m \in S : m <= k})
    BY RankInjective
  <2>2. QED
    BY <1>1, <2>1
<1>3. f \in Bijection(S, R)
  <2>1. f \in [S -> R] /\ (\A r \in R : \E n \in S : f[n] = r)
    OBVIOUS
  <2>2. QED
    BY <1>2, <2>1, Fun_IsBij
<1>4. ExistsBijection(S, R)
  BY <1>3 DEF ExistsBijection
<1>5. QED
  BY <1>4, FS_Bijection

----------------------------------------------------------------------------
(***************************************************************************)
(* Attachments of documents.                                               *)
(***************************************************************************)

\* Identifiers whose files a request has put in place for rows it has not
\* committed yet.
Held(u) ==
  {a \in AttIds :
     \/ attReq[u].op = "uploaded" /\ a = attReq[u].id
     \/ attReq[u].op = "staged" /\ \E b \in DOMAIN attReq[u].map : attReq[u].map[b] = a}

\* An identifier given out that no request holds: its row can only go, and its
\* file cannot come back.
Settled(a) == a \in 1 .. attUsed /\ \A u \in Uploaders : a \notin Held(u)

Made == {n \in DocIds : attDocs[n].made}

\* What the database says of rows, files and requests in flight.
HeldOK ==
  /\ \A u \in Uploaders : \A a \in Held(u) :
       a \in 1 .. attUsed /\ attRows[a] = NoDocument /\ a \in attFiles \cup lost
  /\ \A u, v \in Uploaders : u # v => Held(u) \cap Held(v) = {}
RowsOK ==
  /\ attRows \in AttachmentRows /\ attUsed \in 0 .. MaxAttachments
  /\ attFiles \cup lost \subseteq 1 .. attUsed
  /\ \A a \in AttIds : attRows[a] # NoDocument => Settled(a) /\ a \in attFiles \cup lost

\* Requests: what they remember is settled, and what a copy does not copy is
\* not shown by the documents it copies.
UploadOK(r) ==
  /\ r.op \in {"upload", "uploaded"} => r.node \in DocIds
  /\ r.op = "uploaded" => r.id \in AttIds
DeleteOK(r) ==
  /\ r.op \in {"delete", "deleted"} =>
       r \in [op : {"delete", "deleted"}, id : AttIds] /\ Settled(r.id)
  /\ r.op = "deleted" => attRows[r.id] = NoDocument
TextsOK(r) ==
  r.op \in {"copy", "listed", "staged"} =>
    /\ DOMAIN r.texts \subseteq Made
    /\ \A n \in DOMAIN r.texts : \A a \in r.texts[n] : Settled(a)
ListedOK(r) ==
  /\ r.op \in {"listed", "staged"} =>
       \A a \in DOMAIN r.owner : a \in AttIds /\ r.owner[a] \in DOMAIN r.texts
  /\ r.op = "listed" => \A n \in DOMAIN r.texts : \A a \in r.texts[n] :
       a \in DOMAIN r.owner \/ attRows[a] \notin DOMAIN r.texts
StagedOK(r) ==
  r.op = "staged" =>
    /\ DOMAIN r.map = DOMAIN r.owner
    /\ \A a \in DOMAIN r.map : r.map[a] \in AttIds
    /\ \A n \in DOMAIN r.texts : \A a \in r.texts[n] :
         a \in DOMAIN r.map \/ attRows[a] \notin DOMAIN r.texts \/ a \notin attFiles
RequestOK(u) ==
  /\ attReq[u].op \in {"rest", "upload", "uploaded", "delete", "deleted", "copy", "listed", "staged"}
  /\ UploadOK(attReq[u]) /\ DeleteOK(attReq[u]) /\ TextsOK(attReq[u])
  /\ ListedOK(attReq[u]) /\ StagedOK(attReq[u])

\* Documents: the ones made are the first ones, their links are settled, and a
\* copy shows none of its originals' images.
DocOK(n) ==
  /\ attDocs[n].live => attDocs[n].made
  /\ \A a \in attDocs[n].links \cup attDocs[n].copied : Settled(a)
  /\ \A a \in attDocs[n].copied : attRows[a] \in attDocs[n].sources => a \notin attFiles
DocsOK ==
  /\ attDocs \in [DocIds -> Document]
  /\ \A n \in DocIds : DocOK(n)
  /\ \A n \in Made : n <= Cardinality(Made)

AttachmentsInv ==
  /\ HeldOK /\ RowsOK /\ DocsOK
  /\ attReq = [u \in Uploaders |-> attReq[u]]
  /\ \A u \in Uploaders : RequestOK(u)

\* A step by which what is settled stays settled: its row can only go, its file
\* does not come back, and no document is unmade.
AttKeeps ==
  /\ \A a : Settled(a) => /\ Settled(a)'
                          /\ attRows'[a] \in {attRows[a], NoDocument}
                          /\ a \in attFiles' => a \in attFiles
  /\ Made \subseteq Made'

\* Identifiers and documents are finitely many numbers.
LEMMA AttSets ==
  /\ AttIds \subseteq Nat /\ IsFiniteSet(AttIds) /\ NoDocument \notin DocIds
  /\ DocIds \subseteq Nat /\ IsFiniteSet(DocIds)
  /\ MaxAttachments \in Nat /\ MaxDocuments \in Nat
<1>1. MaxAttachments \in Nat /\ MaxDocuments \in Nat
  BY AttachmentsAssumption
<1>2. IsFiniteSet(1 .. MaxAttachments) /\ IsFiniteSet(1 .. MaxDocuments)
  BY <1>1, FS_Interval
<1>3. QED
  BY <1>1, <1>2 DEF AttIds, DocIds, NoDocument

\* Identifiers taken by a step are new, so what was settled stays so.
LEMMA SettledStays ==
  ASSUME attUsed \in Nat, attUsed' \in Nat, attUsed <= attUsed',
         \A u \in Uploaders : \A a \in Held(u)' : a \in Held(u) \/ ~(a \in 1 .. attUsed)
  PROVE  \A a : Settled(a) => Settled(a)'
BY DEF Settled

\* A request that does nothing in a step remembers what is still so.
LEMMA RequestKept ==
  ASSUME AttKeeps, NEW u \in Uploaders, RequestOK(u), attReq'[u] = attReq[u]
  PROVE  RequestOK(u)'
<1>1. UploadOK(attReq[u])'
  BY DEF RequestOK, UploadOK
<1>2. DeleteOK(attReq[u])'
  BY DEF RequestOK, DeleteOK, AttKeeps
<1>3. TextsOK(attReq[u])'
  BY DEF RequestOK, TextsOK, AttKeeps
<1>4. attReq[u].op \in {"copy", "listed", "staged"} => NoDocument \notin DOMAIN attReq[u].texts
  BY AttSets DEF RequestOK, TextsOK, Made
<1>5. ListedOK(attReq[u])'
  BY <1>4 DEF RequestOK, ListedOK, TextsOK, AttKeeps
<1>6. StagedOK(attReq[u])'
  BY <1>4 DEF RequestOK, StagedOK, TextsOK, AttKeeps
<1>7. QED
  BY <1>1, <1>2, <1>3, <1>5, <1>6 DEF RequestOK

\* A document that is not written in a step keeps its part of the invariant.
LEMMA DocKept ==
  ASSUME AttKeeps, NEW n \in DocIds, attDocs \in [DocIds -> Document], DocOK(n),
         attDocs'[n] = attDocs[n]
  PROVE  DocOK(n)'
<1>1. NoDocument \notin attDocs[n].sources
  BY AttSets DEF Document
<1>2. QED
  BY <1>1 DEF DocOK, AttKeeps

\* A step of one request that keeps what is settled has to account for its own
\* request, for the tables and for the documents only.
LEMMA RequestMoves ==
  ASSUME AttachmentsInv, NEW u \in Uploaders, NEW r, attReq' = [attReq EXCEPT ![u] = r],
         AttKeeps, HeldOK', RowsOK', DocsOK', RequestOK(u)'
  PROVE  AttachmentsInv'
<1>1. \A v \in Uploaders : v # u => attReq'[v] = attReq[v]
  BY DEF AttachmentsInv
<1>2. \A v \in Uploaders : RequestOK(v)'
  BY <1>1, RequestKept DEF AttachmentsInv
<1>3. attReq' = [v \in Uploaders |-> attReq'[v]]
  BY DEF AttachmentsInv
<1>4. QED
  BY <1>2, <1>3 DEF AttachmentsInv

\* A request that begins, reads or ends without writing holds nothing new.
LEMMA NothingWritten ==
  ASSUME AttachmentsInv, NEW u \in Uploaders, NEW r, attReq' = [attReq EXCEPT ![u] = r],
         UNCHANGED <<attRows, attFiles, attUsed, attDocs, lost>>,
         r.op \notin {"uploaded", "staged"}
  PROVE  AttKeeps /\ HeldOK' /\ RowsOK' /\ DocsOK'
<1>0. attUsed \in Nat
  BY AttSets DEF AttachmentsInv, RowsOK
<1>1. \A v \in Uploaders : attReq'[v] = IF v = u THEN r ELSE attReq[v]
  BY DEF AttachmentsInv
<1>2. \A v \in Uploaders : Held(v)' \subseteq Held(v)
  BY <1>1 DEF Held
<1>3. \A a : Settled(a) => Settled(a)'
  BY <1>0, <1>2, SettledStays
<1>4. AttKeeps
  BY <1>3 DEF AttKeeps, Made
<1>5. HeldOK'
  BY <1>2 DEF AttachmentsInv, HeldOK
<1>6. RowsOK'
  BY <1>3 DEF AttachmentsInv, RowsOK
<1>7. DocsOK'
  <2>1. \A n \in DocIds : DocOK(n)'
    BY <1>4, DocKept DEF AttachmentsInv, DocsOK
  <2>2. QED
    BY <2>1 DEF AttachmentsInv, DocsOK, Made
<1>8. QED
  BY <1>4, <1>5, <1>6, <1>7

\* A request begins with what it has read.
LEMMA BeginStep ==
  ASSUME AttachmentsInv, NEW u \in Uploaders,
         BeginUpload(u) \/ BeginDeleteAttachment(u) \/ BeginCopyDocuments(u)
  PROVE  AttachmentsInv'
<1>1. CASE BeginUpload(u)
  <2>1. PICK n \in DocIds : Enter(u, [op |-> "upload", node |-> n])
    BY <1>1 DEF BeginUpload
  <2> DEFINE r == [op |-> "upload", node |-> n]
  <2>2. /\ attReq' = [attReq EXCEPT ![u] = r] /\ r.op = "upload"
        /\ UNCHANGED <<attRows, attFiles, attUsed, attDocs, lost>>
    BY <2>1 DEF Enter
  <2>3. AttKeeps /\ HeldOK' /\ RowsOK' /\ DocsOK'
    BY <2>2, NothingWritten
  <2>4. attReq'[u] = r
    BY <2>2 DEF AttachmentsInv
  <2>5. RequestOK(u)'
    BY <2>4 DEF RequestOK, UploadOK, DeleteOK, TextsOK, ListedOK, StagedOK
  <2>6. QED
    BY <2>2, <2>3, <2>5, RequestMoves
<1>2. CASE BeginDeleteAttachment(u)
  <2>1. PICK a \in AttIds : _resolve_visible(a) /\ Enter(u, [op |-> "delete", id |-> a])
    BY <1>2 DEF BeginDeleteAttachment
  <2> DEFINE r == [op |-> "delete", id |-> a]
  <2>2. /\ attReq' = [attReq EXCEPT ![u] = r] /\ r.op = "delete"
        /\ UNCHANGED <<attRows, attFiles, attUsed, attDocs, lost>>
    BY <2>1 DEF Enter
  <2>3. AttKeeps /\ HeldOK' /\ RowsOK' /\ DocsOK'
    BY <2>2, NothingWritten
  <2>4. attReq'[u] = r
    BY <2>2 DEF AttachmentsInv
  <2>5. Settled(a)'
    BY <2>1, <2>3 DEF _resolve_visible, AttVisible, AttachmentsInv, RowsOK, AttKeeps
  <2>6. RequestOK(u)'
    BY <2>4, <2>5 DEF RequestOK, UploadOK, DeleteOK, TextsOK, ListedOK, StagedOK
  <2>7. QED
    BY <2>2, <2>3, <2>6, RequestMoves
<1>3. CASE BeginCopyDocuments(u)
  <2>1. PICK S \in SUBSET {n \in DocIds : attDocs[n].live} :
          Enter(u, [op |-> "copy", texts |-> [n \in S |-> attDocs[n].links]])
    BY <1>3 DEF BeginCopyDocuments
  <2>2. PICK r : r = [op |-> "copy", texts |-> [n \in S |-> attDocs[n].links]]
    OBVIOUS
  <2>a. /\ attReq' = [attReq EXCEPT ![u] = r] /\ r.op = "copy"
        /\ UNCHANGED <<attRows, attFiles, attUsed, attDocs, lost>>
    BY <2>1, <2>2 DEF Enter
  <2>3. AttKeeps /\ HeldOK' /\ RowsOK' /\ DocsOK'
    BY <2>a, NothingWritten
  <2>4. attReq'[u] = r
    BY <2>a DEF AttachmentsInv
  <2>5. S \subseteq Made'
    BY <2>a DEF AttachmentsInv, DocsOK, DocOK, Made
  <2>6. \A n \in S : \A a \in attDocs[n].links : Settled(a)'
    BY <2>3 DEF AttachmentsInv, DocsOK, DocOK, AttKeeps
  <2>7. TextsOK(r)'
    BY <2>2, <2>5, <2>6 DEF TextsOK
  <2>8. RequestOK(u)'
    BY <2>a, <2>4, <2>7 DEF RequestOK, UploadOK, DeleteOK, ListedOK, StagedOK
  <2>9. QED
    BY <2>a, <2>3, <2>8, RequestMoves
<1>4. QED
  BY <1>1, <1>2, <1>3

\* A copy lists the rows of the documents it copies.
LEMMA ListStep ==
  ASSUME AttachmentsInv, NEW u \in Uploaders, ListSources(u) PROVE AttachmentsInv'
<1>0. PICK r : r = [op |-> "listed", texts |-> attReq[u].texts,
                    owner |-> [a \in list_for_nodes(DOMAIN attReq[u].texts) |-> attRows[a]]]
  OBVIOUS
<1>1. /\ attReq' = [attReq EXCEPT ![u] = r] /\ attReq[u].op = "copy"
      /\ r.op = "listed" /\ r.texts = attReq[u].texts
      /\ DOMAIN r.owner = list_for_nodes(DOMAIN r.texts)
      /\ \A a \in DOMAIN r.owner : r.owner[a] = attRows[a]
      /\ UNCHANGED <<attRows, attFiles, attUsed, attDocs, lost>>
  BY <1>0 DEF ListSources, AttachmentsInv
<1>2. AttKeeps /\ HeldOK' /\ RowsOK' /\ DocsOK'
  BY <1>1, NothingWritten
<1>3. attReq'[u] = r
  BY <1>1 DEF AttachmentsInv
<1>4. TextsOK(attReq[u])
  BY DEF AttachmentsInv, RequestOK
<1>5. TextsOK(r)'
  BY <1>1, <1>2, <1>4 DEF TextsOK, AttKeeps
<1>6. ListedOK(r)'
  <2>1. \A a \in DOMAIN r.owner : a \in AttIds /\ attRows[a] \in DOMAIN r.texts
    BY <1>1 DEF list_for_nodes
  <2>2. \A n \in DOMAIN r.texts : \A a \in r.texts[n] : a \in AttIds
    BY <1>1, <1>4, AttSets DEF AttachmentsInv, TextsOK, Settled, RowsOK, AttIds
  <2>3. \A n \in DOMAIN r.texts : \A a \in r.texts[n] :
          a \in DOMAIN r.owner \/ attRows[a] \notin DOMAIN r.texts
    BY <1>1, <2>2 DEF list_for_nodes
  <2>4. QED
    BY <1>1, <2>1, <2>3 DEF ListedOK
<1>7. RequestOK(u)'
  BY <1>1, <1>3, <1>5, <1>6 DEF RequestOK, UploadOK, DeleteOK, StagedOK
<1>8. QED
  BY <1>1, <1>2, <1>7, RequestMoves

\* A request that ends leaves what it held to nobody.
LEMMA FailStep ==
  ASSUME AttachmentsInv, NEW u \in Uploaders, Fail(u) PROVE AttachmentsInv'
<1> DEFINE r == [op |-> "rest"]
<1>1. /\ attReq' = [attReq EXCEPT ![u] = r] /\ r.op = "rest"
      /\ UNCHANGED <<attRows, attFiles, attUsed, attDocs, lost>>
  BY DEF Fail, Resting
<1>2. AttKeeps /\ HeldOK' /\ RowsOK' /\ DocsOK'
  BY <1>1, NothingWritten
<1>3. attReq'[u] = r
  BY <1>1 DEF AttachmentsInv
<1>4. RequestOK(u)'
  BY <1>1, <1>3 DEF RequestOK, UploadOK, DeleteOK, TextsOK, ListedOK, StagedOK
<1>5. QED
  BY <1>1, <1>2, <1>4, RequestMoves

\* Documents nobody writes keep their part when what is settled stays so.
LEMMA DocsKept ==
  ASSUME AttachmentsInv, AttKeeps, attDocs' = attDocs PROVE DocsOK'
<1>1. \A n \in DocIds : DocOK(n)'
  BY DocKept DEF AttachmentsInv, DocsOK
<1>2. QED
  BY <1>1 DEF AttachmentsInv, DocsOK, Made

\* The file of an upload is placed under an identifier nobody has had.
LEMMA PlaceStep ==
  ASSUME AttachmentsInv, NEW u \in Uploaders, PlaceUpload(u) PROVE AttachmentsInv'
<1>0. attUsed \in Nat /\ attUsed + 1 \in AttIds /\ AttIds = 1 .. MaxAttachments
  BY AttSets DEF AttachmentsInv, RowsOK, PlaceUpload, AttIds
<1>1. PICK r : r = [op |-> "uploaded", node |-> attReq[u].node, id |-> attUsed + 1]
  OBVIOUS
<1>2. /\ attReq[u].op = "upload" /\ attReq' = [attReq EXCEPT ![u] = r]
      /\ attUsed' = attUsed + 1 /\ attFiles' = attFiles \cup {attUsed + 1}
      /\ UNCHANGED <<attRows, attDocs, lost>>
  BY <1>1 DEF PlaceUpload, AttachmentsInv
<1>3. \A v \in Uploaders : attReq'[v] = IF v = u THEN r ELSE attReq[v]
  BY <1>2 DEF AttachmentsInv
<1>4. Held(u)' = {attUsed + 1} /\ \A v \in Uploaders : v # u => Held(v)' = Held(v)
  BY <1>0, <1>1, <1>3 DEF Held
<1>5. \A a : Settled(a) => Settled(a)'
  <2>1. \A v \in Uploaders : \A a \in Held(v)' : a \in Held(v) \/ ~(a \in 1 .. attUsed)
    BY <1>0, <1>4
  <2>2. QED
    BY <1>0, <1>2, <2>1, SettledStays
<1>6. AttKeeps
  BY <1>0, <1>2, <1>5 DEF AttKeeps, Made, Settled
<1>7. attUsed + 1 \notin 1 .. attUsed /\ attRows[attUsed + 1] = NoDocument
  BY <1>0 DEF AttachmentsInv, RowsOK, Settled
<1>8. HeldOK'
  <2>1. \A v \in Uploaders : v # u => attUsed + 1 \notin Held(v)
    BY <1>7 DEF AttachmentsInv, HeldOK
  <2>2. \A v \in Uploaders : \A a \in Held(v)' :
          a \in 1 .. attUsed' /\ attRows'[a] = NoDocument /\ a \in attFiles' \cup lost'
    BY <1>0, <1>2, <1>4, <1>7 DEF AttachmentsInv, HeldOK
  <2>3. \A v, w \in Uploaders : v # w => Held(v)' \cap Held(w)' = {}
    BY <1>4, <2>1 DEF AttachmentsInv, HeldOK
  <2>4. QED
    BY <2>2, <2>3 DEF HeldOK
<1>9. RowsOK'
  <2>1. attUsed' \in 0 .. MaxAttachments
    BY <1>0, <1>2
  <2>2. attFiles' \cup lost' \subseteq 1 .. attUsed'
    BY <1>0, <1>2 DEF AttachmentsInv, RowsOK
  <2>3. QED
    BY <1>2, <1>5, <2>1, <2>2 DEF AttachmentsInv, RowsOK
<1>10. DocsOK'
  BY <1>2, <1>6, DocsKept
<1>11. RequestOK(u)'
  <2>1. r.op = "uploaded" /\ r.node \in DocIds /\ r.id \in AttIds
    BY <1>0, <1>1, <1>2 DEF AttachmentsInv, RequestOK, UploadOK
  <2>2. QED
    BY <1>3, <2>1 DEF RequestOK, UploadOK, DeleteOK, TextsOK, ListedOK, StagedOK
<1>12. QED
  BY <1>2, <1>6, <1>8, <1>9, <1>10, <1>11, RequestMoves

\* The commit of an upload makes the held identifier a row.
LEMMA CommitUploadStep ==
  ASSUME AttachmentsInv, NEW u \in Uploaders, CommitUpload(u) PROVE AttachmentsInv'
<1>1. PICK a : a = attReq[u].id
  OBVIOUS
<1>2. /\ attReq[u].op = "uploaded" /\ attReq' = [attReq EXCEPT ![u] = Resting]
      /\ attRows' = [attRows EXCEPT ![a] = attReq[u].node]
      /\ UNCHANGED <<attFiles, attUsed, attDocs, lost>>
  BY <1>1 DEF CommitUpload
<1>3. a \in AttIds /\ attReq[u].node \in DocIds /\ a \in Held(u)
  BY <1>1, <1>2 DEF AttachmentsInv, RequestOK, UploadOK, Held
<1>4. \A v \in Uploaders : attReq'[v] = IF v = u THEN Resting ELSE attReq[v]
  BY <1>2 DEF AttachmentsInv
<1>5. Held(u)' = {} /\ \A v \in Uploaders : v # u => Held(v)' = Held(v)
  BY <1>4 DEF Held, Resting
<1>6. attUsed \in Nat /\ a \in 1 .. attUsed /\ a \in attFiles \cup lost
  BY <1>3, AttSets DEF AttachmentsInv, RowsOK, HeldOK
<1>7. \A b : Settled(b) => Settled(b)'
  BY <1>2, <1>5, <1>6, SettledStays
<1>8. \A b : b # a => attRows'[b] = attRows[b]
  BY <1>2, <1>3 DEF AttachmentsInv, RowsOK, AttachmentRows
<1>9. ~Settled(a) /\ Settled(a)'
  <2>1. ~Settled(a)
    BY <1>3 DEF Settled
  <2>2. \A v \in Uploaders : a \notin Held(v)'
    BY <1>3, <1>5 DEF AttachmentsInv, HeldOK
  <2>3. QED
    BY <1>2, <1>6, <2>1, <2>2 DEF Settled
<1>10. AttKeeps
  BY <1>2, <1>7, <1>8, <1>9 DEF AttKeeps, Made
<1>11. HeldOK'
  <2>1. \A v \in Uploaders : a \notin Held(v)'
    BY <1>9 DEF Settled
  <2>2. \A v \in Uploaders : Held(v)' \subseteq Held(v)
    BY <1>5
  <2>3. QED
    BY <1>2, <1>8, <2>1, <2>2 DEF AttachmentsInv, HeldOK
<1>12. RowsOK'
  <2>1. attRows' \in AttachmentRows
    BY <1>2, <1>3 DEF AttachmentsInv, RowsOK, AttachmentRows, DocIds
  <2>2. \A b \in AttIds : attRows'[b] # NoDocument => Settled(b)' /\ b \in attFiles' \cup lost'
    BY <1>2, <1>6, <1>7, <1>8, <1>9 DEF AttachmentsInv, RowsOK
  <2>3. QED
    BY <1>2, <2>1, <2>2 DEF AttachmentsInv, RowsOK
<1>13. DocsOK'
  BY <1>2, <1>10, DocsKept
<1>14. RequestOK(u)'
  BY <1>4 DEF RequestOK, UploadOK, DeleteOK, TextsOK, ListedOK, StagedOK, Resting
<1>15. QED
  BY <1>2, <1>10, <1>11, <1>12, <1>13, <1>14, RequestMoves

\* A deletion takes the row away, and after the commit the file.
LEMMA DeleteStep ==
  ASSUME AttachmentsInv, NEW u \in Uploaders, CommitDelete(u) \/ _unlink_quietly(u)
  PROVE  AttachmentsInv'
<1>1. PICK a : a = attReq[u].id
  OBVIOUS
<1>2. /\ attReq[u].op \in {"delete", "deleted"} /\ Settled(a) /\ a \in AttIds
      /\ attReq[u] \in [op : {"delete", "deleted"}, id : AttIds]
      /\ attReq[u].op = "deleted" => attRows[a] = NoDocument
  BY <1>1 DEF CommitDelete, _unlink_quietly, AttachmentsInv, RequestOK, DeleteOK
<1>3. PICK r : /\ attReq' = [attReq EXCEPT ![u] = r]
               /\ r \in {[op |-> "deleted", id |-> a], [op |-> "rest"]}
               /\ r.op = "deleted" => CommitDelete(u)
  <2>1. CASE CommitDelete(u)
    <3>1. attReq' = [attReq EXCEPT ![u] = [@ EXCEPT !.op = "deleted"]]
      BY <2>1 DEF CommitDelete
    <3>2. [attReq[u] EXCEPT !.op = "deleted"] = [op |-> "deleted", id |-> a]
      BY <1>1, <1>2
    <3>3. attReq' = [attReq EXCEPT ![u] = [op |-> "deleted", id |-> a]]
      BY <3>1, <3>2
    <3>4. QED
      BY <2>1, <3>3
  <2>2. CASE _unlink_quietly(u)
    <3>1. attReq' = [attReq EXCEPT ![u] = [op |-> "rest"]]
      BY <2>2 DEF _unlink_quietly, Resting
    <3>2. [op |-> "rest"].op # "deleted"
      OBVIOUS
    <3>3. QED
      BY <3>1, <3>2
  <2>3. QED
    BY <2>1, <2>2
<1>4. /\ UNCHANGED <<attUsed, attDocs, lost>>
      /\ \/ attRows' = [attRows EXCEPT ![a] = NoDocument] /\ attFiles' = attFiles
         \/ /\ attRows[a] = NoDocument /\ UNCHANGED attRows
            /\ attFiles' \in {attFiles, attFiles \ {a}}
            /\ ~CommitDelete(u)
  BY <1>1, <1>2 DEF CommitDelete, _unlink_quietly
<1>5. \A v \in Uploaders : attReq'[v] = IF v = u THEN r ELSE attReq[v]
  BY <1>3 DEF AttachmentsInv
<1>6. Held(u)' = {} /\ \A v \in Uploaders : v # u => Held(v)' = Held(v)
  BY <1>3, <1>5 DEF Held
<1>7. attUsed \in Nat
  BY AttSets DEF AttachmentsInv, RowsOK
<1>8. \A b : Settled(b) => Settled(b)'
  BY <1>4, <1>6, <1>7, SettledStays
<1>9. \A b \in AttIds : attRows'[b] = attRows[b] \/ (b = a /\ attRows'[b] = NoDocument)
  BY <1>4 DEF AttachmentsInv, RowsOK, AttachmentRows
<1>10. \A b : b # a => (b \in attFiles' <=> b \in attFiles)
  BY <1>4
<1>11. AttKeeps
  <2>1. \A b : Settled(b) => b \in AttIds
    BY <1>7, AttSets DEF Settled, AttachmentsInv, RowsOK, AttIds
  <2>2. QED
    BY <1>4, <1>8, <1>9, <2>1 DEF AttKeeps, Made
<1>12. HeldOK'
  <2>1. \A v \in Uploaders : Held(v)' \subseteq Held(v) /\ a \notin Held(v)
    BY <1>2, <1>6 DEF Settled
  <2>2. \A v \in Uploaders : \A b \in Held(v) : b \in AttIds
    BY DEF Held
  <2>3. \A v \in Uploaders : \A b \in Held(v)' :
          b \in 1 .. attUsed' /\ attRows'[b] = NoDocument /\ b \in attFiles' \cup lost'
    BY <1>4, <1>9, <1>10, <2>1, <2>2 DEF AttachmentsInv, HeldOK
  <2>4. QED
    BY <2>1, <2>3 DEF AttachmentsInv, HeldOK
<1>13. RowsOK'
  <2>1. attRows' \in AttachmentRows
    BY <1>2, <1>4, AttSets DEF AttachmentsInv, RowsOK, AttachmentRows, NoDocument
  <2>2. attFiles' \cup lost' \subseteq 1 .. attUsed'
    BY <1>4 DEF AttachmentsInv, RowsOK
  <2>3. ASSUME NEW b \in AttIds, attRows'[b] # NoDocument
        PROVE  Settled(b)' /\ b \in attFiles' \cup lost'
    <3>1. attRows[b] # NoDocument /\ b \in attFiles \cup lost /\ Settled(b)
      BY <1>9, <2>3 DEF AttachmentsInv, RowsOK
    <3>2. b # a \/ attFiles' = attFiles
      BY <1>4, <3>1
    <3>3. QED
      BY <1>4, <1>8, <1>10, <3>1, <3>2
  <2>4. QED
    BY <1>4, <2>1, <2>2, <2>3 DEF AttachmentsInv, RowsOK
<1>14. DocsOK'
  BY <1>4, <1>11, DocsKept
<1>15. RequestOK(u)'
  <2>1. CASE r = [op |-> "rest"]
    BY <1>5, <2>1 DEF RequestOK, UploadOK, DeleteOK, TextsOK, ListedOK, StagedOK
  <2>2. CASE r = [op |-> "deleted", id |-> a]
    <3>1. attRows'[a] = NoDocument
      BY <1>2, <1>3, <1>4, <2>2 DEF AttachmentsInv, RowsOK, AttachmentRows
    <3>2. DeleteOK(r)'
      BY <1>2, <1>8, <2>2, <3>1 DEF DeleteOK
    <3>3. QED
      BY <1>5, <2>2, <3>2 DEF RequestOK, UploadOK, TextsOK, ListedOK, StagedOK
  <2>3. QED
    BY <1>3, <2>1, <2>2
<1>16. QED
  BY <1>3, <1>11, <1>12, <1>13, <1>14, <1>15, RequestMoves

\* A copy's rows get the next identifiers, and their files are placed.
LEMMA StageStep ==
  ASSUME AttachmentsInv, NEW u \in Uploaders, StageCopy(u) PROVE AttachmentsInv'
<1>0. /\ attUsed \in Nat /\ AttIds = 1 .. MaxAttachments /\ MaxAttachments \in Nat
      /\ attReq[u].op = "listed"
  BY AttSets DEF AttachmentsInv, RowsOK, StageCopy, AttIds
<1>1. PICK old : old = attReq[u]
  OBVIOUS
<1>2. PICK staged : staged = DOMAIN old.owner \cap attFiles
  OBVIOUS
<1>3. ListedOK(old) /\ TextsOK(old) /\ old.op = "listed"
  BY <1>0, <1>1 DEF AttachmentsInv, RequestOK
<1>4. staged \subseteq AttIds /\ staged \subseteq Nat /\ IsFiniteSet(staged)
  <2>1. staged \in SUBSET AttIds
    BY <1>2, <1>3 DEF ListedOK
  <2>2. QED
    BY <2>1, AttSets, FS_Subset
<1>5. PICK size : size = Cardinality(staged) /\ size \in Nat
  BY <1>4, FS_CardinalityType
<1>6. PICK map : map = [a \in staged |-> attUsed + Cardinality({b \in staged : b <= a})]
  OBVIOUS
<1>7. PICK owner : owner = [a \in staged |-> old.owner[a]]
  OBVIOUS
<1>8. PICK r : r = [op |-> "staged", texts |-> old.texts, map |-> map, owner |-> owner]
  OBVIOUS
<1>9. /\ attUsed + size <= MaxAttachments /\ attUsed' = attUsed + size
      /\ attFiles' = attFiles \cup {map[a] : a \in staged}
      /\ attReq' = [attReq EXCEPT ![u] = r]
      /\ UNCHANGED <<attRows, attDocs, lost>>
  BY <1>1, <1>2, <1>5, <1>6, <1>7, <1>8 DEF StageCopy
<1>10. \A a \in staged :
         map[a] \in AttIds /\ map[a] \in 1 .. attUsed' /\ map[a] \notin 1 .. attUsed
  <2> SUFFICES ASSUME NEW a \in staged
               PROVE  map[a] \in AttIds /\ map[a] \in 1 .. attUsed' /\ map[a] \notin 1 .. attUsed
    OBVIOUS
  <2>1. Cardinality({b \in staged : b <= a}) \in 1 .. size
    BY <1>4, <1>5, RankBounds
  <2>2. map[a] = attUsed + Cardinality({b \in staged : b <= a})
    BY <1>6
  <2>3. QED
    BY <1>0, <1>5, <1>9, <2>1, <2>2
<1>11. \A v \in Uploaders : attReq'[v] = IF v = u THEN r ELSE attReq[v]
  BY <1>9 DEF AttachmentsInv
<1>12. /\ Held(u)' = {map[a] : a \in staged}
       /\ \A v \in Uploaders : v # u => Held(v)' = Held(v)
  <2>1. Held(u)' = {c \in AttIds : \E b \in DOMAIN map : map[b] = c}
    BY <1>8, <1>11 DEF Held
  <2>2. DOMAIN map = staged
    BY <1>6
  <2>3. \A v \in Uploaders : v # u => Held(v)' = Held(v)
    BY <1>11 DEF Held
  <2>4. QED
    BY <1>10, <2>1, <2>2, <2>3
<1>13. \A a : Settled(a) => Settled(a)'
  <2>1. \A v \in Uploaders : \A a \in Held(v)' : a \in Held(v) \/ ~(a \in 1 .. attUsed)
    BY <1>10, <1>12
  <2>2. attUsed' \in Nat /\ attUsed <= attUsed'
    BY <1>0, <1>5, <1>9
  <2>3. QED
    BY <1>0, <2>1, <2>2, SettledStays
<1>14. \A a : a \in 1 .. attUsed => (a \in attFiles' <=> a \in attFiles)
  BY <1>9, <1>10
<1>15. AttKeeps
  BY <1>9, <1>13, <1>14 DEF AttKeeps, Made, Settled
<1>16. HeldOK'
  <2>1. \A a \in staged : attRows'[map[a]] = NoDocument
    BY <1>9, <1>10 DEF AttachmentsInv, RowsOK, Settled
  <2>2. \A v \in Uploaders : \A a \in Held(v) : a \in 1 .. attUsed'
    BY <1>0, <1>5, <1>9 DEF AttachmentsInv, HeldOK
  <2>3. \A v \in Uploaders : \A a \in Held(v)' :
          a \in 1 .. attUsed' /\ attRows'[a] = NoDocument /\ a \in attFiles' \cup lost'
    BY <1>9, <1>10, <1>12, <2>1, <2>2 DEF AttachmentsInv, HeldOK
  <2>4. \A v \in Uploaders : \A a \in Held(v) : a \in 1 .. attUsed
    BY DEF AttachmentsInv, HeldOK
  <2>5. \A v, w \in Uploaders : v # w => Held(v)' \cap Held(w)' = {}
    BY <1>10, <1>12, <2>4 DEF AttachmentsInv, HeldOK
  <2>6. QED
    BY <2>3, <2>5 DEF HeldOK
<1>17. RowsOK'
  <2>1. attUsed' \in 0 .. MaxAttachments /\ 1 .. attUsed \subseteq 1 .. attUsed'
    BY <1>0, <1>5, <1>9
  <2>2. attFiles' \cup lost' \subseteq 1 .. attUsed'
    BY <1>9, <1>10, <2>1 DEF AttachmentsInv, RowsOK
  <2>3. QED
    BY <1>9, <1>13, <2>1, <2>2 DEF AttachmentsInv, RowsOK
<1>18. DocsOK'
  BY <1>9, <1>15, DocsKept
<1>19. RequestOK(u)'
  <2>1. r.op = "staged" /\ r.texts = old.texts /\ r.map = map /\ r.owner = owner
    BY <1>8
  <2>2. TextsOK(r)'
    BY <1>3, <1>15, <2>1 DEF TextsOK, AttKeeps
  <2>3. ListedOK(r)'
    BY <1>2, <1>3, <1>4, <1>7, <2>1 DEF ListedOK
  <2>4. StagedOK(r)'
    <3>1. DOMAIN map = staged /\ DOMAIN owner = staged
      BY <1>6, <1>7
    <3>2. \A n \in DOMAIN old.texts : \A a \in old.texts[n] :
            a \in staged \/ attRows'[a] \notin DOMAIN old.texts \/ a \notin attFiles'
      <4> SUFFICES ASSUME NEW n \in DOMAIN old.texts, NEW a \in old.texts[n],
                          a \notin staged, attRows[a] \in DOMAIN old.texts
                   PROVE  a \notin attFiles'
        BY <1>9
      <4>1. a \in DOMAIN old.owner
        BY <1>3 DEF ListedOK
      <4>2. a \notin attFiles /\ a \in 1 .. attUsed
        BY <1>2, <1>3, <4>1 DEF TextsOK, Settled
      <4>3. QED
        BY <1>14, <4>2
    <3>3. QED
      BY <1>10, <2>1, <3>1, <3>2 DEF StagedOK
  <2>5. QED
    BY <1>11, <2>1, <2>2, <2>3, <2>4 DEF RequestOK, UploadOK, DeleteOK
<1>20. QED
  BY <1>9, <1>15, <1>16, <1>17, <1>18, <1>19, RequestMoves

\* A copy's documents get the next identifiers, its rows become theirs, and its
\* texts show the copied images.
LEMMA CommitCopyStep ==
  ASSUME AttachmentsInv, NEW u \in Uploaders, CommitCopy(u) PROVE AttachmentsInv'
<1>1. PICK r : r = attReq[u]
  OBVIOUS
<1>2. PICK old : old = DOMAIN r.texts
  OBVIOUS
<1>3. PICK top : top = Cardinality(Made)
  OBVIOUS
<1> DEFINE new(n) == top + Cardinality({m \in old : m <= n})
           N == {new(n) : n \in old}
           made(k) == \E n \in old : new(n) = k
           copyOf(k) == CHOOSE n \in old : new(n) = k
           shown(n) == {IF a \in DOMAIN r.map THEN r.map[a] ELSE a : a \in r.texts[n]}
           fresh(a) == \E b \in DOMAIN r.map : r.map[b] = a
           origin(a) == CHOOSE b \in DOMAIN r.map : r.map[b] = a
<1>4. /\ r.op = "staged" /\ top + Cardinality(old) <= MaxDocuments
      /\ attDocs' = [k \in DocIds |->
           IF made(k)
           THEN [made |-> TRUE, live |-> TRUE, links |-> shown(copyOf(k)),
                 copied |-> shown(copyOf(k)), sources |-> old]
           ELSE attDocs[k]]
      /\ attRows' = [a \in AttIds |-> IF fresh(a) THEN new(r.owner[origin(a)]) ELSE attRows[a]]
      /\ attReq' = [attReq EXCEPT ![u] = Resting]
      /\ UNCHANGED <<attFiles, attUsed, lost>>
  BY <1>1, <1>2, <1>3 DEF CommitCopy, Made, _rewrite_attachment_links
<1> HIDE DEF made, copyOf, shown, fresh, origin
<1>5. TextsOK(r) /\ ListedOK(r) /\ StagedOK(r)
  BY <1>1 DEF AttachmentsInv, RequestOK
<1>6. /\ Made \subseteq DocIds /\ IsFiniteSet(Made) /\ top \in Nat
      /\ old \subseteq Made /\ IsFiniteSet(old) /\ old \subseteq Nat
      /\ Cardinality(old) \in Nat
  <2>1. Made \in SUBSET DocIds
    BY DEF Made
  <2>2. IsFiniteSet(Made)
    BY <2>1, AttSets, FS_Subset
  <2>3. old \in SUBSET Made
    BY <1>2, <1>4, <1>5 DEF TextsOK
  <2>4. IsFiniteSet(old)
    BY <2>2, <2>3, FS_Subset
  <2>5. top \in Nat /\ Cardinality(old) \in Nat
    BY <1>3, <2>2, <2>4, FS_CardinalityType
  <2>6. QED
    BY <2>1, <2>2, <2>3, <2>4, <2>5, AttSets
<1>7. \A n \in old : new(n) \in top + 1 .. top + Cardinality(old) /\ new(n) \in DocIds
  <2> SUFFICES ASSUME NEW n \in old
               PROVE  new(n) \in top + 1 .. top + Cardinality(old) /\ new(n) \in DocIds
    OBVIOUS
  <2>1. Cardinality({m \in old : m <= n}) \in 1 .. Cardinality(old)
    BY <1>6, RankBounds
  <2>2. QED
    BY <1>4, <1>6, <2>1, AttSets DEF DocIds
<1>8. N \subseteq DocIds /\ N \cap Made = {}
  <2>1. \A n \in Made : n <= top
    BY <1>3 DEF AttachmentsInv, DocsOK
  <2>2. \A n \in old : new(n) > top
    BY <1>6, <1>7
  <2>3. ASSUME NEW n \in old, new(n) \in Made PROVE FALSE
    <3>1. new(n) <= top /\ new(n) > top /\ new(n) \in Nat
      BY <1>7, <2>1, <2>2, <2>3, AttSets
    <3>2. QED
      BY <1>6, <3>1
  <2>4. QED
    BY <1>7, <2>3
<1>9. Made' = Made \cup N
  <2>1. \A k \in DocIds : made(k) <=> k \in N
    BY DEF made
  <2>2. \A k \in DocIds : attDocs'[k].made <=> (k \in N \/ attDocs[k].made)
    BY <1>4, <2>1
  <2>3. QED
    BY <1>8, <2>2 DEF Made
<1>10. Cardinality(Made') = top + Cardinality(old)
  <2>1. IsFiniteSet(N) /\ Cardinality(N) = Cardinality(old)
    BY <1>6, RankImage
  <2>2. Cardinality(Made \cup N) = Cardinality(Made) + Cardinality(N) - Cardinality(Made \cap N)
    BY <1>6, <2>1, FS_Union
  <2>3. Cardinality(Made \cap N) = 0
    BY <1>8, FS_EmptySet
  <2>4. QED
    BY <1>3, <1>6, <1>9, <2>1, <2>2, <2>3
<1>11. \A v \in Uploaders : attReq'[v] = IF v = u THEN Resting ELSE attReq[v]
  BY <1>4 DEF AttachmentsInv
<1>12. /\ Held(u)' = {} /\ \A v \in Uploaders : v # u => Held(v)' = Held(v)
       /\ \A a \in AttIds : fresh(a) <=> a \in Held(u)
  BY <1>1, <1>4, <1>11 DEF Held, Resting, fresh
<1>13. attUsed \in Nat /\ 1 .. attUsed \subseteq AttIds
  BY AttSets DEF AttachmentsInv, RowsOK, AttIds
<1>14. \A a : Settled(a) => Settled(a)'
  BY <1>4, <1>12, <1>13, SettledStays
<1>15. \A a \in AttIds : a \notin Held(u) => attRows'[a] = attRows[a]
  BY <1>4, <1>12
<1>16. \A a \in Held(u) :
         /\ Settled(a)' /\ a \in attFiles' \cup lost'
         /\ attRows'[a] \in N
  <2> SUFFICES ASSUME NEW a \in Held(u)
               PROVE  Settled(a)' /\ a \in attFiles' \cup lost' /\ attRows'[a] \in N
    OBVIOUS
  <2>1. a \in AttIds /\ a \in 1 .. attUsed /\ a \in attFiles \cup lost
    BY DEF Held, AttachmentsInv, HeldOK
  <2>2. \A v \in Uploaders : a \notin Held(v)'
    BY <1>12 DEF AttachmentsInv, HeldOK
  <2>3. fresh(a)
    BY <1>12, <2>1
  <2>4. origin(a) \in DOMAIN r.map
    BY <2>3 DEF fresh, origin
  <2>5. r.owner[origin(a)] \in old
    BY <1>2, <1>4, <1>5, <2>4 DEF ListedOK, StagedOK
  <2>6. QED
    BY <1>4, <2>1, <2>2, <2>3, <2>5 DEF Settled
<1>17. AttKeeps
  <2>1. \A a : Settled(a) => a \in AttIds /\ a \notin Held(u)
    BY <1>13 DEF Settled
  <2>2. QED
    BY <1>4, <1>9, <1>14, <1>15, <2>1 DEF AttKeeps
<1>18. HeldOK'
  <2>1. \A v \in Uploaders : \A a \in Held(v)' : v # u /\ a \in Held(v) /\ a \in AttIds /\ a \notin Held(u)
    BY <1>12 DEF AttachmentsInv, HeldOK, Held
  <2>2. QED
    BY <1>4, <1>12, <1>15, <2>1 DEF AttachmentsInv, HeldOK
<1>19. RowsOK'
  <2>1. attRows' \in AttachmentRows
    <3>1. \A a \in AttIds : attRows'[a] \in 0 .. MaxDocuments
      <4> SUFFICES ASSUME NEW a \in AttIds PROVE attRows'[a] \in 0 .. MaxDocuments
        OBVIOUS
      <4>1. CASE a \in Held(u)
        <5>1. attRows'[a] \in DocIds
          BY <1>8, <1>16, <4>1
        <5>2. QED
          BY <5>1, AttSets DEF DocIds
      <4>2. CASE a \notin Held(u)
        BY <1>15, <4>2 DEF AttachmentsInv, RowsOK, AttachmentRows
      <4>3. QED
        BY <4>1, <4>2
    <3>2. attRows' = [a \in AttIds |-> attRows'[a]]
      BY <1>4
    <3>3. QED
      BY <3>1, <3>2 DEF AttachmentRows
  <2>2. \A a \in AttIds : attRows'[a] # NoDocument => Settled(a)' /\ a \in attFiles' \cup lost'
    BY <1>4, <1>14, <1>15, <1>16 DEF AttachmentsInv, RowsOK
  <2>3. QED
    BY <1>4, <2>1, <2>2 DEF AttachmentsInv, RowsOK
<1>20. ASSUME NEW n \in old, NEW b \in shown(n)
       PROVE  Settled(b)' /\ (attRows'[b] \in old => b \notin attFiles')
  <2>1. PICK a \in r.texts[n] : b = IF a \in DOMAIN r.map THEN r.map[a] ELSE a
    BY <1>20 DEF shown
  <2>2. CASE a \in DOMAIN r.map
    <3>1. b \in Held(u)
      BY <1>1, <1>4, <1>5, <2>1, <2>2 DEF StagedOK, Held
    <3>2. QED
      BY <1>6, <1>8, <1>16, <3>1
  <2>3. CASE a \notin DOMAIN r.map
    <3>1. b = a /\ Settled(b)
      BY <1>2, <1>4, <1>5, <2>1, <2>3 DEF TextsOK
    <3>2. attRows'[b] = attRows[b]
      BY <1>13, <1>15, <3>1 DEF Settled
    <3>3. attRows[b] \notin old \/ b \notin attFiles
      BY <1>2, <1>4, <1>5, <2>3, <3>1 DEF StagedOK
    <3>4. QED
      BY <1>4, <1>14, <3>1, <3>2, <3>3
  <2>4. QED
    BY <2>2, <2>3
<1>21. ASSUME NEW k \in DocIds PROVE DocOK(k)' /\ attDocs'[k] \in Document
  <2>1. CASE made(k)
    <3>1. copyOf(k) \in old
      BY <2>1 DEF made, copyOf
    <3>2. attDocs'[k] = [made |-> TRUE, live |-> TRUE, links |-> shown(copyOf(k)),
                         copied |-> shown(copyOf(k)), sources |-> old]
      BY <1>4, <2>1
    <3>3. \A b \in shown(copyOf(k)) : Settled(b)' /\ (attRows'[b] \in old => b \notin attFiles')
      BY <1>20, <3>1
    <3>4. shown(copyOf(k)) \subseteq AttIds
      BY <1>4, <1>13, <3>3 DEF Settled
    <3>5. attDocs'[k] \in Document
      BY <1>6, <3>2, <3>4 DEF Document
    <3>6. DocOK(k)'
      BY <3>2, <3>3 DEF DocOK
    <3>7. QED
      BY <3>5, <3>6
  <2>2. CASE ~made(k)
    <3>1. attDocs'[k] = attDocs[k]
      BY <1>4, <2>2
    <3>2. QED
      BY <1>17, <3>1, DocKept DEF AttachmentsInv, DocsOK
  <2>3. QED
    BY <2>1, <2>2
<1>22. DocsOK'
  <2>1. attDocs' \in [DocIds -> Document]
    BY <1>4, <1>21
  <2>2. \A n \in Made' : n <= Cardinality(Made')
    <3>1. \A n \in Made : n \in Nat /\ n <= top
      BY <1>3, <1>6, AttSets DEF AttachmentsInv, DocsOK
    <3>2. \A n \in Made : n <= top + Cardinality(old)
      BY <1>6, <3>1
    <3>3. \A n \in old : new(n) <= top + Cardinality(old)
      BY <1>6, <1>7
    <3>4. QED
      BY <1>9, <1>10, <3>2, <3>3
  <2>3. QED
    BY <1>21, <2>1, <2>2 DEF DocsOK
<1>23. RequestOK(u)'
  BY <1>11 DEF RequestOK, UploadOK, DeleteOK, TextsOK, ListedOK, StagedOK, Resting
<1>24. QED
  BY <1>4, <1>17, <1>18, <1>19, <1>22, <1>23, RequestMoves

\* An edit of a text links what is stored, a deletion of a document only hides
\* it, and a file lost from the volume is known to be lost.
LEMMA DocumentStep ==
  ASSUME AttachmentsInv,
         \/ \E n \in DocIds : DeleteDocument(n) \/ \E a \in AttIds : EditLinks(n, a)
         \/ \E a \in AttIds : LoseFile(a)
  PROVE  AttachmentsInv'
<1>0. attReq' = attReq /\ attUsed' = attUsed /\ attRows' = attRows
  BY DEF DeleteDocument, EditLinks, LoseFile
<1>1. /\ attFiles' \subseteq attFiles /\ attFiles' \cup lost' = attFiles \cup lost
  BY DEF DeleteDocument, EditLinks, LoseFile
<1>2. /\ \A u \in Uploaders : Held(u)' = Held(u)
      /\ \A a : Settled(a)' <=> Settled(a)
  BY <1>0 DEF Held, Settled
<1>3. HeldOK' /\ RowsOK'
  BY <1>0, <1>1, <1>2 DEF AttachmentsInv, HeldOK, RowsOK
<1>4. /\ attDocs' \in [DocIds -> Document]
      /\ \A n \in DocIds : attDocs'[n].made = attDocs[n].made
      /\ \A n \in DocIds : attDocs'[n].live => attDocs[n].live
      /\ \A n \in DocIds : attDocs'[n].sources = attDocs[n].sources
      /\ \A n \in DocIds : attDocs'[n].copied \subseteq attDocs[n].copied
      /\ \A n \in DocIds : \A a \in attDocs'[n].links : a \in attDocs[n].links \/ Settled(a)
  <2>0. attDocs \in [DocIds -> Document]
    BY DEF AttachmentsInv, DocsOK
  <2>1. CASE attDocs' = attDocs
    BY <2>0, <2>1
  <2>2. ASSUME NEW n \in DocIds, NEW d \in Document, attDocs' = [attDocs EXCEPT ![n] = d],
               d.made = attDocs[n].made, d.live => attDocs[n].live,
               d.sources = attDocs[n].sources, d.copied \subseteq attDocs[n].copied,
               \A a \in d.links : a \in attDocs[n].links \/ Settled(a)
        PROVE  /\ attDocs' \in [DocIds -> Document]
               /\ \A k \in DocIds : attDocs'[k] = IF k = n THEN d ELSE attDocs[k]
    BY <2>0, <2>2
  <2>3. CASE \E n \in DocIds : \E a \in AttIds : EditLinks(n, a)
    <3>1. PICK n \in DocIds, a \in AttIds : EditLinks(n, a)
      BY <2>3
    <3>2. PICK links : links = IF a \in attDocs[n].links THEN attDocs[n].links \ {a}
                               ELSE attDocs[n].links \cup {a}
      OBVIOUS
    <3>3. PICK e : e = [attDocs[n] EXCEPT !.links = links]
      OBVIOUS
    <3>4. PICK d : d = [e EXCEPT !.copied = attDocs[n].copied \ {a}]
      OBVIOUS
    <3>a. attDocs' = [attDocs EXCEPT ![n] = d]
      BY <2>0, <3>1, <3>2, <3>3, <3>4 DEF EditLinks, Document
    <3>b. attDocs[n] \in Document /\ links \in SUBSET AttIds
      BY <2>0, <3>2 DEF Document
    <3>c. /\ e \in Document /\ e.made = attDocs[n].made /\ e.live = attDocs[n].live
          /\ e.links = links /\ e.copied = attDocs[n].copied /\ e.sources = attDocs[n].sources
      BY <3>3, <3>b DEF Document
    <3>5. Settled(a)
      BY <3>1 DEF EditLinks, _resolve_visible, AttVisible, AttachmentsInv, RowsOK
    <3>6. /\ d \in Document /\ d.made = attDocs[n].made /\ d.live = attDocs[n].live
          /\ d.links = links /\ d.copied = attDocs[n].copied \ {a}
          /\ d.sources = attDocs[n].sources
      BY <3>4, <3>c DEF Document
    <3>7. \A b \in d.links : b \in attDocs[n].links \/ Settled(b)
      BY <3>2, <3>5, <3>6
    <3>8. QED
      BY <2>0, <2>2, <3>a, <3>6, <3>7
  <2>4. CASE \E n \in DocIds : DeleteDocument(n)
    <3>1. PICK n \in DocIds : attDocs' = [attDocs EXCEPT ![n] = [@ EXCEPT !.live = FALSE]]
      BY <2>4 DEF DeleteDocument
    <3>2. PICK d : d = [attDocs[n] EXCEPT !.live = FALSE]
      OBVIOUS
    <3>3. /\ d \in Document /\ d.made = attDocs[n].made /\ ~d.live /\ d.links = attDocs[n].links
          /\ d.sources = attDocs[n].sources /\ d.copied = attDocs[n].copied
      BY <2>0, <3>2 DEF Document
    <3>4. QED
      BY <2>0, <2>2, <3>1, <3>2, <3>3
  <2>5. QED
    BY <2>1, <2>3, <2>4 DEF LoseFile
<1>5. AttKeeps
  BY <1>0, <1>1, <1>2, <1>4 DEF AttKeeps, Made
<1>6. DocsOK'
  <2>1. Made' = Made
    BY <1>4 DEF Made
  <2>2. \A n \in DocIds : DocOK(n)'
    BY <1>0, <1>1, <1>2, <1>4 DEF AttachmentsInv, DocsOK, DocOK
  <2>3. QED
    BY <1>4, <2>1, <2>2 DEF AttachmentsInv, DocsOK
<1>7. \A u \in Uploaders : RequestOK(u)'
  BY <1>0, <1>5, RequestKept DEF AttachmentsInv
<1>8. QED
  BY <1>0, <1>3, <1>6, <1>7 DEF AttachmentsInv

\* Every step of a request, of an edit or of the volume keeps the invariant.
LEMMA AttachmentsStep == AttachmentsInv /\ [AttachmentsNext]_attachmentsVars => AttachmentsInv'
<1> SUFFICES ASSUME AttachmentsInv, [AttachmentsNext]_attachmentsVars PROVE AttachmentsInv'
  OBVIOUS
<1>1. ASSUME NEW u \in Uploaders,
             \/ BeginUpload(u) \/ PlaceUpload(u) \/ CommitUpload(u)
             \/ BeginDeleteAttachment(u) \/ CommitDelete(u) \/ _unlink_quietly(u)
             \/ BeginCopyDocuments(u) \/ ListSources(u) \/ StageCopy(u) \/ CommitCopy(u)
             \/ Fail(u)
      PROVE  AttachmentsInv'
  BY <1>1, BeginStep, PlaceStep, CommitUploadStep, DeleteStep, ListStep, StageStep,
     CommitCopyStep, FailStep
<1>2. CASE \/ \E n \in DocIds : DeleteDocument(n) \/ \E a \in AttIds : EditLinks(n, a)
           \/ \E a \in AttIds : LoseFile(a)
  BY <1>2, DocumentStep
<1>3. CASE UNCHANGED attachmentsVars
  BY <1>3 DEF attachmentsVars, AttachmentsInv, HeldOK, RowsOK, DocsOK, DocOK, RequestOK, UploadOK,
    DeleteOK, TextsOK, ListedOK, StagedOK, Held, Settled, Made
<1>4. QED
  BY <1>1, <1>2, <1>3 DEF AttachmentsNext

\* The service begins with no rows, no files and two documents without images.
LEMMA AttachmentsStart == AttachmentsInit => AttachmentsInv
<1> SUFFICES ASSUME AttachmentsInit PROVE AttachmentsInv
  OBVIOUS
<1> USE DEF AttachmentsInit
<1>1. \A u \in Uploaders : attReq[u].op = "rest" /\ Held(u) = {}
  BY DEF Resting, Held
<1>2. HeldOK /\ \A u \in Uploaders : RequestOK(u)
  BY <1>1 DEF HeldOK, RequestOK, UploadOK, DeleteOK, TextsOK, ListedOK, StagedOK
<1>3. RowsOK
  BY AttSets DEF RowsOK, AttachmentRows, NoDocument
<1>4. DocsOK
  <2>1. attDocs \in [DocIds -> Document] /\ Made = {1, 2}
    <3>1. attDocs \in [DocIds -> Document]
      BY DEF Document, NoDoc
    <3>2. \A n \in DocIds : attDocs[n].made <=> n <= 2
      BY DEF NoDoc
    <3>3. 1 \in DocIds /\ 2 \in DocIds /\ \A n \in DocIds : n <= 2 => n \in {1, 2}
      BY AttachmentsAssumption DEF DocIds
    <3>4. QED
      BY <3>1, <3>2, <3>3 DEF Made
  <2>2. IsFiniteSet({1}) /\ Cardinality({1}) = 1
    BY FS_Singleton
  <2>3. Cardinality({1} \cup {2}) = 2
    BY <2>2, FS_AddElement
  <2>4. Cardinality(Made) = 2
    <3>1. {1} \cup {2} = {1, 2}
      OBVIOUS
    <3>2. QED
      BY <2>1, <2>3, <3>1
  <2>5. \A n \in DocIds : DocOK(n)
    BY DEF DocOK, NoDoc
  <2>6. QED
    BY <2>1, <2>4, <2>5 DEF DocsOK
<1>5. QED
  BY <1>2, <1>3, <1>4 DEF AttachmentsInv

\* What the invariant says in the words of the service's properties.
LEMMA AttachmentsInvHolds == AttachmentsInv => DocumentAttachmentsHold
<1> SUFFICES ASSUME AttachmentsInv PROVE DocumentAttachmentsHold
  OBVIOUS
<1>1. AttachmentsTypeOK
  BY AttSets DEF AttachmentsInv, RowsOK, DocsOK, RequestOK, AttachmentsTypeOK, _file_path, AttIds
<1>2. StoredIsServed
  BY DEF AttachmentsInv, RowsOK, StoredIsServed, get_file, _resolve_visible, AttVisible
<1>3. CopyStandsAlone
  BY DEF AttachmentsInv, DocsOK, DocOK, CopyStandsAlone
<1>4. QED
  BY <1>1, <1>2, <1>3 DEF DocumentAttachmentsHold

\* Whatever requests do to the same image at once and wherever they stop, a row
\* has its file, and a copied text shows no image of what it was copied from.
THEOREM AttachmentsCorrect == AttachmentsSpec => []DocumentAttachmentsHold
<1>1. QED
  BY AttachmentsStart, AttachmentsStep, AttachmentsInvHolds, PTL DEF AttachmentsSpec

\* The same of the composition, in the behaviours of this service.
THEOREM ConsoleAttachments == ConsoleSpec => []AttachmentsHold
<1>1. ConsoleInit => AttachmentsInv
  BY AttachmentsStart DEF ConsoleInit
<1>2. [ConsoleNext]_consoleVars => [AttachmentsNext]_attachmentsVars
  BY DEF ConsoleNext, consoleVars, attachmentsVars
<1>3. AttachmentsInv /\ [ConsoleNext]_consoleVars => AttachmentsInv'
  BY <1>2, AttachmentsStep
<1>4. AttachmentsInv => AttachmentsHold
  BY AttachmentsInvHolds DEF AttachmentsHold
<1>5. QED
  BY <1>1, <1>3, <1>4, PTL DEF ConsoleSpec

----------------------------------------------------------------------------
(***************************************************************************)
(* The registry of backends.                                               *)
(***************************************************************************)

\* A check under way asks the domain of its row, unless the row was resited.
CheckSlot == {Unchecked, [at |-> "start"]} \cup [at : {"check"}, domain : Hosts]
ChecksFollow ==
  /\ checks \in [Bids -> [CheckKinds -> CheckSlot]]
  /\ \A i \in Bids, s \in CheckKinds : checks[i][s].at = "check" =>
       i \in 1 .. born /\ (i \in DOMAIN backends \ resited =>
                             checks[i][s].domain = backends[i].settings.domain)

\* A reorder has placed the first rows of its list, each on its number.
PlacedOK(r) ==
  /\ \E n \in Nat : r.ids \in [1 .. n -> 1 .. born]
  /\ \A j, k \in DOMAIN r.ids : j # k => r.ids[j] # r.ids[k]
  /\ \E m \in Nat :
       /\ m <= Len(r.ids) /\ Cardinality(DOMAIN r.placed) = m
       /\ DOMAIN r.placed = {r.ids[k] : k \in 1 .. m}
       /\ \A k \in 1 .. m : r.placed[r.ids[k]] = k - 1
  /\ IsFiniteSet(DOMAIN r.placed)
BackendReqOK(r) ==
  /\ r.op \in {"none", "create", "update", "reorder"}
  /\ r.op = "create" => r.new \in Settings
  /\ r.op = "update" => r.new \in Settings /\ r.read \in Backend /\ r.id \in Bids
  /\ r.op = "reorder" => r \in [op : {"reorder"}, ids : {r.ids}, placed : {r.placed}] /\ PlacedOK(r)

RegistryInv ==
  /\ born \in 0 .. MaxBackends /\ BackendsTypeOK /\ ordered \subseteq 1 .. born
  /\ OrderIsTotal /\ VerdictIsOfDomain /\ ChecksFollow
BackendsInv ==
  /\ RegistryInv
  /\ backendReq = [c \in BackendClerks |-> backendReq[c]]
  /\ \A c \in BackendClerks : BackendReqOK(backendReq[c])

\* Rows are finitely many numbers.
LEMMA BackendNumbers ==
  /\ MaxBackends \in Nat /\ MaxBackends >= 2 /\ NoSite \notin Sites
  /\ FirstHost \in Hosts
  /\ BackendsTypeOK /\ born \in 0 .. MaxBackends =>
       IsFiniteSet(DOMAIN backends) /\ Cardinality(DOMAIN backends) \in Nat
<1>1. MaxBackends \in Nat /\ MaxBackends >= 2 /\ NoSite \notin Sites
  BY BackendsAssumption
<1>2. FirstHost \in Hosts
  BY BackendsAssumption DEF FirstHost
<1>3. ASSUME BackendsTypeOK, born \in 0 .. MaxBackends
      PROVE  IsFiniteSet(DOMAIN backends) /\ Cardinality(DOMAIN backends) \in Nat
  <2>1. IsFiniteSet(1 .. born) /\ DOMAIN backends \in SUBSET (1 .. born)
    BY <1>3, FS_Interval DEF BackendsTypeOK
  <2>2. QED
    BY <2>1, FS_Subset, FS_CardinalityType
<1>4. QED
  BY <1>1, <1>2, <1>3

\* A request keeps its part while rows are only added.
LEMMA BackendReqKept ==
  ASSUME born \in Nat, born' \in Nat, born <= born', NEW r, BackendReqOK(r)
  PROVE  BackendReqOK(r)'
<1>1. PlacedOK(r) => PlacedOK(r)'
  <2> SUFFICES ASSUME PlacedOK(r) PROVE PlacedOK(r)'
    OBVIOUS
  <2>1. PICK n \in Nat : r.ids \in [1 .. n -> 1 .. born]
    BY DEF PlacedOK
  <2>2. r.ids \in [1 .. n -> 1 .. born']
    BY <2>1
  <2>3. QED
    BY <2>1, <2>2 DEF PlacedOK
<1>2. QED
  BY <1>1 DEF BackendReqOK

\* A step that moves one request, or none, has to account for that request.
LEMMA BackendRequestMoves ==
  ASSUME BackendsInv, born' \in Nat, born <= born', NEW c \in BackendClerks, NEW r,
         backendReq' = [backendReq EXCEPT ![c] = r], BackendReqOK(r)'
  PROVE  /\ backendReq' = [d \in BackendClerks |-> backendReq'[d]]
         /\ \A d \in BackendClerks : BackendReqOK(backendReq[d])'
<1>1. \A d \in BackendClerks : backendReq'[d] = IF d = c THEN r ELSE backendReq[d]
  BY DEF BackendsInv
<1>2. \A d \in BackendClerks : BackendReqOK(backendReq[d])'
  <2> SUFFICES ASSUME NEW d \in BackendClerks PROVE BackendReqOK(backendReq[d])'
    OBVIOUS
  <2>1. CASE d = c
    <3>1. BackendReqOK(r)' /\ backendReq'[d] = r
      BY <1>1, <2>1
    <3>2. QED
      BY <3>1 DEF BackendReqOK, PlacedOK
  <2>2. CASE d # c
    <3>1. PICK q : q = backendReq[d]
      OBVIOUS
    <3>2. BackendReqOK(q)
      BY <3>1 DEF BackendsInv
    <3>3. BackendReqOK(q)' /\ backendReq'[d] = q
      BY <1>1, <2>2, <3>1, <3>2, BackendReqKept, BackendNumbers DEF BackendsInv, RegistryInv
    <3>4. QED
      BY <3>3 DEF BackendReqOK, PlacedOK
  <2>3. QED
    BY <2>1, <2>2
<1>3. QED
  BY <1>2 DEF BackendsInv

\* So do all requests in a step of anything else.
LEMMA BackendReqsStay ==
  ASSUME BackendsInv, UNCHANGED <<backendReq, born>>
  PROVE  \A c \in BackendClerks : BackendReqOK(backendReq[c])'
BY DEF BackendsInv, BackendReqOK, PlacedOK

\* A request begins with what it has read, and ends with nothing.
LEMMA BackendRequestBegins ==
  ASSUME BackendsInv, NEW c \in BackendClerks,
         \/ \E settings \in Settings :
              BeginCreateBackend(c, settings) \/ \E i \in Bids : BeginUpdateBackend(c, i, settings)
         \/ \E ids \in Orders : BeginReorderBackends(c, ids)
         \/ AbortBackendRequest(c)
  PROVE  BackendsInv'
<1>1. ASSUME NEW r, BackendReqOK(r), backendReq' = [backendReq EXCEPT ![c] = r],
             UNCHANGED <<backends, sites, checks, born, ordered, about, resited>>
      PROVE  BackendsInv'
  <2>1. born \in Nat
    BY BackendNumbers DEF BackendsInv, RegistryInv
  <2>2. BackendReqOK(r)'
    BY <1>1, <2>1, BackendReqKept
  <2>3. RegistryInv'
    BY <1>1 DEF BackendsInv, RegistryInv, BackendsTypeOK, OrderIsTotal, VerdictIsOfDomain, ChecksFollow
  <2>4. QED
    BY <1>1, <2>1, <2>2, <2>3, BackendRequestMoves DEF BackendsInv
<1>2. CASE \E settings \in Settings : BeginCreateBackend(c, settings)
  <2>1. PICK settings \in Settings : BeginCreateBackend(c, settings)
    BY <1>2
  <2>2. BackendReqOK([op |-> "create", new |-> settings])
    BY DEF BackendReqOK
  <2>3. QED
    BY <1>1, <2>1, <2>2 DEF BeginCreateBackend, BeginBackendRequest
<1>3. CASE \E settings \in Settings, i \in Bids : BeginUpdateBackend(c, i, settings)
  <2>1. PICK settings \in Settings, i \in Bids : BeginUpdateBackend(c, i, settings)
    BY <1>3
  <2>2. backends[i] \in Backend
    BY <2>1 DEF BackendsInv, RegistryInv, BackendsTypeOK, BeginUpdateBackend, IsBackend
  <2>3. BackendReqOK([op |-> "update", id |-> i, read |-> backends[i], new |-> settings])
    BY <2>2 DEF BackendReqOK
  <2>4. QED
    BY <1>1, <2>1, <2>3 DEF BeginUpdateBackend, BeginBackendRequest
<1>4. CASE \E ids \in Orders : BeginReorderBackends(c, ids)
  <2>1. PICK ids \in Orders : BeginReorderBackends(c, ids)
    BY <1>4
  <2>2. PICK n \in Nat : ids \in [1 .. n -> DOMAIN backends] /\ \A i, j \in 1 .. n : i # j => ids[i] # ids[j]
    BY <2>1, BackendNumbers DEF Orders, BackendsInv, RegistryInv
  <2>3. DOMAIN backends \subseteq 1 .. born
    BY DEF BackendsInv, RegistryInv, BackendsTypeOK
  <2>4. PICK r : r = [op |-> "reorder", ids |-> ids, placed |-> <<>>]
    OBVIOUS
  <2>5. r.op = "reorder" /\ r.ids = ids /\ r.placed = <<>>
    BY <2>4
  <2>6. DOMAIN r.placed = {} /\ IsFiniteSet({}) /\ Cardinality({}) = 0
    BY <2>5, FS_EmptySet
  <2>7. PlacedOK(r)
    <3>1. ids \in [1 .. n -> 1 .. born]
      BY <2>2, <2>3
    <3>2. Len(r.ids) = n
      BY <2>2, <2>5
    <3>3. /\ 0 <= Len(r.ids) /\ Cardinality(DOMAIN r.placed) = 0
          /\ DOMAIN r.placed = {r.ids[k] : k \in 1 .. 0}
          /\ \A k \in 1 .. 0 : r.placed[r.ids[k]] = k - 1
      BY <2>6, <3>2
    <3>4. \A j, k \in DOMAIN r.ids : j # k => r.ids[j] # r.ids[k]
      BY <2>2, <2>5
    <3>5. QED
      BY <2>5, <2>6, <3>1, <3>3, <3>4 DEF PlacedOK
  <2>8. BackendReqOK(r)
    BY <2>4, <2>5, <2>7 DEF BackendReqOK
  <2>9. QED
    BY <1>1, <2>1, <2>4, <2>8 DEF BeginReorderBackends, BeginBackendRequest
<1>5. CASE AbortBackendRequest(c)
  <2>1. BackendReqOK(Unasked)
    BY DEF BackendReqOK, Unasked
  <2>2. QED
    BY <1>1, <1>5, <2>1 DEF AbortBackendRequest, EndBackendRequest
<1>6. QED
  BY <1>2, <1>3, <1>4, <1>5

\* An insert and the checks it schedules: the new row is nobody's yet.
LEMMA CreateStep ==
  ASSUME BackendsInv, NEW c \in BackendClerks, FinishCreateBackend(c)
  PROVE  BackendsInv'
<1>1. /\ backendReq[c].op = "create" /\ born < MaxBackends /\ born' = born + 1
      /\ backends' = [i \in DOMAIN backends \cup {born'} |->
           IF i = born' THEN [settings |-> backendReq[c].new, position |-> 0, status |-> "pending"]
           ELSE backends[i]]
      /\ checks' = [checks EXCEPT ![born'].task = [at |-> "start"]]
      /\ backendReq' = [backendReq EXCEPT ![c] = Unasked]
      /\ UNCHANGED <<sites, ordered, about, resited>>
  BY DEF FinishCreateBackend, EndBackendRequest, _schedule_check
<1>2. /\ born \in Nat /\ born' \in Nat /\ born' \in 0 .. MaxBackends /\ born' \in Bids
      /\ born' \notin 1 .. born /\ 1 .. born \subseteq 1 .. born'
  BY <1>1, BackendNumbers DEF BackendsInv, RegistryInv, Bids
<1>3. DOMAIN backends \subseteq 1 .. born
  BY DEF BackendsInv, RegistryInv, BackendsTypeOK
<1>4. \A i \in DOMAIN backends : i # born' /\ backends'[i] = backends[i]
  BY <1>1, <1>2, <1>3
<1>5. DOMAIN backends' = DOMAIN backends \cup {born'}
  BY <1>1
<1>6. /\ backends'[born'] = [settings |-> backendReq[c].new, position |-> 0, status |-> "pending"]
      /\ backends'[born'] \in Backend /\ backends'[born'].status = "pending"
  BY <1>1 DEF BackendsInv, BackendReqOK, Backend
<1>7. BackendsTypeOK'
  BY <1>1, <1>2, <1>3, <1>4, <1>5, <1>6 DEF BackendsInv, RegistryInv, BackendsTypeOK
<1>8. OrderIsTotal'
  <2>1. ordered' \cap DOMAIN backends' \subseteq ordered \cap DOMAIN backends
    BY <1>1, <1>2, <1>5 DEF BackendsInv, RegistryInv
  <2>2. QED
    BY <1>4, <2>1 DEF BackendsInv, RegistryInv, OrderIsTotal
<1>9. VerdictIsOfDomain'
  BY <1>1, <1>4, <1>5, <1>6 DEF BackendsInv, RegistryInv, VerdictIsOfDomain
<1>10. ChecksFollow'
  <2>1. checks \in [Bids -> [CheckKinds -> CheckSlot]]
    BY DEF BackendsInv, RegistryInv, ChecksFollow
  <2>2. checks' \in [Bids -> [CheckKinds -> CheckSlot]]
    BY <1>1, <1>2, <2>1 DEF CheckSlot, CheckKinds
  <2>3. \A i \in Bids, s \in CheckKinds : checks'[i][s].at = "check" => checks'[i][s] = checks[i][s]
    BY <1>1, <1>2, <2>1 DEF CheckKinds
  <2>4. ASSUME NEW i \in Bids, NEW s \in CheckKinds, checks'[i][s].at = "check"
        PROVE  /\ i \in 1 .. born'
               /\ i \in DOMAIN backends' \ resited' => checks'[i][s].domain = backends'[i].settings.domain
    <3>1. checks'[i][s] = checks[i][s] /\ checks[i][s].at = "check"
      BY <2>3, <2>4
    <3>2. i \in 1 .. born /\ (i \in DOMAIN backends \ resited =>
                               checks[i][s].domain = backends[i].settings.domain)
      BY <3>1 DEF BackendsInv, RegistryInv, ChecksFollow
    <3>3. i # born'
      BY <1>2, <3>2
    <3>4. QED
      BY <1>1, <1>2, <1>4, <1>5, <3>1, <3>2, <3>3
  <2>5. QED
    BY <2>2, <2>4 DEF ChecksFollow
<1>11. BackendReqOK(Unasked)'
  BY DEF BackendReqOK, Unasked
<1>12. QED
  BY <1>1, <1>2, <1>7, <1>8, <1>9, <1>10, <1>11, BackendRequestMoves DEF BackendsInv, RegistryInv

\* An edit writes the columns it changes: a domain changed under a check marks
\* the row as resited, and changed otherwise leaves it to be checked again.
LEMMA EditStep ==
  ASSUME BackendsInv, NEW c \in BackendClerks, FinishUpdateBackend(c)
  PROVE  BackendsInv'
<1>0. PICK r : r = backendReq[c]
  OBVIOUS
<1>1. PICK i : i = r.id
  OBVIOUS
<1>2. PICK row : row = Rewritten(backends[i], r.read, r.new)
  OBVIOUS
<1>3. /\ r.op = "update" /\ i \in DOMAIN backends
      /\ backends' = [backends EXCEPT ![i] = row]
      /\ IF r.new.domain # r.read.settings.domain THEN checks' = [checks EXCEPT ![i].task = [at |-> "start"]]
         ELSE checks' = checks
      /\ resited' = IF /\ row.settings.domain # backends[i].settings.domain
                       /\ \/ \E s \in CheckKinds : checks[i][s].at = "check"
                          \/ backends[i].status # r.read.status
                    THEN resited \cup {i} ELSE resited
      /\ backendReq' = [backendReq EXCEPT ![c] = Unasked]
      /\ UNCHANGED <<sites, born, ordered, about>>
  BY <1>0, <1>1, <1>2 DEF FinishUpdateBackend, EndBackendRequest, _schedule_check, IsBackend
<1>4. /\ r.new \in Settings /\ r.read \in Backend /\ i \in Bids
  BY <1>0, <1>1, <1>3 DEF BackendsInv, BackendReqOK
<1>5. backends[i] \in Backend
  BY <1>3 DEF BackendsInv, RegistryInv, BackendsTypeOK
<1>6. /\ row.position = backends[i].position
      /\ row.settings.domain = IF r.new.domain = r.read.settings.domain
                               THEN backends[i].settings.domain ELSE r.new.domain
      /\ row.status = IF r.new.domain # r.read.settings.domain /\ r.read.status # "pending"
                      THEN "pending" ELSE backends[i].status
      /\ row \in Backend
  <2>1. PICK st : st = [f \in {"code", "domain", "site"} |->
             IF r.new[f] = r.read.settings[f] THEN backends[i].settings[f] ELSE r.new[f]]
    OBVIOUS
  <2>2. st = [code |-> st.code, domain |-> st.domain, site |-> st.site]
    BY <2>1
  <2>3. /\ st.code \in Codes /\ st.domain \in Hosts /\ st.site \in {NoSite} \cup Sites
        /\ st.domain = IF r.new.domain = r.read.settings.domain
                       THEN backends[i].settings.domain ELSE r.new.domain
    BY <1>4, <1>5, <2>1 DEF Backend, Settings
  <2>4. st \in Settings
    BY <2>2, <2>3 DEF Settings
  <2>5. row = [settings |-> st, position |-> backends[i].position,
               status |-> IF r.new.domain # r.read.settings.domain /\ r.read.status # "pending"
                          THEN "pending" ELSE backends[i].status]
    BY <1>2, <2>1 DEF Rewritten
  <2>6. QED
    BY <1>5, <2>3, <2>4, <2>5 DEF Backend
<1>7. DOMAIN backends' = DOMAIN backends /\ \A j \in DOMAIN backends : backends'[j] = IF j = i THEN row ELSE backends[j]
  BY <1>3
<1>8. BackendsTypeOK'
  BY <1>3, <1>4, <1>6, <1>7 DEF BackendsInv, RegistryInv, BackendsTypeOK
<1>9. OrderIsTotal'
  <2>1. \A j \in DOMAIN backends : backends'[j].position = backends[j].position
    BY <1>6, <1>7
  <2>2. QED
    BY <1>3, <1>7, <2>1 DEF BackendsInv, RegistryInv, OrderIsTotal
<1>10. ASSUME row.settings.domain # backends[i].settings.domain, i \notin resited'
       PROVE  row.status = "pending" /\ \A s \in CheckKinds : checks[i][s].at # "check"
  BY <1>3, <1>6, <1>10
<1>11. VerdictIsOfDomain'
  <2>1. ASSUME NEW j \in DOMAIN backends, j \notin resited', backends'[j].status # "pending"
        PROVE  about'[j] = backends'[j].settings.domain
    <3>1. j \notin resited
      BY <1>3, <2>1
    <3>2. CASE j # i
      BY <1>3, <1>7, <2>1, <3>1, <3>2 DEF BackendsInv, RegistryInv, VerdictIsOfDomain
    <3>3. CASE j = i
      <4>1. row.settings.domain = backends[i].settings.domain
        BY <1>7, <1>10, <2>1, <3>3
      <4>2. row.status # "pending" /\ backends[i].status # "pending"
        BY <1>6, <1>7, <2>1, <3>3
      <4>3. QED
        BY <1>3, <1>7, <3>1, <3>3, <4>1, <4>2 DEF BackendsInv, RegistryInv, VerdictIsOfDomain
    <3>4. QED
      BY <3>2, <3>3
  <2>2. QED
    BY <1>7, <2>1 DEF VerdictIsOfDomain
<1>12. ChecksFollow'
  <2>1. checks \in [Bids -> [CheckKinds -> CheckSlot]]
    BY DEF BackendsInv, RegistryInv, ChecksFollow
  <2>2. checks' \in [Bids -> [CheckKinds -> CheckSlot]]
    BY <1>3, <1>4, <2>1 DEF CheckSlot, CheckKinds
  <2>3. \A j \in Bids, s \in CheckKinds : checks'[j][s].at = "check" => checks'[j][s] = checks[j][s]
    BY <1>3, <1>4, <2>1 DEF CheckKinds
  <2>4. ASSUME NEW j \in Bids, NEW s \in CheckKinds, checks'[j][s].at = "check"
        PROVE  /\ j \in 1 .. born'
               /\ j \in DOMAIN backends' \ resited' => checks'[j][s].domain = backends'[j].settings.domain
    <3>1. checks'[j][s] = checks[j][s] /\ checks[j][s].at = "check"
      BY <2>3, <2>4
    <3>2. j \in 1 .. born /\ (j \in DOMAIN backends \ resited =>
                               checks[j][s].domain = backends[j].settings.domain)
      BY <3>1 DEF BackendsInv, RegistryInv, ChecksFollow
    <3>3. resited \subseteq resited'
      BY <1>3
    <3>4. j = i /\ i \notin resited' => row.settings.domain = backends[i].settings.domain
      BY <1>10, <2>4, <3>1
    <3>5. QED
      BY <1>3, <1>7, <3>1, <3>2, <3>3, <3>4
  <2>5. QED
    BY <2>2, <2>4 DEF ChecksFollow
<1>13. BackendReqOK(Unasked)'
  BY DEF BackendReqOK, Unasked
<1>14. QED
  <2>1. born' = born /\ born \in Nat
    BY <1>3, BackendNumbers DEF BackendsInv, RegistryInv
  <2>2. RegistryInv'
    BY <1>3, <1>8, <1>9, <1>11, <1>12 DEF BackendsInv, RegistryInv
  <2>3. QED
    BY <1>3, <1>13, <2>1, <2>2, BackendRequestMoves DEF BackendsInv

\* A step that removes rows, or leaves their domains, positions and statuses.
LEMMA RowStep ==
  ASSUME BackendsInv, 
         \/ \E c \in BackendClerks, i \in Bids : delete_backend(c, i)
         \/ \E s \in Sites : DeleteSite(s)
  PROVE  BackendsInv'
<1>1. /\ UNCHANGED <<checks, backendReq, born, ordered, about, resited>>
      /\ sites' \subseteq sites
  BY DEF delete_backend, DeleteSite
<1>2. /\ DOMAIN backends' \subseteq DOMAIN backends
      /\ \A i \in DOMAIN backends' :
           /\ backends'[i] \in Backend
           /\ backends'[i].position = backends[i].position
           /\ backends'[i].status = backends[i].status
           /\ backends'[i].settings.domain = backends[i].settings.domain
  <2>0. \A i \in DOMAIN backends : backends[i] \in Backend
    BY DEF BackendsInv, RegistryInv, BackendsTypeOK
  <2>1. CASE \E c \in BackendClerks, i \in Bids : delete_backend(c, i)
    BY <2>0, <2>1 DEF delete_backend
  <2>2. CASE \E s \in Sites : DeleteSite(s)
    <3>1. PICK s \in Sites : DeleteSite(s)
      BY <2>2
    <3>2. backends' = [i \in DOMAIN backends |->
            IF backends[i].settings.site = s THEN [backends[i] EXCEPT !.settings.site = NoSite] ELSE backends[i]]
      BY <3>1 DEF DeleteSite
    <3>3. SUFFICES ASSUME NEW i \in DOMAIN backends
                   PROVE /\ backends'[i] \in Backend
                         /\ backends'[i].position = backends[i].position
                         /\ backends'[i].status = backends[i].status
                         /\ backends'[i].settings.domain = backends[i].settings.domain
      BY <3>2
    <3>4. CASE backends'[i] = backends[i]
      BY <2>0, <3>4
    <3>5. CASE backends'[i] = [backends[i] EXCEPT !.settings.site = NoSite]
      BY <2>0, <3>5 DEF Backend, Settings
    <3>6. QED
      BY <3>2, <3>4, <3>5
  <2>3. QED
    BY <2>1, <2>2
<1>3. RegistryInv'
  BY <1>1, <1>2 DEF BackendsInv, RegistryInv, BackendsTypeOK, OrderIsTotal, VerdictIsOfDomain, ChecksFollow
<1>4. \A c \in BackendClerks : BackendReqOK(backendReq[c])'
  BY <1>1 DEF BackendsInv, BackendReqOK, PlacedOK
<1>5. QED
  BY <1>1, <1>3, <1>4 DEF BackendsInv

\* A reorder places the next row of its list, on its number.
LEMMA PlaceRowStep ==
  ASSUME BackendsInv, NEW c \in BackendClerks, PlaceRow(c)
  PROVE  BackendsInv'
<1>0. PICK r : r = backendReq[c]
  OBVIOUS
<1>a. PlacedOK(r)
  BY <1>0 DEF PlaceRow, BackendsInv, BackendReqOK
<1>1. PICK m \in Nat :
        /\ m <= Len(r.ids) /\ Cardinality(DOMAIN r.placed) = m
        /\ DOMAIN r.placed = {r.ids[k] : k \in 1 .. m}
        /\ \A k \in 1 .. m : r.placed[r.ids[k]] = k - 1
  BY <1>a DEF PlacedOK
<1>d. m \in Nat /\ Cardinality(DOMAIN r.placed) = m
  BY <1>1
<1>2. PICK x : x = r.ids[m + 1]
  OBVIOUS
<1>b. PICK n0 : n0 = Cardinality(DOMAIN r.placed) + 1
  OBVIOUS
<1>c. PICK p : p = [i \in DOMAIN r.placed \cup {r.ids[n0]} |->
                     IF i = r.ids[n0] THEN n0 - 1 ELSE r.placed[i]]
  OBVIOUS
<1>3. /\ n0 = m + 1 /\ r.ids[n0] = x /\ n0 - 1 = m
      /\ DOMAIN p = DOMAIN r.placed \cup {x} /\ p[x] = m
      /\ \A i \in DOMAIN r.placed : i # x => p[i] = r.placed[i]
  <2>1. n0 = m + 1 /\ n0 - 1 = m
    BY <1>b, <1>d
  <2>2. QED
    BY <1>2, <1>c, <2>1
<1>4. PICK q : q = [r EXCEPT !.placed = p]
  OBVIOUS
<1>5. /\ r.op = "reorder" /\ m + 1 <= Len(r.ids)
      /\ r \in [op : {"reorder"}, ids : {r.ids}, placed : {r.placed}] /\ PlacedOK(r)
  BY <1>0, <1>1 DEF PlaceRow, BackendsInv, BackendReqOK
<1>6. PICK n \in Nat : r.ids \in [1 .. n -> 1 .. born]
  BY <1>5 DEF PlacedOK
<1>7. n = Len(r.ids) /\ DOMAIN r.ids = 1 .. n /\ m + 1 \in 1 .. n
  BY <1>1, <1>5, <1>6
<1>8. /\ backendReq' = [backendReq EXCEPT ![c] = q]
      /\ UNCHANGED <<backends, sites, checks, born, ordered, about, resited>>
  <2>1. backendReq' = [backendReq EXCEPT ![c].placed =
         [i \in DOMAIN @ \cup {r.ids[n0]} |-> IF i = r.ids[n0] THEN n0 - 1 ELSE @[i]]]
    BY <1>0, <1>b DEF PlaceRow
  <2>2. QED
    BY <1>0, <1>c, <1>4, <2>1 DEF PlaceRow
<1>9. q = [op |-> "reorder", ids |-> r.ids, placed |-> p]
  BY <1>4, <1>5
<1>10. x \notin DOMAIN r.placed
  BY <1>1, <1>2, <1>5, <1>7 DEF PlacedOK
<1>11. IsFiniteSet(DOMAIN p) /\ Cardinality(DOMAIN p) = m + 1
  <2>1. DOMAIN p = DOMAIN r.placed \cup {x}
    BY <1>3
  <2>2. IsFiniteSet(DOMAIN r.placed)
    BY <1>5 DEF PlacedOK
  <2>3. QED
    BY <1>d, <1>10, <2>1, <2>2, FS_AddElement
<1>12. DOMAIN p = {r.ids[k] : k \in 1 .. m + 1}
  <2>1. \A k : k \in 1 .. m + 1 <=> k \in 1 .. m \/ k = m + 1
    OBVIOUS
  <2>2. DOMAIN p = DOMAIN r.placed \cup {r.ids[m + 1]}
    BY <1>2, <1>3
  <2>3. QED
    BY <1>1, <2>1, <2>2
<1>13. \A k \in 1 .. m + 1 : p[r.ids[k]] = k - 1
  <2>1. p[r.ids[m + 1]] = m
    BY <1>2, <1>3
  <2>2. ASSUME NEW k \in 1 .. m PROVE p[r.ids[k]] = k - 1
    <3>1. r.ids[k] \in DOMAIN r.placed /\ r.placed[r.ids[k]] = k - 1
      BY <1>1
    <3>2. QED
      BY <1>3, <1>10, <3>1
  <2>3. QED
    BY <2>1, <2>2
<1>14. PlacedOK(q)
  <2>1. q.ids = r.ids /\ q.placed = p
    BY <1>9
  <2>2. /\ m + 1 \in Nat /\ m + 1 <= Len(q.ids) /\ Cardinality(DOMAIN q.placed) = m + 1
        /\ DOMAIN q.placed = {q.ids[k] : k \in 1 .. m + 1}
        /\ \A k \in 1 .. m + 1 : q.placed[q.ids[k]] = k - 1
    BY <1>5, <1>11, <1>12, <1>13, <2>1
  <2>3. \A j, k \in DOMAIN q.ids : j # k => q.ids[j] # q.ids[k]
    BY <1>5, <2>1 DEF PlacedOK
  <2>4. QED
    BY <1>6, <1>11, <2>1, <2>2, <2>3 DEF PlacedOK
<1>15. BackendReqOK(q)
  BY <1>9, <1>14 DEF BackendReqOK
<1>16. QED
  <2>1. born \in Nat /\ born' = born
    BY <1>8, BackendNumbers DEF BackendsInv, RegistryInv
  <2>2. BackendReqOK(q)'
    BY <1>15, <2>1, BackendReqKept
  <2>3. RegistryInv'
    BY <1>8 DEF BackendsInv, RegistryInv, BackendsTypeOK, OrderIsTotal, VerdictIsOfDomain, ChecksFollow
  <2>4. QED
    BY <1>8, <2>1, <2>2, <2>3, BackendRequestMoves DEF BackendsInv

\* The commit of a reorder: rows on different numbers.
LEMMA ReorderStep ==
  ASSUME BackendsInv, NEW c \in BackendClerks, FinishReorderBackends(c)
  PROVE  BackendsInv'
<1>0. PICK r : r = backendReq[c]
  OBVIOUS
<1>1. /\ r.op = "reorder" /\ Len(r.ids) = Cardinality(DOMAIN r.placed)
      /\ backends' = [i \in DOMAIN backends |->
           IF i \in DOMAIN r.placed THEN [backends[i] EXCEPT !.position = r.placed[i]] ELSE backends[i]]
      /\ ordered' = DOMAIN r.placed
      /\ backendReq' = [backendReq EXCEPT ![c] = Unasked]
      /\ UNCHANGED <<sites, checks, born, about, resited>>
  BY <1>0 DEF FinishReorderBackends, EndBackendRequest
<1>2. PlacedOK(r)
  BY <1>0, <1>1 DEF BackendsInv, BackendReqOK
<1>3. PICK m \in Nat :
        /\ m <= Len(r.ids) /\ DOMAIN r.placed = {r.ids[k] : k \in 1 .. m}
        /\ \A k \in 1 .. m : r.placed[r.ids[k]] = k - 1
  BY <1>2 DEF PlacedOK
<1>4. PICK n \in Nat : r.ids \in [1 .. n -> 1 .. born]
  BY <1>2 DEF PlacedOK
<1>5. m <= n
  BY <1>3, <1>4
<1>6. /\ DOMAIN r.placed \subseteq 1 .. born
      /\ \A i \in DOMAIN r.placed : r.placed[i] \in Nat
      /\ \A i, j \in DOMAIN r.placed : i # j => r.placed[i] # r.placed[j]
  <2>1. DOMAIN r.placed \subseteq 1 .. born
    BY <1>3, <1>4, <1>5
  <2>2. \A i \in DOMAIN r.placed : r.placed[i] \in Nat
    BY <1>3
  <2>3. ASSUME NEW i \in DOMAIN r.placed, NEW j \in DOMAIN r.placed, i # j
        PROVE  r.placed[i] # r.placed[j]
    <3>1. PICK k \in 1 .. m : i = r.ids[k]
      BY <1>3
    <3>2. PICK l \in 1 .. m : j = r.ids[l]
      BY <1>3
    <3>3. k # l
      BY <2>3, <3>1, <3>2
    <3>4. QED
      BY <1>3, <3>1, <3>2, <3>3
  <2>4. QED
    BY <2>1, <2>2, <2>3
<1>7. \A i \in DOMAIN backends : backends[i] \in Backend
  BY DEF BackendsInv, RegistryInv, BackendsTypeOK
<1>8. DOMAIN backends' = DOMAIN backends
  BY <1>1
<1>9. \A i \in DOMAIN backends :
        /\ backends'[i] \in Backend
        /\ backends'[i].status = backends[i].status
        /\ backends'[i].settings = backends[i].settings
        /\ i \in DOMAIN r.placed => backends'[i].position = r.placed[i]
  BY <1>1, <1>6, <1>7 DEF Backend
<1>10. RegistryInv'
  <2>1. OrderIsTotal'
    BY <1>1, <1>6, <1>8, <1>9 DEF OrderIsTotal
  <2>2. born \in Nat /\ 1 .. born \subseteq Bids
    BY BackendNumbers DEF BackendsInv, RegistryInv, Bids
  <2>3. BackendsTypeOK' /\ ordered' \subseteq 1 .. born'
    BY <1>1, <1>6, <1>8, <1>9, <2>2 DEF BackendsInv, RegistryInv, BackendsTypeOK
  <2>4. VerdictIsOfDomain' /\ ChecksFollow'
    BY <1>1, <1>8, <1>9 DEF BackendsInv, RegistryInv, VerdictIsOfDomain, ChecksFollow
  <2>5. QED
    BY <1>1, <2>1, <2>3, <2>4 DEF BackendsInv, RegistryInv
<1>11. BackendReqOK(Unasked)'
  BY DEF BackendReqOK, Unasked
<1>12. QED
  <2>1. born' = born /\ born \in Nat
    BY <1>1, BackendNumbers DEF BackendsInv, RegistryInv
  <2>2. QED
    BY <1>1, <1>10, <1>11, <2>1, BackendRequestMoves DEF BackendsInv

\* Checks read the domain the row has; a verdict is stored by id.
LEMMA ChecksStep ==
  ASSUME BackendsInv, poll_backends \/ \E i \in Bids : CheckStep(i)
  PROVE  BackendsInv'
<1>0. /\ UNCHANGED <<sites, backendReq, born, ordered, resited>>
  BY DEF poll_backends, CheckStep, check_one, FinishCheck
<1>1. \A c \in BackendClerks : BackendReqOK(backendReq[c])'
  BY <1>0, BackendReqsStay
<1>2. /\ checks \in [Bids -> [CheckKinds -> CheckSlot]]
      /\ DOMAIN backends \subseteq 1 .. born
      /\ \A i \in DOMAIN backends : backends[i] \in Backend
      /\ \A i \in Bids, s \in CheckKinds : checks[i][s].at = "check" =>
           i \in 1 .. born /\ (i \in DOMAIN backends \ resited =>
                                 checks[i][s].domain = backends[i].settings.domain)
  BY DEF BackendsInv, RegistryInv, BackendsTypeOK, ChecksFollow
<1>3. \A i \in DOMAIN backends :
        Reading(i) \in CheckSlot /\ Reading(i).domain = backends[i].settings.domain
  BY <1>2 DEF Reading, CheckSlot, Backend, Settings
<1>4. ASSUME NEW f, UNCHANGED <<backends, about>>,
             checks' \in [Bids -> [CheckKinds -> CheckSlot]],
             \A i \in Bids, s \in CheckKinds :
               \/ checks'[i][s] \in {checks[i][s], Unchecked}
               \/ i \in DOMAIN backends /\ checks'[i][s] = Reading(i)
      PROVE  BackendsInv'
  <2>1. ASSUME NEW i \in Bids, NEW s \in CheckKinds, checks'[i][s].at = "check"
        PROVE  /\ i \in 1 .. born'
               /\ i \in DOMAIN backends' \ resited' => checks'[i][s].domain = backends'[i].settings.domain
    <3>1. CASE checks'[i][s] = checks[i][s]
      BY <1>0, <1>2, <1>4, <2>1, <3>1
    <3>2. CASE checks'[i][s] = Unchecked
      BY <2>1, <3>2 DEF Unchecked
    <3>3. CASE i \in DOMAIN backends /\ checks'[i][s] = Reading(i)
      BY <1>0, <1>2, <1>3, <1>4, <3>3
    <3>4. QED
      BY <1>4, <3>1, <3>2, <3>3
  <2>2. ChecksFollow'
    BY <1>4, <2>1 DEF ChecksFollow
  <2>3. RegistryInv'
    BY <1>0, <1>4, <2>2 DEF BackendsInv, RegistryInv, BackendsTypeOK, OrderIsTotal, VerdictIsOfDomain
  <2>4. QED
    BY <1>0, <1>1, <2>3 DEF BackendsInv
<1>5. CASE poll_backends
  <2>1. /\ UNCHANGED <<backends, about>>
        /\ checks' = [i \in Bids |-> IF IsBackend(i) THEN [checks[i] EXCEPT !.loop = Reading(i)] ELSE checks[i]]
    BY <1>5 DEF poll_backends
  <2>2. checks' \in [Bids -> [CheckKinds -> CheckSlot]]
    BY <1>2, <1>3, <2>1 DEF IsBackend, CheckKinds
  <2>3. \A i \in Bids, s \in CheckKinds :
          \/ checks'[i][s] = checks[i][s]
          \/ i \in DOMAIN backends /\ checks'[i][s] = Reading(i)
    BY <1>2, <2>1 DEF IsBackend, CheckKinds
  <2>4. QED
    BY <1>4, <2>1, <2>2, <2>3
<1>6. CASE \E i \in Bids : check_one(i)
  <2>0. PICK i \in Bids : check_one(i)
    BY <1>6
  <2>1. /\ UNCHANGED <<backends, about>>
        /\ checks' = [checks EXCEPT ![i].task = IF IsBackend(i) THEN Reading(i) ELSE Unchecked]
    BY <2>0 DEF check_one
  <2>2. checks' \in [Bids -> [CheckKinds -> CheckSlot]]
    BY <1>2, <1>3, <2>1 DEF IsBackend, CheckKinds, CheckSlot
  <2>3. \A j \in Bids, s \in CheckKinds :
          \/ checks'[j][s] \in {checks[j][s], Unchecked}
          \/ j \in DOMAIN backends /\ checks'[j][s] = Reading(j)
    BY <1>2, <2>1 DEF IsBackend, CheckKinds
  <2>4. QED
    BY <1>4, <2>1, <2>2, <2>3
<1>7. CASE \E i \in Bids, s \in CheckKinds : FinishCheck(i, s)
  <2>0. PICK i \in Bids, s \in CheckKinds : FinishCheck(i, s)
    BY <1>7
  <2>1. PICK verdict \in check_backend : backends' = update_check(i, verdict)
    BY <2>0 DEF FinishCheck
  <2>2. /\ checks[i][s].at = "check"
        /\ about' = [about EXCEPT ![i] = checks[i][s].domain]
        /\ checks' = [checks EXCEPT ![i][s] = Unchecked]
    BY <2>0 DEF FinishCheck
  <2>3. DOMAIN backends' = DOMAIN backends
    BY <2>1 DEF update_check
  <2>4. \A j \in DOMAIN backends :
          /\ backends'[j] \in Backend
          /\ backends'[j].position = backends[j].position
          /\ backends'[j].settings = backends[j].settings
          /\ j # i => backends'[j].status = backends[j].status
    BY <1>2, <2>1 DEF update_check, IsBackend, check_backend, Backend
  <2>5. checks[i][s].domain \in Hosts
    BY <1>2, <2>2 DEF CheckSlot, Unchecked
  <2>6. about \in [Bids -> Hosts]
    BY DEF BackendsInv, RegistryInv, BackendsTypeOK
  <2>7. BackendsTypeOK'
    BY <1>0, <2>2, <2>3, <2>4, <2>5, <2>6 DEF BackendsInv, RegistryInv, BackendsTypeOK
  <2>8. OrderIsTotal'
    BY <1>0, <2>3, <2>4 DEF BackendsInv, RegistryInv, OrderIsTotal
  <2>9. VerdictIsOfDomain'
    <3>1. ASSUME NEW j \in DOMAIN backends \ resited, backends'[j].status # "pending"
          PROVE  about'[j] = backends'[j].settings.domain
      <4>1. CASE j = i
        BY <1>2, <2>2, <2>4, <2>6, <3>1, <4>1
      <4>2. CASE j # i
        BY <2>2, <2>4, <2>6, <3>1, <4>2 DEF BackendsInv, RegistryInv, VerdictIsOfDomain
      <4>3. QED
        BY <4>1, <4>2
    <3>2. QED
      BY <1>0, <2>3, <3>1 DEF VerdictIsOfDomain
  <2>10. ChecksFollow'
    <3>1. checks' \in [Bids -> [CheckKinds -> CheckSlot]]
      BY <1>2, <2>2 DEF CheckSlot
    <3>2. \A j \in Bids, t \in CheckKinds : checks'[j][t] \in {checks[j][t], Unchecked}
      BY <1>2, <2>2
    <3>3. \A j \in Bids, t \in CheckKinds : checks'[j][t].at = "check" => checks'[j][t] = checks[j][t]
      BY <3>2 DEF Unchecked
    <3>4. QED
      BY <1>0, <1>2, <2>3, <2>4, <3>1, <3>3 DEF ChecksFollow
  <2>11. QED
    BY <1>0, <1>1, <2>7, <2>8, <2>9, <2>10 DEF BackendsInv, RegistryInv
<1>8. QED
  BY <1>5, <1>6, <1>7 DEF CheckStep

\* Every step of a request, of a check or of the world keeps the invariant.
LEMMA BackendsStep == BackendsInv /\ [BackendsNext]_backendsVars => BackendsInv'
<1> SUFFICES ASSUME BackendsInv, [BackendsNext]_backendsVars PROVE BackendsInv'
  OBVIOUS
<1>1. ASSUME NEW c \in BackendClerks, RequestStep(c) PROVE BackendsInv'
  BY <1>1, CreateStep, EditStep, PlaceRowStep, ReorderStep, BackendRequestBegins DEF RequestStep
<1>2. ASSUME NEW c \in BackendClerks,
             \/ \E settings \in Settings :
                  BeginCreateBackend(c, settings) \/ \E i \in Bids : BeginUpdateBackend(c, i, settings)
             \/ \E ids \in Orders : BeginReorderBackends(c, ids)
      PROVE  BackendsInv'
  BY <1>2, BackendRequestBegins
<1>3. CASE \/ \E c \in BackendClerks, i \in Bids : delete_backend(c, i)
           \/ \E s \in Sites : DeleteSite(s)
  BY <1>3, RowStep
<1>4. CASE poll_backends \/ \E i \in Bids : CheckStep(i)
  BY <1>4, ChecksStep
<1>5. CASE RestartBackends
  <2>1. /\ checks' = [i \in Bids |-> [s \in CheckKinds |-> Unchecked]]
        /\ backendReq' = [c \in BackendClerks |-> Unasked]
        /\ UNCHANGED <<backends, sites, born, ordered, about, resited>>
    BY <1>5 DEF RestartBackends
  <2>2. ChecksFollow'
    BY <2>1 DEF ChecksFollow, CheckSlot, Unchecked
  <2>3. RegistryInv'
    BY <2>1, <2>2 DEF BackendsInv, RegistryInv, BackendsTypeOK, OrderIsTotal, VerdictIsOfDomain
  <2>4. \A c \in BackendClerks : BackendReqOK(backendReq[c])'
    BY <2>1 DEF BackendReqOK, Unasked
  <2>5. QED
    BY <2>1, <2>3, <2>4 DEF BackendsInv
<1>6. CASE UNCHANGED backendsVars
  <2>1. UNCHANGED <<backends, sites, checks, backendReq, born, ordered, about, resited>>
    BY <1>6 DEF backendsVars
  <2>2. RegistryInv'
    BY <2>1 DEF BackendsInv, RegistryInv, BackendsTypeOK, OrderIsTotal, VerdictIsOfDomain, ChecksFollow
  <2>3. QED
    BY <2>1, <2>2, BackendReqsStay DEF BackendsInv
<1>7. QED
  BY <1>1, <1>2, <1>3, <1>4, <1>5, <1>6 DEF BackendsNext

\* The registry begins with two rows that nobody has checked or placed.
LEMMA BackendsStart == BackendsInit => BackendsInv
<1> SUFFICES ASSUME BackendsInit PROVE BackendsInv
  OBVIOUS
<1>1. PICK code \in [1 .. 2 -> Codes] :
        backends = [i \in 1 .. 2 |->
            [settings |-> [code |-> code[i], domain |-> FirstHost, site |-> NoSite],
             position |-> 0, status |-> "pending"]]
  BY DEF BackendsInit
<1>2. /\ sites = Sites
      /\ checks = [i \in Bids |-> [s \in CheckKinds |-> Unchecked]]
      /\ backendReq = [c \in BackendClerks |-> Unasked]
      /\ born = 2 /\ ordered = {} /\ about = [i \in Bids |-> FirstHost] /\ resited = {}
  BY DEF BackendsInit
<1>3. \A i \in DOMAIN backends : backends[i] \in Backend /\ backends[i].status = "pending"
  <2>1. SUFFICES ASSUME NEW i \in 1 .. 2 PROVE backends[i] \in Backend /\ backends[i].status = "pending"
    BY <1>1
  <2>2. [code |-> code[i], domain |-> FirstHost, site |-> NoSite] \in Settings
    BY <1>1, BackendNumbers DEF Settings
  <2>3. QED
    BY <1>1, <2>2 DEF Backend
<1>4. BackendsTypeOK
  BY <1>1, <1>2, <1>3, BackendNumbers DEF BackendsTypeOK
<1>5. OrderIsTotal /\ VerdictIsOfDomain
  BY <1>2, <1>3 DEF OrderIsTotal, VerdictIsOfDomain
<1>6. ChecksFollow
  BY <1>2 DEF ChecksFollow, CheckSlot, Unchecked
<1>7. \A c \in BackendClerks : BackendReqOK(backendReq[c])
  BY <1>2 DEF BackendReqOK, Unasked
<1>8. QED
  BY <1>2, <1>4, <1>5, <1>6, <1>7, BackendNumbers DEF BackendsInv, RegistryInv

\* However requests, checks and restarts overlap, rows that a reorder has placed
\* share no position, and a status is the verdict about the domain the row has.
THEOREM BackendsCorrect == BackendsSpec => []BackendRegistryHolds
<1>1. BackendsInv => BackendRegistryHolds
  BY DEF BackendsInv, RegistryInv, BackendRegistryHolds
<1>2. QED
  BY BackendsStart, BackendsStep, <1>1, PTL DEF BackendsSpec

\* The same of the composition, in the behaviours of the registry.
THEOREM ConsoleBackends == ConsoleSpec => []BackendsHold
<1>1. ConsoleInit => BackendsInv
  BY BackendsStart DEF ConsoleInit
<1>2. [ConsoleNext]_consoleVars => [BackendsNext]_backendsVars
  BY DEF ConsoleNext, consoleVars, backendsVars
<1>3. BackendsInv /\ [ConsoleNext]_consoleVars => BackendsInv'
  BY <1>2, BackendsStep
<1>4. BackendsInv => BackendsHold
  BY DEF BackendsInv, RegistryInv, BackendRegistryHolds, BackendsHold
<1>5. QED
  BY <1>1, <1>3, <1>4, PTL DEF ConsoleSpec

(***************************************************************************)
(* Documents.                                                              *)
(***************************************************************************)

\* Every number up to the size of the set is the rank of one.
LEMMA RankOnto ==
  ASSUME NEW S, IsFiniteSet(S), S \subseteq Nat, NEW r \in 1 .. Cardinality(S)
  PROVE  \E n \in S : Cardinality({m \in S : m <= n}) = r
<1> DEFINE rank == [n \in S |-> Cardinality({m \in S : m <= n})]
           T == 1 .. Cardinality(S)
<1>1. Cardinality(S) \in Nat /\ 1 <= Cardinality(S)
  BY FS_CardinalityType
<1>2. \A n \in S : Cardinality({m \in S : m <= n}) \in 1 .. Cardinality(S)
  BY RankBounds
<1>3. SUFFICES ASSUME \A n \in S : rank[n] # r PROVE FALSE
  OBVIOUS
<1>4. rank \in [S -> T \ {r}]
  BY <1>2, <1>3
<1>5. IsFiniteSet(T) /\ Cardinality(T) = Cardinality(S)
  BY <1>1, FS_Interval
<1>6. IsFiniteSet(T \ {r}) /\ Cardinality(T \ {r}) < Cardinality(S)
  <2>1. IsFiniteSet(T \ {r}) /\ Cardinality(T \ {r}) = Cardinality(T) - 1
    BY <1>5, FS_RemoveElement
  <2>2. QED
    BY <1>1, <1>5, <2>1
<1>7. PICK i \in S, j \in S : i # j /\ rank[i] = rank[j]
  <2> HIDE DEF rank, T
  <2>1. QED
    BY <1>4, <1>6, FS_PigeonHole
<1>8. QED
  BY <1>7, RankInjective

\* A finite set of numbers that is not empty has a least member ...
LEMMA LeastOfFinite ==
  ASSUME NEW S, IsFiniteSet(S), S \subseteq Nat, S # {}
  PROVE  \E n \in S : \A m \in S : n <= m
<1>1. Cardinality(S) \in Nat /\ Cardinality(S) # 0
  BY FS_CardinalityType, FS_EmptySet
<1>2. 1 \in 1 .. Cardinality(S)
  BY <1>1
<1>3. PICK n \in S : Cardinality({m \in S : m <= n}) = 1
  BY <1>2, RankOnto
<1>4. ASSUME NEW m \in S, m < n PROVE FALSE
  <2>0. m \in Nat /\ n \in Nat /\ m # n /\ \A k \in S : k \in Nat
    BY <1>4
  <2>1. Cardinality({k \in S : k <= m}) # Cardinality({k \in S : k <= n})
    BY <2>0, RankInjective
  <2>2. {k \in S : k <= m} \in SUBSET {k \in S : k <= n}
    <3>1. \A k \in S : k <= m => k <= n
      BY <1>4, <2>0
    <3>2. QED
      BY <3>1
  <2>3. IsFiniteSet({k \in S : k <= n})
    <3>1. {k \in S : k <= n} \in SUBSET S
      OBVIOUS
    <3>2. QED
      BY <3>1, FS_Subset
  <2>4. Cardinality({k \in S : k <= m}) <= Cardinality({k \in S : k <= n})
    BY <2>2, <2>3, FS_Subset
  <2>5. Cardinality({k \in S : k <= m}) \in 1 .. Cardinality(S)
    BY RankBounds
  <2>6. QED
    BY <1>1, <1>3, <2>1, <2>4, <2>5
<1>5. QED
  <2>1. \A m \in S : ~(m < n) /\ m \in Nat /\ n \in Nat
    BY <1>4
  <2>2. QED
    BY <2>1

\* ... and so has any set of numbers that is not empty.
LEMMA LeastMember ==
  ASSUME NEW S \in SUBSET Nat, S # {}
  PROVE  \E n \in S : \A m \in S : n <= m
<1>1. PICK k \in S : k \in Nat
  OBVIOUS
<1> DEFINE T == {m \in S : m <= k}
<1>2. T \in SUBSET Nat /\ k \in T /\ \A m \in T : m <= k
  <2>1. T \subseteq S /\ \A m \in T : m <= k
    OBVIOUS
  <2>2. k <= k
    BY <1>1
  <2>3. QED
    BY <2>1, <2>2
<1>3. IsFiniteSet(T)
  <2> HIDE DEF T
  <2>1. QED
    BY <1>1, <1>2, FS_BoundedSetOfNaturals
<1>4. PICK n \in T : \A m \in T : n <= m
  BY <1>2, <1>3, LeastOfFinite
<1>5. \A m \in S : m \in T \/ k <= m
  BY <1>1
<1>6. n \in S /\ n <= k /\ n \in Nat
  BY <1>1
<1>7. ASSUME NEW m \in S PROVE n <= m
  BY <1>1, <1>4, <1>5, <1>6
<1>8. QED
  BY <1>6, <1>7

\* A finite set of numbers has a greatest one.
LEMMA GreatestMember ==
  ASSUME NEW S, IsFiniteSet(S), S \subseteq Nat, S # {}
  PROVE  \E n \in S : \A m \in S : m <= n
<1>1. Cardinality(S) \in Nat /\ Cardinality(S) # 0
  BY FS_CardinalityType, FS_EmptySet
<1>2. Cardinality(S) \in 1 .. Cardinality(S)
  BY <1>1
<1>3. PICK n \in S : Cardinality({m \in S : m <= n}) = Cardinality(S)
  BY <1>2, RankOnto
<1>4. {m \in S : m <= n} \in SUBSET S
  OBVIOUS
<1>5. {m \in S : m <= n} = S
  BY <1>3, <1>4, FS_Subset
<1>6. QED
  BY <1>5

\* Functions computed on the way up from a number: "up" leads from members of D
\* to smaller ones or ends at 0, and f collects what each member owns.
Upwards(D, up) == \A n \in D : up[n] \in D \cup {0} /\ up[n] < n
\* What f collects on the way up.
Climbs(f, D, up, own) ==
  \A n \in D : f[n] = own[n] \cup (IF up[n] = 0 THEN {} ELSE f[up[n]])

\* There is such a function.
LEMMA ChainDefined ==
  ASSUME NEW N \in Nat, NEW up, Upwards(1 .. N, up),
         NEW own \in [1 .. N -> SUBSET (1 .. N)]
  PROVE  \E f \in [1 .. N -> SUBSET (1 .. N)] : Climbs(f, 1 .. N, up, own)
<1> DEFINE Good(k) == \E f \in [1 .. k -> SUBSET (1 .. N)] : Climbs(f, 1 .. k, up, own)
           Bad == {k \in 0 .. N : ~Good(k)}
<1>1. Good(0)
  <2>1. PICK g : g = [n \in 1 .. 0 |-> own[n]]
    OBVIOUS
  <2>2. g \in [1 .. 0 -> SUBSET (1 .. N)]
    BY <2>1
  <2>3. \A n \in 1 .. 0 : FALSE
    OBVIOUS
  <2>4. Climbs(g, 1 .. 0, up, own)
    BY <2>3 DEF Climbs
  <2>5. QED
    BY <2>2, <2>4
<1>2. ASSUME NEW k \in 1 .. N, Good(k - 1) PROVE Good(k)
  <2>1. PICK g \in [1 .. k - 1 -> SUBSET (1 .. N)] : Climbs(g, 1 .. k - 1, up, own)
    BY <1>2
  <2>0. \A n \in 1 .. k : up[n] # 0 => up[n] \in 1 .. k - 1
    BY DEF Upwards
  <2>2. PICK top \in SUBSET (1 .. N) : top = own[k] \cup IF up[k] = 0 THEN {} ELSE g[up[k]]
    <3>1. up[k] # 0 => g[up[k]] \in SUBSET (1 .. N)
      BY <2>1, <2>0
    <3>2. own[k] \in SUBSET (1 .. N)
      OBVIOUS
    <3>3. CASE up[k] = 0
      BY <3>2, <3>3
    <3>4. CASE up[k] # 0
      BY <3>1, <3>2, <3>4
    <3>5. QED
      BY <3>3, <3>4
  <2>3. PICK h : h = [n \in 1 .. k |-> IF n = k THEN top ELSE g[n]]
    OBVIOUS
  <2>4. h \in [1 .. k -> SUBSET (1 .. N)]
    BY <2>1, <2>3
  <2>5. \A n \in 1 .. k : up[n] # 0 => h[up[n]] = g[up[n]]
    BY <2>0, <2>3
  <2>6. Climbs(h, 1 .. k, up, own)
    BY <2>1, <2>2, <2>3, <2>5 DEF Climbs
  <2>7. QED
    BY <2>4, <2>6
<1>3. Bad = {}
  <2>1. SUFFICES ASSUME Bad # {} PROVE FALSE
    OBVIOUS
  <2>2. Bad \in SUBSET Nat
    OBVIOUS
  <2>3. PICK k \in Bad : \A m \in Bad : k <= m
    BY <2>1, <2>2, LeastMember
  <2>4. k \in 0 .. N /\ k # 0
    BY <1>1
  <2>5. k \in 1 .. N /\ k - 1 \in 0 .. N /\ ~(k <= k - 1)
    BY <2>4
  <2>6. Good(k - 1)
    BY <2>3, <2>5
  <2>7. QED
    BY <1>2, <2>5, <2>6
<1>4. Good(N)
  <2>1. N \in 0 .. N
    OBVIOUS
  <2>2. QED
    BY <1>3, <2>1
<1>5. QED
  BY <1>4

\* And two of them agree.
LEMMA ChainAgrees ==
  ASSUME NEW D \in SUBSET Nat, NEW up, NEW own, NEW f, NEW g,
         Upwards(D, up), Climbs(f, D, up, own), Climbs(g, D, up, own)
  PROVE  \A n \in D : f[n] = g[n]
<1> DEFINE Bad == {n \in D : f[n] # g[n]}
<1>1. /\ Bad \subseteq D /\ \A n \in D : n \notin Bad => f[n] = g[n]
      /\ \A n \in Bad : f[n] # g[n]
  OBVIOUS
<1> HIDE DEF Bad
<1>2. SUFFICES ASSUME Bad # {} PROVE FALSE
  BY <1>1
<1>3. Bad \in SUBSET Nat /\ \A n \in D : n \in Nat
  BY <1>1
<1>9. PICK k \in Bad : \A m \in Bad : k <= m
  BY <1>2, <1>3, LeastMember
<1>4. k \in D /\ k \in Nat /\ f[k] # g[k]
  BY <1>1, <1>3
<1>5. up[k] = 0 \/ (up[k] \in D /\ ~(k <= up[k]))
  <2>1. up[k] \in D \cup {0} /\ up[k] < k
    BY <1>4 DEF Upwards
  <2>2. up[k] = 0 \/ up[k] \in D
    BY <2>1
  <2>3. CASE up[k] \in D
    <3>1. PICK u : u = up[k]
      OBVIOUS
    <3>2. u \in Nat /\ u < k
      BY <1>3, <2>1, <2>3, <3>1
    <3>3. QED
      BY <1>4, <2>3, <3>1, <3>2
  <2>4. QED
    BY <2>2, <2>3
<1>6. up[k] = 0 \/ f[up[k]] = g[up[k]]
  BY <1>1, <1>9, <1>5
<1>7. f[k] = g[k]
  <2>1. /\ f[k] = own[k] \cup (IF up[k] = 0 THEN {} ELSE f[up[k]])
        /\ g[k] = own[k] \cup (IF up[k] = 0 THEN {} ELSE g[up[k]])
    BY <1>4 DEF Climbs
  <2>2. CASE up[k] = 0
    BY <2>1, <2>2
  <2>3. CASE f[up[k]] = g[up[k]]
    BY <2>1, <2>3
  <2>4. QED
    BY <1>6, <2>2, <2>3
<1>8. QED
  BY <1>4, <1>7

\* The tree of documents: identifiers are given out in order, and a node comes
\* after its parent.
DocTreeInv ==
  /\ docTx \in 0 .. MaxDocTx /\ roleRows \subseteq DocRoles
  /\ nodes \in [Ids -> Node \cup {NoRow}]
  /\ \A n \in Ids : Exists(n) =>
       /\ n <= Top /\ nodes[n].at <= docTx /\ nodes[n].version >= 1
       /\ nodes[n].parent < n /\ (nodes[n].parent # Root => Exists(nodes[n].parent))

\* What the bounds and the identifiers are.
LEMMA DocNumbers ==
  /\ MaxNodes \in Nat /\ MaxNodes >= 2 /\ MaxDocTx \in Nat /\ FeedLimit \in Nat /\ FeedLimit >= 1
  /\ Ids \subseteq Nat /\ IsFiniteSet(Ids) /\ Root \notin Ids
BY DocumentsAssumption, FS_Interval DEF Ids, Root

\* The two ways up, as equations.
AncestorsEq ==
  /\ Ancestors \in [Ids -> SUBSET Ids]
  /\ \A n \in Ids : Ancestors[n] =
       {n} \cup (IF ~Exists(n) \/ nodes[n].parent = Root THEN {}
                 ELSE Ancestors[nodes[n].parent])
LiveChainEq ==
  \A n \in Ids : LiveChain[n] =
    IF ~Live(n) THEN {}
    ELSE {n} \cup IF nodes[n].parent = Root THEN {} ELSE LiveChain[nodes[n].parent]

\* The recursion of the ancestors is well founded: a parent has a smaller number.
LEMMA AncestorsUnfold == DocTreeInv => AncestorsEq
<1> SUFFICES ASSUME DocTreeInv PROVE AncestorsEq
  OBVIOUS
<1>1. PICK up : up = [n \in Ids |-> IF Exists(n) THEN nodes[n].parent ELSE 0]
  OBVIOUS
<1>2. PICK own : own = [n \in Ids |-> {n}]
  OBVIOUS
<1>3. /\ Upwards(1 .. MaxNodes, up)
      /\ own \in [1 .. MaxNodes -> SUBSET (1 .. MaxNodes)]
  <2>1. \A n \in Ids : Exists(n) => nodes[n].parent \in 0 .. MaxNodes /\ nodes[n].parent < n
    BY DEF DocTreeInv, Exists, Node
  <2>2. QED
    BY <1>1, <1>2, <2>1, DocNumbers DEF Ids, Upwards
<1>4. PICK g : g \in [1 .. MaxNodes -> SUBSET (1 .. MaxNodes)] /\ Climbs(g, 1 .. MaxNodes, up, own)
  BY <1>3, DocNumbers, ChainDefined
<1>5. g = [n \in Ids |-> {n} \cup IF ~Exists(n) \/ nodes[n].parent = Root THEN {} ELSE g[nodes[n].parent]]
  BY <1>1, <1>2, <1>4 DEF Ids, Root, Climbs
<1>6. Ancestors = [n \in Ids |->
         {n} \cup IF ~Exists(n) \/ nodes[n].parent = Root THEN {} ELSE Ancestors[nodes[n].parent]]
  BY <1>5 DEF Ancestors
<1>7. \A n \in Ids : Ancestors[n] = {n} \cup (IF ~Exists(n) \/ nodes[n].parent = Root THEN {}
                                              ELSE Ancestors[nodes[n].parent])
  BY <1>6
<1>8. Climbs(Ancestors, 1 .. MaxNodes, up, own)
  BY <1>1, <1>2, <1>7 DEF Ids, Root, Climbs
<1>9. \A n \in 1 .. MaxNodes : Ancestors[n] = g[n]
  <2>1. 1 .. MaxNodes \in SUBSET Nat
    BY DocNumbers
  <2>2. Upwards(1 .. MaxNodes, up) /\ Climbs(g, 1 .. MaxNodes, up, own)
    BY <1>3, <1>4
  <2> HIDE DEF DocTreeInv
  <2>3. PICK D : D = 1 .. MaxNodes
    OBVIOUS
  <2>4. D \in SUBSET Nat /\ Upwards(D, up) /\ Climbs(g, D, up, own) /\ Climbs(Ancestors, D, up, own)
    BY <1>8, <2>1, <2>2, <2>3
  <2>5. \A n \in D : Ancestors[n] = g[n]
    BY <2>4, ChainAgrees
  <2>6. QED
    BY <2>3, <2>5
<1>10. Ancestors = g
  BY <1>4, <1>6, <1>9 DEF Ids
<1>11. QED
  BY <1>4, <1>7, <1>10 DEF Ids, AncestorsEq

\* So is the recursion of the chain a lookup walks.
LEMMA LiveChainUnfold == DocTreeInv => LiveChainEq
<1> SUFFICES ASSUME DocTreeInv PROVE LiveChainEq
  OBVIOUS
<1>1. PICK up : up = [n \in Ids |-> IF Live(n) THEN nodes[n].parent ELSE 0]
  OBVIOUS
<1>2. PICK own : own = [n \in Ids |-> IF Live(n) THEN {n} ELSE {}]
  OBVIOUS
<1>3. /\ Upwards(1 .. MaxNodes, up)
      /\ own \in [1 .. MaxNodes -> SUBSET (1 .. MaxNodes)]
  <2>1. \A n \in Ids : Live(n) => nodes[n].parent \in 0 .. MaxNodes /\ nodes[n].parent < n
    BY DEF DocTreeInv, Live, Exists, Node
  <2>2. QED
    BY <1>1, <1>2, <2>1, DocNumbers DEF Ids, Upwards
<1>4. PICK g : g \in [1 .. MaxNodes -> SUBSET (1 .. MaxNodes)] /\ Climbs(g, 1 .. MaxNodes, up, own)
  BY <1>3, DocNumbers, ChainDefined
<1>5. g = [n \in Ids |-> IF ~Live(n) THEN {}
             ELSE {n} \cup IF nodes[n].parent = Root THEN {} ELSE g[nodes[n].parent]]
  BY <1>1, <1>2, <1>4 DEF Ids, Root, Climbs
<1>6. LiveChain = [n \in Ids |-> IF ~Live(n) THEN {}
             ELSE {n} \cup IF nodes[n].parent = Root THEN {} ELSE LiveChain[nodes[n].parent]]
  BY <1>5 DEF LiveChain
<1>7. QED
  BY <1>6 DEF LiveChainEq

\* What is wrong with a node and, whenever it is wrong, with its parent too, is
\* wrong with no node.
LEMMA NoBadNode ==
  ASSUME DocTreeInv, NEW B, B \subseteq {n \in Ids : Exists(n)},
         \A n \in B : nodes[n].parent # Root /\ nodes[n].parent \in B
  PROVE  B = {}
<1>1. SUFFICES ASSUME B # {} PROVE FALSE
  OBVIOUS
<1>2. B \in SUBSET Nat
  BY DocNumbers
<1>3. PICK k \in B : \A m \in B : k <= m
  BY <1>1, <1>2, LeastMember
<1>4. k \in Ids /\ Exists(k) /\ nodes[k].parent < k /\ nodes[k].parent \in B
  BY DEF DocTreeInv
<1>5. k \in Nat /\ nodes[k].parent \in Nat /\ k <= nodes[k].parent
  BY <1>2, <1>3, <1>4
<1>6. QED
  BY <1>4, <1>5

\* The ancestors of a node exist, and it is one of them.
LEMMA AncestorsExist ==
  ASSUME DocTreeInv, NEW n \in Ids
  PROVE  n \in Ancestors[n] /\ (Exists(n) => \A a \in Ancestors[n] : Exists(a))
<1>1. AncestorsEq
  BY AncestorsUnfold
<1>2. n \in Ancestors[n]
  BY <1>1 DEF AncestorsEq
<1> DEFINE B == {m \in Ids : Exists(m) /\ ~\A a \in Ancestors[m] : Exists(a)}
<1>3. \A m \in B : nodes[m].parent # Root /\ nodes[m].parent \in B
  <2>1. SUFFICES ASSUME NEW m \in Ids, Exists(m), NEW a \in Ancestors[m], ~Exists(a)
                 PROVE  nodes[m].parent # Root /\ nodes[m].parent \in B
    OBVIOUS
  <2>2. nodes[m].parent # Root /\ a \in Ancestors[nodes[m].parent]
    BY <1>1, <2>1 DEF AncestorsEq
  <2>3. Exists(nodes[m].parent) /\ nodes[m].parent \in Ids
    BY <2>1, <2>2 DEF DocTreeInv, Exists
  <2>4. QED
    BY <2>1, <2>2, <2>3
<1>4. B \subseteq {m \in Ids : Exists(m)}
  OBVIOUS
<1>5. B = {}
  <2> HIDE DEF B
  <2>1. QED
    BY <1>3, <1>4, NoBadNode
<1>6. QED
  BY <1>2, <1>5

\* A step keeps the tree: no node goes or moves, and none comes back to life.
TreeKeeps ==
  /\ DocTreeInv' /\ docTx <= docTx' /\ Top <= Top' /\ crossed \subseteq crossed'
  /\ \A n \in Ids : Exists(n) =>
       /\ Exists(n)' /\ nodes'[n].parent = nodes[n].parent /\ (Live(n)' => Live(n))
  /\ \A n \in Ids : Exists(n)' => Exists(n) \/ n > Top

\* Then nobody's ancestors change.
LEMMA AncestorsStay ==
  ASSUME DocTreeInv, TreeKeeps, NEW n \in Ids, Exists(n)
  PROVE  Ancestors'[n] = Ancestors[n]
<1>1. AncestorsEq
  BY AncestorsUnfold
<1>2. AncestorsEq'
  <2>1. DocTreeInv'
    BY DEF TreeKeeps
  <2>2. QED
    BY <2>1, AncestorsUnfold, PTL
<1>3. PICK f : f = Ancestors'
  OBVIOUS
<1>4. \A m \in Ids : Exists(m) => f[m] =
       {m} \cup (IF nodes[m].parent = Root THEN {} ELSE f[nodes[m].parent])
  BY <1>2, <1>3 DEF AncestorsEq, TreeKeeps
<1>5. \A m \in Ids : Exists(m) => Ancestors[m] =
       {m} \cup (IF nodes[m].parent = Root THEN {} ELSE Ancestors[nodes[m].parent])
  BY <1>1 DEF AncestorsEq
<1> DEFINE B == {m \in Ids : Exists(m) /\ f[m] # Ancestors[m]}
<1>6. \A m \in B : nodes[m].parent # Root /\ nodes[m].parent \in B
  <2>1. SUFFICES ASSUME NEW m \in Ids, Exists(m), f[m] # Ancestors[m]
                 PROVE  nodes[m].parent # Root /\ nodes[m].parent \in B
    OBVIOUS
  <2>2. nodes[m].parent # Root /\ f[nodes[m].parent] # Ancestors[nodes[m].parent]
    BY <1>4, <1>5, <2>1
  <2>3. Exists(nodes[m].parent) /\ nodes[m].parent \in Ids
    BY <2>1, <2>2 DEF DocTreeInv, Exists
  <2>4. QED
    BY <2>2, <2>3
<1>7. B \subseteq {m \in Ids : Exists(m)}
  OBVIOUS
<1>8. B = {}
  <2> HIDE DEF B
  <2>1. QED
    BY <1>6, <1>7, NoBadNode
<1>9. QED
  BY <1>3, <1>8

----------------------------------------------------------------------------
(* The rows of a page: the feed's order, and what comes first in it.        *)

\* The nodes of a set that exist have a first and a last one by updated_at and id.
LEMMA FirstAndLastRow ==
  ASSUME DocTreeInv, NEW S, S \subseteq {n \in Ids : Exists(n)}, S # {}
  PROVE  /\ \E n \in S : \A m \in S \ {n} : Before(n, m)
         /\ \E n \in S : \A m \in S \ {n} : Before(m, n)
<1>1. /\ docTx \in Nat /\ \A n \in S : nodes[n].at \in Nat /\ nodes[n].at <= docTx
      /\ \A n \in S : n \in Nat /\ n <= MaxNodes
  BY DocNumbers DEF DocTreeInv, Exists, Node, Ids
<1> DEFINE K == {nodes[n].at : n \in S}
           At(k) == {n \in S : nodes[n].at = k}
<1>2. K \in SUBSET Nat /\ K # {} /\ \A k \in K : k <= docTx
  BY <1>1
<1>3. \A k \in K : At(k) \in SUBSET Nat /\ At(k) # {} /\ At(k) \subseteq S
                   /\ \A n \in At(k) : n <= MaxNodes /\ nodes[n].at = k
  BY <1>1
<1>4. \A n \in S : nodes[n].at \in K /\ n \in At(nodes[n].at)
  OBVIOUS
<1> HIDE DEF K, At
<1>5. \E n \in S : \A m \in S \ {n} : Before(n, m)
  <2>1. PICK k \in K : \A j \in K : k <= j
    BY <1>2, LeastMember
  <2>2. PICK n \in At(k) : \A m \in At(k) : n <= m
    BY <1>3, LeastMember
  <2>3. ASSUME NEW m \in S, m # n PROVE Before(n, m)
    <3>1. k <= nodes[m].at /\ nodes[n].at = k /\ k \in Nat /\ nodes[m].at \in Nat
      BY <1>1, <1>2, <1>3, <1>4, <2>1
    <3>2. CASE nodes[m].at = k
      <4>1. n <= m /\ n \in Nat /\ m \in Nat
        BY <1>1, <1>3, <1>4, <2>2, <3>2
      <4>2. QED
        BY <2>3, <3>1, <3>2, <4>1 DEF Before
    <3>3. CASE nodes[m].at # k
      BY <3>1, <3>3 DEF Before
    <3>4. QED
      BY <3>2, <3>3
  <2>4. QED
    BY <1>3, <2>3
<1>6. \E n \in S : \A m \in S \ {n} : Before(m, n)
  <2>1. PICK k \in K : \A j \in K : j <= k
    BY <1>1, <1>2, FS_BoundedSetOfNaturals, GreatestMember
  <2>2. PICK n \in At(k) : \A m \in At(k) : m <= n
    BY <1>3, DocNumbers, FS_BoundedSetOfNaturals, GreatestMember
  <2>3. ASSUME NEW m \in S, m # n PROVE Before(m, n)
    <3>1. nodes[m].at <= k /\ nodes[n].at = k /\ k \in Nat /\ nodes[m].at \in Nat
      BY <1>1, <1>2, <1>3, <1>4, <2>1
    <3>2. CASE nodes[m].at = k
      <4>1. m <= n /\ n \in Nat /\ m \in Nat
        BY <1>1, <1>3, <1>4, <2>2, <3>2
      <4>2. QED
        BY <2>3, <3>1, <3>2, <4>1 DEF Before
    <3>3. CASE nodes[m].at # k
      BY <3>1, <3>3 DEF Before
    <3>4. QED
      BY <3>2, <3>3
  <2>4. QED
    BY <1>3, <2>3
<1>7. QED
  BY <1>5, <1>6

\* A page has the rows that come first, at most as many as the limit, and all of
\* them if they fit.
LEMMA PageIsFirst ==
  ASSUME DocTreeInv, NEW S, S \subseteq {n \in Ids : Exists(n)}
  PROVE  /\ FirstRows(S) \subseteq S
         /\ FirstRows(S) # S =>
              FirstRows(S) # {} /\ \A n \in FirstRows(S), m \in S \ FirstRows(S) : Before(n, m)
<1> DEFINE Opening(P, k) == /\ P \in SUBSET S /\ Cardinality(P) = k /\ IsFiniteSet(P)
                          /\ \A n \in P, m \in S \ P : Before(n, m)
           Bad == {k \in 0 .. FeedLimit : ~\E P : Opening(P, k)}
<1>1. IsFiniteSet(S) /\ Cardinality(S) \in Nat
  BY DocNumbers, FS_Subset, FS_CardinalityType
<1>2. SUFFICES ASSUME ~(Cardinality(S) <= FeedLimit)
               PROVE  \E P \in SUBSET S :
                        Cardinality(P) = FeedLimit /\ \A n \in P, m \in S \ P : Before(n, m)
  <2>1. CASE Cardinality(S) <= FeedLimit
    BY <2>1 DEF FirstRows
  <2>2. CASE ~(Cardinality(S) <= FeedLimit)
    <3>1. FirstRows(S) = CHOOSE P \in SUBSET S :
            Cardinality(P) = FeedLimit /\ \A n \in P, m \in S \ P : Before(n, m)
      BY <2>2 DEF FirstRows
    <3>2. /\ FirstRows(S) \in SUBSET S /\ Cardinality(FirstRows(S)) = FeedLimit
          /\ \A n \in FirstRows(S), m \in S \ FirstRows(S) : Before(n, m)
      BY <1>2, <2>2, <3>1
    <3>3. FirstRows(S) # {}
      BY <3>2, DocNumbers, FS_EmptySet
    <3>4. QED
      BY <3>2, <3>3
  <2>3. QED
    BY <2>1, <2>2
<1>3. Opening({}, 0)
  BY FS_EmptySet
<1>4. ASSUME NEW k \in 1 .. FeedLimit, NEW P, Opening(P, k - 1)
      PROVE  \E Q : Opening(Q, k)
  <2>1. S \ P # {} /\ S \ P \subseteq {n \in Ids : Exists(n)}
    <3>1. P # S
      BY <1>1, <1>2, <1>4, DocNumbers
    <3>2. QED
      BY <1>4, <3>1
  <2>2. PICK x \in S \ P : \A m \in (S \ P) \ {x} : Before(x, m)
    BY <2>1, FirstAndLastRow
  <2>3. PICK Q : Q = P \cup {x}
    OBVIOUS
  <2>4. IsFiniteSet(Q) /\ Cardinality(Q) = k
    <3>1. x \notin P /\ IsFiniteSet(P) /\ Cardinality(P) = k - 1 /\ k - 1 + 1 = k
      BY <1>4, <2>2
    <3>2. QED
      BY <2>3, <3>1, FS_AddElement
  <2>5. Q \in SUBSET S
    BY <1>4, <2>2, <2>3
  <2>6. \A n \in Q, m \in S \ Q : Before(n, m)
    BY <1>4, <2>2, <2>3
  <2>7. QED
    BY <2>4, <2>5, <2>6
<1>5. Bad = {}
  <2>1. SUFFICES ASSUME Bad # {} PROVE FALSE
    OBVIOUS
  <2>2. Bad \in SUBSET Nat
    BY DocNumbers
  <2>3. PICK k \in Bad : \A m \in Bad : k <= m
    BY <2>1, <2>2, LeastMember
  <2>4. k \in 0 .. FeedLimit /\ k # 0 /\ ~\E P : Opening(P, k)
    BY <1>3
  <2>5. k \in 1 .. FeedLimit /\ k - 1 \in 0 .. FeedLimit /\ ~(k <= k - 1)
    BY <2>4, DocNumbers
  <2>6. \E P : Opening(P, k - 1)
    BY <2>3, <2>5
  <2>7. QED
    BY <1>4, <2>4, <2>5, <2>6
<1>6. PICK P : Opening(P, FeedLimit)
  <2>1. FeedLimit \in 0 .. FeedLimit
    BY DocNumbers
  <2>2. QED
    BY <1>5, <2>1
<1>7. QED
  BY <1>6

----------------------------------------------------------------------------
(* What a write does to the tree.                                           *)

\* The rows that exist are those of the first identifiers.
LEMMA RowsAreFirst ==
  ASSUME DocTreeInv
  PROVE  /\ Top \in Nat /\ Top <= MaxNodes
         /\ \A n : Exists(n) <=> n \in 1 .. Top
<1> DEFINE E == {n \in Ids : Exists(n)}
<1>1. IsFiniteSet(E) /\ Top = Cardinality(E) /\ Top \in Nat
  BY DocNumbers, FS_Subset, FS_CardinalityType DEF Top
<1>2. IsFiniteSet(1 .. Top) /\ Cardinality(1 .. Top) = Top
  BY <1>1, FS_Interval
<1>3. E \in SUBSET (1 .. Top)
  BY <1>1, DocNumbers DEF DocTreeInv, Ids
<1>4. E = 1 .. Top
  BY <1>1, <1>2, <1>3, FS_Subset
<1>5. Top <= MaxNodes
  <2>1. Cardinality(Ids) = MaxNodes
    BY DocNumbers, FS_Interval DEF Ids
  <2>2. Cardinality(E) <= Cardinality(Ids)
    BY DocNumbers, FS_Subset
  <2>3. QED
    BY <1>1, <2>1, <2>2
<1>6. \A n : Exists(n) <=> n \in E
  BY DEF Exists
<1>7. QED
  BY <1>1, <1>4, <1>5, <1>6

\* A row is not the absence of one.
LEMMA NoRowIsNoNode == NoRow \notin Node
BY DEF NoRow, Node

\* A write of rows that exist leaves the tree as it is.
LEMMA RowsRewritten ==
  ASSUME DocTreeInv, docTx' \in 0 .. MaxDocTx, docTx <= docTx', roleRows' \subseteq DocRoles,
         crossed \subseteq crossed', nodes' \in [Ids -> Node \cup {NoRow}],
         \A n \in Ids : nodes[n] = NoRow => nodes'[n] = NoRow,
         \A n \in Ids : Exists(n) =>
           /\ nodes'[n] \in Node /\ nodes'[n].parent = nodes[n].parent
           /\ nodes'[n].at <= docTx' /\ nodes'[n].version >= 1
           /\ nodes[n].deleted => nodes'[n].deleted
  PROVE  TreeKeeps /\ Top' = Top
<1>1. \A n : Exists(n)' <=> Exists(n)
  BY NoRowIsNoNode DEF Exists
<1>2. Top' = Top
  BY <1>1 DEF Top
<1>3. DocTreeInv'
  BY <1>1, <1>2 DEF DocTreeInv
<1>4. QED
  BY <1>1, <1>2, <1>3, RowsAreFirst DEF TreeKeeps, Live

\* Nor does a write of new rows under rows that exist or are written with them.
LEMMA NodesAdded ==
  ASSUME DocTreeInv, docTx' = docTx, roleRows' = roleRows, crossed \subseteq crossed',
         NEW k \in Nat, Top + k <= MaxNodes, nodes' \in [Ids -> Node \cup {NoRow}],
         \A n \in Ids \ (Top + 1 .. Top + k) : nodes'[n] = nodes[n],
         \A n \in Top + 1 .. Top + k :
           /\ nodes'[n] \in Node /\ nodes'[n].at <= docTx /\ nodes'[n].version >= 1
           /\ nodes'[n].parent < n
           /\ nodes'[n].parent # Root => nodes'[n].parent \in 1 .. Top + k
  PROVE  TreeKeeps /\ Top' = Top + k
<1>1. Top \in Nat /\ Top <= MaxNodes /\ \A n : Exists(n) <=> n \in 1 .. Top
  BY RowsAreFirst
<1>2. \A n : Exists(n)' <=> n \in 1 .. Top + k
  <2>1. ASSUME NEW n PROVE n \in 1 .. Top + k <=> (n \in 1 .. Top \/ n \in Top + 1 .. Top + k)
    BY <1>1
  <2>2. \A n \in 1 .. Top + k : n \in Ids
    BY <1>1, DocNumbers DEF Ids
  <2>3. \A n \in Top + 1 .. Top + k : Exists(n)'
    BY <1>1, <2>2, NoRowIsNoNode DEF Exists
  <2>4. \A n \in Ids \ (Top + 1 .. Top + k) : Exists(n)' <=> Exists(n)
    BY DEF Exists
  <2>5. \A n : Exists(n)' => n \in Ids
    BY DEF Exists
  <2>6. QED
    BY <1>1, <2>1, <2>2, <2>3, <2>4, <2>5
<1>3. Top' = Top + k
  <2>1. {n \in Ids : Exists(n)}' = 1 .. Top + k
    <3>1. 1 .. Top + k \subseteq Ids
      BY <1>1, DocNumbers DEF Ids
    <3>2. QED
      BY <1>2, <3>1 DEF Ids
  <2>2. Top' = Cardinality(1 .. Top + k)
    BY <2>1 DEF Top, Ids
  <2>3. Top + k \in Nat
    BY <1>1
  <2>4. QED
    BY <2>2, <2>3, FS_Interval
<1>4. \A n \in 1 .. Top : nodes'[n] = nodes[n] /\ n \in Ids
  BY <1>1, DocNumbers DEF Ids
<1>5. DocTreeInv'
  <2>1. ASSUME NEW n \in Ids, Exists(n)'
        PROVE  /\ n <= Top' /\ nodes'[n].at <= docTx' /\ nodes'[n].version >= 1
               /\ nodes'[n].parent < n
               /\ nodes'[n].parent # Root => Exists(nodes[n].parent)'
    <3>1. n \in 1 .. Top \/ n \in Top + 1 .. Top + k
      BY <1>1, <1>2, <2>1
    <3>2. CASE n \in 1 .. Top
      <4>1. Exists(n) /\ nodes'[n] = nodes[n]
        BY <1>1, <1>4, <3>2
      <4>2. nodes'[n].parent # Root => nodes'[n].parent \in 1 .. Top
        BY <1>1, <4>1 DEF DocTreeInv
      <4>3. nodes'[n].parent # Root => nodes'[n].parent \in 1 .. Top + k
        BY <1>1, <4>2
      <4>4. n <= Top + k
        BY <1>1, <3>2
      <4>5. QED
        BY <1>2, <1>3, <4>1, <4>3, <4>4 DEF DocTreeInv
    <3>3. CASE n \in Top + 1 .. Top + k
      <4>1. n <= Top + k
        BY <1>1, <3>3
      <4>2. QED
        BY <1>2, <1>3, <3>3, <4>1
    <3>4. QED
      BY <3>1, <3>2, <3>3
  <2>2. QED
    BY <2>1 DEF DocTreeInv, Ids
<1>6. \A n \in Ids : Exists(n) =>
        Exists(n)' /\ nodes'[n].parent = nodes[n].parent /\ (Live(n)' => Live(n))
  <2>1. \A n \in 1 .. Top : n \in 1 .. Top + k
    BY <1>1
  <2>2. QED
    BY <1>1, <1>2, <1>4, <2>1 DEF Live
<1>7. \A n \in Ids : Exists(n)' => Exists(n) \/ n > Top
  BY <1>1, <1>2
<1>8. Top <= Top' /\ docTx <= docTx'
  BY <1>1, <1>3 DEF DocTreeInv
<1>9. QED
  BY <1>3, <1>5, <1>6, <1>7, <1>8 DEF TreeKeeps

----------------------------------------------------------------------------
(* What the requests in flight have read stays true enough until they write.*)

\* What each kind of request has read, as long as it is in flight.
CreateReqOK(r) ==
  /\ r.kind \in {"folder", "document"} /\ r.parent \in Nat
  /\ r.parent # Root => Exists(r.parent)
PatchReqOK(r) == Exists(r.node) /\ r.version \in Nat
VisibilityReqOK(r) ==
  /\ Exists(r.node) /\ r.mode \in Modes /\ r.rag \in BOOLEAN
  /\ r.roles \subseteq DocRoles /\ (r.mode = "inherit" => r.roles = {})
ReorderReqOK(r) == \A n \in r.ids : Exists(n)
LoadReqOK(r) ==
  /\ r.parent \in Nat /\ (r.parent # Root => Exists(r.parent))
  /\ Exists(r.node) /\ r.root \in Node /\ ~r.root.deleted
RolesReqOK(r) ==
  /\ r.parent \in Nat /\ (r.parent # Root => Exists(r.parent))
  /\ \A m \in DOMAIN r.source :
       /\ Exists(m) /\ r.source[m] \in Node /\ ~r.source[m].deleted
       /\ m # r.node => r.source[m].parent \in DOMAIN r.source /\ r.source[m].parent < m
CopyReqOK(r) ==
  /\ RolesReqOK(r)
  /\ \A m \in DOMAIN r.source :
       m \notin crossed /\ m \notin r.torn /\ r.source[m].mode = "inherit"
         => r.source[m].roles = {}
DeleteReqOK(r) ==
  /\ r.known \in Nat /\ r.known <= Top
  /\ \A n \in r.ids : Exists(n) /\ r.node \in Ancestors[n]
  /\ \A n \in Ids : Live(n) /\ n <= r.known /\ nodes[n].parent \in r.ids => n \in r.ids

\* A request has read what its operation reads, and began at a time given out.
DocReadsOK(r) ==
  /\ r.op \in {"create", "patch", "visibility", "reorder", "load", "roles", "copy", "delete"}
  /\ r.op = "create" => CreateReqOK(r)
  /\ r.op = "patch" => PatchReqOK(r)
  /\ r.op = "visibility" => VisibilityReqOK(r)
  /\ r.op = "reorder" => ReorderReqOK(r)
  /\ r.op = "load" => LoadReqOK(r)
  /\ r.op = "roles" => RolesReqOK(r)
  /\ r.op = "copy" => CopyReqOK(r)
  /\ r.op = "delete" => DeleteReqOK(r)

DocReqOK(r) == r = Idle \/ (r.start \in 1 .. docTx /\ DocReadsOK(r))

\* Every request in flight has.
DocRequestsInv ==
  /\ docReq = [w \in Writers |-> docReq[w]]
  /\ \A w \in Writers : DocReqOK(docReq[w])

\* The number of the last row is a number.
LEMMA TopIsNumber == DocTreeInv => Top \in Nat
BY RowsAreFirst

\* A delete that is in flight knows its subtree, but for nodes put there later.
LEMMA DeleteReqStays ==
  ASSUME DocTreeInv, TreeKeeps, NEW r, DeleteReqOK(r)
  PROVE  DeleteReqOK(r)'
<1>1. r.known \in Nat /\ r.known <= Top'
  <2>1. (Top \in Nat)'
    <3>1. DocTreeInv'
      BY DEF TreeKeeps
    <3>2. QED
      BY <3>1, TopIsNumber, PTL
  <2>2. QED
    BY <2>1, RowsAreFirst DEF DeleteReqOK, TreeKeeps
<1>2. ASSUME NEW n \in r.ids PROVE (Exists(n) /\ r.node \in Ancestors[n])'
  <2>1. n \in Ids /\ Exists(n) /\ r.node \in Ancestors[n]
    BY DEF DeleteReqOK, Exists
  <2>2. Ancestors'[n] = Ancestors[n]
    BY <2>1, AncestorsStay
  <2>3. QED
    BY <2>1, <2>2 DEF TreeKeeps
<1>3. ASSUME NEW n \in Ids, Live(n)', n <= r.known, nodes'[n].parent \in r.ids
      PROVE  n \in r.ids
  <2>1. Exists(n)
    <3>1. n \in Nat /\ r.known \in Nat /\ r.known <= Top /\ Top \in Nat
      BY DocNumbers, RowsAreFirst DEF DeleteReqOK
    <3>2. Exists(n) \/ n > Top
      BY <1>3 DEF Live, TreeKeeps
    <3>3. QED
      BY <1>3, <3>1, <3>2
  <2>2. Live(n) /\ nodes[n].parent = nodes'[n].parent
    BY <1>3, <2>1 DEF TreeKeeps
  <2>3. QED
    BY <1>3, <2>2 DEF DeleteReqOK
<1>4. QED
  BY <1>1, <1>2, <1>3 DEF DeleteReqOK, Ids

\* What a request has read survives every step that keeps the tree.
LEMMA DocReqStays ==
  ASSUME DocTreeInv, TreeKeeps, NEW r
  PROVE  (DocReadsOK(r) => DocReadsOK(r)') /\ (DocReqOK(r) => DocReqOK(r)')
<1>1. \A n : Exists(n) => Exists(n)'
  BY DEF TreeKeeps, Exists
<1>2. /\ docTx \in Nat /\ docTx' \in Nat /\ docTx <= docTx'
      /\ crossed \subseteq crossed'
  BY DocNumbers DEF TreeKeeps, DocTreeInv
<1>3. CreateReqOK(r) => CreateReqOK(r)'
  BY <1>1 DEF CreateReqOK
<1>4. PatchReqOK(r) => PatchReqOK(r)'
  BY <1>1 DEF PatchReqOK
<1>5. VisibilityReqOK(r) => VisibilityReqOK(r)'
  BY <1>1 DEF VisibilityReqOK
<1>6. ReorderReqOK(r) => ReorderReqOK(r)'
  BY <1>1 DEF ReorderReqOK
<1>7. /\ LoadReqOK(r) => LoadReqOK(r)'
      /\ RolesReqOK(r) => RolesReqOK(r)'
      /\ CopyReqOK(r) => CopyReqOK(r)'
  <2>1. LoadReqOK(r) => LoadReqOK(r)'
    BY <1>1 DEF LoadReqOK
  <2>2. RolesReqOK(r) => RolesReqOK(r)'
    BY <1>1 DEF RolesReqOK
  <2>3. QED
    BY <1>2, <2>1, <2>2 DEF CopyReqOK
<1>8. DeleteReqOK(r) => DeleteReqOK(r)'
  BY DeleteReqStays
<1>9. r.start \in 1 .. docTx => r.start \in 1 .. docTx'
  BY <1>2
<1>10. DocReadsOK(r) => DocReadsOK(r)'
  BY <1>3, <1>4, <1>5, <1>6, <1>7, <1>8 DEF DocReadsOK
<1>11. QED
  BY <1>9, <1>10 DEF DocReqOK

\* Nothing but requests changes: the tree is as it was.
LEMMA TreeUntouched ==
  ASSUME DocTreeInv, UNCHANGED <<nodes, crossed>>, docTx' \in 0 .. MaxDocTx, docTx <= docTx',
         roleRows' \subseteq DocRoles
  PROVE  TreeKeeps /\ Top' = Top
<1>1. \A n \in Ids : Exists(n) => nodes[n] \in Node /\ nodes[n].at <= docTx' /\ nodes[n].version >= 1
  BY DocNumbers DEF DocTreeInv, Exists, Node
<1>2. nodes' \in [Ids -> Node \cup {NoRow}]
  BY DEF DocTreeInv
<1>3. QED
  BY <1>1, <1>2, RowsRewritten

\* What the requests of all writers become when one of them changes.
LEMMA DocRequestsStep ==
  ASSUME DocTreeInv, TreeKeeps, DocRequestsInv, NEW w \in Writers, NEW r,
         docReq' = [docReq EXCEPT ![w] = r], DocReqOK(r)'
  PROVE  DocRequestsInv'
<1>1. ASSUME NEW v \in Writers PROVE DocReqOK(docReq[v])'
  <2>1. PICK q : q = docReq'[v]
    OBVIOUS
  <2>2. q = IF v = w THEN r ELSE docReq[v]
    BY <2>1 DEF DocRequestsInv
  <2>3. DocReqOK(q)'
    <3>1. CASE v = w
      BY <2>2, <3>1
    <3>2. CASE v # w
      BY <2>2, <3>2, DocReqStays DEF DocRequestsInv
    <3>3. QED
      BY <3>1, <3>2
  <2>4. QED
    BY <2>1, <2>3
<1>2. docReq' = [v \in Writers |-> docReq'[v]]
  BY DEF DocRequestsInv
<1>3. QED
  BY <1>1, <1>2 DEF DocRequestsInv

\* So do all of them when none of them moves.
LEMMA DocRequestsKept ==
  ASSUME DocTreeInv, TreeKeeps, DocRequestsInv, UNCHANGED docReq
  PROVE  DocRequestsInv'
<1>1. \A v \in Writers : DocReqOK(docReq[v])'
  <2>1. SUFFICES ASSUME NEW v \in Writers PROVE DocReqOK(docReq[v])'
    OBVIOUS
  <2>2. PICK q : q = docReq[v]
    OBVIOUS
  <2>3. DocReqOK(q)'
    BY <2>2, DocReqStays DEF DocRequestsInv
  <2>4. QED
    BY <2>2, <2>3
<1>2. QED
  BY <1>1 DEF DocRequestsInv

\* The way up over live rows is part of the way up, and it is live.
LEMMA LiveChainIsUp ==
  ASSUME DocTreeInv, NEW n \in Ids
  PROVE  /\ LiveChain[n] \subseteq Ancestors[n] /\ \A a \in LiveChain[n] : Live(a)
         /\ Live(n) => n \in LiveChain[n]
<1>1. AncestorsEq /\ LiveChainEq
  BY AncestorsUnfold, LiveChainUnfold
<1> DEFINE Good(m) == LiveChain[m] \subseteq Ancestors[m] /\ \A a \in LiveChain[m] : Live(a)
           B == {m \in Ids : Exists(m) /\ ~Good(m)}
<1>2. \A m \in Ids : ~Live(m) => Good(m)
  BY <1>1 DEF LiveChainEq
<1>3. \A m \in B : nodes[m].parent # Root /\ nodes[m].parent \in B
  <2>1. SUFFICES ASSUME NEW m \in Ids, Live(m), ~Good(m)
                 PROVE  nodes[m].parent # Root /\ nodes[m].parent \in B
    BY <1>2
  <2>2. LiveChain[m] = {m} \cup IF nodes[m].parent = Root THEN {} ELSE LiveChain[nodes[m].parent]
    BY <1>1, <2>1 DEF LiveChainEq
  <2>3. Ancestors[m] = {m} \cup IF nodes[m].parent = Root THEN {} ELSE Ancestors[nodes[m].parent]
    BY <1>1, <2>1 DEF AncestorsEq, Live
  <2>4. nodes[m].parent # Root /\ ~Good(nodes[m].parent)
    BY <2>1, <2>2, <2>3
  <2>5. Exists(nodes[m].parent) /\ nodes[m].parent \in Ids
    BY <2>1, <2>4 DEF DocTreeInv, Exists, Live
  <2>6. QED
    BY <2>4, <2>5
<1>4. B \subseteq {m \in Ids : Exists(m)}
  OBVIOUS
<1>5. B = {}
  <2> HIDE DEF B
  <2>1. QED
    BY <1>3, <1>4, NoBadNode
<1>6. Good(n)
  BY <1>2, <1>5 DEF Live
<1>7. QED
  BY <1>1, <1>6 DEF LiveChainEq

\* The subtree under a node: it, and with a folder every live row in it.
LEMMA SubtreeIsClosed ==
  ASSUME DocTreeInv, NEW r \in Ids
  PROVE  /\ \A n \in subtree_ids(r) : Live(n) /\ r \in Ancestors[n]
         /\ \A n \in subtree_ids(r) :
              n # r => nodes[n].parent \in subtree_ids(r) /\ nodes[n].parent < n
         /\ \A n \in Ids : Live(n) /\ nodes[n].parent \in subtree_ids(r) => n \in subtree_ids(r)
<1>1. LiveChainEq
  BY LiveChainUnfold
<1>2. \A n \in subtree_ids(r) : n \in Ids /\ Live(n) /\ r \in LiveChain[n] /\ r \in Ancestors[n]
  BY LiveChainIsUp DEF subtree_ids
<1>3. ASSUME NEW n \in subtree_ids(r), n # r
      PROVE  nodes[n].parent \in subtree_ids(r) /\ nodes[n].parent < n
  <2>1. nodes[n].parent # Root /\ r \in LiveChain[nodes[n].parent]
    BY <1>1, <1>2, <1>3 DEF LiveChainEq
  <2>2. nodes[n].parent \in Ids /\ nodes[n].parent < n
    BY <1>2, <2>1 DEF DocTreeInv, Live, Exists
  <2>3. Live(nodes[n].parent)
    BY <1>1, <2>1, <2>2 DEF LiveChainEq
  <2>4. QED
    BY <2>1, <2>2, <2>3 DEF subtree_ids
<1>4. ASSUME NEW n \in Ids, Live(n), nodes[n].parent \in subtree_ids(r)
      PROVE  n \in subtree_ids(r)
  <2>1. nodes[n].parent \in Ids
    BY <1>4 DEF subtree_ids
  <2>2. nodes[n].parent # Root
    BY <2>1, DocNumbers
  <2>3. r \in LiveChain[nodes[n].parent]
    BY <1>2, <1>4
  <2>4. LiveChain[n] = {n} \cup LiveChain[nodes[n].parent]
    BY <1>1, <1>4, <2>2 DEF LiveChainEq
  <2>5. QED
    BY <1>4, <2>3, <2>4 DEF subtree_ids
<1>5. QED
  BY <1>2, <1>3, <1>4

\* Every request that begins has read rows that exist.
LEMMA DocBeginReads ==
  ASSUME DocTreeInv, RolesOnlyWhenRestricted, NEW w \in Writers
  PROVE  BeginCreate(w) \/ BeginPatch(w) \/ BeginSetVisibility(w) \/ BeginReorder(w)
           \/ BeginCopy(w) \/ BeginDelete(w)
         => CanBegin(w) /\ \E r : r.start = Start /\ DocReadsOK(r) /\ Begin(w, r)
<1>1. ASSUME BeginCreate(w)
      PROVE  CanBegin(w) /\ \E r : r.start = Start /\ DocReadsOK(r) /\ Begin(w, r)
  <2>1. PICK p \in 0 .. MaxNodes, kind \in {"folder", "document"}, scope \in Scopes :
          /\ ParentAllowed(p, scope)
          /\ Begin(w, [op |-> "create", start |-> Start, parent |-> p, kind |-> kind])
    BY <1>1 DEF BeginCreate
  <2>2. PICK r : r = [op |-> "create", start |-> Start, parent |-> p, kind |-> kind]
    OBVIOUS
  <2>3. p \in Nat /\ (p # Root => Exists(p))
    BY <2>1, DocNumbers DEF ParentAllowed, Visible, Live
  <2>4. DocReadsOK(r)
    BY <2>2, <2>3 DEF DocReadsOK, CreateReqOK
  <2>5. r.start = Start /\ Begin(w, r)
    BY <2>1, <2>2
  <2>6. QED
    BY <1>1, <2>4, <2>5 DEF BeginCreate
<1>2. ASSUME BeginPatch(w)
      PROVE  CanBegin(w) /\ \E r : r.start = Start /\ DocReadsOK(r) /\ Begin(w, r)
  <2>1. PICK n \in Ids, scope \in Scopes, field \in {"name", "content_md", "none"} :
          /\ Visible(n, scope)
          /\ Begin(w, [op |-> "patch", start |-> Start, node |-> n, field |-> field,
                       version |-> nodes[n].version])
    BY <1>2 DEF BeginPatch
  <2>2. PICK r : r = [op |-> "patch", start |-> Start, node |-> n, field |-> field,
                       version |-> nodes[n].version]
    OBVIOUS
  <2>3. Exists(n) /\ nodes[n].version \in Nat
    BY <2>1 DEF Visible, Live, Exists, DocTreeInv, Node
  <2>4. DocReadsOK(r)
    BY <2>2, <2>3 DEF DocReadsOK, PatchReqOK
  <2>5. r.start = Start /\ Begin(w, r)
    BY <2>1, <2>2
  <2>6. QED
    BY <1>2, <2>4, <2>5 DEF BeginPatch
<1>3. ASSUME BeginSetVisibility(w)
      PROVE  CanBegin(w) /\ \E r : r.start = Start /\ DocReadsOK(r) /\ Begin(w, r)
  <2>1. PICK n \in Ids, scope \in Scopes, mode \in Modes, rag \in BOOLEAN :
          \E roles \in IF mode = "restricted" THEN SUBSET roleRows ELSE {{}} :
            /\ Visible(n, scope)
            /\ Begin(w, [op |-> "visibility", start |-> Start, node |-> n, mode |-> mode, rag |-> rag,
                         roles |-> roles,
                         loaded |-> [mode |-> nodes[n].mode, rag |-> nodes[n].rag],
                         removed |-> nodes[n].roles])
    BY <1>3 DEF BeginSetVisibility
  <2>2. PICK roles \in IF mode = "restricted" THEN SUBSET roleRows ELSE {{}} :
            /\ Visible(n, scope)
            /\ Begin(w, [op |-> "visibility", start |-> Start, node |-> n, mode |-> mode, rag |-> rag,
                         roles |-> roles,
                         loaded |-> [mode |-> nodes[n].mode, rag |-> nodes[n].rag],
                         removed |-> nodes[n].roles])
    BY <2>1
  <2>3. PICK r : r = [op |-> "visibility", start |-> Start, node |-> n, mode |-> mode, rag |-> rag,
                      roles |-> roles, loaded |-> [mode |-> nodes[n].mode, rag |-> nodes[n].rag],
                      removed |-> nodes[n].roles]
    OBVIOUS
  <2>4. Exists(n)
    BY <2>2 DEF Visible, Live
  <2>5. roles \subseteq DocRoles /\ (mode = "inherit" => roles = {})
    BY DEF DocTreeInv
  <2>6. DocReadsOK(r)
    BY <2>3, <2>4, <2>5 DEF DocReadsOK, VisibilityReqOK
  <2>7. r.start = Start /\ Begin(w, r)
    BY <2>2, <2>3
  <2>8. QED
    BY <1>3, <2>6, <2>7 DEF BeginSetVisibility
<1>4. ASSUME BeginReorder(w)
      PROVE  CanBegin(w) /\ \E r : r.start = Start /\ DocReadsOK(r) /\ Begin(w, r)
  <2>1. PICK p \in 0 .. MaxNodes, scope \in Scopes :
          Begin(w, [op |-> "reorder", start |-> Start, ids |-> list_visible_children(scope, p)])
    BY <1>4 DEF BeginReorder
  <2>2. PICK r : r = [op |-> "reorder", start |-> Start, ids |-> list_visible_children(scope, p)]
    OBVIOUS
  <2>3. \A n \in list_visible_children(scope, p) : Exists(n)
    BY DEF list_visible_children, list_visible_tree, Live
  <2>4. DocReadsOK(r)
    BY <2>2, <2>3 DEF DocReadsOK, ReorderReqOK
  <2>5. r.start = Start /\ Begin(w, r)
    BY <2>1, <2>2
  <2>6. QED
    BY <1>4, <2>4, <2>5 DEF BeginReorder
<1>5. ASSUME BeginCopy(w)
      PROVE  CanBegin(w) /\ \E r : r.start = Start /\ DocReadsOK(r) /\ Begin(w, r)
  <2>1. PICK n \in Ids, target \in 0 .. MaxNodes, scope \in Scopes :
          /\ Visible(n, scope) /\ ParentAllowed(target, scope)
          /\ Begin(w, [op |-> "load", start |-> Start, node |-> n, parent |-> target,
                       root |-> nodes[n]])
    BY <1>5 DEF BeginCopy
  <2>2. PICK r : r = [op |-> "load", start |-> Start, node |-> n, parent |-> target,
                       root |-> nodes[n]]
    OBVIOUS
  <2>3. target \in Nat /\ (target # Root => Exists(target))
    BY <2>1, DocNumbers DEF ParentAllowed, Visible, Live
  <2>4. Exists(n) /\ nodes[n] \in Node /\ ~nodes[n].deleted
    BY <2>1 DEF Visible, Live, Exists, DocTreeInv
  <2>5. LoadReqOK(r)
    BY <2>2, <2>3, <2>4 DEF LoadReqOK
  <2>6. DocReadsOK(r) /\ r.start = Start
    BY <2>2, <2>5 DEF DocReadsOK
  <2>7. Begin(w, r)
    BY <2>1, <2>2
  <2>8. QED
    BY <1>5, <2>6, <2>7 DEF BeginCopy
<1>6. ASSUME BeginDelete(w)
      PROVE  CanBegin(w) /\ \E r : r.start = Start /\ DocReadsOK(r) /\ Begin(w, r)
  <2>1. PICK n \in Ids : Begin(w, [op |-> "delete", start |-> Start, node |-> n,
                                   ids |-> subtree_ids(n), known |-> Top])
    BY <1>6 DEF BeginDelete
  <2>2. PICK r : r = [op |-> "delete", start |-> Start, node |-> n,
                      ids |-> subtree_ids(n), known |-> Top]
    OBVIOUS
  <2>3. DeleteReqOK(r)
    BY <2>2, SubtreeIsClosed, RowsAreFirst DEF DeleteReqOK, Live
  <2>4. DocReadsOK(r) /\ r.start = Start
    BY <2>2, <2>3 DEF DocReadsOK
  <2>5. Begin(w, r)
    BY <2>1, <2>2
  <2>6. QED
    BY <1>6, <2>4, <2>5 DEF BeginDelete
<1>7. QED
  BY <1>1, <1>2, <1>3, <1>4, <1>5, <1>6

----------------------------------------------------------------------------
(* The invariant of the documents.                                          *)

\* A live node that was not put under a folder while that was being deleted has
\* a live parent of which the same holds.
StrandedInv ==
  /\ \A n \in stranded : Exists(n)
  /\ \A n \in Ids \ stranded :
       Live(n) /\ nodes[n].parent # Root
         => Live(nodes[n].parent) /\ nodes[n].parent \notin stranded

\* The reader has heard of nodes that exist only, and its text is no newer than
\* the row.
VersionsInv ==
  /\ mirror \in [Ids -> Heard]
  /\ \A n \in Ids :
       /\ mirror[n].version > 0 \/ mirror[n].have > 0 => Exists(n)
       /\ n \notin overlapped /\ Exists(n) => mirror[n].have <= nodes[n].version
  /\ VersionNamesContent

\* Between two pages the cursor is not behind the watermark.
FeedInv ==
  /\ watermark \in 0 .. MaxDocTx /\ feedCursor \in (0 .. MaxDocTx) \X (0 .. MaxNodes)
  /\ feedCursor # NoCursor => watermark <= feedCursor[1]
  /\ FeedLosesNothing

\* The marks name identifiers.
MarksInv == stranded \cup crossed \cup overlapped \cup late \cup unannounced \subseteq Ids

\* The inductive invariant of the documents.
DocumentsInv ==
  /\ DocTreeInv /\ DocRequestsInv /\ MarksInv
  /\ StrandedInv /\ RolesOnlyWhenRestricted /\ VersionsInv /\ FeedInv

\* Where the reader will still come across a row written at this time.
Ahead(at, n) == IF feedCursor = NoCursor THEN at >= watermark ELSE ~Passed(at, n, feedCursor)

\* Times, versions and identifiers are numbers.
LEMMA DocNumbersAt ==
  ASSUME DocTreeInv, FeedInv
  PROVE  /\ watermark \in Nat /\ feedCursor[1] \in Nat /\ feedCursor[2] \in Nat
         /\ \A n \in Ids : n \in Nat
         /\ \A n \in Ids : Exists(n) => nodes[n].at \in Nat /\ nodes[n].version \in Nat
BY DocNumbers DEF FeedInv, DocTreeInv, Exists, Node

\* What a commit writes lies ahead of the reader, or is marked late.
LEMMA CommitAhead ==
  ASSUME DocTreeInv, FeedInv, NEW w \in Writers, NEW T, Committed(w, T),
         docReq[w].start \in Nat, NEW n \in Ids, n \notin late'
  PROVE  IF n \in T THEN Ahead(docReq[w].start, n) ELSE n \notin late
BY DocNumbersAt DEF Committed, Ahead

\* A write loses nothing if what it writes lies ahead and the rest is as it was.
LEMMA FeedAfterWrite ==
  ASSUME DocTreeInv, FeedInv, UNCHANGED <<mirror, watermark, feedCursor>>,
         \A n \in Ids \ late' : Exists(n)' =>
           \/ Ahead(nodes'[n].at, n)
           \/ /\ n \notin late /\ Exists(n) /\ nodes'[n].at = nodes[n].at
              /\ nodes'[n].version = nodes[n].version /\ nodes'[n].deleted = nodes[n].deleted
              /\ n \notin unannounced' =>
                   n \notin unannounced /\ (rag_excluded(n)' <=> rag_excluded(n))
  PROVE  FeedInv'
<1>1. FeedLosesNothing'
  <2>1. SUFFICES ASSUME NEW n \in Ids, n \notin late', n \notin unannounced', Exists(n)',
                        ~rag_excluded(n)'
                 PROVE  \/ mirror[n].version = nodes'[n].version /\ mirror[n].dead = nodes'[n].deleted
                        \/ Ahead(nodes'[n].at, n)
    BY DEF FeedLosesNothing, Ahead, Ids, NoCursor, Passed
  <2>2. CASE Ahead(nodes'[n].at, n)
    BY <2>2
  <2>3. CASE ~Ahead(nodes'[n].at, n)
    <3>1. /\ n \notin late /\ n \notin unannounced /\ Exists(n) /\ ~rag_excluded(n)
          /\ nodes'[n].at = nodes[n].at
          /\ nodes'[n].version = nodes[n].version /\ nodes'[n].deleted = nodes[n].deleted
      BY <2>1, <2>3
    <3>2. \/ mirror[n].version = nodes[n].version /\ mirror[n].dead = nodes[n].deleted
          \/ Ahead(nodes[n].at, n)
      BY <3>1 DEF FeedInv, FeedLosesNothing, Ahead
    <3>3. QED
      BY <3>1, <3>2
  <2>4. QED
    BY <2>2, <2>3
<1>2. QED
  BY <1>1 DEF FeedInv, NoCursor

\* A write keeps what the reader has if a text changes with the version only.
LEMMA VersionsAfterWrite ==
  ASSUME DocTreeInv, TreeKeeps, VersionsInv, UNCHANGED mirror, overlapped \subseteq overlapped',
         \A n \in Ids \ overlapped' : Exists(n) =>
           \/ nodes'[n].version = nodes[n].version /\ nodes'[n].text = nodes[n].text
           \/ nodes'[n].version = nodes[n].version + 1
  PROVE  VersionsInv'
<1>1. ASSUME NEW n \in Ids
      PROVE  /\ mirror[n] \in Heard /\ (Exists(n) => nodes[n].version \in Nat)
             /\ (Exists(n)' => nodes'[n].version \in Nat) /\ (Exists(n) => Exists(n)')
  BY DEF VersionsInv, DocTreeInv, TreeKeeps, Exists, Node
<1>2. ASSUME NEW n \in Ids
      PROVE  /\ mirror[n].version > 0 \/ mirror[n].have > 0 => Exists(n)'
             /\ n \notin overlapped' /\ Exists(n)' => mirror[n].have <= nodes'[n].version
             /\ n \notin overlapped' /\ mirror[n].have > 0
                  /\ mirror[n].have = nodes'[n].version => mirror[n].text = nodes'[n].text
  <2>1. mirror[n].have \in Nat /\ mirror[n].version \in Nat
    BY <1>1 DEF Heard
  <2>2. mirror[n].version > 0 \/ mirror[n].have > 0 => Exists(n)
    BY DEF VersionsInv
  <2>3. CASE n \notin overlapped' /\ Exists(n)
    <3>1. /\ mirror[n].have <= nodes[n].version
          /\ mirror[n].have > 0 /\ mirror[n].have = nodes[n].version
               => mirror[n].text = nodes[n].text
      BY <2>3 DEF VersionsInv, VersionNamesContent
    <3>2. CASE nodes'[n].version = nodes[n].version /\ nodes'[n].text = nodes[n].text
      BY <1>1, <2>2, <2>3, <3>1, <3>2
    <3>3. CASE nodes'[n].version = nodes[n].version + 1
      BY <1>1, <2>1, <2>2, <2>3, <3>1, <3>3
    <3>4. QED
      BY <2>3, <3>2, <3>3
  <2>4. CASE n \notin overlapped' /\ ~Exists(n)
    <3>1. mirror[n].have = 0
      BY <2>1, <2>2, <2>4
    <3>2. QED
      BY <1>1, <2>1, <2>2, <2>4, <3>1
  <2>5. CASE n \in overlapped'
    BY <1>1, <2>2, <2>5
  <2>6. QED
    BY <2>3, <2>4, <2>5
<1>3. mirror' \in [Ids -> Heard]
  BY DEF VersionsInv
<1>4. QED
  BY <1>2, <1>3 DEF VersionsInv, VersionNamesContent, Ids, Heard

\* A write that leaves parents and tombstones alone strands nobody.
LEMMA NobodyStranded ==
  ASSUME StrandedInv, UNCHANGED stranded, DocTreeInv, TreeKeeps,
         \A n \in Ids : (Live(n)' <=> Live(n)) /\ (Live(n) => nodes'[n].parent = nodes[n].parent)
  PROVE  StrandedInv'
<1>1. \A n \in Ids : n \notin stranded /\ Live(n)' /\ nodes'[n].parent # Root =>
        \A p : p = nodes'[n].parent => Live(p)' /\ p \notin stranded
  <2>1. ASSUME NEW n \in Ids, n \notin stranded, Live(n)', nodes'[n].parent # Root,
               NEW p, p = nodes'[n].parent
        PROVE  Live(p)' /\ p \notin stranded
    <3>1. p = nodes[n].parent /\ Live(n)
      BY <2>1
    <3>2. Live(p) /\ p \notin stranded /\ p \in Ids
      BY <2>1, <3>1 DEF StrandedInv, Live, Exists
    <3>3. QED
      BY <3>2
  <2>2. QED
    BY <2>1
<1>2. \A n \in stranded : Exists(n)'
  BY DEF StrandedInv, TreeKeeps, Exists
<1>3. QED
  BY <1>1, <1>2 DEF StrandedInv, Live, Ids, Root

----------------------------------------------------------------------------
(* Each step keeps it.                                                      *)

\* The exclusion of a node changes with a flag on the way up only.
LEMMA ExclusionStays ==
  ASSUME DocTreeInv, TreeKeeps, NEW n \in Ids, Exists(n),
         \A a \in Ancestors[n] : nodes'[a].rag = nodes[a].rag
  PROVE  rag_excluded(n)' <=> rag_excluded(n)
BY AncestorsStay DEF rag_excluded

\* A step that changes requests only.
LEMMA DocQuietStep ==
  ASSUME DocumentsInv, TreeKeeps, DocRequestsInv',
         UNCHANGED <<nodes, mirror, watermark, feedCursor, stranded, crossed, overlapped, late,
                     unannounced>>
  PROVE  DocumentsInv'
<1> USE DEF DocumentsInv
<1>1. DocTreeInv' /\ MarksInv' /\ RolesOnlyWhenRestricted'
  BY DEF TreeKeeps, MarksInv, RolesOnlyWhenRestricted, Exists, Ids
<1>2. StrandedInv'
  BY NobodyStranded DEF Live, Exists
<1>3. VersionsInv'
  BY VersionsAfterWrite
<1>4. FeedInv'
  <2>1. \A n \in Ids : Exists(n)' => Exists(n) /\ (rag_excluded(n)' <=> rag_excluded(n))
    BY ExclusionStays DEF Exists
  <2>2. QED
    BY <2>1, FeedAfterWrite
<1>5. QED
  BY <1>1, <1>2, <1>3, <1>4

\* So does the first half of a request.
LEMMA DocBeginStep ==
  ASSUME DocumentsInv, NEW w \in Writers, CanBegin(w), NEW r, r.start = Start, DocReadsOK(r),
         Begin(w, r)
  PROVE  DocumentsInv'
<1> USE DEF DocumentsInv
<1>1. docTx' = docTx + 1 /\ docTx' \in 0 .. MaxDocTx /\ docTx <= docTx' /\ r.start \in 1 .. docTx'
  BY DocNumbers DEF CanBegin, Begin, Start, DocTreeInv
<1>2. TreeKeeps
  BY <1>1, TreeUntouched DEF Begin, DocTreeInv
<1>3. DocReqOK(r)'
  BY <1>1, <1>2, DocReqStays DEF DocReqOK
<1>4. DocRequestsInv'
  BY <1>2, <1>3, DocRequestsStep DEF Begin
<1>5. QED
  BY <1>2, <1>4, DocQuietStep DEF Begin

\* A request that ends leaves the others as they are.
LEMMA DocRequestEnds ==
  ASSUME DocTreeInv, TreeKeeps, DocRequestsInv, NEW w \in Writers,
         docReq' = [docReq EXCEPT ![w] = Idle]
  PROVE  DocRequestsInv'
<1>1. PICK r : r = Idle
  OBVIOUS
<1>2. DocReqOK(r)'
  BY <1>1 DEF DocReqOK, Idle
<1>3. QED
  BY <1>1, <1>2, DocRequestsStep

\* A refusal, an error or a restart keeps the invariant.
LEMMA AbortDocumentStep ==
  ASSUME DocumentsInv, NEW w \in Writers, AbortDocument(w)
  PROVE  DocumentsInv'
<1> USE DEF DocumentsInv
<1>1. TreeKeeps
  <2>1. UNCHANGED <<nodes, crossed, docTx, roleRows>>
    BY DEF AbortDocument
  <2>2. docTx \in 0 .. MaxDocTx /\ roleRows \subseteq DocRoles /\ docTx <= docTx
    BY DocNumbers DEF DocTreeInv
  <2>3. QED
    BY <2>1, <2>2, TreeUntouched
<1>2. DocRequestsInv'
  BY <1>1, DocRequestEnds DEF AbortDocument
<1>3. QED
  BY <1>1, <1>2, DocQuietStep DEF AbortDocument

\* Deleting a role, with the role rows that name it, keeps the invariant.
LEMMA DeleteDocRoleStep ==
  ASSUME DocumentsInv, NEW x \in DocRoles, DeleteDocRole(x)
  PROVE  DocumentsInv'
<1> USE DEF DocumentsInv
<1> DEFINE touched == {n \in Ids : Exists(n) /\ x \in nodes[n].roles}
<1>1. /\ roleRows' = roleRows \ {x}
      /\ nodes' = [n \in Ids |-> IF n \in touched THEN [nodes[n] EXCEPT !.roles = @ \ {x}]
                                 ELSE nodes[n]]
      /\ unannounced' = unannounced \cup UNION {Below(n) : n \in touched}
      /\ UNCHANGED <<docReq, docTx, mirror, watermark, feedCursor, stranded, crossed,
                     overlapped, late>>
  BY DEF DeleteDocRole
<1>2. \A n \in Ids : Exists(n) =>
        /\ nodes[n] \in Node /\ nodes'[n] \in Node
        /\ nodes'[n].kind = nodes[n].kind /\ nodes'[n].parent = nodes[n].parent
        /\ nodes'[n].mode = nodes[n].mode /\ nodes'[n].roles \subseteq nodes[n].roles
        /\ nodes'[n].rag = nodes[n].rag /\ nodes'[n].version = nodes[n].version
        /\ nodes'[n].text = nodes[n].text /\ nodes'[n].deleted = nodes[n].deleted
        /\ nodes'[n].at = nodes[n].at
  <2>1. SUFFICES ASSUME NEW n \in Ids, Exists(n)
                 PROVE  /\ nodes[n] \in Node /\ nodes'[n] \in Node
                        /\ nodes'[n].kind = nodes[n].kind /\ nodes'[n].parent = nodes[n].parent
                        /\ nodes'[n].mode = nodes[n].mode /\ nodes'[n].roles \subseteq nodes[n].roles
                        /\ nodes'[n].rag = nodes[n].rag /\ nodes'[n].version = nodes[n].version
                        /\ nodes'[n].text = nodes[n].text /\ nodes'[n].deleted = nodes[n].deleted
                        /\ nodes'[n].at = nodes[n].at
    OBVIOUS
  <2>2. nodes[n] \in Node
    BY <2>1 DEF DocTreeInv, Exists
  <2>3. nodes'[n] = [nodes[n] EXCEPT !.roles = @ \ {x}] \/ nodes'[n] = nodes[n]
    BY <1>1
  <2>4. CASE nodes'[n] = [nodes[n] EXCEPT !.roles = @ \ {x}]
    BY <2>2, <2>4 DEF Node, NodeRoles
  <2>5. CASE nodes'[n] = nodes[n]
    BY <2>2, <2>5
  <2>6. QED
    BY <2>3, <2>4, <2>5
<1>3. \A n \in Ids : ~Exists(n) => nodes'[n] = NoRow
  BY <1>1 DEF Exists
<1>4. TreeKeeps
  <2>1. nodes' \in [Ids -> Node \cup {NoRow}]
    BY <1>1, <1>2, <1>3
  <2>2. \A n \in Ids : nodes[n] = NoRow => nodes'[n] = NoRow
    BY <1>3 DEF Exists
  <2>3. docTx' = docTx /\ docTx <= docTx /\ roleRows' \subseteq DocRoles
    BY <1>1, DocNumbers DEF DocTreeInv
  <2>4. \A n \in Ids : Exists(n) => nodes[n].at <= docTx /\ nodes[n].version >= 1
    BY DEF DocTreeInv
  <2>5. docTx \in 0 .. MaxDocTx /\ crossed \subseteq crossed'
    BY <1>1 DEF DocTreeInv
  <2> HIDE DEF touched
  <2>6. QED
    BY <1>2, <2>1, <2>2, <2>3, <2>4, <2>5, RowsRewritten
<1> HIDE DEF touched
<1>5. \A n \in Ids : (Exists(n)' <=> Exists(n)) /\ (Live(n)' <=> Live(n))
  <2>1. \A n \in Ids : Exists(n)' <=> Exists(n)
    BY <1>3, <1>4 DEF TreeKeeps, Exists
  <2>2. QED
    BY <1>2, <2>1 DEF Live
<1>6. DocRequestsInv'
  BY <1>1, <1>4, DocRequestsKept
<1>7. MarksInv'
  <2>1. \A n \in touched : Below(n) \subseteq Ids
    BY DEF Below
  <2>2. QED
    BY <1>1, <2>1 DEF MarksInv, Ids
<1>8. StrandedInv'
  BY <1>1, <1>2, <1>4, <1>5, NobodyStranded DEF Live
<1>9. RolesOnlyWhenRestricted'
  BY <1>1, <1>2, <1>5 DEF RolesOnlyWhenRestricted, Ids
<1>10. VersionsInv'
  BY <1>1, <1>2, <1>4, VersionsAfterWrite
<1>11. FeedInv'
  <2>1. ASSUME NEW n \in Ids, Exists(n) PROVE rag_excluded(n)' <=> rag_excluded(n)
    <3>1. \A a \in Ancestors[n] : a \in Ids /\ Exists(a)
      BY <2>1, AncestorsExist DEF Exists
    <3>2. QED
      BY <1>2, <1>4, <2>1, <3>1, ExclusionStays
  <2>2. QED
    BY <1>1, <1>2, <1>5, <2>1, FeedAfterWrite
<1>12. QED
  BY <1>4, <1>6, <1>7, <1>8, <1>9, <1>10, <1>11 DEF TreeKeeps

\* The reader fetches a text: nothing it knows is lost.
LEMMA GetExternalStep ==
  ASSUME DocumentsInv, NEW n \in Ids, get_external(n)
  PROVE  DocumentsInv'
<1> USE DEF DocumentsInv
<1>1. /\ ~mirror[n].dead /\ mirror[n].version # mirror[n].have
      /\ mirror' = [mirror EXCEPT ![n] =
           IF nodes[n].deleted THEN [@ EXCEPT !.dead = TRUE]
           ELSE [@ EXCEPT !.version = nodes[n].version, !.have = nodes[n].version,
                          !.text = nodes[n].text]]
      /\ UNCHANGED <<nodes, docReq, docTx, roleRows, watermark, feedCursor, stranded, crossed,
                     overlapped, late, unannounced>>
  BY DEF get_external
<1>2. mirror[n] \in Heard /\ Exists(n) /\ nodes[n] \in Node /\ nodes[n].version \in Nat
  <2>1. mirror[n] \in Heard
    BY DEF VersionsInv
  <2>2. mirror[n].version > 0 \/ mirror[n].have > 0
    BY <1>1, <2>1 DEF Heard
  <2>3. Exists(n)
    BY <2>2 DEF VersionsInv
  <2>4. QED
    BY <2>1, <2>3 DEF DocTreeInv, Exists, Node
<1>3. /\ mirror' \in [Ids -> Heard]
      /\ \A m \in Ids : m # n => mirror'[m] = mirror[m]
      /\ nodes[n].deleted => /\ mirror'[n].version = mirror[n].version /\ mirror'[n].dead = TRUE
                             /\ mirror'[n].have = mirror[n].have /\ mirror'[n].text = mirror[n].text
      /\ ~nodes[n].deleted =>
           /\ mirror'[n].version = nodes[n].version /\ mirror'[n].dead = FALSE
           /\ mirror'[n].have = nodes[n].version /\ mirror'[n].text = nodes[n].text
  <2>1. mirror \in [Ids -> Heard]
    BY DEF VersionsInv
  <2>2. CASE nodes[n].deleted
    <3>1. PICK h : h = [mirror[n] EXCEPT !.dead = TRUE]
      OBVIOUS
    <3>2. h \in Heard /\ h.version = mirror[n].version /\ h.dead = TRUE /\ h.have = mirror[n].have
          /\ h.text = mirror[n].text
      BY <1>2, <3>1 DEF Heard
    <3>3. mirror' = [mirror EXCEPT ![n] = h]
      BY <1>1, <2>2, <3>1
    <3>4. QED
      BY <2>1, <2>2, <3>2, <3>3
  <2>3. CASE ~nodes[n].deleted
    <3>1. PICK h : h = [mirror[n] EXCEPT !.version = nodes[n].version, !.have = nodes[n].version,
                                         !.text = nodes[n].text]
      OBVIOUS
    <3>2. /\ h \in Heard /\ h.version = nodes[n].version /\ h.dead = FALSE
          /\ h.have = nodes[n].version /\ h.text = nodes[n].text
      BY <1>1, <1>2, <3>1 DEF Heard, Node
    <3>3. mirror' = [mirror EXCEPT ![n] = h]
      BY <1>1, <2>3, <3>1
    <3>4. QED
      BY <2>1, <2>3, <3>2, <3>3
  <2>4. QED
    BY <2>2, <2>3
<1>4. TreeKeeps
  <2>1. docTx \in 0 .. MaxDocTx /\ roleRows \subseteq DocRoles /\ docTx <= docTx
    BY DocNumbers DEF DocTreeInv
  <2>2. QED
    BY <1>1, <2>1, TreeUntouched
<1>5. DocRequestsInv' /\ MarksInv' /\ RolesOnlyWhenRestricted' /\ StrandedInv'
  <2>1. DocRequestsInv'
    BY <1>1, <1>4, DocRequestsKept
  <2>2. MarksInv' /\ RolesOnlyWhenRestricted'
    BY <1>1 DEF MarksInv, RolesOnlyWhenRestricted, Exists, Ids
  <2>3. QED
    BY <1>1, <1>4, <2>1, <2>2, NobodyStranded DEF Live, Exists
<1>6. VersionsInv'
  <2>1. \A m \in Ids : Exists(m)' <=> Exists(m)
    BY <1>1 DEF Exists
  <2>2. ASSUME NEW m \in Ids
        PROVE  /\ mirror'[m].version > 0 \/ mirror'[m].have > 0 => Exists(m)
               /\ m \notin overlapped /\ Exists(m) => mirror'[m].have <= nodes[m].version
               /\ m \notin overlapped /\ mirror'[m].have > 0 /\ mirror'[m].have = nodes[m].version
                    => mirror'[m].text = nodes[m].text
    <3>1. CASE m = n
      <4>1. CASE nodes[n].deleted
        BY <1>2, <1>3, <3>1, <4>1 DEF VersionsInv, VersionNamesContent
      <4>2. CASE ~nodes[n].deleted
        BY <1>2, <1>3, <3>1, <4>2
      <4>3. QED
        BY <4>1, <4>2
    <3>2. CASE m # n
      BY <1>3, <3>2 DEF VersionsInv, VersionNamesContent
    <3>3. QED
      BY <3>1, <3>2
  <2>3. QED
    BY <1>1, <1>3, <2>1, <2>2 DEF VersionsInv, VersionNamesContent, Ids, Heard
<1>7. FeedInv'
  <2>1. \A m \in Ids : Exists(m) => (rag_excluded(m)' <=> rag_excluded(m))
    BY <1>1, <1>4, ExclusionStays
  <2>2. SUFFICES ASSUME NEW m \in Ids, m \notin late, m \notin unannounced, Exists(m),
                        ~rag_excluded(m)'
                 PROVE  \/ mirror'[m].version = nodes[m].version /\ mirror'[m].dead = nodes[m].deleted
                        \/ Ahead(nodes[m].at, m)
    BY <1>1 DEF FeedInv, FeedLosesNothing, Ahead, Ids, NoCursor, Passed, Exists
  <2>3. \/ mirror[m].version = nodes[m].version /\ mirror[m].dead = nodes[m].deleted
        \/ Ahead(nodes[m].at, m)
    BY <2>1, <2>2 DEF FeedInv, FeedLosesNothing, Ahead
  <2>4. CASE m = n /\ nodes[n].deleted
    BY <1>1, <1>3, <2>3, <2>4
  <2>5. CASE m = n /\ ~nodes[n].deleted
    BY <1>2, <1>3, <2>5 DEF Node
  <2>6. CASE m # n
    BY <1>3, <2>3, <2>6
  <2>7. QED
    BY <2>4, <2>5, <2>6
<1>8. QED
  BY <1>4, <1>5, <1>6, <1>7 DEF TreeKeeps

\* The reader takes a page: what it did not know of a node was on the page, or is
\* behind it.
LEMMA ReadChangesStep ==
  ASSUME DocumentsInv, ReadChanges
  PROVE  DocumentsInv'
<1> USE DEF DocumentsInv
<1>1. PICK rows : rows = AfterCursor(watermark, feedCursor)
  OBVIOUS
<1>2. PICK page : page = FirstRows(rows)
  OBVIOUS
<1>3. PICK next : next = IF rows # page THEN <<nodes[LastRow(page)].at, LastRow(page)>> ELSE NoCursor
  OBVIOUS
<1>4. PICK end : end = IF page # {} THEN nodes[LastRow(page)].at
                       ELSE IF feedCursor # NoCursor THEN feedCursor[1] ELSE watermark
  OBVIOUS
<1>5. PICK items : items = {n \in page : ~rag_excluded(n)}
  OBVIOUS
<1>6. /\ mirror' = [n \in Ids |->
                      IF n \in items
                      THEN [mirror[n] EXCEPT !.version = nodes[n].version,
                                             !.dead = nodes[n].deleted]
                      ELSE mirror[n]]
      /\ feedCursor' = next
      /\ watermark' = IF next = NoCursor THEN end ELSE watermark
      /\ UNCHANGED <<nodes, docReq, docTx, roleRows, stranded, crossed, overlapped, late,
                     unannounced>>
  <2>1. PICK list : list = list_external(watermark, feedCursor)
    OBVIOUS
  <2>2. list.items = items /\ list.next = next /\ list.end = end
    BY <1>1, <1>2, <1>3, <1>4, <1>5, <2>1 DEF list_external
  <2>3. /\ mirror' = [n \in Ids |->
                      IF n \in list.items
                      THEN [mirror[n] EXCEPT !.version = nodes[n].version,
                                             !.dead = nodes[n].deleted]
                      ELSE mirror[n]]
        /\ feedCursor' = list.next
        /\ watermark' = IF list.next = NoCursor THEN list.end ELSE watermark
        /\ UNCHANGED <<nodes, docReq, docTx, roleRows, stranded, crossed, overlapped, late,
                     unannounced>>
    BY <2>1 DEF ReadChanges
  <2>4. QED
    BY <2>2, <2>3
<1>7. /\ rows = {n \in Ids : Exists(n) /\ nodes[n].at >= watermark
                   /\ (feedCursor # NoCursor => ~Passed(nodes[n].at, n, feedCursor))}
      /\ rows \subseteq {n \in Ids : Exists(n)}
  BY <1>1 DEF AfterCursor
<1>8. /\ page \subseteq rows
      /\ page # rows => page # {} /\ \A n \in page, m \in rows \ page : Before(n, m)
  BY <1>2, <1>7, PageIsFirst
<1>9. page # {} => LastRow(page) \in page /\ \A m \in page \ {LastRow(page)} : Before(m, LastRow(page))
  BY <1>7, <1>8, FirstAndLastRow DEF LastRow
<1>10. \A n \in Ids : Exists(n) => nodes[n] \in Node /\ nodes[n].version \in Nat
  BY DEF DocTreeInv, Exists, Node
<1>11. /\ mirror' \in [Ids -> Heard]
       /\ \A n \in Ids : /\ mirror'[n].have = mirror[n].have /\ mirror'[n].text = mirror[n].text
                         /\ n \notin items => mirror'[n] = mirror[n]
                         /\ n \in items => /\ mirror'[n].version = nodes[n].version
                                           /\ mirror'[n].dead = nodes[n].deleted /\ Exists(n)
  <2>1. ASSUME NEW n \in Ids
        PROVE  /\ mirror'[n] \in Heard
               /\ mirror'[n].have = mirror[n].have /\ mirror'[n].text = mirror[n].text
               /\ n \notin items => mirror'[n] = mirror[n]
               /\ n \in items => /\ mirror'[n].version = nodes[n].version
                                 /\ mirror'[n].dead = nodes[n].deleted /\ Exists(n)
    <3>1. mirror[n] \in Heard
      BY DEF VersionsInv
    <3>2. CASE n \in items
      <4>1. Exists(n) /\ nodes[n] \in Node /\ nodes[n].version \in Nat /\ nodes[n].deleted \in BOOLEAN
        BY <1>5, <1>7, <1>8, <1>10, <3>2 DEF Node
      <4>2. mirror'[n] = [mirror[n] EXCEPT !.version = nodes[n].version, !.dead = nodes[n].deleted]
        BY <1>6, <3>2
      <4>3. QED
        BY <3>1, <3>2, <4>1, <4>2 DEF Heard
    <3>3. CASE n \notin items
      BY <1>6, <3>1, <3>3
    <3>4. QED
      BY <3>2, <3>3
  <2>2. mirror' \in [Ids -> Heard]
    BY <1>6, <2>1
  <2>3. QED
    BY <2>1, <2>2
<1>12. TreeKeeps
  <2>1. docTx \in 0 .. MaxDocTx /\ roleRows \subseteq DocRoles /\ docTx <= docTx
    BY DocNumbers DEF DocTreeInv
  <2>2. QED
    BY <1>6, <2>1, TreeUntouched
<1>13. DocRequestsInv' /\ MarksInv' /\ RolesOnlyWhenRestricted' /\ StrandedInv'
  <2>1. DocRequestsInv'
    BY <1>6, <1>12, DocRequestsKept
  <2>2. MarksInv' /\ RolesOnlyWhenRestricted'
    BY <1>6 DEF MarksInv, RolesOnlyWhenRestricted, Exists, Ids
  <2>3. QED
    BY <1>6, <1>12, <2>1, <2>2, NobodyStranded DEF Live, Exists
<1>14. VersionsInv'
  <2>1. \A n \in Ids : Exists(n)' <=> Exists(n)
    BY <1>6 DEF Exists
  <2>2. ASSUME NEW n \in Ids PROVE mirror'[n].version > 0 \/ mirror'[n].have > 0 => Exists(n)
    BY <1>11 DEF VersionsInv
  <2>3. \A n \in Ids : n \notin overlapped /\ Exists(n) => mirror'[n].have <= nodes[n].version
    BY <1>11 DEF VersionsInv
  <2>4. \A n \in Ids : n \notin overlapped /\ mirror'[n].have > 0
           /\ mirror'[n].have = nodes[n].version => mirror'[n].text = nodes[n].text
    BY <1>11 DEF VersionsInv, VersionNamesContent
  <2>5. VersionNamesContent'
    BY <1>6, <2>1, <2>4 DEF VersionNamesContent, Ids
  <2>6. QED
    BY <1>6, <1>11, <2>1, <2>2, <2>3, <2>5 DEF VersionsInv, Ids, Heard
<1>15. ASSUME page # {}
       PROVE  /\ nodes[LastRow(page)].at \in 0 .. MaxDocTx /\ LastRow(page) \in Ids
              /\ watermark <= nodes[LastRow(page)].at
  <2>1. LastRow(page) \in rows /\ LastRow(page) \in Ids
    BY <1>7, <1>8, <1>9, <1>15
  <2>2. /\ Exists(LastRow(page)) /\ nodes[LastRow(page)].at >= watermark
        /\ nodes[LastRow(page)].at <= docTx
    BY <1>7, <2>1 DEF DocTreeInv
  <2>3. nodes[LastRow(page)].at \in Nat /\ watermark \in Nat
    BY <2>1, <2>2, DocNumbersAt
  <2>4. QED
    BY <2>1, <2>2, <2>3, DocNumbers DEF DocTreeInv
<1>16. /\ watermark' \in 0 .. MaxDocTx /\ feedCursor' \in (0 .. MaxDocTx) \X (0 .. MaxNodes)
       /\ feedCursor' # NoCursor => watermark' <= feedCursor'[1]
  <2>1. NoCursor \in (0 .. MaxDocTx) \X (0 .. MaxNodes)
    BY DocNumbers DEF NoCursor
  <2>2. CASE rows # page
    <3>1. page # {} /\ next = <<nodes[LastRow(page)].at, LastRow(page)>>
      BY <1>3, <1>8, <2>2
    <3>2. next # NoCursor
      BY <1>15, <3>1, DocNumbers DEF NoCursor, Ids
    <3>3. watermark' = watermark /\ feedCursor' = next
      BY <1>6, <3>2
    <3>4. next \in (0 .. MaxDocTx) \X (0 .. MaxNodes) /\ watermark <= next[1]
      BY <1>15, <3>1 DEF Ids
    <3>5. QED
      BY <3>3, <3>4 DEF FeedInv
  <2>3. CASE rows = page
    <3>1. feedCursor' = NoCursor /\ watermark' = end
      BY <1>3, <1>6, <2>3
    <3>2. end \in 0 .. MaxDocTx
      BY <1>4, <1>15 DEF FeedInv
    <3>3. QED
      BY <2>1, <3>1, <3>2 DEF NoCursor
  <2>4. QED
    BY <2>2, <2>3
<1>17. FeedLosesNothing'
  <2>1. \A m \in Ids : Exists(m) => (rag_excluded(m)' <=> rag_excluded(m))
    BY <1>6, <1>12, ExclusionStays
  <2>2. SUFFICES ASSUME NEW n \in Ids, n \notin late, n \notin unannounced, Exists(n),
                        ~rag_excluded(n),
                        ~(mirror'[n].version = nodes[n].version /\ mirror'[n].dead = nodes[n].deleted)
                 PROVE  /\ rows # page
                        /\ ~Passed(nodes[n].at, n, <<nodes[LastRow(page)].at, LastRow(page)>>)
    <3>1. rows # page => next = <<nodes[LastRow(page)].at, LastRow(page)>> /\ next # NoCursor
      <4>1. CASE rows # page
        BY <1>3, <1>8, <1>15, <4>1, DocNumbers DEF NoCursor, Ids
      <4>2. QED
        BY <4>1
    <3>2. \A n \in Ids : Exists(n)' <=> Exists(n)
      BY <1>6 DEF Exists
    <3>3. QED
      BY <1>6, <2>1, <2>2, <3>1, <3>2 DEF FeedLosesNothing, Ids, Passed, NoCursor
  <2>3. n \notin items /\ mirror'[n] = mirror[n]
    BY <1>11, <2>2
  <2>4. n \notin page
    BY <1>5, <2>2, <2>3
  <2>5. Ahead(nodes[n].at, n)
    BY <2>2, <2>3 DEF FeedInv, FeedLosesNothing, Ahead
  <2>6. n \in rows
    <3>1. nodes[n].at \in Nat /\ watermark \in Nat /\ feedCursor[1] \in Nat
      BY <2>2, DocNumbersAt
    <3>2. nodes[n].at >= watermark
      BY <2>5, <3>1 DEF Ahead, Passed, FeedInv
    <3>3. QED
      BY <1>7, <2>2, <2>5, <3>2 DEF Ahead
  <2>7. rows # page /\ page # {} /\ Before(LastRow(page), n)
    BY <1>8, <1>9, <2>4, <2>6
  <2>8. nodes[n].at \in Nat /\ n \in Nat /\ LastRow(page) \in Nat /\ nodes[LastRow(page)].at \in Nat
    BY <1>15, <2>2, <2>7, DocNumbersAt
  <2>9. QED
    BY <2>7, <2>8 DEF Before, Passed
<1>18. FeedInv'
  BY <1>16, <1>17 DEF FeedInv, NoCursor
<1>19. QED
  BY <1>12, <1>13, <1>14, <1>18 DEF TreeKeeps

\* What a request that writes has in hand.
LEMMA DocReqInHand ==
  ASSUME DocumentsInv, NEW w \in Writers, docReq[w].op # "idle"
  PROVE  /\ docReq[w].start \in 1 .. docTx /\ docReq[w].start \in Nat
         /\ DocReadsOK(docReq[w])
BY DEF DocumentsInv, DocRequestsInv, DocReqOK, Idle

\* The marks a commit leaves are marks of nodes.
LEMMA CommitMarks ==
  ASSUME MarksInv, NEW w, NEW T, T \subseteq Ids, Committed(w, T)
  PROVE  late' \subseteq Ids
BY DEF MarksInv, Committed

\* A commit: what remains to be shown of it.
LEMMA DocCommits ==
  ASSUME DocumentsInv, NEW w \in Writers, NEW T, T \subseteq Ids, docReq[w].op # "idle",
         Committed(w, T), TreeKeeps,
         stranded' \cup crossed' \cup overlapped' \cup unannounced' \subseteq Ids,
         overlapped \subseteq overlapped', unannounced \subseteq unannounced',
         \A n \in T : nodes'[n].at = docReq[w].start,
         \A n \in Ids \ T : Exists(n)' =>
           /\ Exists(n) /\ nodes'[n].at = nodes[n].at /\ nodes'[n].version = nodes[n].version
           /\ nodes'[n].deleted = nodes[n].deleted
           /\ n \notin unannounced' => \A a \in Ancestors[n] : nodes'[a].rag = nodes[a].rag,
         \A n \in Ids \ overlapped' : Exists(n) =>
           \/ nodes'[n].version = nodes[n].version /\ nodes'[n].text = nodes[n].text
           \/ nodes'[n].version = nodes[n].version + 1,
         StrandedInv', RolesOnlyWhenRestricted'
  PROVE  DocumentsInv'
<1> USE DEF DocumentsInv
<1>1. /\ docReq' = [docReq EXCEPT ![w] = Idle]
      /\ UNCHANGED <<docTx, mirror, watermark, feedCursor>>
  BY DEF Committed
<1>2. docReq[w].start \in 1 .. docTx /\ docReq[w].start \in Nat
  BY DocReqInHand
<1>3. DocRequestsInv'
  BY <1>1, DocRequestEnds
<1>4. MarksInv'
  BY CommitMarks DEF MarksInv, Ids
<1>5. VersionsInv'
  BY <1>1, VersionsAfterWrite
<1>6. FeedInv'
  <2>1. ASSUME NEW n \in Ids, n \notin late', Exists(n)'
        PROVE  \/ Ahead(nodes'[n].at, n)
               \/ /\ n \notin late /\ Exists(n) /\ nodes'[n].at = nodes[n].at
                  /\ nodes'[n].version = nodes[n].version /\ nodes'[n].deleted = nodes[n].deleted
                  /\ n \notin unannounced' =>
                       n \notin unannounced /\ (rag_excluded(n)' <=> rag_excluded(n))
    <3>1. CASE n \in T
      BY <1>2, <2>1, <3>1, CommitAhead
    <3>2. CASE n \notin T
      <4>1. n \notin late /\ Exists(n)
        BY <1>2, <2>1, <3>2, CommitAhead
      <4>2. n \notin unannounced' => (rag_excluded(n)' <=> rag_excluded(n))
        BY <2>1, <3>2, <4>1, ExclusionStays
      <4>3. QED
        BY <2>1, <3>2, <4>1, <4>2
    <3>3. QED
      BY <3>1, <3>2
  <2>2. QED
    BY <1>1, <2>1, FeedAfterWrite
<1>7. QED
  BY <1>3, <1>4, <1>5, <1>6 DEF TreeKeeps

\* A commit that rewrites rows keeps the tree.
LEMMA RewriteKeepsTree ==
  ASSUME DocumentsInv, NEW w \in Writers, NEW T, docReq[w].op # "idle",
         Committed(w, T), roleRows' = roleRows, crossed \subseteq crossed',
         \A n \in Ids : nodes[n] = NoRow => nodes'[n] = NoRow,
         nodes' \in [Ids -> Node \cup {NoRow}],
         \A n \in Ids : Exists(n) =>
           /\ nodes'[n] \in Node /\ nodes'[n].parent = nodes[n].parent
           /\ nodes[n].deleted => nodes'[n].deleted
           /\ n \in T => nodes'[n].at = docReq[w].start
           /\ n \notin T => nodes'[n].at = nodes[n].at
           /\ nodes'[n].version >= 1
  PROVE  TreeKeeps /\ \A n \in Ids : Exists(n)' <=> Exists(n)
<1> USE DEF DocumentsInv
<1>1. docTx' = docTx
  BY DEF Committed
<1>2. docReq[w].start \in 1 .. docTx
  BY DocReqInHand
<1>3. \A n \in Ids : Exists(n) => nodes'[n].at <= docTx
  <2>1. SUFFICES ASSUME NEW n \in Ids, Exists(n) PROVE nodes'[n].at <= docTx
    OBVIOUS
  <2>2. nodes[n].at <= docTx
    BY <2>1 DEF DocTreeInv
  <2>3. CASE n \in T
    BY <1>2, <2>1, <2>3
  <2>4. CASE n \notin T
    BY <2>1, <2>2, <2>4
  <2>5. QED
    BY <2>3, <2>4
<1>4. docTx \in 0 .. MaxDocTx /\ roleRows' \subseteq DocRoles /\ docTx <= docTx
  BY DocNumbers DEF DocTreeInv
<1>5. TreeKeeps
  BY <1>1, <1>3, <1>4, RowsRewritten
<1>6. \A n \in Ids : Exists(n)' <=> Exists(n)
  BY NoRowIsNoNode DEF Exists
<1>7. QED
  BY <1>5, <1>6

\* A commit that rewrites rows and makes no tombstone.
LEMMA DocRewriteCommits ==
  ASSUME DocumentsInv, NEW w \in Writers, NEW T, T \subseteq Ids, docReq[w].op # "idle",
         Committed(w, T), roleRows' = roleRows,
         stranded \cup crossed' \cup overlapped' \cup unannounced' \subseteq Ids,
         crossed \subseteq crossed', overlapped \subseteq overlapped',
         unannounced \subseteq unannounced', stranded' = stranded,
         \A n \in Ids : nodes[n] = NoRow => nodes'[n] = NoRow,
         nodes' \in [Ids -> Node \cup {NoRow}], \A n \in T : Exists(n),
         \A n \in Ids : Exists(n) =>
           /\ nodes'[n] \in Node /\ nodes'[n].parent = nodes[n].parent
           /\ nodes'[n].deleted = nodes[n].deleted
           /\ n \in T => nodes'[n].at = docReq[w].start
           /\ n \notin T => nodes'[n].at = nodes[n].at /\ nodes'[n].version = nodes[n].version
           /\ n \notin overlapped' =>
                \/ nodes'[n].version = nodes[n].version /\ nodes'[n].text = nodes[n].text
                \/ nodes'[n].version = nodes[n].version + 1
           /\ nodes'[n].version >= 1
           /\ n \notin T /\ n \notin unannounced' =>
                \A a \in Ancestors[n] : nodes'[a].rag = nodes[a].rag,
         RolesOnlyWhenRestricted'
  PROVE  DocumentsInv'
<1>1. TreeKeeps /\ \A n \in Ids : Exists(n)' <=> Exists(n)
  BY RewriteKeepsTree
<1>2. StrandedInv'
  <2>1. \A n \in Ids : (Live(n)' <=> Live(n)) /\ (Live(n) => nodes'[n].parent = nodes[n].parent)
    BY <1>1 DEF Live
  <2>2. QED
    BY <1>1, <2>1, NobodyStranded DEF DocumentsInv
<1>3. \A n \in T : nodes'[n].at = docReq[w].start
  OBVIOUS
<1>4. \A n \in Ids \ T : Exists(n)' =>
        /\ Exists(n) /\ nodes'[n].at = nodes[n].at /\ nodes'[n].version = nodes[n].version
        /\ nodes'[n].deleted = nodes[n].deleted
        /\ n \notin unannounced' => \A a \in Ancestors[n] : nodes'[a].rag = nodes[a].rag
  BY <1>1
<1>5. \A n \in Ids \ overlapped' : Exists(n) =>
        \/ nodes'[n].version = nodes[n].version /\ nodes'[n].text = nodes[n].text
        \/ nodes'[n].version = nodes[n].version + 1
  OBVIOUS
<1>6. QED
  BY <1>1, <1>2, <1>3, <1>4, <1>5, DocCommits

\* A renaming or a new text keeps the invariant.
LEMMA FinishPatchStep ==
  ASSUME DocumentsInv, NEW w \in Writers, FinishPatch(w)
  PROVE  DocumentsInv'
<1>1. PICK r : r = docReq[w]
  OBVIOUS
<1>2. PICK n : n = r.node
  OBVIOUS
<1>3. PICK T : T = IF r.field = "none" THEN {} ELSE {n}
  OBVIOUS
<1>4. /\ r.op = "patch" /\ nodes' = [nodes EXCEPT ![n] = apply_patch(@, r)]
      /\ overlapped' = IF nodes[n].version # r.version THEN overlapped \cup {n} ELSE overlapped
      /\ Committed(w, T) /\ UNCHANGED <<roleRows, stranded, crossed, unannounced>>
  BY <1>1, <1>2, <1>3 DEF FinishPatch
<1>5. /\ Exists(n) /\ n \in Ids /\ r.version \in Nat /\ r.start \in Nat
      /\ nodes[n] \in Node /\ nodes[n].version \in Nat /\ nodes \in [Ids -> Node \cup {NoRow}]
  <2>1. r.op # "idle"
    BY <1>4
  <2>2. r.start \in Nat /\ DocReadsOK(r)
    BY <1>1, <2>1, DocReqInHand
  <2>3. Exists(n) /\ r.version \in Nat
    BY <1>2, <1>4, <2>2 DEF DocReadsOK, PatchReqOK
  <2>4. QED
    BY <2>2, <2>3 DEF Exists, DocumentsInv, DocTreeInv, Node
<1>6. PICK row : row = apply_patch(nodes[n], r)
  OBVIOUS
<1>7. /\ row \in Node /\ row.parent = nodes[n].parent /\ row.deleted = nodes[n].deleted
      /\ row.rag = nodes[n].rag /\ row.mode = nodes[n].mode /\ row.roles = nodes[n].roles
      /\ n \in T => row.at = r.start /\ row.version = r.version + 1
      /\ n \notin T => row = nodes[n]
  <2>1. CASE r.field = "none"
    BY <1>3, <1>5, <1>6, <2>1 DEF apply_patch
  <2>2. CASE r.field # "none"
    <3>1. PICK v : v = r.version + 1
      OBVIOUS
    <3>2. row = [nodes[n] EXCEPT !.version = v, !.text = r.start, !.at = r.start]
      BY <1>6, <2>2, <3>1 DEF apply_patch
    <3>3. row \in Node /\ row.at = r.start /\ row.version = v
      <4>1. v \in Nat
        BY <1>5, <3>1
      <4>2. PICK s : s = r.start
        OBVIOUS
      <4>3. s \in Nat /\ row = [nodes[n] EXCEPT !.version = v, !.text = s, !.at = s]
        BY <1>5, <3>2, <4>2
      <4>4. nodes[n] \in Node
        BY <1>5
      <4>5. row \in Node /\ row.at = s /\ row.version = v
        BY <4>1, <4>3, <4>4 DEF Node
      <4>6. QED
        BY <4>2, <4>5
    <3>4. /\ row.parent = nodes[n].parent /\ row.deleted = nodes[n].deleted
          /\ row.rag = nodes[n].rag /\ row.mode = nodes[n].mode /\ row.roles = nodes[n].roles
      BY <1>5, <3>2 DEF Node
    <3>5. QED
      BY <1>3, <2>2, <3>1, <3>3, <3>4
  <2>3. QED
    BY <2>1, <2>2
<1>8. \A m \in Ids : nodes'[m] = IF m = n THEN row ELSE nodes[m]
  BY <1>4, <1>5, <1>6
<1>9. nodes' \in [Ids -> Node \cup {NoRow}]
  BY <1>4, <1>5, <1>6, <1>7
<1>10. \A m \in Ids : Exists(m) => nodes[m] \in Node /\ nodes[m].version \in Nat /\ nodes[m].version >= 1
  BY DEF DocumentsInv, DocTreeInv, Exists, Node
<1>11. ASSUME NEW m \in Ids, Exists(m)
       PROVE  /\ nodes'[m] \in Node /\ nodes'[m].parent = nodes[m].parent
              /\ nodes'[m].deleted = nodes[m].deleted
              /\ nodes'[m].mode = nodes[m].mode /\ nodes'[m].roles = nodes[m].roles
              /\ m \in T => nodes'[m].at = r.start
              /\ m \notin T => nodes'[m].at = nodes[m].at /\ nodes'[m].version = nodes[m].version
              /\ m \notin overlapped' =>
                   \/ nodes'[m].version = nodes[m].version /\ nodes'[m].text = nodes[m].text
                   \/ nodes'[m].version = nodes[m].version + 1
              /\ nodes'[m].version >= 1
              /\ nodes'[m].rag = nodes[m].rag
  <2>1. CASE m = n
    <3>1. m \notin overlapped' => nodes[m].version = r.version
      BY <1>4, <2>1
    <3>2. CASE n \in T
      BY <1>5, <1>7, <1>8, <2>1, <3>1, <3>2
    <3>3. CASE n \notin T
      BY <1>5, <1>7, <1>8, <1>10, <2>1, <3>3
    <3>4. QED
      BY <3>2, <3>3
  <2>2. CASE m # n
    <3>1. m \notin T
      BY <1>3, <2>2
    <3>2. nodes'[m] = nodes[m]
      BY <1>8, <2>2
    <3>3. QED
      BY <1>10, <1>11, <3>1, <3>2
  <2>3. QED
    BY <2>1, <2>2
<1>12. \A m \in Ids : nodes[m] = NoRow => nodes'[m] = NoRow
  BY <1>5, <1>8 DEF Exists
<1>13. RolesOnlyWhenRestricted'
  <2>1. \A m \in Ids : Exists(m)' => Exists(m)
    BY <1>12 DEF Exists
  <2>2. QED
    BY <1>4, <1>11, <2>1 DEF RolesOnlyWhenRestricted, DocumentsInv, Ids
<1>14. T \subseteq Ids /\ overlapped \subseteq overlapped' /\ overlapped' \subseteq overlapped \cup Ids
  BY <1>3, <1>4, <1>5
<1>15. \A m \in Ids : Exists(m) => \A a \in Ancestors[m] : nodes'[a].rag = nodes[a].rag
  BY <1>11, AncestorsExist DEF DocumentsInv, Exists
<1>16. stranded \cup crossed' \cup overlapped' \cup unannounced' \subseteq Ids
  BY <1>4, <1>14 DEF DocumentsInv, MarksInv
<1>17. docReq[w].op # "idle" /\ docReq[w].start = r.start /\ \A m \in T : Exists(m)
  BY <1>1, <1>3, <1>4, <1>5
<1>18. \A m \in Ids : Exists(m) =>
           /\ nodes'[m] \in Node /\ nodes'[m].parent = nodes[m].parent
           /\ nodes'[m].deleted = nodes[m].deleted
           /\ m \in T => nodes'[m].at = docReq[w].start
           /\ m \notin T => nodes'[m].at = nodes[m].at /\ nodes'[m].version = nodes[m].version
           /\ m \notin overlapped' =>
                \/ nodes'[m].version = nodes[m].version /\ nodes'[m].text = nodes[m].text
                \/ nodes'[m].version = nodes[m].version + 1
           /\ nodes'[m].version >= 1
           /\ m \notin T /\ m \notin unannounced' =>
                \A a \in Ancestors[m] : nodes'[a].rag = nodes[a].rag
  BY <1>11, <1>15, <1>17
<1>19. QED
  BY <1>4, <1>9, <1>12, <1>13, <1>14, <1>16, <1>17, <1>18, DocRewriteCommits

\* What set_visibility makes of a row.
LEMMA SetVisibilityRow ==
  ASSUME NEW row \in Node, NEW r, r.mode \in Modes, r.rag \in BOOLEAN, r.roles \subseteq DocRoles,
         r.start \in Nat, NEW new, new = set_visibility(row, r)
  PROVE  /\ new \in Node /\ new.parent = row.parent /\ new.deleted = row.deleted
         /\ new.version = row.version /\ new.text = row.text
         /\ new.at # row.at => new.at = r.start
         /\ new.mode = (IF r.mode # r.loaded.mode THEN r.mode ELSE row.mode)
         /\ new.roles = (row.roles \ r.removed) \cup r.roles
<1>1. PICK mode : mode = IF r.mode # r.loaded.mode THEN r.mode ELSE row.mode
  OBVIOUS
<1>2. PICK rag : rag = IF r.rag # r.loaded.rag THEN r.rag ELSE row.rag
  OBVIOUS
<1>3. PICK at : at = IF r.mode # r.loaded.mode \/ r.rag # r.loaded.rag THEN r.start ELSE row.at
  OBVIOUS
<1>4. PICK roles : roles = (row.roles \ r.removed) \cup r.roles
  OBVIOUS
<1>5. new = [row EXCEPT !.mode = mode, !.rag = rag, !.at = at, !.roles = roles]
  <2>1. new = [row EXCEPT !.mode = IF r.mode # r.loaded.mode THEN r.mode ELSE @,
                          !.rag = IF r.rag # r.loaded.rag THEN r.rag ELSE @,
                          !.at = IF r.mode # r.loaded.mode \/ r.rag # r.loaded.rag
                                 THEN r.start ELSE @,
                          !.roles = (@ \ r.removed) \cup r.roles]
    BY DEF set_visibility
  <2>2. QED
    BY <1>1, <1>2, <1>3, <1>4, <2>1 DEF Node
<1>6. row.mode \in Modes /\ row.rag \in BOOLEAN /\ row.at \in Nat /\ row.roles \in SUBSET DocRoles
  BY DEF Node, NodeRoles
<1>7. mode \in Modes /\ at \in Nat /\ roles \in SUBSET DocRoles
  BY <1>1, <1>3, <1>4, <1>6
<1>8. rag \in BOOLEAN
  BY <1>2, <1>6
<1>9. new \in Node
  BY <1>5, <1>7, <1>8 DEF Node, NodeRoles
<1>10. /\ new.parent = row.parent /\ new.deleted = row.deleted
       /\ new.version = row.version /\ new.text = row.text
       /\ new.at = at /\ new.mode = mode /\ new.roles = roles
  BY <1>5 DEF Node
<1>11. at # row.at => at = r.start
  BY <1>3
<1>12. QED
  BY <1>1, <1>4, <1>9, <1>10, <1>11

\* A change of visibility keeps the invariant.
LEMMA FinishSetVisibilityStep ==
  ASSUME DocumentsInv, NEW w \in Writers, FinishSetVisibility(w)
  PROVE  DocumentsInv'
<1>1. PICK r : r = docReq[w]
  OBVIOUS
<1>2. PICK n : n = r.node
  OBVIOUS
<1>3. PICK new : new = set_visibility(nodes[n], r)
  OBVIOUS
<1>4. PICK T : T = IF new.at # nodes[n].at THEN {n} ELSE {}
  OBVIOUS
<1>5. /\ r.op = "visibility" /\ nodes' = [nodes EXCEPT ![n] = new]
      /\ crossed' = IF r.loaded.mode # nodes[n].mode \/ r.removed # nodes[n].roles
                    THEN crossed \cup {n} ELSE crossed
      /\ unannounced' = unannounced \cup (Below(n) \ T)
      /\ Committed(w, T) /\ UNCHANGED <<roleRows, stranded, overlapped>>
  <2>1. PICK row : row = nodes[n]
    OBVIOUS
  <2>2. PICK wrote \in BOOLEAN : wrote <=> new.at # row.at
    BY Zenon
  <2>3. /\ r.op = "visibility"
        /\ nodes' = [nodes EXCEPT ![n] = set_visibility(@, r)]
        /\ crossed' = IF r.loaded.mode # row.mode \/ r.removed # row.roles
                      THEN crossed \cup {n} ELSE crossed
        /\ unannounced' = unannounced \cup (IF set_visibility(row, r).at # row.at
                                            THEN Below(n) \ {n} ELSE Below(n))
        /\ Committed(w, IF set_visibility(row, r).at # row.at THEN {n} ELSE {})
        /\ UNCHANGED <<roleRows, stranded, overlapped>>
    BY <1>1, <1>2, <2>1 DEF FinishSetVisibility
  <2>4. nodes' = [nodes EXCEPT ![n] = new]
    BY <1>3, <2>3
  <2>5. Committed(w, T)
    BY <1>3, <1>4, <2>1, <2>3
  <2>6. unannounced' = unannounced \cup (Below(n) \ T)
    BY <1>3, <1>4, <2>1, <2>3
  <2>7. QED
    BY <2>1, <2>3, <2>4, <2>5, <2>6
<1>6. /\ Exists(n) /\ n \in Ids /\ r.start \in Nat /\ nodes[n] \in Node
      /\ nodes \in [Ids -> Node \cup {NoRow}]
      /\ r.mode \in Modes /\ r.rag \in BOOLEAN /\ r.roles \subseteq DocRoles
      /\ r.mode = "inherit" => r.roles = {}
  <2>1. r.op # "idle"
    BY <1>5
  <2>2. r.start \in Nat /\ DocReadsOK(r)
    BY <1>1, <2>1, DocReqInHand
  <2>3. VisibilityReqOK(r)
    BY <1>5, <2>2 DEF DocReadsOK
  <2>4. QED
    BY <1>2, <2>2, <2>3 DEF VisibilityReqOK, Exists, DocumentsInv, DocTreeInv
<1>7. /\ new \in Node /\ new.parent = nodes[n].parent /\ new.deleted = nodes[n].deleted
      /\ new.version = nodes[n].version /\ new.text = nodes[n].text
      /\ new.at # nodes[n].at => new.at = r.start
      /\ new.mode = (IF r.mode # r.loaded.mode THEN r.mode ELSE nodes[n].mode)
      /\ new.roles = (nodes[n].roles \ r.removed) \cup r.roles
  BY <1>3, <1>6, SetVisibilityRow
<1>8. \A m \in Ids : nodes'[m] = IF m = n THEN new ELSE nodes[m]
  BY <1>5, <1>6
<1>9. nodes' \in [Ids -> Node \cup {NoRow}]
  BY <1>5, <1>6, <1>7
<1>10. \A m \in Ids : Exists(m) => nodes[m] \in Node /\ nodes[m].version >= 1
  BY DEF DocumentsInv, DocTreeInv, Exists
<1>11. \A m \in Ids : nodes[m] = NoRow => nodes'[m] = NoRow
  BY <1>6, <1>8 DEF Exists
<1>12. ASSUME NEW m \in Ids, Exists(m)
       PROVE  /\ nodes'[m] \in Node /\ nodes'[m].parent = nodes[m].parent
              /\ nodes'[m].deleted = nodes[m].deleted
              /\ m \in T => nodes'[m].at = r.start
              /\ m \notin T => nodes'[m].at = nodes[m].at
              /\ nodes'[m].version = nodes[m].version /\ nodes'[m].text = nodes[m].text
              /\ nodes'[m].version >= 1
              /\ m \notin T /\ m \notin unannounced' =>
                   \A a \in Ancestors[m] : nodes'[a].rag = nodes[a].rag
  <2>1. m \notin T /\ m \notin unannounced' =>
                   \A a \in Ancestors[m] : nodes'[a].rag = nodes[a].rag
    <3>1. m \notin T /\ m \notin unannounced' => n \notin Ancestors[m]
      BY <1>5, <1>12 DEF Below
    <3>2. \A a \in Ancestors[m] : a \in Ids
      BY <1>12, AncestorsExist DEF DocumentsInv, Exists
    <3>3. QED
      BY <1>8, <3>1, <3>2
  <2>2. CASE m = n
    BY <1>4, <1>7, <1>8, <1>10, <1>12, <2>1, <2>2
  <2>3. CASE m # n
    <3>1. m \notin T /\ nodes'[m] = nodes[m]
      BY <1>4, <1>8, <2>3
    <3>2. QED
      BY <1>10, <1>12, <2>1, <3>1
  <2>4. QED
    BY <2>2, <2>3
<1>13. RolesOnlyWhenRestricted'
  <2>1. ASSUME NEW m \in Ids, m \notin crossed', Exists(m)', nodes'[m].mode = "inherit"
        PROVE  nodes'[m].roles = {}
    <3>1. Exists(m) /\ m \notin crossed
      BY <1>5, <1>11, <2>1 DEF Exists
    <3>2. CASE m = n
      <4>1. r.loaded.mode = nodes[n].mode /\ r.removed = nodes[n].roles
        BY <1>5, <2>1, <3>2
      <4>2. new.mode = r.mode /\ new.roles = r.roles
        BY <1>7, <4>1
      <4>3. QED
        BY <1>6, <1>8, <2>1, <3>2, <4>2
    <3>3. CASE m # n
      BY <1>8, <2>1, <3>1, <3>3 DEF DocumentsInv, RolesOnlyWhenRestricted
    <3>4. QED
      BY <3>2, <3>3
  <2>2. QED
    BY <2>1 DEF RolesOnlyWhenRestricted, Ids
<1>14. T \subseteq Ids /\ crossed \subseteq crossed' /\ unannounced \subseteq unannounced'
       /\ stranded \cup crossed' \cup overlapped' \cup unannounced' \subseteq Ids
  <2>1. T \subseteq Ids /\ Below(n) \subseteq Ids
    BY <1>4, <1>6 DEF Below
  <2>2. QED
    BY <1>5, <1>6, <2>1 DEF DocumentsInv, MarksInv
<1>15. docReq[w].op # "idle" /\ docReq[w].start = r.start /\ \A m \in T : Exists(m)
  BY <1>1, <1>4, <1>5, <1>6
<1>16. \A m \in Ids : Exists(m) =>
           /\ nodes'[m] \in Node /\ nodes'[m].parent = nodes[m].parent
           /\ nodes'[m].deleted = nodes[m].deleted
           /\ m \in T => nodes'[m].at = docReq[w].start
           /\ m \notin T => nodes'[m].at = nodes[m].at /\ nodes'[m].version = nodes[m].version
           /\ m \notin overlapped' =>
                \/ nodes'[m].version = nodes[m].version /\ nodes'[m].text = nodes[m].text
                \/ nodes'[m].version = nodes[m].version + 1
           /\ nodes'[m].version >= 1
           /\ m \notin T /\ m \notin unannounced' =>
                \A a \in Ancestors[m] : nodes'[a].rag = nodes[a].rag
  BY <1>12, <1>15
<1>17. roleRows' = roleRows /\ stranded' = stranded /\ overlapped \subseteq overlapped'
  BY <1>5
<1>18. QED
  BY <1>5, <1>9, <1>11, <1>13, <1>14, <1>15, <1>16, <1>17, DocRewriteCommits

\* A reorder keeps the invariant.
LEMMA FinishReorderStep ==
  ASSUME DocumentsInv, NEW w \in Writers, FinishReorder(w)
  PROVE  DocumentsInv'
<1>1. PICK r : r = docReq[w]
  OBVIOUS
<1>2. PICK s : s = r.start
  OBVIOUS
<1>3. /\ r.op = "reorder"
      /\ nodes' = [n \in Ids |-> IF n \in r.ids THEN [nodes[n] EXCEPT !.at = s] ELSE nodes[n]]
      /\ Committed(w, r.ids)
      /\ UNCHANGED <<roleRows, stranded, crossed, overlapped, unannounced>>
  BY <1>1, <1>2 DEF FinishReorder
<1>4. s \in Nat /\ \A n \in r.ids : Exists(n) /\ n \in Ids
  <2>1. r.op # "idle"
    BY <1>3
  <2>2. r.start \in Nat /\ DocReadsOK(r)
    BY <1>1, <2>1, DocReqInHand
  <2>3. QED
    BY <1>2, <1>3, <2>2 DEF DocReadsOK, ReorderReqOK, Exists
<1>5. ASSUME NEW n \in Ids, Exists(n)
      PROVE  /\ nodes'[n] \in Node /\ nodes'[n].parent = nodes[n].parent
             /\ nodes'[n].deleted = nodes[n].deleted /\ nodes'[n].version = nodes[n].version
             /\ nodes'[n].text = nodes[n].text /\ nodes'[n].rag = nodes[n].rag
             /\ nodes'[n].mode = nodes[n].mode /\ nodes'[n].roles = nodes[n].roles
             /\ n \in r.ids => nodes'[n].at = s
             /\ n \notin r.ids => nodes'[n].at = nodes[n].at
  <2>1. nodes[n] \in Node
    BY <1>5 DEF DocumentsInv, DocTreeInv, Exists
  <2>2. CASE n \in r.ids
    <3>1. nodes'[n] = [nodes[n] EXCEPT !.at = s]
      BY <1>3, <2>2
    <3>2. QED
      BY <1>4, <2>1, <2>2, <3>1 DEF Node
  <2>3. CASE n \notin r.ids
    BY <1>3, <2>1, <2>3
  <2>4. QED
    BY <2>2, <2>3
<1>6. \A n \in Ids : nodes[n] = NoRow => nodes'[n] = NoRow
  BY <1>3, <1>4 DEF Exists
<1>7. nodes' \in [Ids -> Node \cup {NoRow}]
  BY <1>3, <1>5, <1>6 DEF Exists
<1>8. RolesOnlyWhenRestricted'
  <2>1. \A n \in Ids : Exists(n)' => Exists(n)
    BY <1>6 DEF Exists
  <2>2. QED
    BY <1>3, <1>5, <2>1 DEF RolesOnlyWhenRestricted, DocumentsInv, Ids
<1>9. \A n \in Ids : Exists(n) => \A a \in Ancestors[n] : nodes'[a].rag = nodes[a].rag
  BY <1>5, AncestorsExist DEF DocumentsInv, Exists
<1>10. \A n \in Ids : Exists(n) => nodes[n].version >= 1
  BY DEF DocumentsInv, DocTreeInv
<1>11. stranded \cup crossed' \cup overlapped' \cup unannounced' \subseteq Ids
  BY <1>3 DEF DocumentsInv, MarksInv
<1>12. docReq[w].op # "idle" /\ docReq[w].start = s /\ r.ids \subseteq Ids
  BY <1>1, <1>2, <1>3, <1>4
<1>13. \A m \in Ids : Exists(m) =>
           /\ nodes'[m] \in Node /\ nodes'[m].parent = nodes[m].parent
           /\ nodes'[m].deleted = nodes[m].deleted
           /\ m \in r.ids => nodes'[m].at = docReq[w].start
           /\ m \notin r.ids => nodes'[m].at = nodes[m].at /\ nodes'[m].version = nodes[m].version
           /\ m \notin overlapped' =>
                \/ nodes'[m].version = nodes[m].version /\ nodes'[m].text = nodes[m].text
                \/ nodes'[m].version = nodes[m].version + 1
           /\ nodes'[m].version >= 1
           /\ m \notin r.ids /\ m \notin unannounced' =>
                \A a \in Ancestors[m] : nodes'[a].rag = nodes[a].rag
  BY <1>5, <1>9, <1>10, <1>12
<1>14. QED
  BY <1>3, <1>4, <1>6, <1>7, <1>8, <1>11, <1>12, <1>13, DocRewriteCommits

\* A delete of a subtree keeps the invariant.
LEMMA FinishDeleteStep ==
  ASSUME DocumentsInv, NEW w \in Writers, FinishDelete(w)
  PROVE  DocumentsInv'
<1>1. PICK r : r = docReq[w]
  OBVIOUS
<1>2. PICK s : s = r.start
  OBVIOUS
<1>3. PICK T : T = {n \in r.ids : Live(n)}
  OBVIOUS
<1>4. /\ r.op = "delete"
      /\ nodes' = [n \in Ids |-> IF n \in r.ids /\ Live(n)
                                 THEN [nodes[n] EXCEPT !.deleted = TRUE, !.at = s] ELSE nodes[n]]
      /\ stranded' = stranded \cup {n \in Below(r.node) : n > r.known}
      /\ Committed(w, T)
      /\ UNCHANGED <<roleRows, crossed, overlapped, unannounced>>
  BY <1>1, <1>2, <1>3 DEF FinishDelete, soft_delete_subtree
<1>5. s \in Nat /\ DeleteReqOK(r)
  <2>1. r.op # "idle"
    BY <1>4
  <2>2. r.start \in Nat /\ DocReadsOK(r)
    BY <1>1, <2>1, DocReqInHand
  <2>3. QED
    BY <1>2, <1>4, <2>2 DEF DocReadsOK
<1>6. T \subseteq Ids /\ \A n \in Ids : n \in T <=> n \in r.ids /\ Live(n)
  BY <1>3 DEF Live, Exists
<1>7. ASSUME NEW n \in Ids, Exists(n)
      PROVE  /\ nodes'[n] \in Node /\ nodes'[n].parent = nodes[n].parent
             /\ nodes'[n].version = nodes[n].version
             /\ nodes'[n].text = nodes[n].text /\ nodes'[n].rag = nodes[n].rag
             /\ nodes'[n].mode = nodes[n].mode /\ nodes'[n].roles = nodes[n].roles
             /\ n \in T => nodes'[n].at = s /\ nodes'[n].deleted
             /\ n \notin T => nodes'[n] = nodes[n]
  <2>1. nodes[n] \in Node
    BY <1>7 DEF DocumentsInv, DocTreeInv, Exists
  <2>2. CASE n \in T
    <3>1. nodes'[n] = [nodes[n] EXCEPT !.deleted = TRUE, !.at = s]
      BY <1>4, <1>6, <2>2
    <3>2. QED
      BY <1>5, <2>1, <2>2, <3>1 DEF Node
  <2>3. CASE n \notin T
    BY <1>4, <1>6, <2>1, <2>3
  <2>4. QED
    BY <2>2, <2>3
<1>8. \A n \in Ids : nodes[n] = NoRow => nodes'[n] = NoRow
  BY <1>4 DEF Exists, Live
<1>9. nodes' \in [Ids -> Node \cup {NoRow}]
  BY <1>4, <1>7, <1>8 DEF Exists
<1>10. docReq[w].op # "idle" /\ docReq[w].start = s /\ crossed \subseteq crossed'
  BY <1>1, <1>2, <1>4
<1>11. TreeKeeps /\ \A n \in Ids : Exists(n)' <=> Exists(n)
  <2>1. \A n \in Ids : Exists(n) =>
           /\ nodes'[n] \in Node /\ nodes'[n].parent = nodes[n].parent
           /\ nodes[n].deleted => nodes'[n].deleted
           /\ n \in T => nodes'[n].at = docReq[w].start
           /\ n \notin T => nodes'[n].at = nodes[n].at
           /\ nodes'[n].version >= 1
    <3>1. \A n \in Ids : Exists(n) => nodes[n].version >= 1
      BY DEF DocumentsInv, DocTreeInv
    <3>2. QED
      BY <1>7, <1>10, <3>1
  <2>2. QED
    BY <1>4, <1>8, <1>9, <1>10, <2>1, RewriteKeepsTree
<1>12. \A n \in Ids : Live(n)' <=> Live(n) /\ n \notin T
  BY <1>6, <1>7, <1>11 DEF Live
<1>13. StrandedInv'
  <2>1. ASSUME NEW n \in Ids, n \notin stranded', Live(n)', NEW p, p = nodes'[n].parent, p # Root
        PROVE  Live(p)' /\ p \notin stranded'
    <3>1. Live(n) /\ n \notin T /\ n \notin stranded /\ Exists(n)
      BY <1>4, <1>12, <2>1 DEF Live
    <3>2. p = nodes[n].parent
      BY <1>7, <2>1, <3>1
    <3>3. Live(p) /\ p \notin stranded /\ p \in Ids
      BY <2>1, <3>1, <3>2 DEF DocumentsInv, StrandedInv, Live, Exists
    <3>4. Ancestors[n] = {n} \cup Ancestors[p]
      <4>1. AncestorsEq
        BY AncestorsUnfold DEF DocumentsInv
      <4>2. QED
        BY <2>1, <3>1, <3>2, <4>1 DEF AncestorsEq
    <3>5. r.node \in Ancestors[p] => n \in Below(r.node)
      BY <3>1, <3>4 DEF Below
    <3>6. n \in Nat /\ p \in Nat /\ p < n /\ r.known \in Nat
      BY <1>5, <3>1, <3>2, <3>3, DocNumbers DEF DocumentsInv, DocTreeInv, DeleteReqOK
    <3>7. p \notin r.ids
      <4>1. SUFFICES ASSUME p \in r.ids PROVE FALSE
        OBVIOUS
      <4>2. ~(n <= r.known)
        BY <1>5, <1>6, <3>1, <3>2, <4>1 DEF DeleteReqOK
      <4>3. r.node \in Ancestors[p]
        BY <1>5, <4>1 DEF DeleteReqOK
      <4>4. n > r.known
        BY <3>6, <4>2
      <4>5. QED
        BY <1>4, <2>1, <3>5, <4>3, <4>4
    <3>8. p \notin stranded'
      <4>1. SUFFICES ASSUME p \in Below(r.node), p > r.known PROVE FALSE
        BY <1>4, <3>3
      <4>2. n \in Below(r.node) /\ n > r.known
        BY <3>5, <3>6, <4>1 DEF Below
      <4>3. QED
        BY <1>4, <2>1, <4>2
    <3>9. QED
      BY <1>6, <1>12, <3>3, <3>7, <3>8
  <2>2. \A n \in stranded' : Exists(n)'
    <3>1. \A n \in stranded' : n \in Ids /\ Exists(n)
      BY <1>4 DEF DocumentsInv, StrandedInv, Below, Exists
    <3>2. QED
      BY <1>11, <3>1
  <2>3. QED
    BY <2>1, <2>2 DEF StrandedInv, Ids, Root
<1>14. RolesOnlyWhenRestricted'
  <2>1. \A n \in Ids \ crossed : Exists(n)' /\ nodes'[n].mode = "inherit" => nodes'[n].roles = {}
    BY <1>7, <1>11 DEF RolesOnlyWhenRestricted, DocumentsInv
  <2>2. QED
    BY <1>4, <2>1 DEF RolesOnlyWhenRestricted, Ids
<1>15. \A n \in Ids : Exists(n) => \A a \in Ancestors[n] : nodes'[a].rag = nodes[a].rag
  BY <1>7, AncestorsExist DEF DocumentsInv, Exists
<1>16. stranded' \cup crossed' \cup overlapped' \cup unannounced' \subseteq Ids
  BY <1>4 DEF DocumentsInv, MarksInv, Below
<1>17. \A n \in T : nodes'[n].at = docReq[w].start
  BY <1>6, <1>7, <1>10 DEF Live
<1>18. \A n \in Ids \ T : Exists(n)' =>
        /\ Exists(n) /\ nodes'[n].at = nodes[n].at /\ nodes'[n].version = nodes[n].version
        /\ nodes'[n].deleted = nodes[n].deleted
        /\ n \notin unannounced' => \A a \in Ancestors[n] : nodes'[a].rag = nodes[a].rag
  BY <1>7, <1>11, <1>15
<1>19. \A n \in Ids \ overlapped' : Exists(n) =>
        \/ nodes'[n].version = nodes[n].version /\ nodes'[n].text = nodes[n].text
        \/ nodes'[n].version = nodes[n].version + 1
  BY <1>7
<1>20. QED
  BY <1>4, <1>6, <1>10, <1>11, <1>13, <1>14, <1>16, <1>17, <1>18, <1>19, DocCommits

\* The identifiers of the next k rows, if they fit.
NextIds(k) == Top + 1 .. Top + k
\* There is room for k rows more.
Fits(k) == k \in Nat /\ Top + k <= MaxNodes

\* What a commit that adds rows C under node p does; all of them are stranded if
\* their place in the tree is gone.
RowsAdded(w, k, C, p) ==
  /\ docReq[w].op # "idle" /\ Fits(k) /\ C = NextIds(k) /\ Committed(w, C)
  /\ roleRows' = roleRows /\ overlapped' = overlapped /\ unannounced' = unannounced
  /\ crossed \subseteq crossed' /\ crossed' \subseteq Ids
  /\ nodes' \in [Ids -> Node \cup {NoRow}] /\ \A n \in Ids \ C : nodes'[n] = nodes[n]
  /\ p \in Nat /\ (p # Root => Exists(p))
  /\ stranded' = IF p # Root /\ (~Live(p) \/ p \in stranded) THEN stranded \cup C ELSE stranded
  /\ \A n \in C :
       /\ nodes'[n] \in Node /\ nodes'[n].at = docReq[w].start /\ nodes'[n].version >= 1
       /\ ~nodes'[n].deleted /\ nodes'[n].parent < n
       /\ nodes'[n].parent = p \/ nodes'[n].parent \in C
       /\ n \notin crossed' /\ nodes'[n].mode = "inherit" => nodes'[n].roles = {}

\* A commit that adds rows keeps the invariant.
LEMMA DocAddCommits ==
  ASSUME DocumentsInv, NEW w \in Writers, NEW k, NEW C, NEW p, RowsAdded(w, k, C, p)
  PROVE  DocumentsInv'
<1> USE DEF DocumentsInv, NextIds, Fits, RowsAdded
<1>1. Top \in Nat /\ Top <= MaxNodes /\ \A n : Exists(n) <=> n \in 1 .. Top
  BY RowsAreFirst
<1>2. docReq[w].start \in 1 .. docTx /\ docTx' = docTx
  BY DocReqInHand DEF Committed
<1>3. C \subseteq Ids /\ \A n \in C : ~Exists(n)
  BY <1>1, DocNumbers DEF Ids
<1>4. TreeKeeps /\ Top' = Top + k
  <2>1. \A n \in Ids \ (Top + 1 .. Top + k) : nodes'[n] = nodes[n]
    OBVIOUS
  <2>2. \A n \in Top + 1 .. Top + k :
           /\ nodes'[n] \in Node /\ nodes'[n].at <= docTx /\ nodes'[n].version >= 1
           /\ nodes'[n].parent < n
           /\ nodes'[n].parent # Root => nodes'[n].parent \in 1 .. Top + k
    <3>1. SUFFICES ASSUME NEW n \in C
                   PROVE  /\ nodes'[n].at <= docTx
                          /\ nodes'[n].parent # Root => nodes'[n].parent \in 1 .. Top + k
      OBVIOUS
    <3>2. nodes'[n].at <= docTx
      BY <1>2
    <3>3. \A m \in C : m \in 1 .. Top + k
      BY <1>1
    <3>4. p # Root => p \in 1 .. Top + k
      BY <1>1
    <3>5. QED
      BY <3>2, <3>3, <3>4
  <2>3. QED
    BY <1>2, <2>1, <2>2, NodesAdded
<1>5. \A n \in Ids : (Exists(n)' <=> Exists(n) \/ n \in C) /\ (Live(n)' <=> Live(n) \/ n \in C)
  <2>1. \A n \in Ids : Exists(n)' <=> Exists(n) \/ n \in C
    BY <1>3, NoRowIsNoNode DEF Exists
  <2>2. QED
    BY <1>3, <2>1 DEF Live
<1>6. StrandedInv'
  <2>1. ASSUME NEW n \in Ids, n \notin stranded', Live(n)', NEW q, q = nodes'[n].parent, q # Root
        PROVE  Live(q)' /\ q \notin stranded'
    <3>1. CASE n \in C
      <4>1. ~(p # Root /\ (~Live(p) \/ p \in stranded)) /\ stranded' = stranded
        BY <2>1, <3>1
      <4>2. CASE q = p
        <5>1. p \in Ids
          BY <2>1, <4>2 DEF Exists
        <5>2. QED
          BY <1>5, <2>1, <4>1, <4>2, <5>1
      <4>3. CASE q \in C
        <5>1. q \notin stranded
          BY <1>3, <4>3 DEF StrandedInv
        <5>2. QED
          BY <1>3, <1>5, <4>1, <4>3, <5>1
      <4>4. QED
        BY <2>1, <3>1, <4>2, <4>3
    <3>2. CASE n \notin C
      <4>1. Live(n) /\ n \notin stranded /\ q = nodes[n].parent
        BY <1>5, <2>1, <3>2
      <4>2. Live(q) /\ q \notin stranded /\ q \in Ids
        BY <2>1, <4>1 DEF StrandedInv, Live, Exists
      <4>3. q \notin C
        BY <1>3, <4>2 DEF Live
      <4>4. QED
        BY <1>5, <4>2, <4>3
    <3>3. QED
      BY <3>1, <3>2
  <2>2. \A n \in stranded' : Exists(n)'
    <3>1. \A n \in stranded' : n \in Ids /\ (Exists(n) \/ n \in C)
      BY <1>3 DEF StrandedInv, Exists
    <3>2. QED
      BY <1>5, <3>1
  <2>3. QED
    BY <2>1, <2>2 DEF StrandedInv, Ids, Root
<1>7. RolesOnlyWhenRestricted'
  <2>1. ASSUME NEW n \in Ids, n \notin crossed', Exists(n)', nodes'[n].mode = "inherit"
        PROVE  nodes'[n].roles = {}
    <3>1. CASE n \in C
      BY <2>1, <3>1
    <3>2. CASE n \notin C
      BY <1>5, <2>1, <3>2 DEF RolesOnlyWhenRestricted
    <3>3. QED
      BY <3>1, <3>2
  <2>2. QED
    BY <2>1 DEF RolesOnlyWhenRestricted, Ids
<1>8. stranded' \cup crossed' \cup overlapped' \cup unannounced' \subseteq Ids
  BY <1>3 DEF MarksInv
<1>9. \A n \in Ids \ C : Exists(n)' =>
        /\ Exists(n) /\ nodes'[n].at = nodes[n].at /\ nodes'[n].version = nodes[n].version
        /\ nodes'[n].deleted = nodes[n].deleted
        /\ n \notin unannounced' => \A a \in Ancestors[n] : nodes'[a].rag = nodes[a].rag
  <2>1. \A n \in Ids : Exists(n) => \A a \in Ancestors[n] : nodes'[a] = nodes[a]
    BY <1>3, AncestorsExist DEF Exists
  <2>2. QED
    BY <1>5, <2>1
<1>10. \A n \in Ids \ overlapped' : Exists(n) =>
        \/ nodes'[n].version = nodes[n].version /\ nodes'[n].text = nodes[n].text
        \/ nodes'[n].version = nodes[n].version + 1
  BY <1>3
<1>11. QED
  BY <1>3, <1>4, <1>6, <1>7, <1>8, <1>9, <1>10, DocCommits

\* A new node keeps the invariant.
LEMMA FinishCreateStep ==
  ASSUME DocumentsInv, NEW w \in Writers, FinishCreate(w)
  PROVE  DocumentsInv'
<1>1. PICK r : r = docReq[w]
  OBVIOUS
<1>2. PICK n : n = Top + 1
  OBVIOUS
<1>3. PICK row : row = NewNode(r)
  OBVIOUS
<1>4. /\ r.op = "create" /\ n <= MaxNodes /\ nodes' = [nodes EXCEPT ![n] = row]
      /\ stranded' = IF r.parent # Root /\ (~Live(r.parent) \/ r.parent \in stranded)
                     THEN stranded \cup {n} ELSE stranded
      /\ Committed(w, {n})
      /\ UNCHANGED <<roleRows, crossed, overlapped, unannounced>>
  BY <1>1, <1>2, <1>3 DEF FinishCreate
<1>5. /\ r.start \in Nat /\ r.kind \in {"folder", "document"}
      /\ r.parent \in Nat /\ (r.parent # Root => Exists(r.parent))
  <2>1. r.op # "idle"
    BY <1>4
  <2>2. r.start \in Nat /\ DocReadsOK(r)
    BY <1>1, <2>1, DocReqInHand
  <2>3. QED
    BY <1>4, <2>2 DEF DocReadsOK, CreateReqOK
<1>6. /\ Top \in Nat /\ \A m : Exists(m) <=> m \in 1 .. Top
      /\ nodes \in [Ids -> Node \cup {NoRow}]
  BY RowsAreFirst DEF DocumentsInv, DocTreeInv
<1>7. n \in Ids /\ n \in Nat
  BY <1>2, <1>4, <1>6, DocNumbers DEF Ids
<1>8. r.parent \in 0 .. MaxNodes /\ r.parent < n
  <2>1. r.parent \in 0 .. Top
    BY <1>5, <1>6 DEF Root
  <2>2. QED
    BY <1>2, <1>4, <1>6, <2>1, DocNumbers
<1>9. /\ row \in Node /\ row.at = r.start /\ row.version = 1 /\ ~row.deleted
      /\ row.parent = r.parent /\ row.roles = {}
  BY <1>3, <1>5, <1>8 DEF NewNode, Node, NodeRoles, Modes
<1>10. PICK C : C = Top + 1 .. Top + 1
  OBVIOUS
<1>11. C = {n}
  BY <1>2, <1>6, <1>10
<1>12. nodes'[n] = row /\ \A m \in Ids \ C : nodes'[m] = nodes[m]
  BY <1>4, <1>6, <1>7, <1>11
<1>13. nodes' \in [Ids -> Node \cup {NoRow}]
  BY <1>4, <1>6, <1>9
<1>14. \A m \in C :
         /\ nodes'[m] \in Node /\ nodes'[m].at = docReq[w].start /\ nodes'[m].version >= 1
         /\ ~nodes'[m].deleted /\ nodes'[m].parent < m
         /\ nodes'[m].parent = r.parent \/ nodes'[m].parent \in C
         /\ m \notin crossed' /\ nodes'[m].mode = "inherit" => nodes'[m].roles = {}
  BY <1>1, <1>8, <1>9, <1>11, <1>12
<1>15. PICK k : k = 1
  OBVIOUS
<1>16. Fits(k) /\ C = NextIds(k)
  BY <1>2, <1>4, <1>10, <1>15 DEF Fits, NextIds
<1>17. crossed \subseteq crossed' /\ crossed' \subseteq Ids /\ docReq[w].op # "idle"
  BY <1>1, <1>4 DEF DocumentsInv, MarksInv
<1>18. /\ Committed(w, C) /\ UNCHANGED <<roleRows, overlapped, unannounced>>
       /\ stranded' = IF r.parent # Root /\ (~Live(r.parent) \/ r.parent \in stranded)
                      THEN stranded \cup C ELSE stranded
  BY <1>4, <1>11
<1>19. PICK p \in Nat : p = r.parent
  BY <1>5
<1>20. QED
  <2>1. p # Root => Exists(p)
    BY <1>5, <1>19
  <2>2. stranded' = (IF p # Root /\ (~Live(p) \/ p \in stranded) THEN stranded \cup C ELSE stranded)
    BY <1>18, <1>19
  <2>3. \A m \in C :
          /\ nodes'[m] \in Node /\ nodes'[m].at = docReq[w].start /\ nodes'[m].version >= 1
          /\ ~nodes'[m].deleted /\ nodes'[m].parent < m
          /\ nodes'[m].parent = p \/ nodes'[m].parent \in C
          /\ m \notin crossed' /\ nodes'[m].mode = "inherit" => nodes'[m].roles = {}
    BY <1>14, <1>19
  <2>4. RowsAdded(w, k, C, p)
    BY <1>12, <1>13, <1>16, <1>17, <1>18, <2>1, <2>2, <2>3 DEF RowsAdded
  <2>5. QED
    BY <2>4, DocAddCommits

\* Of two members of a set the smaller one has the smaller rank.
LEMMA RankGrows ==
  ASSUME NEW S, IsFiniteSet(S), S \subseteq Nat, NEW n \in S, NEW k \in S, n < k
  PROVE  Cardinality({m \in S : m <= n}) < Cardinality({m \in S : m <= k})
<1>1. n # k /\ n \in Nat /\ k \in Nat
  OBVIOUS
<1>2. Cardinality({m \in S : m <= n}) # Cardinality({m \in S : m <= k})
  BY <1>1, RankInjective
<1>3. {m \in S : m <= n} \in SUBSET {m \in S : m <= k}
  <2>1. \A m \in S : m <= n => m <= k
    BY <1>1
  <2>2. QED
    BY <2>1
<1>4. {m \in S : m <= k} \in SUBSET S
  OBVIOUS
<1>5. Cardinality({m \in S : m <= n}) <= Cardinality({m \in S : m <= k})
  BY <1>3, <1>4, FS_Subset
<1>6. \A i \in S : Cardinality({m \in S : m <= i}) \in 1 .. Cardinality(S)
  BY RankBounds
<1>7. Cardinality(S) \in Nat
  BY FS_CardinalityType
<1>8. Cardinality({m \in S : m <= n}) \in Nat /\ Cardinality({m \in S : m <= k}) \in Nat
  BY <1>6, <1>7
<1>9. QED
  BY <1>2, <1>5, <1>8

\* What a request reads next keeps the invariant, if it read it well.
LEMMA DocReadsStep ==
  ASSUME DocumentsInv, NEW w \in Writers, NEW r, Reads(w, r), r.start \in 1 .. docTx,
         DocReadsOK(r)
  PROVE  DocumentsInv'
<1> USE DEF DocumentsInv
<1>1. TreeKeeps
  <2>1. UNCHANGED <<nodes, crossed, docTx, roleRows>>
    BY DEF Reads
  <2>2. docTx \in 0 .. MaxDocTx /\ roleRows \subseteq DocRoles /\ docTx <= docTx
    BY DocNumbers DEF DocTreeInv
  <2>3. QED
    BY <2>1, <2>2, TreeUntouched
<1>2. DocReqOK(r)'
  BY <1>1, DocReqStays DEF DocReqOK
<1>3. DocRequestsInv'
  BY <1>1, <1>2, DocRequestsStep DEF Reads
<1>4. QED
  BY <1>1, <1>3, DocQuietStep DEF Reads

\* A copy reads the rows of the subtree after its root, which was live.
LEMMA LoadSubtreeStep ==
  ASSUME DocumentsInv, NEW w \in Writers, load_subtree(w)
  PROVE  DocumentsInv'
<1>1. PICK q : q = docReq[w]
  OBVIOUS
<1>2. q.op = "load" /\ subtree_ids(q.node) # {}
  BY <1>1 DEF load_subtree
<1>3. q.start \in 1 .. docTx /\ LoadReqOK(q)
  <2>1. docReq[w].op # "idle"
    BY <1>1, <1>2
  <2>2. QED
    BY <1>1, <1>2, <2>1, DocReqInHand DEF DocReadsOK
<1>4. PICK S : S = subtree_ids(q.node)
  OBVIOUS
<1>5. PICK r : r = [op |-> "roles", start |-> q.start, node |-> q.node, parent |-> q.parent,
                    source |-> [m \in S |-> IF m = q.node THEN q.root ELSE nodes[m]]]
  OBVIOUS
<1>6. Reads(w, r)
  BY <1>1, <1>4, <1>5 DEF load_subtree
<1>7. q.node \in Ids
  BY <1>3 DEF LoadReqOK, Exists
<1>8. \A m \in S :
         /\ m \in Ids /\ Exists(m) /\ nodes[m] \in Node /\ ~nodes[m].deleted
         /\ m # q.node => nodes[m].parent \in S /\ nodes[m].parent < m
  BY <1>4, <1>7, SubtreeIsClosed DEF DocumentsInv, Live, Exists, DocTreeInv
<1>9. /\ DOMAIN r.source = S /\ r.node = q.node /\ r.parent = q.parent
      /\ \A m \in S : r.source[m] = IF m = q.node THEN q.root ELSE nodes[m]
  BY <1>5
<1>10. RolesReqOK(r)
  BY <1>3, <1>8, <1>9 DEF RolesReqOK, LoadReqOK
<1>11. DocReadsOK(r) /\ r.start \in 1 .. docTx
  BY <1>3, <1>5, <1>10 DEF DocReadsOK
<1>12. QED
  BY <1>6, <1>11, DocReadsStep

\* Then it reads their roles: a row that inherits by then has none.
LEMMA RolesForNodesStep ==
  ASSUME DocumentsInv, NEW w \in Writers, roles_for_nodes(w)
  PROVE  DocumentsInv'
<1>1. PICK q : q = docReq[w]
  OBVIOUS
<1>2. q.op = "roles"
  BY <1>1 DEF roles_for_nodes
<1>3. q.start \in 1 .. docTx /\ RolesReqOK(q)
  <2>1. docReq[w].op # "idle"
    BY <1>1, <1>2
  <2>2. QED
    BY <1>1, <1>2, <2>1, DocReqInHand DEF DocReadsOK
<1>4. PICK S : S = DOMAIN q.source
  OBVIOUS
<1>5. PICK r : r = [op |-> "copy", start |-> q.start, node |-> q.node, parent |-> q.parent,
                    source |-> [m \in S |-> [q.source[m] EXCEPT !.roles = nodes[m].roles]],
                    torn |-> {m \in S : nodes[m].mode # q.source[m].mode}]
  OBVIOUS
<1>6. Reads(w, r)
  BY <1>1, <1>4, <1>5 DEF roles_for_nodes
<1>7. \A m \in S : m \in Ids /\ Exists(m) /\ nodes[m].roles \in NodeRoles
  BY <1>3, <1>4 DEF RolesReqOK, DocumentsInv, Exists, DocTreeInv, Node
<1>8. ASSUME NEW m \in S
      PROVE  /\ r.source[m] \in Node /\ ~r.source[m].deleted
             /\ r.source[m].parent = q.source[m].parent /\ r.source[m].mode = q.source[m].mode
             /\ r.source[m].roles = nodes[m].roles
  <2>1. PICK row : row = q.source[m]
    OBVIOUS
  <2>2. row \in Node /\ ~row.deleted
    BY <1>3, <1>4, <2>1 DEF RolesReqOK
  <2>3. r.source[m] = [row EXCEPT !.roles = nodes[m].roles]
    BY <1>5, <2>1
  <2>4. QED
    BY <1>7, <2>1, <2>2, <2>3 DEF Node
<1>9. DOMAIN r.source = S /\ r.node = q.node /\ r.parent = q.parent
  BY <1>5
<1>10. RolesReqOK(r)
  BY <1>3, <1>4, <1>8, <1>9 DEF RolesReqOK
<1>11. \A m \in S : m \notin crossed /\ m \notin r.torn /\ r.source[m].mode = "inherit"
                    => r.source[m].roles = {}
  <2>1. \A m \in S : m \notin r.torn => nodes[m].mode = q.source[m].mode
    BY <1>5
  <2>2. QED
    BY <1>7, <1>8, <2>1 DEF DocumentsInv, RolesOnlyWhenRestricted
<1>12. CopyReqOK(r)
  BY <1>9, <1>10, <1>11 DEF CopyReqOK
<1>13. DocReadsOK(r) /\ r.start \in 1 .. docTx
  BY <1>3, <1>5, <1>12 DEF DocReadsOK
<1>14. QED
  BY <1>6, <1>13, DocReadsStep

\* A copy writes what it has read.
LEMMA CopyInHand ==
  ASSUME DocumentsInv, NEW w \in Writers, FinishCopy(w)
  PROVE  docReq[w].op # "idle" /\ CopyReqOK(docReq[w]) /\ docReq[w].start \in Nat
<1>1. docReq[w].op = "copy"
  BY DEF FinishCopy
<1>2. docReq[w].op # "idle"
  BY <1>1
<1>3. docReq[w].start \in Nat /\ DocReadsOK(docReq[w])
  BY <1>2, DocReqInHand
<1>4. PICK q : q = docReq[w]
  OBVIOUS
<1>5. CopyReqOK(q)
  BY <1>1, <1>3, <1>4 DEF DocReadsOK
<1>6. QED
  BY <1>2, <1>3, <1>4, <1>5

\* A copy of a subtree keeps the invariant.
LEMMA FinishCopyStep ==
  ASSUME DocumentsInv, NEW w \in Writers, FinishCopy(w)
  PROVE  DocumentsInv'
<1> DEFINE r == docReq[w]
           old == DOMAIN r.source
           new(m) == Top + Cardinality({a \in old : a <= m})
           copy(m) == [r.source[m] EXCEPT
                         !.parent = IF m = r.node THEN r.parent ELSE new(@),
                         !.rag = FALSE, !.version = 1, !.at = r.start]
           copies == {new(m) : m \in old}
           k == Cardinality(old)
           C == Top + 1 .. Top + k
<1>1. /\ r.op = "copy" /\ Top + k <= MaxNodes
      /\ nodes' = [n \in Ids |-> IF n \in copies THEN copy(CHOOSE m \in old : new(m) = n)
                                 ELSE nodes[n]]
      /\ stranded' = IF r.parent # Root /\ (~Live(r.parent) \/ r.parent \in stranded)
                     THEN stranded \cup copies ELSE stranded
      /\ crossed' = crossed \cup {new(m) : m \in old \cap (crossed \cup r.torn)}
      /\ Committed(w, copies)
      /\ UNCHANGED <<roleRows, overlapped, unannounced>>
  BY DEF FinishCopy
<1>2. CopyReqOK(r) /\ r.start \in Nat
  BY CopyInHand
<1>3. docReq[w].op # "idle" /\ docReq[w].start = r.start
  BY CopyInHand
<1> HIDE DEF r
<1>4. /\ Top \in Nat /\ Top <= MaxNodes /\ \A m : Exists(m) <=> m \in 1 .. Top
      /\ nodes \in [Ids -> Node \cup {NoRow}]
  BY RowsAreFirst DEF DocumentsInv, DocTreeInv
<1>5. old \subseteq 1 .. Top /\ old \subseteq Nat /\ IsFiniteSet(old) /\ k \in Nat
  <2>1. old \subseteq 1 .. Top
    BY <1>2, <1>4 DEF CopyReqOK, RolesReqOK
  <2>2. old \in SUBSET Ids
    BY <1>4, <2>1, DocNumbers DEF Ids
  <2>3. QED
    BY <2>1, <2>2, DocNumbers, FS_Subset, FS_CardinalityType
<1>6. \A m \in old :
        /\ r.source[m] \in Node /\ ~r.source[m].deleted
        /\ m # r.node => r.source[m].parent \in old /\ r.source[m].parent < m
        /\ m \notin crossed /\ m \notin r.torn /\ r.source[m].mode = "inherit"
             => r.source[m].roles = {}
  BY <1>2 DEF CopyReqOK, RolesReqOK
<1>7. r.parent \in Nat /\ (r.parent # Root => Exists(r.parent))
  BY <1>2 DEF CopyReqOK, RolesReqOK
<1> HIDE DEF old, k
<1>8. \A m \in old : Cardinality({a \in old : a <= m}) \in 1 .. k
  BY <1>5, RankBounds DEF k
<1>9. \A m \in old : new(m) \in C /\ new(m) \in Nat
  BY <1>4, <1>5, <1>8
<1>10. \A m \in old, a \in old : a < m => new(a) < new(m)
  <2>1. ASSUME NEW m \in old, NEW a \in old, a < m PROVE new(a) < new(m)
    <3>1. PICK i, j : /\ i = Cardinality({b \in old : b <= a})
                      /\ j = Cardinality({b \in old : b <= m})
      OBVIOUS
    <3>2. i < j
      BY <1>5, <2>1, <3>1, RankGrows
    <3>3. i \in Nat /\ j \in Nat
      BY <1>5, <1>8, <3>1
    <3>4. new(a) = Top + i /\ new(m) = Top + j
      BY <3>1
    <3>5. QED
      BY <1>4, <3>2, <3>3, <3>4
  <2>2. QED
    BY <2>1
<1>11. \A n \in C : \E m \in old : new(m) = n
  <2>1. ASSUME NEW n \in C PROVE \E m \in old : new(m) = n
    <3>1. PICK i : i = n - Top
      OBVIOUS
    <3>2. i \in 1 .. Cardinality(old) /\ n = Top + i
      BY <1>4, <1>5, <3>1 DEF k
    <3>3. PICK m \in old : Cardinality({a \in old : a <= m}) = i
      BY <1>5, <3>2, RankOnto
    <3>4. QED
      BY <3>2, <3>3
  <2>2. QED
    BY <2>1
<1> HIDE DEF new
<1>12. copies = C
  BY <1>9, <1>11
<1>13. \A m \in old, a \in old : new(a) = new(m) => a = m
  <2>1. ASSUME NEW m \in old, NEW a \in old, new(a) = new(m), a # m PROVE FALSE
    <3>1. a < m \/ m < a
      BY <1>5, <2>1
    <3>2. new(m) \in Nat
      BY <1>9
    <3>3. QED
      BY <1>10, <2>1, <3>1, <3>2
  <2>2. QED
    BY <2>1
<1>14. C \subseteq Ids
  <2>1. MaxNodes \in Nat /\ Ids = 1 .. MaxNodes
    BY DocNumbers DEF Ids
  <2>2. Top + k <= MaxNodes /\ Top \in Nat /\ k \in Nat
    BY <1>1, <1>4, <1>5
  <2>3. QED
    BY <2>1, <2>2
<1> HIDE DEF C, copies, copy
<1>15. \A m \in old : nodes'[new(m)] = copy(m)
  <2>1. ASSUME NEW m \in old PROVE nodes'[new(m)] = copy(m)
    <3>1. new(m) \in Ids /\ new(m) \in copies
      BY <1>9, <1>12, <1>14
    <3>2. PICK n : n = new(m)
      OBVIOUS
    <3>3. nodes'[n] = copy(CHOOSE a \in old : new(a) = n)
      BY <1>1, <3>1, <3>2
    <3>4. (CHOOSE a \in old : new(a) = n) = m
      BY <1>13, <3>2
    <3>5. QED
      BY <3>2, <3>3, <3>4
  <2>2. QED
    BY <2>1
<1>16. ASSUME NEW m \in old
       PROVE  /\ copy(m) \in Node /\ copy(m).at = r.start /\ copy(m).version = 1
              /\ ~copy(m).deleted /\ copy(m).parent < new(m)
              /\ copy(m).parent = r.parent \/ copy(m).parent \in C
              /\ m \notin crossed /\ m \notin r.torn /\ copy(m).mode = "inherit"
                   => copy(m).roles = {}
  <2>1. PICK p : p = IF m = r.node THEN r.parent ELSE new(r.source[m].parent)
    OBVIOUS
  <2>2. copy(m) = [r.source[m] EXCEPT !.parent = p, !.rag = FALSE, !.version = 1, !.at = r.start]
    BY <1>6, <2>1 DEF copy, Node
  <2>3. (p = r.parent \/ p \in C) /\ p < new(m)
    <3>1. CASE m = r.node
      <4>1. r.parent \in 0 .. Top
        BY <1>4, <1>7 DEF Root
      <4>2. new(m) \in C /\ new(m) \in Nat
        BY <1>9
      <4>3. r.parent < new(m)
        BY <1>4, <1>5, <4>1, <4>2 DEF C
      <4>4. QED
        BY <2>1, <3>1, <4>3
    <3>2. CASE m # r.node
      BY <1>6, <1>9, <1>10, <2>1, <3>2
    <3>3. QED
      BY <3>1, <3>2
  <2>4. p \in 0 .. MaxNodes
    <3>1. CASE p = r.parent
      BY <1>4, <1>7, <3>1, DocNumbers DEF Root
    <3>2. CASE p \in C
      BY <1>14, <3>2, DocNumbers DEF Ids
    <3>3. QED
      BY <2>3, <3>1, <3>2
  <2>5. r.source[m] \in Node
    BY <1>6
  <2>6. /\ copy(m) \in Node /\ copy(m).at = r.start /\ copy(m).version = 1 /\ copy(m).parent = p
        /\ copy(m).deleted = r.source[m].deleted /\ copy(m).mode = r.source[m].mode
        /\ copy(m).roles = r.source[m].roles
    <3>1. PICK row, s, new_row : /\ row = r.source[m] /\ s = r.start
            /\ new_row = [row EXCEPT !.parent = p, !.rag = FALSE, !.version = 1, !.at = s]
      OBVIOUS
    <3>2. row \in Node /\ s \in Nat
      BY <1>2, <2>5, <3>1
    <3>3. /\ new_row \in Node /\ new_row.at = s /\ new_row.version = 1 /\ new_row.parent = p
          /\ new_row.deleted = row.deleted /\ new_row.mode = row.mode /\ new_row.roles = row.roles
      BY <2>4, <3>1, <3>2 DEF Node
    <3>4. copy(m) = new_row
      BY <2>2, <3>1
    <3>5. QED
      BY <3>1, <3>3, <3>4
  <2>7. QED
    BY <1>6, <2>3, <2>6
<1>17. \A n \in C :
         /\ nodes'[n] \in Node /\ nodes'[n].at = docReq[w].start /\ nodes'[n].version >= 1
         /\ ~nodes'[n].deleted /\ nodes'[n].parent < n
         /\ nodes'[n].parent = r.parent \/ nodes'[n].parent \in C
         /\ n \notin crossed' /\ nodes'[n].mode = "inherit" => nodes'[n].roles = {}
  <2>1. SUFFICES ASSUME NEW n \in C
        PROVE  /\ nodes'[n] \in Node /\ nodes'[n].at = docReq[w].start /\ nodes'[n].version >= 1
               /\ ~nodes'[n].deleted /\ nodes'[n].parent < n
               /\ nodes'[n].parent = r.parent \/ nodes'[n].parent \in C
               /\ n \notin crossed' /\ nodes'[n].mode = "inherit" => nodes'[n].roles = {}
    OBVIOUS
  <2>2. PICK m \in old : new(m) = n
    BY <1>11
  <2>3. nodes'[n] = copy(m)
    BY <1>15, <2>2
  <2>4. n \notin crossed' => m \notin crossed /\ m \notin r.torn
    BY <1>1, <2>2
  <2>5. QED
    BY <1>3, <1>16, <2>2, <2>3, <2>4
<1>18. \A n \in Ids \ C : nodes'[n] = nodes[n]
  BY <1>1, <1>12
<1>19. nodes' \in [Ids -> Node \cup {NoRow}]
  <2>1. \A n \in Ids : nodes'[n] \in Node \cup {NoRow}
    BY <1>4, <1>17, <1>18
  <2>2. nodes' = [n \in Ids |-> nodes'[n]]
    BY <1>1
  <2>3. QED
    BY <2>1, <2>2
<1>20. crossed \subseteq crossed' /\ crossed' \subseteq Ids
  BY <1>1, <1>9, <1>14 DEF DocumentsInv, MarksInv
<1>21. Fits(k) /\ C = NextIds(k)
  BY <1>1, <1>5 DEF C, Fits, NextIds
<1>22. /\ Committed(w, C) /\ UNCHANGED <<roleRows, overlapped, unannounced>>
       /\ stranded' = IF r.parent # Root /\ (~Live(r.parent) \/ r.parent \in stranded)
                      THEN stranded \cup C ELSE stranded
  BY <1>1, <1>12
<1>23. PICK p \in Nat : p = r.parent
  BY <1>7
<1>24. QED
  <2>1. p # Root => Exists(p)
    BY <1>7, <1>23
  <2>2. stranded' = (IF p # Root /\ (~Live(p) \/ p \in stranded) THEN stranded \cup C ELSE stranded)
    BY <1>22, <1>23
  <2>3. \A n \in C :
          /\ nodes'[n] \in Node /\ nodes'[n].at = docReq[w].start /\ nodes'[n].version >= 1
          /\ ~nodes'[n].deleted /\ nodes'[n].parent < n
          /\ nodes'[n].parent = p \/ nodes'[n].parent \in C
          /\ n \notin crossed' /\ nodes'[n].mode = "inherit" => nodes'[n].roles = {}
    BY <1>17, <1>23
  <2>4. RowsAdded(w, k, C, p)
    BY <1>3, <1>18, <1>19, <1>20, <1>21, <1>22, <2>1, <2>2, <2>3 DEF RowsAdded
  <2>5. PICK j, D : j = k /\ D = C
    OBVIOUS
  <2>6. RowsAdded(w, j, D, p)
    BY <2>4, <2>5
  <2>7. QED
    BY <2>6, DocAddCommits

----------------------------------------------------------------------------
(* What the invariant says of the tree, and the theorems.                   *)

\* The way up from a live node that is not stranded is live all along.
LEMMA LiveAllTheWay ==
  ASSUME DocTreeInv, StrandedInv, NEW n \in Ids, n \notin stranded, Live(n)
  PROVE  LiveChain[n] = Ancestors[n] /\ \A a \in Ancestors[n] : Live(a)
<1>1. AncestorsEq /\ LiveChainEq
  BY AncestorsUnfold, LiveChainUnfold
<1> DEFINE B == {m \in Ids : Live(m) /\ m \notin stranded /\ LiveChain[m] # Ancestors[m]}
<1>2. \A m \in B : nodes[m].parent # Root /\ nodes[m].parent \in B
  <2>1. SUFFICES ASSUME NEW m \in Ids, Live(m), m \notin stranded, LiveChain[m] # Ancestors[m]
                 PROVE  nodes[m].parent # Root /\ nodes[m].parent \in B
    OBVIOUS
  <2>2. /\ LiveChain[m] = {m} \cup IF nodes[m].parent = Root THEN {} ELSE LiveChain[nodes[m].parent]
        /\ Ancestors[m] = {m} \cup IF nodes[m].parent = Root THEN {} ELSE Ancestors[nodes[m].parent]
    BY <1>1, <2>1 DEF AncestorsEq, LiveChainEq, Live
  <2>3. nodes[m].parent # Root /\ LiveChain[nodes[m].parent] # Ancestors[nodes[m].parent]
    BY <2>1, <2>2
  <2>4. /\ Live(nodes[m].parent) /\ nodes[m].parent \notin stranded /\ nodes[m].parent \in Ids
    BY <2>1, <2>3 DEF StrandedInv, Live, Exists
  <2>5. QED
    BY <2>3, <2>4
<1>3. B \subseteq {m \in Ids : Exists(m)}
  BY DEF Live
<1>4. B = {}
  <2> HIDE DEF B
  <2>1. QED
    BY <1>2, <1>3, NoBadNode
<1>5. LiveChain[n] = Ancestors[n]
  BY <1>4
<1>6. QED
  BY <1>5, LiveChainIsUp

\* The list and the lookup follow the same parents, so they agree.
LEMMA ListAgrees ==
  ASSUME DocTreeInv, StrandedInv
  PROVE  ListAgreesWithLookup
<1>1. SUFFICES ASSUME NEW scope \in Scopes, NEW n \in Ids, n \notin stranded
               PROVE  n \in list_visible_tree(scope) <=> Visible(n, scope)
  <2>1. \A scope \in Scopes : list_visible_tree(scope) \subseteq Ids
    BY DEF list_visible_tree
  <2>2. QED
    BY <1>1, <2>1 DEF ListAgreesWithLookup
<1>2. CASE scope.all
  BY <1>2 DEF list_visible_tree, Visible
<1>3. CASE ~scope.all
  <2>1. CASE Live(n)
    <3>1. LiveChain[n] = Ancestors[n] /\ \A a \in Ancestors[n] : Live(a)
      BY <1>1, <2>1, LiveAllTheWay
    <3>2. PICK gov : gov = Last(Restricted(Ancestors[n]))
      OBVIOUS
    <3>3. governing_restricted(n) = gov
      BY <3>1, <3>2 DEF governing_restricted
    <3>4. Visible(n, scope) <=> (gov # Root => scope.roles \cap nodes[gov].roles # {})
      BY <1>3, <2>1, <3>3 DEF Visible, node_role_ids
    <3>5. n \in list_visible_tree(scope) <=> (gov = Root \/ nodes[gov].roles \cap scope.roles # {})
      BY <1>3, <2>1, <3>1, <3>2 DEF list_visible_tree, Live
    <3>6. QED
      BY <3>4, <3>5
  <2>2. CASE ~Live(n)
    <3>1. n \in Ancestors[n]
      BY AncestorsExist
    <3>2. QED
      BY <1>3, <2>2, <3>1 DEF list_visible_tree, Visible
  <2>3. QED
    BY <2>1, <2>2
<1>4. QED
  BY <1>2, <1>3

\* The invariant holds at first.
LEMMA DocumentsInitInv == DocumentsInit => DocumentsInv
<1> SUFFICES ASSUME DocumentsInit PROVE DocumentsInv
  OBVIOUS
<1>1. PICK mode \in Modes, roles \in SUBSET DocRoles :
        /\ mode = "inherit" => roles = {}
        /\ nodes = [n \in Ids |->
             CASE n = 1 -> [kind |-> "folder", parent |-> Root, mode |-> mode, roles |-> roles,
                            rag |-> FALSE, version |-> 1, text |-> 0, deleted |-> FALSE, at |-> 0]
               [] n = 2 -> [kind |-> "document", parent |-> 1, mode |-> "inherit", roles |-> {},
                            rag |-> FALSE, version |-> 1, text |-> 0, deleted |-> FALSE, at |-> 0]
               [] OTHER -> NoRow]
  <2>1. PICK mode \in Modes : \E roles \in IF mode = "restricted" THEN SUBSET DocRoles ELSE {{}} :
         nodes = [n \in Ids |->
             CASE n = 1 -> [kind |-> "folder", parent |-> Root, mode |-> mode, roles |-> roles,
                            rag |-> FALSE, version |-> 1, text |-> 0, deleted |-> FALSE, at |-> 0]
               [] n = 2 -> [kind |-> "document", parent |-> 1, mode |-> "inherit", roles |-> {},
                            rag |-> FALSE, version |-> 1, text |-> 0, deleted |-> FALSE, at |-> 0]
               [] OTHER -> NoRow]
    BY DEF DocumentsInit
  <2>2. \A roles \in IF mode = "restricted" THEN SUBSET DocRoles ELSE {{}} :
          roles \in SUBSET DocRoles /\ (mode = "inherit" => roles = {})
    BY DEF Modes
  <2>3. QED
    BY <2>1, <2>2
<1>2. /\ docReq = [w \in Writers |-> Idle] /\ docTx = 0 /\ roleRows = DocRoles
      /\ mirror = [n \in Ids |-> IF n <= 2 THEN [Unknown EXCEPT !.version = 1, !.have = 1]
                                 ELSE Unknown]
      /\ watermark = 0 /\ feedCursor = NoCursor
      /\ stranded = {} /\ crossed = {} /\ overlapped = {} /\ late = {} /\ unannounced = {}
  BY DEF DocumentsInit
<1>3. /\ MaxNodes \in Nat /\ MaxDocTx \in Nat /\ Ids = 1 .. MaxNodes /\ 1 \in Ids /\ 2 \in Ids
      /\ \A n \in Ids : n \in Nat /\ n >= 1 /\ (n <= 2 <=> n = 1 \/ n = 2)
  BY DocNumbers DEF Ids
<1>4. /\ nodes[1] = [kind |-> "folder", parent |-> Root, mode |-> mode, roles |-> roles,
                     rag |-> FALSE, version |-> 1, text |-> 0, deleted |-> FALSE, at |-> 0]
      /\ nodes[2] = [kind |-> "document", parent |-> 1, mode |-> "inherit", roles |-> {},
                     rag |-> FALSE, version |-> 1, text |-> 0, deleted |-> FALSE, at |-> 0]
      /\ \A n \in Ids : n # 1 /\ n # 2 => nodes[n] = NoRow
  BY <1>1, <1>3
<1>5. nodes[1] \in Node /\ nodes[2] \in Node
  BY <1>3, <1>4 DEF Node, NodeRoles, Modes, Root
<1>6. \A n : Exists(n) <=> n = 1 \/ n = 2
  BY <1>3, <1>4, <1>5, NoRowIsNoNode DEF Exists
<1>7. nodes \in [Ids -> Node \cup {NoRow}]
  <2>1. \A n \in Ids : nodes[n] \in Node \cup {NoRow}
    BY <1>4, <1>5
  <2>2. nodes = [n \in Ids |-> nodes[n]]
    BY <1>1
  <2>3. QED
    BY <2>1, <2>2
<1>8. Top = 2
  <2>1. {n \in Ids : Exists(n)} = 1 .. 2
    BY <1>3, <1>6
  <2>2. PICK t \in Nat : t = 2
    OBVIOUS
  <2>3. Cardinality(1 .. t) = t
    BY FS_Interval
  <2>4. QED
    BY <2>1, <2>2, <2>3 DEF Top
<1>9. DocTreeInv
  BY <1>2, <1>3, <1>4, <1>6, <1>7, <1>8 DEF DocTreeInv, Root
<1>10. DocRequestsInv /\ MarksInv
  BY <1>2 DEF DocRequestsInv, DocReqOK, MarksInv
<1>11. StrandedInv /\ RolesOnlyWhenRestricted
  BY <1>1, <1>2, <1>3, <1>4, <1>6 DEF StrandedInv, RolesOnlyWhenRestricted, Live, Root
<1>12. \A n \in Ids :
         /\ mirror[n] \in Heard
         /\ mirror[n].version = (IF n = 1 \/ n = 2 THEN 1 ELSE 0)
         /\ mirror[n].have = (IF n = 1 \/ n = 2 THEN 1 ELSE 0)
         /\ mirror[n].text = 0 /\ mirror[n].dead = FALSE
  BY <1>2, <1>3 DEF Heard, Unknown
<1>13. VersionsInv
  <2>1. mirror \in [Ids -> Heard]
    BY <1>2, <1>12
  <2>2. VersionNamesContent
    BY <1>4, <1>12 DEF VersionNamesContent
  <2>3. QED
    BY <1>4, <1>6, <1>12, <2>1, <2>2 DEF VersionsInv
<1>14. FeedInv
  <2>1. nodes[1].version = 1 /\ nodes[1].deleted = FALSE /\ nodes[2].version = 1
        /\ nodes[2].deleted = FALSE
    BY <1>4
  <2>2. \A n \in Ids : Exists(n) => mirror[n].version = nodes[n].version
                                   /\ mirror[n].dead = nodes[n].deleted
    BY <1>6, <1>12, <2>1
  <2>3. FeedLosesNothing
    BY <2>2 DEF FeedLosesNothing
  <2>4. QED
    BY <1>2, <1>3, <2>3 DEF FeedInv, NoCursor
<1>15. QED
  BY <1>9, <1>10, <1>11, <1>13, <1>14 DEF DocumentsInv

\* Every step of the documents keeps it.
LEMMA DocumentsNextInv == DocumentsInv /\ [DocumentsNext]_documentsVars => DocumentsInv'
<1> SUFFICES ASSUME DocumentsInv, [DocumentsNext]_documentsVars PROVE DocumentsInv'
  OBVIOUS
<1>1. ASSUME NEW w \in Writers,
             BeginCreate(w) \/ BeginPatch(w) \/ BeginSetVisibility(w) \/ BeginReorder(w)
               \/ BeginCopy(w) \/ BeginDelete(w)
      PROVE  DocumentsInv'
  <2>1. PICK r : CanBegin(w) /\ r.start = Start /\ DocReadsOK(r) /\ Begin(w, r)
    BY <1>1, DocBeginReads DEF DocumentsInv
  <2>2. QED
    BY <2>1, DocBeginStep
<1>2. ASSUME NEW w \in Writers,
             FinishCreate(w) \/ FinishPatch(w) \/ FinishSetVisibility(w) \/ FinishReorder(w)
               \/ load_subtree(w) \/ roles_for_nodes(w) \/ FinishCopy(w)
               \/ FinishDelete(w) \/ AbortDocument(w)
      PROVE  DocumentsInv'
  BY <1>2, FinishCreateStep, FinishPatchStep, FinishSetVisibilityStep, FinishReorderStep,
     LoadSubtreeStep, RolesForNodesStep, FinishCopyStep, FinishDeleteStep, AbortDocumentStep
<1>3. ASSUME NEW x \in DocRoles, DeleteDocRole(x) PROVE DocumentsInv'
  BY <1>3, DeleteDocRoleStep
<1>4. ASSUME ReadChanges PROVE DocumentsInv'
  BY <1>4, ReadChangesStep
<1>5. ASSUME NEW n \in Ids, get_external(n) PROVE DocumentsInv'
  BY <1>5, GetExternalStep
<1>6. ASSUME UNCHANGED documentsVars PROVE DocumentsInv'
  <2>1. UNCHANGED <<nodes, docReq, docTx, roleRows, mirror, watermark, feedCursor,
                    stranded, crossed, overlapped, late, unannounced>>
    BY <1>6 DEF documentsVars
  <2>2. docTx \in 0 .. MaxDocTx /\ roleRows \subseteq DocRoles /\ docTx <= docTx
    BY DocNumbers DEF DocumentsInv, DocTreeInv
  <2>3. TreeKeeps
    BY <2>1, <2>2, TreeUntouched DEF DocumentsInv
  <2>4. DocRequestsInv'
    BY <2>1, <2>3, DocRequestsKept DEF DocumentsInv
  <2>5. QED
    BY <2>1, <2>3, <2>4, DocQuietStep
<1>7. QED
  BY <1>1, <1>2, <1>3, <1>4, <1>5, <1>6 DEF DocumentsNext

\* What the invariant says in the words of the runs.
LEMMA DocumentsInvSays ==
  DocumentsInv => DocumentTreeHolds /\ FeedLosesNothing /\ VersionNamesContent
<1> SUFFICES ASSUME DocumentsInv PROVE DocumentTreeHolds /\ FeedLosesNothing /\ VersionNamesContent
  OBVIOUS
<1>1. \A w \in Writers : docReq[w] # Idle => docReq[w].start \in 1 .. docTx
  BY DEF DocumentsInv, DocRequestsInv, DocReqOK
<1>2. DocumentsTypeOK
  BY <1>1 DEF DocumentsInv, DocTreeInv, VersionsInv, FeedInv, MarksInv, DocumentsTypeOK
<1>3. ListAgreesWithLookup
  BY ListAgrees DEF DocumentsInv
<1>4. QED
  BY <1>2, <1>3 DEF DocumentsInv, DocumentTreeHolds, FeedInv, VersionsInv

\* The tree of documents keeps its shape, gives one answer to who sees what, and
\* its feed loses nothing and names what is read, for any number of writers,
\* nodes and transactions.
THEOREM DocumentsCorrect ==
  DocumentsSpec => [](DocumentTreeHolds /\ FeedLosesNothing /\ VersionNamesContent)
BY DocumentsInitInv, DocumentsNextInv, DocumentsInvSays, PTL DEF DocumentsSpec

\* The composition keeps it whichever part moves.
LEMMA ConsoleKeepsDocuments == ConsoleSpec => []DocumentsInv
<1>1. ConsoleInit => DocumentsInv
  BY DocumentsInitInv DEF ConsoleInit
<1>2. [ConsoleNext]_consoleVars => [DocumentsNext]_documentsVars
  BY DEF ConsoleNext, consoleVars, documentsVars
<1>3. DocumentsInv /\ [ConsoleNext]_consoleVars => DocumentsInv'
  BY <1>2, DocumentsNextInv
<1>4. QED
  BY <1>1, <1>3, PTL DEF ConsoleSpec

\* One answer to who sees what: the list of the tree, computed downwards, and the
\* check of one node, computed upwards, agree in every state of the composition
\* but for nodes put under a folder that was being deleted.
THEOREM ConsoleDocuments == ConsoleSpec => []DocumentsHold
<1>1. DocumentsInv => DocumentsHold
  BY DocumentsInvSays DEF DocumentsHold
<1>2. QED
  BY <1>1, ConsoleKeepsDocuments, PTL

\* A reader that walks the feed by its cursor hears of every change, unless it had
\* passed the start of the transaction before that committed.
THEOREM ConsoleFeed == ConsoleSpec => []FeedLosesNothing
BY ConsoleKeepsDocuments, DocumentsInvSays, PTL

\* Equal content versions mean equal text, unless two requests edited the node at
\* once.
THEOREM ConsoleVersions == ConsoleSpec => []VersionNamesContent
BY ConsoleKeepsDocuments, DocumentsInvSays, PTL

----------------------------------------------------------------------------
(* The admin APIs of backends.                                              *)

\* What a request may still have to ask, and what it may look for.
CallLists ==
  {<<"products", "capabilities">>, <<"pricing", "capabilities">>, <<"capabilities">>, <<"users">>,
   <<"card">>, <<"stranger">>, <<"tokens">>, <<"edit">>}
Calls == {"products", "pricing", "capabilities", "users", "card", "stranger", "tokens", "edit"}
LastCandidate == <<"/v1/admin">>
Replies == {"", "ok", "not_found", "refused", "unusable", "failed", "lost"}
Ask == [at : {"sent", "replied"}, n : Nat, host : AdminHosts, calls : CallLists, path : Calls,
        detecting : BOOLEAN, left : Seq(Prefixes), reply : Replies]

\* A call goes to the one prefix known, or the search goes through both.
Directed(ask) ==
  /\ ask.path = IF ask.detecting THEN "products" ELSE Head(ask.calls)
  /\ IF ask.detecting THEN ask.left \in {PREFIX_CANDIDATES, LastCandidate}
     ELSE \E prefix \in Prefixes : ask.left = <<prefix>>

\* A list of calls has a first one, and what follows it is a list or nothing.
LEMMA CallListShape ==
  ASSUME NEW calls \in CallLists
  PROVE  /\ calls # <<>> /\ Head(calls) \in Calls
         /\ Tail(calls) = <<>> \/ Tail(calls) \in CallLists
         /\ Head(calls) \in Changes => Tail(calls) = <<>>
<1>1. CASE \E first \in {"products", "pricing"} : calls = <<first, "capabilities">>
  <2>1. PICK first \in {"products", "pricing"} : calls = <<first, "capabilities">>
    BY <1>1
  <2>2. calls # <<>> /\ Head(calls) = first /\ Tail(calls) = <<"capabilities">>
    BY <2>1
  <2>3. QED
    BY <2>2 DEF CallLists, Calls, Changes
<1>2. CASE \E only \in {"capabilities", "users", "card", "stranger", "tokens", "edit"} : calls = <<only>>
  <2>1. PICK only \in {"capabilities", "users", "card", "stranger", "tokens", "edit"} : calls = <<only>>
    BY <1>2
  <2>2. calls # <<>> /\ Head(calls) = only /\ Tail(calls) = <<>>
    BY <2>1
  <2>3. QED
    BY <2>2 DEF Calls
<1>3. QED
  BY <1>1, <1>2 DEF CallLists

\* The prefixes a search still has before it.
LEMMA PrefixShape ==
  /\ Prefixes = {"/api/billing/admin", "/v1/admin"}
  /\ PREFIX_CANDIDATES \in Seq(Prefixes) /\ Head(PREFIX_CANDIDATES) = "/api/billing/admin"
  /\ Len(PREFIX_CANDIDATES) = 2 /\ Tail(PREFIX_CANDIDATES) = LastCandidate
  /\ LastCandidate \in Seq(Prefixes) /\ Head(LastCandidate) = "/v1/admin"
  /\ Len(LastCandidate) = 1
  /\ \A prefix \in Prefixes : /\ <<prefix>> \in Seq(Prefixes) /\ Head(<<prefix>>) = prefix
                              /\ Len(<<prefix>>) = 1
<1>1. Prefixes = {"/api/billing/admin", "/v1/admin"}
  <2>1. DOMAIN PREFIX_CANDIDATES = {1, 2}
    BY DEF PREFIX_CANDIDATES
  <2>2. PREFIX_CANDIDATES[1] = "/api/billing/admin" /\ PREFIX_CANDIDATES[2] = "/v1/admin"
    BY DEF PREFIX_CANDIDATES
  <2>3. QED
    BY <2>1, <2>2 DEF Prefixes
<1>2. QED
  BY <1>1 DEF PREFIX_CANDIDATES, LastCandidate

\* Every request waits for a call of its list, under a number of its own.
AsksInv ==
  /\ askCount \in Nat /\ asks \in [Askers -> Ask \cup {NoAsk}]
  /\ \A o \in Askers : asks[o] # NoAsk => Directed(asks[o]) /\ asks[o].n \in 1 .. askCount
  /\ \A o, p \in Askers : asks[o] # NoAsk /\ asks[p] # NoAsk /\ asks[o].n = asks[p].n => o = p

\* The row, the hosts and the prefix remembered.
SitesInv ==
  /\ upstream \in [AdminHosts -> Contracts] /\ entry \in [host : AdminHosts, key : BOOLEAN]
  /\ cached \in {NoPrefix} \cup Prefixes /\ moved \in BOOLEAN /\ poisoned \in BOOLEAN
  /\ untrue \subseteq {"contract", "user", "extension"}

\* An edit the backend made is in the reply its request holds, or it told nothing.
Undone(ask) ==
  <<"edit", ask.n>> \in applied
    => ask.at = "replied" /\ ask.path = "edit" /\ (ask.reply \in {"ok", "unusable"} \/ ask.n \in unanswered)
Done(ask) == ask.at = "replied" /\ Logged(ask) # {} => <<ask.path, ask.n>> \in applied
HistoryInv ==
  /\ applied \subseteq Changes \X (1 .. askCount) /\ audit \subseteq applied
  /\ unanswered \subseteq 1 .. askCount
  /\ \A o \in Askers : asks[o] # NoAsk => Undone(asks[o]) /\ Done(asks[o])
  /\ \A change \in applied \ audit : change[1] = "edit" =>
       \/ change[2] \in unanswered
       \/ \E o \in Askers : asks[o] # NoAsk /\ asks[o].n = change[2]

\* What a request knows of the prefix of its host: it is the one it asks, or the
\* candidates it has passed by are not.
Sees(ask) ==
  LET site == upstream[ask.host] IN
    /\ ask.host = entry.host
    /\ ~ask.detecting => Head(ask.left) = site.prefix
    /\ ask.detecting /\ ask.left = LastCandidate => site.prefix # "/api/billing/admin"
    /\ ask.at = "replied" /\ ask.reply = "not_found" => ~Has(ask.host, Head(ask.left), ask.path)
SightInv ==
  ~moved /\ ~poisoned =>
    /\ cached \in {NoPrefix, upstream[entry.host].prefix} /\ untrue = {}
    /\ \A o \in Askers : asks[o] # NoAsk => Sees(asks[o])

AdminInv == AsksInv /\ SitesInv /\ HistoryInv /\ SightInv

\* The invariant is more than the property.
LEMMA AdminInvHolds == AdminInv => BackendAdminHolds
<1> SUFFICES ASSUME AdminInv PROVE BackendAdminHolds
  OBVIOUS
<1>1. BackendAdminTypeOK
  BY DEF AdminInv, SitesInv, HistoryInv, BackendAdminTypeOK
<1>2. NotFoundIsTrue
  BY DEF AdminInv, SitesInv, SightInv, NotFoundIsTrue
<1>3. AuditIsHistory
  <2>1. \A o \in Askers : asks[o] # NoAsk => asks[o].n \in {asks[p].n : p \in {q \in Askers : asks[q] # NoAsk}}
    OBVIOUS
  <2>2. QED
    BY <2>1 DEF AdminInv, HistoryInv, AuditIsHistory
<1>4. QED
  BY <1>1, <1>2, <1>3 DEF BackendAdminHolds

\* A request that is one is not NoAsk.
LEMMA AskIsNone == NoAsk \notin Ask
BY DEF NoAsk, Ask

\* Nothing has been asked at first.
LEMMA AdminBegins == BackendAdminInit => AdminInv
<1> SUFFICES ASSUME BackendAdminInit PROVE AdminInv
  OBVIOUS
<1> USE BackendAdminAssumption DEF BackendAdminInit
<1>1. FirstAdminHost \in AdminHosts
  BY DEF FirstAdminHost
<1>2. upstream \in [AdminHosts -> Contracts]
  <2>1. [prefix |-> "/v1/admin", level |-> 2] \in Contracts
    BY PrefixShape DEF Contracts
  <2>2. QED
    BY <2>1
<1>3. AsksInv /\ HistoryInv
  BY DEF AsksInv, HistoryInv
<1>4. SitesInv /\ SightInv
  BY <1>1, <1>2 DEF SitesInv, SightInv
<1>5. QED
  BY <1>3, <1>4 DEF AdminInv

\* A request with calls left to route.
Routable == [at : {"new", "sent", "replied"}, n : Nat, host : AdminHosts, calls : CallLists,
             path : Calls \cup {""}, detecting : BOOLEAN, left : Seq(Prefixes), reply : Replies]

\* Where a call goes, given the prefix that is known: it is a request on its way
\* that sees what its prefix tells.
LEMMA RoutedShape ==
  ASSUME NEW ask \in Routable, NEW prefix \in {NoPrefix} \cup Prefixes
  PROVE  LET new == Routed(ask, prefix) IN
           /\ new \in Ask /\ Directed(new)
           /\ new.at = "sent" /\ new.n = ask.n /\ new.host = ask.host
           /\ ask.host = entry.host /\ prefix \in {NoPrefix, upstream[entry.host].prefix} => Sees(new)
<1>1. PICK path : path = IF prefix = NoPrefix THEN "products" ELSE Head(ask.calls)
  OBVIOUS
<1>2. PICK left : left = IF prefix = NoPrefix THEN PREFIX_CANDIDATES ELSE <<prefix>>
  OBVIOUS
<1>3. PICK detecting \in BOOLEAN : detecting <=> prefix = NoPrefix
  OBVIOUS
<1>4. path \in Calls
  BY <1>1, CallListShape DEF Calls, Routable
<1>5. left \in Seq(Prefixes) /\ (~detecting => prefix \in Prefixes /\ left = <<prefix>> /\ Head(left) = prefix)
      /\ (detecting => left = PREFIX_CANDIDATES)
  BY <1>2, <1>3, PrefixShape
<1>6. PICK new : new = [at |-> "sent", n |-> ask.n, host |-> ask.host, calls |-> ask.calls,
                        path |-> path, detecting |-> detecting, left |-> left, reply |-> ask.reply]
  OBVIOUS
<1>7. Routed(ask, prefix) = new
  <2>1. (prefix = NoPrefix) = detecting
    BY <1>3
  <2>2. Routed(ask, prefix) = [ask EXCEPT !.at = "sent", !.path = path, !.detecting = detecting,
                                          !.left = left]
    BY <1>1, <1>2, <2>1 DEF Routed
  <2>3. QED
    BY <1>6, <2>2 DEF Routable
<1>8. new \in Ask
  BY <1>4, <1>5, <1>6 DEF Ask, Routable
<1>9. new.at = "sent" /\ new.n = ask.n /\ new.host = ask.host /\ new.calls = ask.calls
      /\ new.path = path /\ new.detecting = detecting /\ new.left = left
  BY <1>6
<1>10. Directed(new)
  BY <1>1, <1>3, <1>5, <1>9 DEF Directed
<1>11. ASSUME ask.host = entry.host, prefix \in {NoPrefix, upstream[entry.host].prefix}
       PROVE  Sees(new)
  <2>1. PREFIX_CANDIDATES # LastCandidate
    BY PrefixShape
  <2>2. QED
    BY <1>3, <1>5, <1>9, <1>11, <2>1 DEF Sees
<1>12. QED
  BY <1>7, <1>8, <1>9, <1>10, <1>11

\* One operator's request moves on, under its number, or comes to an end.
LEMMA AskMoves ==
  ASSUME AsksInv, NEW o \in Askers, asks[o] # NoAsk, NEW new,
         new = NoAsk \/ (new \in Ask /\ Directed(new) /\ new.n = asks[o].n),
         asks' = [asks EXCEPT ![o] = new], askCount' = askCount
  PROVE  AsksInv'
<1>1. \A p \in Askers : asks'[p] = IF p = o THEN new ELSE asks[p]
  BY DEF AsksInv
<1>2. QED
  BY <1>1 DEF AsksInv, Directed

\* A new request has a number nobody had.
LEMMA BeginAskStep ==
  ASSUME AdminInv, NEW o \in Askers, NEW op \in DOMAIN CallsOf, BeginAsk(o, op)
  PROVE  AdminInv'
<1> USE DEF AdminInv
<1>1. /\ askCount \in Nat /\ askCount' = askCount + 1 /\ asks[o] = NoAsk
      /\ UNCHANGED <<upstream, entry, cached, applied, audit, unanswered, moved, poisoned, untrue>>
  BY DEF BeginAsk, AsksInv
<1>2. PICK ask : ask = [at |-> "new", n |-> askCount', host |-> entry.host, calls |-> CallsOf[op],
                        path |-> "", detecting |-> FALSE, left |-> <<>>, reply |-> ""]
  OBVIOUS
<1>3. PICK new : new = Routed(ask, cached)
  OBVIOUS
<1>4. asks' = [asks EXCEPT ![o] = new]
  BY <1>2, <1>3 DEF BeginAsk
<1>5. CallsOf[op] \in CallLists
  <2>1. op \in {"products", "tariffs", "users", "card", "stranger", "tokens", "edit"}
    BY DEF CallsOf
  <2>2. CASE op = "products"
    BY <2>2 DEF CallsOf, CallLists
  <2>3. CASE op = "tariffs"
    BY <2>3 DEF CallsOf, CallLists
  <2>4. CASE op \in {"users", "card", "stranger", "tokens", "edit"}
    <3>1. CallsOf[op] = <<op>>
      BY <2>4 DEF CallsOf
    <3>2. QED
      BY <2>4, <3>1 DEF CallLists
  <2>5. QED
    BY <2>1, <2>2, <2>3, <2>4
<1>6. ask \in Routable /\ ask.n = askCount + 1 /\ ask.host = entry.host
  <2>1. entry.host \in AdminHosts /\ askCount + 1 \in Nat
    BY <1>1 DEF SitesInv
  <2>2. <<>> \in Seq(Prefixes) /\ "" \in Replies
    BY DEF Replies
  <2>3. QED
    BY <1>1, <1>2, <1>5, <2>1, <2>2 DEF Routable
<1>7. /\ new \in Ask /\ Directed(new) /\ new.at = "sent" /\ new.n = askCount + 1
      /\ cached \in {NoPrefix, upstream[entry.host].prefix} => Sees(new)
  BY <1>3, <1>6, RoutedShape DEF SitesInv
<1>8. \A p \in Askers : asks'[p] = IF p = o THEN new ELSE asks[p]
  BY <1>4 DEF AsksInv
<1>9. AsksInv'
  <2>1. \A p \in Askers : asks[p] # NoAsk => asks[p].n \in 1 .. askCount
    BY DEF AsksInv
  <2>2. asks' \in [Askers -> Ask \cup {NoAsk}]
    BY <1>4, <1>7 DEF AsksInv
  <2>3. \A p \in Askers : asks'[p] # NoAsk => Directed(asks'[p])
    BY <1>7, <1>8 DEF AsksInv
  <2>4. \A p \in Askers : asks'[p] # NoAsk => asks'[p].n \in 1 .. askCount'
    BY <1>1, <1>7, <1>8, <2>1
  <2>5. \A p, q \in Askers : asks'[p] # NoAsk /\ asks'[q] # NoAsk /\ asks'[p].n = asks'[q].n => p = q
    <3>1. askCount + 1 \notin 1 .. askCount
      BY <1>1
    <3>2. QED
      BY <1>7, <1>8, <2>1, <3>1 DEF AsksInv
  <2>6. QED
    BY <1>1, <2>2, <2>3, <2>4, <2>5 DEF AsksInv, Directed
<1>10. SitesInv'
  BY <1>1 DEF SitesInv
<1>11. HistoryInv'
  <2>1. <<"edit", new.n>> \notin applied
    BY <1>1, <1>7 DEF HistoryInv
  <2>2. Undone(new)' /\ Done(new)'
    BY <1>1, <1>7, <2>1 DEF Undone, Done
  <2>3. ASSUME NEW p \in Askers, asks'[p] # NoAsk PROVE (Undone(asks[p]) /\ Done(asks[p]))'
    <3>1. CASE p = o
      BY <1>8, <2>2, <3>1 DEF Undone, Done
    <3>2. CASE p # o
      BY <1>1, <1>8, <2>3, <3>2 DEF HistoryInv, Undone, Done
    <3>3. QED
      BY <3>1, <3>2
  <2>4. 1 .. askCount \subseteq 1 .. askCount'
    BY <1>1
  <2>5. applied \subseteq Changes \X (1 .. askCount') /\ unanswered \subseteq 1 .. askCount'
    BY <2>4 DEF HistoryInv
  <2>6. ASSUME NEW change \in applied \ audit, change[1] = "edit", change[2] \notin unanswered
        PROVE  \E p \in Askers : asks'[p] # NoAsk /\ asks'[p].n = change[2]
    BY <1>1, <1>8, <2>6 DEF HistoryInv
  <2>7. QED
    BY <1>1, <2>3, <2>5, <2>6 DEF HistoryInv
<1>12. SightInv'
  BY <1>1, <1>7, <1>8 DEF SightInv, Sees, Has
<1>13. QED
  BY <1>9, <1>10, <1>11, <1>12

\* The backend's reply, and what it did.
LEMMA ServeStep ==
  ASSUME AdminInv, NEW o \in Askers, Serve(o) PROVE AdminInv'
<1> USE DEF AdminInv
<1>1. PICK ask : ask = asks[o]
  OBVIOUS
<1> DEFINE has == Has(ask.host, Head(ask.left), ask.path)
           able == has /\ ask.path \in Changes
<1>4. /\ ask.at = "sent"
      /\ UNCHANGED <<upstream, entry, cached, askCount, audit, moved, poisoned, untrue>>
  BY <1>1 DEF Serve
<1>5. PICK reply \in {"ok", "not_found", "refused", "unusable", "failed", "lost"}, done \in BOOLEAN :
         /\ done => able
         /\ reply = "ok" => has /\ (able => done)
         /\ reply = "not_found" => ~has
         /\ reply = "refused" => able /\ ~done
         /\ applied' = IF done THEN applied \cup {<<ask.path, ask.n>>} ELSE applied
         /\ unanswered' = IF reply \in {"failed", "lost"} THEN unanswered \cup {ask.n} ELSE unanswered
         /\ asks' = [asks EXCEPT ![o] = [ask EXCEPT !.at = "replied", !.reply = reply]]
         /\ reply = "unusable" => has /\ (able => done)
  BY <1>1 DEF Serve
<1>6. asks[o] # NoAsk
  BY <1>1, <1>4 DEF NoAsk
<1>7. ask \in Ask /\ Directed(ask) /\ ask.n \in 1 .. askCount
  BY <1>1, <1>6 DEF AsksInv
<1>8. PICK new : new = [ask EXCEPT !.at = "replied", !.reply = reply]
  OBVIOUS
<1>9. /\ new \in Ask /\ new.at = "replied" /\ new.n = ask.n /\ new.host = ask.host
      /\ new.calls = ask.calls /\ new.path = ask.path /\ new.detecting = ask.detecting
      /\ new.left = ask.left /\ new.reply = reply
  BY <1>7, <1>8 DEF Ask, Replies
<1>10. Directed(new) /\ new # NoAsk
  BY <1>7, <1>9, AskIsNone DEF Directed
<1>11. asks' = [asks EXCEPT ![o] = new] /\ \A p \in Askers : asks'[p] = IF p = o THEN new ELSE asks[p]
  BY <1>5, <1>8 DEF AsksInv
<1>12. AsksInv'
  BY <1>1, <1>4, <1>6, <1>9, <1>10, <1>11, AskMoves
<1>13. SitesInv'
  BY <1>4 DEF SitesInv
<1>14. HistoryInv'
  <2>1. <<"edit", ask.n>> \notin applied
    BY <1>1, <1>4, <1>6 DEF HistoryInv, Undone
  <2>2. applied \subseteq applied' /\ unanswered \subseteq unanswered'
        /\ applied' \subseteq applied \cup {<<ask.path, ask.n>>}
    BY <1>5
  <2>3. applied' \subseteq Changes \X (1 .. askCount) /\ unanswered' \subseteq 1 .. askCount
    BY <1>5, <1>7 DEF HistoryInv
  <2>4. Undone(new)'
    <3>1. SUFFICES ASSUME <<"edit", ask.n>> \in applied'
                   PROVE  ask.path = "edit" /\ (reply \in {"ok", "unusable"} \/ ask.n \in unanswered')
      BY <1>9 DEF Undone
    <3>2. done /\ ask.path = "edit"
      BY <1>5, <2>1, <3>1
    <3>3. QED
      BY <1>5, <3>2
  <2>5. Done(new)'
    <3>1. SUFFICES ASSUME Logged(new) # {} PROVE <<ask.path, ask.n>> \in applied'
      BY <1>9 DEF Done
    <3>2. ask.path \in Changes /\ reply \in {"ok", "unusable"}
      BY <1>9, <3>1 DEF Logged, Audited
    <3>3. QED
      BY <1>5, <3>2
  <2>6. ASSUME NEW p \in Askers, asks'[p] # NoAsk PROVE (Undone(asks[p]) /\ Done(asks[p]))'
    <3>1. CASE p = o
      BY <1>11, <2>4, <2>5, <3>1 DEF Undone, Done
    <3>2. CASE p # o
      <4>1. asks'[p] = asks[p] /\ asks[p] # NoAsk /\ asks[p].n # ask.n
        BY <1>1, <1>6, <1>11, <2>6, <3>2 DEF AsksInv
      <4>2. Undone(asks[p]) /\ Done(asks[p])
        BY <4>1 DEF HistoryInv
      <4>3. <<"edit", asks[p].n>> \in applied' => <<"edit", asks[p].n>> \in applied
        BY <2>2, <4>1
      <4>4. QED
        BY <2>2, <4>1, <4>2, <4>3 DEF Undone, Done
    <3>3. QED
      BY <3>1, <3>2
  <2>7. ASSUME NEW change \in applied' \ audit, change[1] = "edit", change[2] \notin unanswered'
        PROVE  \E p \in Askers : asks'[p] # NoAsk /\ asks'[p].n = change[2]
    <3>1. CASE change \in applied
      BY <1>1, <1>9, <1>10, <1>11, <2>2, <2>7, <3>1 DEF HistoryInv
    <3>2. CASE change = <<ask.path, ask.n>>
      BY <1>9, <1>10, <1>11, <3>2
    <3>3. QED
      BY <2>2, <3>1, <3>2
  <2>8. QED
    BY <1>4, <2>2, <2>3, <2>6, <2>7 DEF HistoryInv
<1>15. SightInv'
  <2>1. SUFFICES ASSUME ~moved, ~poisoned
                 PROVE  \A p \in Askers : asks'[p] # NoAsk => Sees(asks[p])'
    BY <1>4 DEF SightInv
  <2>2. Sees(ask)
    BY <1>1, <1>6, <2>1 DEF SightInv
  <2>3. Sees(new)
    BY <1>5, <1>9, <2>2 DEF Sees
  <2>4. QED
    BY <1>4, <1>11, <2>1, <2>3 DEF SightInv, Sees, Has
<1>16. QED
  BY <1>12, <1>13, <1>14, <1>15

\* A request that ends leaves no edit behind that is not logged or untold.
LEMMA HistoryAfter ==
  ASSUME AsksInv, HistoryInv, NEW o \in Askers, asks[o] # NoAsk, NEW new,
         UNCHANGED <<askCount, applied, unanswered>>, audit \subseteq audit', audit' \subseteq applied,
         asks' = [asks EXCEPT ![o] = new],
         new = NoAsk \/ (new \in Ask /\ new.n = asks[o].n /\ Undone(new) /\ Done(new)),
         new = NoAsk => \/ <<"edit", asks[o].n>> \notin applied
                        \/ <<"edit", asks[o].n>> \in audit'
                        \/ asks[o].n \in unanswered
  PROVE  HistoryInv'
<1>1. \A p \in Askers : asks'[p] = IF p = o THEN new ELSE asks[p]
  BY DEF AsksInv
<1>2. ASSUME NEW p \in Askers, asks'[p] # NoAsk PROVE (Undone(asks[p]) /\ Done(asks[p]))'
  <2>1. Undone(asks'[p]) /\ Done(asks'[p])
    BY <1>1, <1>2 DEF HistoryInv
  <2>2. QED
    BY <2>1 DEF Undone, Done
<1>3. ASSUME NEW change \in applied \ audit', change[1] = "edit", change[2] \notin unanswered
      PROVE  \E p \in Askers : asks'[p] # NoAsk /\ asks'[p].n = change[2]
  <2>1. PICK p \in Askers : asks[p] # NoAsk /\ asks[p].n = change[2]
    BY <1>3 DEF HistoryInv
  <2>2. change = <<"edit", change[2]>>
    BY <1>3 DEF HistoryInv
  <2>3. p = o => new # NoAsk /\ new.n = change[2]
    BY <1>3, <2>1, <2>2
  <2>4. QED
    BY <1>1, <2>1, <2>3
<1>4. QED
  BY <1>2, <1>3 DEF HistoryInv

\* What a 404 is said to mean is so, to a request that sees its host.
LEMMA NotFoundIsSo ==
  ASSUME NEW ask \in Ask, Directed(ask), Sees(ask), upstream \in [AdminHosts -> Contracts],
         ask.at = "replied", ask.reply = "not_found", ~(ask.detecting /\ Len(ask.left) > 1)
  PROVE  IsSo(_not_found_error(ask), ask)
<1>1. PICK site : site = upstream[ask.host]
  OBVIOUS
<1>2. site \in Contracts /\ (site.prefix = NoPrefix \/ site.prefix \in Prefixes) /\ site.level \in {1, 2}
  BY <1>1 DEF Ask, Contracts
<1>3. ~Has(ask.host, Head(ask.left), ask.path)
  BY DEF Sees
<1>4. CASE ask.detecting
  <2>1. ask.left = LastCandidate
    BY <1>4, PrefixShape DEF Directed
  <2>2. site.prefix # "/api/billing/admin"
    BY <1>1, <1>4, <2>1 DEF Sees
  <2>3. ask.path = "products" /\ Head(ask.left) = "/v1/admin"
    BY <1>4, <2>1, PrefixShape DEF Directed
  <2>4. site.prefix # "/v1/admin"
    BY <1>1, <1>3, <2>3 DEF Has, NotFoundSemantics
  <2>5. site.prefix = NoPrefix
    BY <1>2, <2>2, <2>4, PrefixShape
  <2>6. _not_found_error(ask) = "contract"
    BY <1>4 DEF _not_found_error
  <2>7. QED
    BY <1>1, <2>5, <2>6 DEF IsSo
<1>5. CASE ~ask.detecting
  <2>1. ask.path = Head(ask.calls) /\ Head(ask.left) = site.prefix /\ site.prefix \in Prefixes
    BY <1>1, <1>5, PrefixShape DEF Directed, Sees
  <2>2. site.prefix # NoPrefix
    BY <2>1, PrefixShape, BackendAdminAssumption
  <2>3. _not_found_error(ask) = NotFoundSemantics(ask.path)
    BY <1>5 DEF _not_found_error
  <2>4. CASE ask.path = "stranger"
    <3>1. NotFoundSemantics(ask.path) = "user"
      BY <2>4 DEF NotFoundSemantics
    <3>2. QED
      BY <1>1, <2>1, <2>2, <2>3, <2>4, <3>1 DEF IsSo
  <2>5. CASE ask.path # "stranger"
    <3>1. NotFoundSemantics(ask.path) = "extension" /\ site.level # 2
      BY <1>1, <1>3, <2>1, <2>5 DEF Has
    <3>2. QED
      BY <1>1, <1>2, <2>2, <2>3, <3>1 DEF IsSo
  <2>6. QED
    BY <2>4, <2>5
<1>6. QED
  BY <1>4, <1>5

\* A 404 sends the search on or ends the request with what it means.
LEMMA NotFoundStep ==
  ASSUME AdminInv, NEW o \in Askers, NotFound(o) PROVE AdminInv'
<1> USE DEF AdminInv
<1>1. PICK ask : ask = asks[o]
  OBVIOUS
<1>2. /\ ask.at = "replied" /\ ask.reply = "not_found"
      /\ UNCHANGED <<upstream, entry, cached, askCount, applied, audit, unanswered, moved, poisoned>>
  BY <1>1 DEF NotFound
<1>3. asks[o] # NoAsk
  BY <1>1, <1>2 DEF NoAsk
<1>4. ask \in Ask /\ Directed(ask) /\ Undone(ask) /\ Done(ask)
  BY <1>1, <1>3 DEF AsksInv, HistoryInv
<1>5. <<"edit", ask.n>> \notin applied \/ ask.n \in unanswered
  BY <1>2, <1>4 DEF Undone
<1>6. ~moved /\ ~poisoned => Sees(ask)
  BY <1>1, <1>3 DEF SightInv
<1>7. CASE ask.detecting /\ Len(ask.left) > 1
  <2>1. ask.left = PREFIX_CANDIDATES /\ Tail(ask.left) = LastCandidate /\ LastCandidate \in Seq(Prefixes)
    <3>1. ask.left \in {PREFIX_CANDIDATES, LastCandidate}
      BY <1>4, <1>7 DEF Directed
    <3>2. Len(LastCandidate) = 1 /\ Tail(PREFIX_CANDIDATES) = LastCandidate /\ LastCandidate \in Seq(Prefixes)
      BY PrefixShape
    <3>3. ask.left # LastCandidate
      <4>1. Len(ask.left) > 1
        BY <1>7
      <4>2. Len(LastCandidate) = 1
        BY <3>2
      <4>3. ASSUME ask.left = LastCandidate PROVE FALSE
        <5>1. Len(ask.left) = 1
          BY <4>2, <4>3
        <5>2. 1 > 1
          BY ONLY <4>1, <5>1
        <5>3. QED
          BY <5>2
      <4>4. QED
        BY <4>3
    <3>4. QED
      BY <3>1, <3>2, <3>3
  <2>2. PICK new : new = [ask EXCEPT !.at = "sent", !.left = LastCandidate]
    OBVIOUS
  <2>3. asks' = [asks EXCEPT ![o] = new] /\ untrue' = untrue
    BY <1>1, <1>7, <2>1, <2>2 DEF NotFound
  <2>4. /\ new \in Ask /\ new.at = "sent" /\ new.n = ask.n /\ new.host = ask.host
        /\ new.calls = ask.calls /\ new.path = ask.path /\ new.detecting = ask.detecting
        /\ new.left = LastCandidate
    BY <1>4, <2>1, <2>2 DEF Ask
  <2>5. Directed(new)
    BY <1>4, <1>7, <2>4 DEF Directed
  <2>6. AsksInv'
    BY <1>1, <1>2, <1>3, <2>3, <2>4, <2>5, AskMoves
  <2>7. Undone(new) /\ Done(new)
    <3>1. <<"edit", ask.n>> \notin applied
      <4>1. ask.path = "products"
        BY <1>4, <1>7 DEF Directed
      <4>2. QED
        BY <1>4, <4>1 DEF Undone
    <3>2. QED
      BY <2>4, <3>1 DEF Undone, Done
  <2>8. HistoryInv'
    BY <1>1, <1>2, <1>3, <2>3, <2>4, <2>7, AskIsNone, HistoryAfter DEF HistoryInv
  <2>9. SightInv'
    <3>1. SUFFICES ASSUME ~moved, ~poisoned
                   PROVE  \A p \in Askers : asks'[p] # NoAsk => Sees(asks[p])'
      BY <1>2, <2>3 DEF SightInv
    <3>2. upstream[ask.host].prefix # "/api/billing/admin"
      <4>1. ~Has(ask.host, "/api/billing/admin", "products")
        BY <1>2, <1>4, <1>6, <1>7, <2>1, <3>1, PrefixShape DEF Sees, Directed
      <4>2. QED
        BY <4>1 DEF Has, NotFoundSemantics
    <3>3. Sees(new)
      BY <1>6, <1>7, <2>4, <3>1, <3>2 DEF Sees
    <3>4. \A p \in Askers : asks'[p] = IF p = o THEN new ELSE asks[p]
      BY <2>3 DEF AsksInv
    <3>5. QED
      BY <1>2, <3>1, <3>3, <3>4 DEF SightInv, Sees, Has
  <2>10. QED
    BY <1>2, <2>3, <2>6, <2>8, <2>9 DEF SitesInv
<1>8. CASE ~(ask.detecting /\ Len(ask.left) > 1)
  <2>1. PICK meaning : meaning = _not_found_error(ask)
    OBVIOUS
  <2>2. /\ asks' = [asks EXCEPT ![o] = NoAsk]
        /\ untrue' = IF IsSo(meaning, ask) THEN untrue ELSE untrue \cup {meaning}
    BY <1>1, <1>8, <2>1 DEF NotFound
  <2>3. meaning \in {"contract", "user", "extension"}
    BY <2>1 DEF _not_found_error, NotFoundSemantics
  <2>4. AsksInv'
    BY <1>2, <1>3, <2>2, AskMoves
  <2>5. HistoryInv'
    BY <1>1, <1>2, <1>3, <1>5, <2>2, HistoryAfter DEF HistoryInv
  <2>6. SightInv'
    <3>1. SUFFICES ASSUME ~moved, ~poisoned
                   PROVE  untrue' = {} /\ \A p \in Askers : asks'[p] # NoAsk => Sees(asks[p])'
      BY <1>2 DEF SightInv
    <3>2. IsSo(meaning, ask)
      BY <1>2, <1>4, <1>6, <1>8, <2>1, <3>1, NotFoundIsSo DEF SitesInv
    <3>3. \A p \in Askers : asks'[p] = IF p = o THEN NoAsk ELSE asks[p]
      BY <2>2 DEF AsksInv
    <3>4. QED
      BY <1>2, <2>2, <3>1, <3>2, <3>3 DEF SightInv, Sees, Has
  <2>7. QED
    BY <1>2, <2>2, <2>3, <2>4, <2>5, <2>6 DEF SitesInv
<1>9. QED
  BY <1>7, <1>8

\* A request whose reply was lost ends, and the prefix stays as it was known.
LEMMA LostReplyStep ==
  ASSUME AdminInv, NEW o \in Askers, LostReply(o) PROVE AdminInv'
<1> USE DEF AdminInv
<1>1. /\ asks[o].at = "replied" /\ asks[o].reply = "lost" /\ asks' = [asks EXCEPT ![o] = NoAsk]
      /\ UNCHANGED <<upstream, entry, cached, askCount, applied, audit, unanswered, moved, poisoned, untrue>>
  BY DEF LostReply
<1>2. asks[o] # NoAsk
  BY <1>1 DEF NoAsk
<1>3. <<"edit", asks[o].n>> \notin applied \/ asks[o].n \in unanswered
  BY <1>1, <1>2 DEF HistoryInv, Undone
<1>4. AsksInv'
  BY <1>1, <1>2, AskMoves
<1>5. HistoryInv'
  BY <1>1, <1>2, <1>3, HistoryAfter DEF HistoryInv
<1>6. \A p \in Askers : asks'[p] = IF p = o THEN NoAsk ELSE asks[p]
  BY <1>1 DEF AsksInv
<1>7. SightInv'
  BY <1>1, <1>6 DEF SightInv, Sees, Has
<1>8. QED
  BY <1>1, <1>4, <1>5, <1>7 DEF SitesInv

\* Any other status makes the prefix known, and a 2xx goes on with the request.
LEMMA RepliedStep ==
  ASSUME AdminInv, NEW o \in Askers, Replied(o) PROVE AdminInv'
<1> USE DEF AdminInv
<1>1. PICK ask : ask = asks[o]
  OBVIOUS
<1>2. PICK prefix : prefix = Head(ask.left)
  OBVIOUS
<1>3. PICK rest : rest = IF ask.path = Head(ask.calls) THEN Tail(ask.calls) ELSE ask.calls
  OBVIOUS
<1>4. PICK onward : onward = [ask EXCEPT !.calls = rest]
  OBVIOUS
<1>5. PICK new : new = IF ask.reply = "ok" /\ rest # <<>> THEN Routed(onward, prefix) ELSE NoAsk
  OBVIOUS
<1>6. /\ ask.at = "replied" /\ ask.reply \in {"ok", "refused", "unusable", "failed"}
      /\ cached' = prefix /\ poisoned' = (poisoned \/ prefix # upstream[entry.host].prefix)
      /\ audit' = audit \cup Logged(ask)
      /\ asks' = [asks EXCEPT ![o] = new]
      /\ UNCHANGED <<upstream, entry, askCount, applied, unanswered, moved, untrue>>
  BY <1>1, <1>2, <1>3, <1>4, <1>5 DEF Replied
<1>7. asks[o] # NoAsk
  BY <1>1, <1>6 DEF NoAsk
<1>8. ask \in Ask /\ Directed(ask) /\ Undone(ask) /\ Done(ask)
  BY <1>1, <1>7 DEF AsksInv, HistoryInv
<1>9. prefix \in Prefixes
  <2>1. CASE ask.detecting
    BY <1>2, <1>8, <2>1, PrefixShape DEF Directed
  <2>2. CASE ~ask.detecting
    BY <1>2, <1>8, <2>2, PrefixShape DEF Directed
  <2>3. QED
    BY <2>1, <2>2
<1>10. audit \subseteq audit' /\ audit' \subseteq applied
  <2>1. Logged(ask) \subseteq applied
    BY <1>6, <1>8 DEF Logged, Done
  <2>2. QED
    BY <1>6, <2>1 DEF HistoryInv
<1>11. SitesInv'
  BY <1>6, <1>9 DEF SitesInv
<1>12. ~moved /\ ~poisoned' => ~poisoned /\ Sees(ask) /\ prefix = upstream[entry.host].prefix
  BY <1>1, <1>6, <1>7 DEF SightInv, SitesInv
<1>13. \A p \in Askers : asks'[p] = IF p = o THEN new ELSE asks[p]
  BY <1>6 DEF AsksInv
<1>14. CASE ask.reply = "ok" /\ rest # <<>>
  <2>1. new = Routed(onward, prefix)
    BY <1>5, <1>14
  <2>2. rest \in CallLists
    BY <1>3, <1>8, <1>14, CallListShape DEF Ask
  <2>3. onward \in Routable /\ onward.n = ask.n /\ onward.host = ask.host
    BY <1>4, <1>8, <2>2 DEF Ask, Routable
  <2>4. /\ new \in Ask /\ Directed(new) /\ new.at = "sent" /\ new.n = ask.n
        /\ ask.host = entry.host /\ prefix \in {NoPrefix, upstream[entry.host].prefix} => Sees(new)
    BY <1>9, <2>1, <2>3, RoutedShape
  <2>5. AsksInv'
    BY <1>1, <1>6, <1>7, <2>4, AskMoves
  <2>6. <<"edit", ask.n>> \notin applied
    <3>1. SUFFICES ASSUME ask.path = "edit" PROVE FALSE
      BY <1>8 DEF Undone
    <3>2. ask.path = Head(ask.calls)
      BY <1>8, <3>1 DEF Directed
    <3>3. QED
      BY <1>3, <1>8, <1>14, <3>1, <3>2, CallListShape DEF Ask, Changes
  <2>7. Undone(new) /\ Done(new)
    BY <2>4, <2>6 DEF Undone, Done
  <2>8. HistoryInv'
    BY <1>1, <1>6, <1>7, <1>10, <2>4, <2>7, AskIsNone, HistoryAfter DEF HistoryInv
  <2>9. SightInv'
    <3>1. SUFFICES ASSUME ~moved, ~poisoned'
                   PROVE  \A p \in Askers : asks'[p] # NoAsk => Sees(asks[p])'
      BY <1>6, <1>12 DEF SightInv
    <3>2. Sees(new)
      BY <1>12, <2>4, <3>1 DEF Sees
    <3>3. QED
      BY <1>6, <1>12, <1>13, <3>1, <3>2 DEF SightInv, Sees, Has
  <2>10. QED
    BY <1>11, <2>5, <2>8, <2>9
<1>15. CASE ~(ask.reply = "ok" /\ rest # <<>>)
  <2>1. new = NoAsk
    BY <1>5, <1>15
  <2>2. AsksInv'
    BY <1>6, <1>7, <2>1, AskMoves
  <2>3. \/ <<"edit", ask.n>> \notin applied
        \/ <<"edit", ask.n>> \in audit'
        \/ ask.n \in unanswered
    <3>1. SUFFICES ASSUME ask.path = "edit", ask.reply \in {"ok", "unusable"}
                   PROVE  <<"edit", ask.n>> \in audit'
      BY <1>8 DEF Undone
    <3>2. QED
      BY <1>6, <3>1 DEF Logged, Audited, Changes
  <2>4. HistoryInv'
    BY <1>1, <1>6, <1>7, <1>10, <2>1, <2>3, HistoryAfter DEF HistoryInv
  <2>5. SightInv'
    BY <1>6, <1>12, <1>13, <2>1 DEF SightInv, Sees, Has
  <2>6. QED
    BY <1>11, <2>2, <2>4, <2>5
<1>16. QED
  BY <1>14, <1>15

\* An edit of the row lets go of what was known.
LEMMA EditEntryStep ==
  ASSUME AdminInv, NEW host \in AdminHosts, NEW key \in BOOLEAN, EditEntry(host, key)
  PROVE  AdminInv'
<1>1. /\ moved' = TRUE /\ entry' = [host |-> host, key |-> key]
      /\ UNCHANGED <<upstream, cached, asks, askCount, applied, audit, unanswered, poisoned, untrue>>
  BY DEF EditEntry
<1>2. AsksInv' /\ HistoryInv'
  BY <1>1 DEF AdminInv, AsksInv, Directed, HistoryInv, Undone, Done
<1>3. SitesInv' /\ SightInv'
  BY <1>1 DEF AdminInv, SitesInv, SightInv
<1>4. QED
  BY <1>2, <1>3 DEF AdminInv

\* A restart ends every request, and its number is told nothing.
LEMMA RestartAdminStep == AdminInv /\ RestartAdmin => AdminInv'
<1> SUFFICES ASSUME AdminInv, RestartAdmin PROVE AdminInv'
  OBVIOUS
<1>1. /\ cached' = NoPrefix /\ asks' = [o \in Askers |-> NoAsk]
      /\ unanswered' = unanswered \cup {asks[o].n : o \in {p \in Askers : asks[p] # NoAsk}}
      /\ UNCHANGED <<upstream, entry, askCount, applied, audit, moved, poisoned, untrue>>
  BY DEF RestartAdmin
<1>2. AsksInv' /\ SitesInv' /\ SightInv'
  BY <1>1 DEF AdminInv, AsksInv, SitesInv, SightInv
<1>3. HistoryInv'
  <2>1. \A o \in Askers : asks[o] # NoAsk => asks[o].n \in unanswered'
    BY <1>1
  <2>2. unanswered' \subseteq 1 .. askCount
    BY <1>1 DEF AdminInv, AsksInv, HistoryInv
  <2>3. QED
    BY <1>1, <2>1, <2>2 DEF AdminInv, HistoryInv
<1>4. QED
  BY <1>2, <1>3 DEF AdminInv

\* Every step keeps the invariant.
LEMMA AdminNext == AdminInv /\ [BackendAdminNext]_backendAdminVars => AdminInv'
<1> SUFFICES ASSUME AdminInv, [BackendAdminNext]_backendAdminVars PROVE AdminInv'
  OBVIOUS
<1>1. CASE UNCHANGED backendAdminVars
  BY <1>1 DEF backendAdminVars, AdminInv, AsksInv, Directed, SitesInv, HistoryInv, Undone, Done,
              SightInv, Sees, Has
<1>2. CASE BackendAdminNext
  BY <1>2, BeginAskStep, ServeStep, NotFoundStep, LostReplyStep, RepliedStep, EditEntryStep,
     RestartAdminStep DEF BackendAdminNext
<1>3. QED
  BY <1>1, <1>2

\* What a 404 is said to mean is so as long as the prefix is that of the host, and
\* the log holds what the backend did: every edit but those whose reply told
\* nothing (_not_found_error, update_product, update_pricing).
THEOREM AdminCorrect == BackendAdminSpec => []BackendAdminHolds
<1> QED
  BY AdminBegins, AdminNext, AdminInvHolds, PTL DEF BackendAdminSpec

\* The same of the console as a whole.
THEOREM ConsoleAdmin == ConsoleSpec => []AdminHolds
<1>1. ConsoleInit => AdminInv
  BY AdminBegins DEF ConsoleInit
<1>2. AdminInv /\ [ConsoleNext]_consoleVars => AdminInv'
  <2>1. [ConsoleNext]_consoleVars => [BackendAdminNext]_backendAdminVars
    BY DEF ConsoleNext, consoleVars
  <2>2. QED
    BY <2>1, AdminNext
<1>3. AdminInv => AdminHolds
  BY AdminInvHolds DEF AdminHolds
<1>4. QED
  BY <1>1, <1>2, <1>3, PTL DEF ConsoleSpec

----------------------------------------------------------------------------
(* Users, roles and sign-in.                                                *)

\* What a request holds between its two steps.
Touchable == Accts \cup AcctRoles
EntryRequest == [op : {"login", "setup", "set"}, user : Accts, entered : BOOLEAN,
                 touched : SUBSET Touchable, tangled : BOOLEAN]
CreateRequest == [op : {"create"}, user : Accts, roles : Assigned, password : BOOLEAN,
                  rights : Rights, touched : SUBSET Touchable, tangled : BOOLEAN]
UpdateRequest == [op : {"update"}, user : Accts, roles : Assigned, had : Assigned,
                  password : BOOLEAN, active : BOOLEAN, was : BOOLEAN, rights : Rights,
                  touched : SUBSET Touchable, tangled : BOOLEAN]
ResetRequest == [op : {"reset"}, user : Accts, password : BOOLEAN, entered : BOOLEAN,
                 touched : SUBSET Touchable, tangled : BOOLEAN]
RoleRequest == [op : {"role"}, role : AcctRoles, perms : Rights, rights : Rights,
                touched : SUBSET Touchable, tangled : BOOLEAN]
UserRequest == EntryRequest \cup CreateRequest \cup UpdateRequest \cup ResetRequest

\* Rows of users, and the rights of roles that exist.
AcctRows ==
  /\ acct \in [Accts -> Account] /\ tokens \in [Accts -> SUBSET TokenKinds]
  /\ granted \in [Accts -> Rights]
  /\ KnownRoles \subseteq AcctRoles /\ perms \in [KnownRoles -> Rights]
  /\ \A u \in Accts : /\ acct[u].roles \subseteq KnownRoles
                      /\ ~HasRow(u) => acct[u].roles = {}

\* The roles a request gives are within the rights of who gives them.
Within(roles, rights) == \A q \in roles : q \in KnownRoles => perms[q] \subseteq rights

\* What a request has read of the user is still so, unless it is tangled.
HasRead(r) ==
  /\ r.op = "login" => (HasRow(r.user) => acct[r.user].password)
  /\ r.op = "reset" => (HasRow(r.user) => /\ r.password <=> acct[r.user].password
                                          /\ r.entered <=> acct[r.user].entered)
  /\ r.op = "update" => (HasRow(r.user) => r.had = acct[r.user].roles) /\ Within(r.roles, r.rights)
  /\ r.op = "create" => Within(r.roles, r.rights)
AcctRequestOK(r) ==
  \/ r = Quiet
  \/ /\ r \in UserRequest /\ r.user \in r.touched
     /\ r.op \in {"create", "update"} =>
          r.roles \subseteq r.touched /\ r.roles \subseteq KnownRoles \cup retired
     /\ r.op = "create" => r.roles # {}
     /\ ~r.tangled => HasRead(r)
  \/ /\ r \in RoleRequest /\ r.role \in r.touched /\ r.perms \subseteq r.rights

\* Users no two requests worked on at once.
AcctClaims == EveryUserHasRole /\ NoPasswordMeansPending /\ RightsAreGranted

AcctInv == AcctRows /\ AcctClaims /\ \A c \in AcctClerks : AcctRequestOK(acctReq[c])

\* A request that is one, by its kind.
LEMMA AcctRequestKinds ==
  ASSUME NEW r, AcctRequestOK(r)
  PROVE  /\ r.op \in {"login", "setup", "set"} => r \in EntryRequest
         /\ r.op = "create" => r \in CreateRequest
         /\ r.op = "update" => r \in UpdateRequest
         /\ r.op = "reset" => r \in ResetRequest
         /\ r.op = "role" => r \in RoleRequest
         /\ r # Quiet => r.touched \subseteq Touchable /\ r.tangled \in BOOLEAN
         /\ r.op # "quiet" => r # Quiet
BY DEF AcctRequestOK, UserRequest, EntryRequest, CreateRequest, UpdateRequest, ResetRequest,
       RoleRequest, Quiet

\* What one request reads, another's reading does not change.
LEMMA OpenStep ==
  ASSUME AcctInv, NEW c \in AcctClerks, NEW new, AcctRequestOK(new), Open(c, new)
  PROVE  AcctInv'
<1>1. UNCHANGED <<acct, perms, tokens, granted, retired, tangled>> /\ acctReq' = [acctReq EXCEPT ![c] = new]
  BY DEF Open
<1>2. AcctRows' /\ AcctClaims'
  BY <1>1 DEF AcctInv, AcctRows, AcctClaims, HasRow, EveryUserHasRole, NoPasswordMeansPending,
              RightsAreGranted, union_permissions, KnownRoles
<1>3. ASSUME NEW d \in AcctClerks PROVE AcctRequestOK(acctReq[d])'
  <2>1. acctReq'[d] = acctReq[d] \/ acctReq'[d] = new \/ acctReq' = acctReq
    BY <1>1
  <2>2. AcctRequestOK(acctReq'[d])
    BY <2>1 DEF AcctInv
  <2>3. QED
    BY <1>1, <2>2 DEF AcctRequestOK, HasRead, HasRow, Within, KnownRoles
<1>4. QED
  BY <1>2, <1>3 DEF AcctInv

\* A commit that changes nothing outside what its request touched leaves to the
\* others what they have read, or tangles them.
LEMMA CloseStep ==
  ASSUME AcctInv, NEW c \in AcctClerks, NEW r, r = acctReq[c], Close(c),
         KnownRoles' = KnownRoles,
         \A u \in Accts : u \notin r.touched => acct'[u] = acct[u],
         \A q \in KnownRoles : q \notin r.touched => perms'[q] = perms[q]
  PROVE  \A d \in AcctClerks : AcctRequestOK(acctReq[d])'
<1>1. /\ retired' = retired
      /\ acctReq' = [d \in AcctClerks |->
           IF d = c THEN Quiet
           ELSE IF acctReq[d] # Quiet /\ acctReq[d].touched \cap r.touched # {}
                THEN [acctReq[d] EXCEPT !.tangled = TRUE] ELSE acctReq[d]]
  BY DEF Close
<1>2. SUFFICES ASSUME NEW d \in AcctClerks PROVE AcctRequestOK(acctReq[d])'
  OBVIOUS
<1>3. PICK new : new = acctReq'[d]
  OBVIOUS
<1>4. PICK old : old = acctReq[d] /\ AcctRequestOK(old)
  BY DEF AcctInv
<1>5. CASE d = c \/ old = Quiet
  <2>1. acctReq'[d] = Quiet
    BY <1>1, <1>4, <1>5
  <2>2. QED
    BY <2>1 DEF AcctRequestOK
<1>6. CASE d # c /\ old # Quiet /\ old.touched \cap r.touched # {}
  <2>1. acctReq'[d] = [old EXCEPT !.tangled = TRUE]
    BY <1>1, <1>4, <1>6
  <2>2. CASE old \in RoleRequest
    <3>1. new \in RoleRequest /\ new.role = old.role /\ new.touched = old.touched
          /\ new.perms = old.perms /\ new.rights = old.rights
      BY <1>3, <2>1, <2>2 DEF RoleRequest
    <3>2. old.role \in old.touched /\ old.perms \subseteq old.rights
      BY <1>4, <1>6, <2>2 DEF AcctRequestOK, UserRequest, EntryRequest, CreateRequest, UpdateRequest,
                              ResetRequest, RoleRequest
    <3>3. QED
      BY <1>3, <3>1, <3>2 DEF AcctRequestOK
  <2>3. CASE old \in UserRequest
    <3>1. /\ old.user \in old.touched
          /\ old.op \in {"create", "update"} =>
               old.roles \subseteq old.touched /\ old.roles \subseteq KnownRoles \cup retired
          /\ old.op = "create" => old.roles # {}
      BY <1>4, <1>6, <2>3 DEF AcctRequestOK, UserRequest, EntryRequest, CreateRequest, UpdateRequest,
                              ResetRequest, RoleRequest
    <3>2. /\ new \in UserRequest /\ new.user = old.user /\ new.touched = old.touched /\ new.op = old.op
          /\ new.tangled = TRUE
          /\ old.op \in {"create", "update"} => new.roles = old.roles
      <4>1. CASE old \in EntryRequest
        BY <1>3, <2>1, <4>1 DEF UserRequest, EntryRequest
      <4>2. CASE old \in CreateRequest
        BY <1>3, <2>1, <4>2 DEF UserRequest, CreateRequest
      <4>3. CASE old \in UpdateRequest
        BY <1>3, <2>1, <4>3 DEF UserRequest, UpdateRequest
      <4>4. CASE old \in ResetRequest
        BY <1>3, <2>1, <4>4 DEF UserRequest, ResetRequest
      <4>5. QED
        BY <2>3, <4>1, <4>2, <4>3, <4>4 DEF UserRequest
    <3>3. QED
      BY <1>1, <1>3, <3>1, <3>2 DEF AcctRequestOK
  <2>4. QED
    BY <1>4, <1>6, <2>2, <2>3 DEF AcctRequestOK
<1>7. CASE d # c /\ old # Quiet /\ old.touched \cap r.touched = {}
  <2>1. acctReq'[d] = old
    BY <1>1, <1>4, <1>7
  <2>2. ASSUME old \in UserRequest, old.user \in old.touched, HasRead(old),
               old.op \in {"create", "update"} => old.roles \subseteq old.touched
        PROVE  HasRead(old)'
    <3>1. acct'[old.user] = acct[old.user]
      BY <1>7, <2>2 DEF UserRequest, EntryRequest, CreateRequest, UpdateRequest, ResetRequest
    <3>2. old.op \in {"create", "update"} =>
            \A q \in old.roles : q \in KnownRoles => perms'[q] = perms[q]
      BY <1>7, <2>2
    <3>3. QED
      BY <2>2, <3>1, <3>2 DEF HasRead, HasRow, Within
  <2>3. QED
    BY <1>1, <1>4, <2>1, <2>2 DEF AcctRequestOK
<1>8. QED
  BY <1>5, <1>6, <1>7

\* Rights are actions of the catalogue, and who is let in by the check of roles
\* gives none he does not have.
LEMMA RightsAreRights ==
  ASSUME AcctRows, NEW a \in Principals PROVE RightsOf(a) \in Rights
<1>1. CASE a = Console
  BY <1>1 DEF RightsOf, Rights
<1>2. CASE a # Console
  <2>1. a \in Accts
    BY <1>2 DEF Principals
  <2>2. \A q \in acct[a].roles : perms[q] \subseteq Catalogue
    BY <2>1 DEF AcctRows, Rights
  <2>3. QED
    BY <1>2, <2>2 DEF RightsOf, Rights, union_permissions
<1>3. QED
  BY <1>1, <1>2

\* Roles the check lets through are within the rights of who gives them.
LEMMA CheckedIsWithin ==
  ASSUME AcctRows, NEW roles, NEW rights, _assert_roles_within_actor(roles, rights)
  PROVE  Within(roles, rights)
BY DEF AcctRows, Rights, Within, _assert_roles_within_actor, is_admin_level, permissions_subset

\* What a request reads when it begins is so.
LEMMA BeginAcctStep ==
  ASSUME AcctInv, NEW c \in AcctClerks,
         \/ \E u \in Accts : BeginLogin(c, u) \/ BeginSetPassword(c, u)
         \/ \E a \in Principals :
              \/ \E u \in Accts : BeginCreateUser(c, a, u) \/ BeginUpdateAccount(c, a, u)
                                  \/ BeginReset(c, a, u)
              \/ \E r \in AcctRoles : BeginUpdateRole(c, a, r)
  PROVE  AcctInv'
<1>1. AcctRows
  BY DEF AcctInv
<1>2. ASSUME NEW u \in Accts PROVE {u} \subseteq Touchable /\ acct[u] \in Account
  BY <1>1 DEF Touchable, AcctRows
<1>3. ASSUME NEW u \in Accts, BeginLogin(c, u) PROVE AcctInv'
  <2>1. PICK new : new = [op |-> IF acct[u].password THEN "login" ELSE "setup", user |-> u,
                          entered |-> acct[u].entered, touched |-> {u}, tangled |-> FALSE]
    OBVIOUS
  <2>2. Open(c, new) /\ HasRow(u)
    BY <1>3, <2>1 DEF BeginLogin
  <2>3. new \in EntryRequest /\ new.user = u /\ new.touched = {u}
    BY <1>2, <2>1 DEF EntryRequest, Account
  <2>4. new.op = (IF acct[u].password THEN "login" ELSE "setup")
    BY <2>1
  <2>5. HasRead(new)
    BY <2>3, <2>4 DEF HasRead
  <2>6. AcctRequestOK(new)
    BY <2>3, <2>4, <2>5 DEF AcctRequestOK, UserRequest
  <2>7. QED
    BY <2>2, <2>6, OpenStep
<1>4. ASSUME NEW u \in Accts, BeginSetPassword(c, u) PROVE AcctInv'
  <2>1. PICK new : new = [op |-> "set", user |-> u, entered |-> acct[u].entered, touched |-> {u},
                          tangled |-> FALSE]
    OBVIOUS
  <2>2. Open(c, new)
    BY <1>4, <2>1 DEF BeginSetPassword
  <2>3. new \in EntryRequest /\ new.user = u /\ new.touched = {u} /\ new.op = "set"
    BY <1>2, <2>1 DEF EntryRequest, Account
  <2>4. AcctRequestOK(new)
    BY <2>3 DEF AcctRequestOK, UserRequest, HasRead
  <2>5. QED
    BY <2>2, <2>4, OpenStep
<1>5. ASSUME NEW a \in Principals, NEW u \in Accts, BeginCreateUser(c, a, u) PROVE AcctInv'
  <2>1. PICK roles \in (SUBSET KnownRoles) \ {{}}, password \in BOOLEAN :
          /\ _assert_roles_within_actor(roles, RightsOf(a))
          /\ Open(c, [op |-> "create", user |-> u, roles |-> roles, password |-> password,
                      rights |-> RightsOf(a), touched |-> {u} \cup roles, tangled |-> FALSE])
    BY <1>5 DEF BeginCreateUser
  <2>2. PICK new : new = [op |-> "create", user |-> u, roles |-> roles, password |-> password,
                          rights |-> RightsOf(a), touched |-> {u} \cup roles, tangled |-> FALSE]
    OBVIOUS
  <2>3. roles \subseteq AcctRoles /\ roles # {} /\ {u} \cup roles \subseteq Touchable
    BY <1>1 DEF AcctRows, Touchable
  <2>4. /\ new \in CreateRequest /\ new.user = u /\ new.touched = {u} \cup roles /\ new.op = "create"
        /\ new.roles = roles /\ new.rights = RightsOf(a)
    BY <1>1, <2>2, <2>3, RightsAreRights DEF CreateRequest, Assigned
  <2>5. HasRead(new)
    BY <1>1, <2>1, <2>4, CheckedIsWithin DEF HasRead
  <2>6. AcctRequestOK(new)
    BY <2>3, <2>4, <2>5 DEF AcctRequestOK, UserRequest
  <2>7. QED
    BY <2>1, <2>2, <2>6, OpenStep
<1>6. ASSUME NEW a \in Principals, NEW u \in Accts, BeginUpdateAccount(c, a, u) PROVE AcctInv'
  <2>1. PICK roles \in {{}} \cup SUBSET KnownRoles, password \in BOOLEAN,
             active \in {acct[u].active, FALSE, TRUE} :
          /\ _assert_roles_within_actor(roles, RightsOf(a))
          /\ Open(c, [op |-> "update", user |-> u, roles |-> roles, had |-> acct[u].roles,
                      password |-> password, active |-> active, was |-> acct[u].active,
                      rights |-> RightsOf(a), touched |-> {u} \cup roles, tangled |-> FALSE])
    BY <1>6 DEF BeginUpdateAccount
  <2>2. PICK new : new = [op |-> "update", user |-> u, roles |-> roles, had |-> acct[u].roles,
                          password |-> password, active |-> active, was |-> acct[u].active,
                          rights |-> RightsOf(a), touched |-> {u} \cup roles, tangled |-> FALSE]
    OBVIOUS
  <2>3. roles \subseteq AcctRoles /\ roles \subseteq KnownRoles /\ {u} \cup roles \subseteq Touchable
    BY <1>1 DEF AcctRows, Touchable
  <2>4. acct[u].active \in BOOLEAN /\ active \in BOOLEAN /\ acct[u].roles \in Assigned
    BY <1>2 DEF Account
  <2>5. /\ new \in UpdateRequest /\ new.user = u /\ new.touched = {u} \cup roles /\ new.op = "update"
        /\ new.roles = roles /\ new.rights = RightsOf(a) /\ new.had = acct[u].roles
    BY <1>1, <2>2, <2>3, <2>4, RightsAreRights DEF UpdateRequest, Assigned
  <2>6. HasRead(new)
    BY <1>1, <2>1, <2>5, CheckedIsWithin DEF HasRead
  <2>7. AcctRequestOK(new)
    BY <2>3, <2>5, <2>6 DEF AcctRequestOK, UserRequest
  <2>8. QED
    BY <2>1, <2>2, <2>7, OpenStep
<1>7. ASSUME NEW a \in Principals, NEW u \in Accts, BeginReset(c, a, u) PROVE AcctInv'
  <2>1. PICK new : new = [op |-> "reset", user |-> u, password |-> acct[u].password,
                          entered |-> acct[u].entered, touched |-> {u}, tangled |-> FALSE]
    OBVIOUS
  <2>2. Open(c, new)
    BY <1>7, <2>1 DEF BeginReset
  <2>3. /\ new \in ResetRequest /\ new.user = u /\ new.touched = {u} /\ new.op = "reset"
        /\ new.password = acct[u].password /\ new.entered = acct[u].entered
    BY <1>2, <2>1 DEF ResetRequest, Account
  <2>4. AcctRequestOK(new)
    BY <2>3 DEF AcctRequestOK, UserRequest, HasRead
  <2>5. QED
    BY <2>2, <2>4, OpenStep
<1>8. ASSUME NEW a \in Principals, NEW r \in AcctRoles, BeginUpdateRole(c, a, r) PROVE AcctInv'
  <2>1. PICK rights \in Rights :
          /\ is_admin_level(RightsOf(a)) \/ permissions_subset(rights, RightsOf(a))
          /\ Open(c, [op |-> "role", role |-> r, perms |-> rights, rights |-> RightsOf(a),
                      touched |-> {r} \cup Holders({r}), tangled |-> FALSE])
    BY <1>8 DEF BeginUpdateRole
  <2>2. PICK new : new = [op |-> "role", role |-> r, perms |-> rights, rights |-> RightsOf(a),
                          touched |-> {r} \cup Holders({r}), tangled |-> FALSE]
    OBVIOUS
  <2>3. {r} \cup Holders({r}) \subseteq Touchable
    BY DEF Touchable, Holders
  <2>4. rights \subseteq RightsOf(a)
    BY <2>1 DEF Rights, is_admin_level, permissions_subset
  <2>5. /\ new \in RoleRequest /\ new.role = r /\ new.touched = {r} \cup Holders({r})
        /\ new.perms = rights /\ new.rights = RightsOf(a)
    BY <1>1, <2>2, <2>3, RightsAreRights DEF RoleRequest
  <2>6. AcctRequestOK(new)
    BY <2>4, <2>5 DEF AcctRequestOK
  <2>7. QED
    BY <2>1, <2>2, <2>6, OpenStep
<1>9. QED
  BY <1>3, <1>4, <1>5, <1>6, <1>7, <1>8

\* A commit changes rows of its user, in order, and nothing it says of users whom
\* no two requests have worked on is untrue.
UserWritten(u, row) ==
  /\ acct' = [acct EXCEPT ![u] = row]
  /\ row \in Account /\ row.roles \subseteq KnownRoles
  /\ ~row.row => row.roles = {}
  /\ granted' \in [Accts -> Rights]
  /\ tokens' \in [Accts -> SUBSET TokenKinds]
  /\ \A v \in Accts : granted[v] \subseteq granted'[v] \/ v = u
  /\ perms' = perms
  /\ tangled \subseteq tangled'
  /\ u \notin tangled' /\ row.row => /\ row.roles # {}
                                     /\ ~row.password => ~row.entered
                                     /\ union_permissions(row.roles) \subseteq granted'[u]

\* A row written so keeps what is said of all rows.
LEMMA UserWrittenKeeps ==
  ASSUME AcctInv, NEW u \in Accts, NEW row, UserWritten(u, row) PROVE AcctRows' /\ AcctClaims'
<1>1. \A v \in Accts : acct'[v] = IF v = u THEN row ELSE acct[v]
  BY DEF AcctInv, AcctRows, UserWritten
<1>2. perms' = perms /\ KnownRoles' = KnownRoles
  BY DEF UserWritten, KnownRoles
<1>3. acct' \in [Accts -> Account]
  BY DEF AcctInv, AcctRows, UserWritten
<1>4. AcctRows'
  BY <1>1, <1>2, <1>3 DEF AcctInv, AcctRows, UserWritten, HasRow
<1>5. ASSUME NEW v \in Accts, v \notin tangled' PROVE v \notin tangled /\ granted'[v] \in Rights
  BY <1>5 DEF UserWritten
<1>6. EveryUserHasRole' /\ NoPasswordMeansPending'
  BY <1>1, <1>5 DEF AcctInv, AcctClaims, EveryUserHasRole, NoPasswordMeansPending, UserWritten, HasRow
<1>7. RightsAreGranted'
  <2>1. SUFFICES ASSUME NEW v \in Accts, v \notin tangled'
                 PROVE  union_permissions(acct'[v].roles) \subseteq granted'[v]
    BY <1>2 DEF RightsAreGranted, union_permissions
  <2>2. CASE v = u
    <3>1. row.row => union_permissions(row.roles) \subseteq granted'[u]
      BY <2>1, <2>2 DEF UserWritten
    <3>2. ~row.row => union_permissions(row.roles) = {}
      BY DEF UserWritten, union_permissions
    <3>3. QED
      BY <1>1, <2>2, <3>1, <3>2
  <2>3. CASE v # u
    BY <1>1, <1>5, <2>1, <2>3 DEF AcctInv, AcctClaims, RightsAreGranted, UserWritten
  <2>4. QED
    BY <2>2, <2>3
<1>8. QED
  BY <1>4, <1>6, <1>7 DEF AcctClaims

\* The row as it is may be written.
LEMMA RowInOrder ==
  ASSUME AcctInv, NEW u \in Accts
  PROVE  /\ acct[u] \in Account /\ acct[u].roles \subseteq KnownRoles
         /\ acct[u].row \in BOOLEAN /\ acct[u].password \in BOOLEAN /\ acct[u].entered \in BOOLEAN
         /\ acct[u].active \in BOOLEAN
         /\ ~acct[u].row => acct[u].roles = {}
         /\ u \notin tangled /\ acct[u].row =>
              /\ acct[u].roles # {}
              /\ ~acct[u].password => ~acct[u].entered
              /\ union_permissions(acct[u].roles) \subseteq granted[u]
BY DEF AcctInv, AcctRows, AcctClaims, HasRow, Account, EveryUserHasRole, NoPasswordMeansPending,
       RightsAreGranted

\* A user whose commit was tangled is one two requests worked on.
LEMMA CloseTangles ==
  ASSUME AcctInv, NEW c \in AcctClerks, Close(c), acctReq[c] \in UserRequest,
         acctReq[c].user \notin tangled'
  PROVE  /\ tangled \subseteq tangled' /\ acctReq[c].user \notin tangled
         /\ HasRead(acctReq[c])
         /\ acctReq[c].op = "create" => acctReq[c].roles # {}
<1>1. acctReq[c].user \in Accts /\ acctReq[c].tangled \in BOOLEAN /\ acctReq[c] \notin RoleRequest
      /\ acctReq[c] # Quiet
  BY DEF UserRequest, EntryRequest, CreateRequest, UpdateRequest, ResetRequest, RoleRequest, Quiet
<1>2. AcctRequestOK(acctReq[c])
  BY DEF AcctInv
<1>3. acctReq[c].user \in acctReq[c].touched
  BY <1>1, <1>2 DEF AcctRequestOK
<1>4. ~acctReq[c].tangled
  BY <1>1, <1>3 DEF Close
<1>5. QED
  BY <1>1, <1>2, <1>4 DEF Close, AcctRequestOK

\* A commit that writes its user's row in order keeps the invariant.
LEMMA FinishStep ==
  ASSUME AcctInv, NEW c \in AcctClerks, Close(c), acctReq[c] \in UserRequest,
         NEW row, UserWritten(acctReq[c].user, row)
  PROVE  AcctInv'
<1>1. acctReq[c].user \in Accts /\ acctReq[c] # Quiet /\ acctReq[c] \notin RoleRequest
  BY DEF UserRequest, EntryRequest, CreateRequest, UpdateRequest, ResetRequest, RoleRequest, Quiet
<1>2. acctReq[c].user \in acctReq[c].touched
  BY <1>1 DEF AcctInv, AcctRequestOK
<1>3. AcctRows' /\ AcctClaims'
  BY <1>1, UserWrittenKeeps
<1>4. \A u \in Accts : u \notin acctReq[c].touched => acct'[u] = acct[u]
  BY <1>1, <1>2 DEF UserWritten, AcctInv, AcctRows
<1>5. \A d \in AcctClerks : AcctRequestOK(acctReq[d])'
  BY <1>4, CloseStep DEF UserWritten, KnownRoles
<1>6. QED
  BY <1>3, <1>5 DEF AcctInv

\* Signing in and choosing a password.
LEMMA EntrySteps ==
  ASSUME AcctInv, NEW c \in AcctClerks, FinishLogin(c) \/ IssueSetup(c) \/ FinishSetPassword(c)
  PROVE  AcctInv'
<1>1. PICK r : r = acctReq[c] /\ AcctRequestOK(r)
  BY DEF AcctInv
<1>2. /\ Close(c) /\ r.op \in {"login", "setup", "set"} /\ UNCHANGED <<perms, granted>>
      /\ tokens' \in [Accts -> SUBSET TokenKinds]
  <2>1. ASSUME NEW token \in TokenKinds, tokens' = [tokens EXCEPT ![r.user] = @ \cup {token}]
        PROVE  tokens' \in [Accts -> SUBSET TokenKinds]
    BY <2>1 DEF AcctInv, AcctRows
  <2>2. "access" \in TokenKinds /\ "setup" \in TokenKinds
    BY DEF TokenKinds
  <2>3. QED
    BY <1>1, <2>1, <2>2 DEF FinishLogin, IssueSetup, FinishSetPassword
<1>3. r \in EntryRequest /\ r.user \in Accts /\ r.entered \in BOOLEAN /\ r \in UserRequest
  BY <1>1, <1>2, AcctRequestKinds DEF EntryRequest, UserRequest
<1>4. PICK u : u = r.user
  OBVIOUS
<1>5. PICK old : old = acct[u] /\ old \in Account
  BY <1>3, <1>4, RowInOrder
<1>6. tangled \subseteq tangled'
  BY <1>1, <1>2 DEF Close
<1>7. u \notin tangled' => u \notin tangled /\ HasRead(r)
  BY <1>1, <1>2, <1>3, <1>4, CloseTangles
<1>8. granted' \in [Accts -> Rights] /\ \A v \in Accts : granted[v] \subseteq granted'[v] \/ v = u
  BY <1>2 DEF AcctInv, AcctRows
<1>9. PICK entered \in BOOLEAN, password \in BOOLEAN :
        /\ acct' = [acct EXCEPT ![u] = [row |-> old.row, active |-> old.active, password |-> password,
                                        entered |-> entered, roles |-> old.roles]]
        /\ password = old.password \/ password = TRUE
        /\ entered = old.entered \/ password = TRUE \/ (r.op = "login" /\ old.row)
  <2>1. acct = [acct EXCEPT ![u] = old] /\ old.entered \in BOOLEAN /\ old.password \in BOOLEAN
        /\ old.row \in BOOLEAN
    BY <1>3, <1>4, <1>5 DEF Account, AcctInv, AcctRows
  <2>2. old = [row |-> old.row, active |-> old.active, password |-> old.password,
               entered |-> old.entered, roles |-> old.roles]
    BY <1>5 DEF Account
  <2>3. CASE acct' = acct
    BY <2>1, <2>2, <2>3
  <2>4. CASE FinishLogin(c) /\ acct' # acct
    <3>1. HasRow(u) /\ r.op = "login" /\ acct' = [acct EXCEPT ![u].entered = TRUE]
      BY <1>1, <1>4, <2>4 DEF FinishLogin
    <3>2. PICK new : new = [old EXCEPT !.entered = TRUE]
      OBVIOUS
    <3>3. new = [row |-> old.row, active |-> old.active, password |-> old.password,
                 entered |-> TRUE, roles |-> old.roles]
      BY <1>5, <3>2 DEF Account
    <3>4. acct' = [acct EXCEPT ![u] = new]
      BY <1>5, <3>1, <3>2
    <3>5. old.row
      BY <1>5, <3>1 DEF HasRow
    <3>6. QED
      BY <2>1, <3>1, <3>3, <3>4, <3>5
  <2>5. CASE FinishSetPassword(c)
    <3>1. acct' = [acct EXCEPT ![u].password = TRUE, ![u].entered = IF r.entered THEN @ ELSE TRUE]
      BY <1>1, <1>4, <2>5 DEF FinishSetPassword
    <3>2. PICK entered \in BOOLEAN : entered = IF r.entered THEN old.entered ELSE TRUE
      BY <2>1
    <3>3. PICK new : new = [old EXCEPT !.password = TRUE, !.entered = entered]
      OBVIOUS
    <3>4. new = [row |-> old.row, active |-> old.active, password |-> TRUE,
                 entered |-> entered, roles |-> old.roles]
      BY <1>5, <3>3 DEF Account
    <3>5. acct' = [acct EXCEPT ![u] = new]
      <4>1. [acct[u] EXCEPT !.password = TRUE].entered = old.entered
        BY <1>5 DEF Account
      <4>2. QED
        BY <1>3, <1>4, <1>5, <3>1, <3>2, <3>3, <4>1 DEF Account, AcctInv, AcctRows
    <3>6. QED
      BY <3>4, <3>5
  <2>6. QED
    BY <1>2, <2>3, <2>4, <2>5 DEF FinishLogin, IssueSetup
<1>10. PICK row : row = [row |-> old.row, active |-> old.active, password |-> password,
                         entered |-> entered, roles |-> old.roles]
  OBVIOUS
<1>11. /\ row \in Account /\ row.row = old.row /\ row.roles = old.roles
       /\ row.password = password /\ row.entered = entered
  BY <1>5, <1>10 DEF Account
<1>12. u \notin tangled' /\ old.row => /\ old.roles # {} /\ (password = FALSE => entered = FALSE)
                                       /\ union_permissions(old.roles) \subseteq granted[u]
  <2>1. SUFFICES ASSUME u \notin tangled', old.row PROVE /\ old.roles # {} /\ (password = FALSE => entered = FALSE)
                                                        /\ union_permissions(old.roles) \subseteq granted[u]
    OBVIOUS
  <2>2. old.roles # {} /\ (~old.password => ~old.entered) /\ union_permissions(old.roles) \subseteq granted[u]
    BY <1>3, <1>4, <1>5, <1>7, <2>1, RowInOrder
  <2>3. r.op = "login" => old.password
    BY <1>4, <1>5, <1>7, <2>1 DEF HasRead, HasRow
  <2>4. old.password \in BOOLEAN /\ old.entered \in BOOLEAN
    BY <1>5 DEF Account
  <2>5. password = FALSE => entered = FALSE
    BY <1>9, <2>2, <2>3, <2>4
  <2>6. QED
    BY <2>2, <2>5
<1>13. UserWritten(u, row)
  <2>1. old.roles \subseteq KnownRoles /\ (~old.row => old.roles = {})
    BY <1>3, <1>4, <1>5, RowInOrder
  <2>2. u \notin tangled' /\ row.row => (~row.password => ~row.entered)
    BY <1>11, <1>12
  <2>3. granted' = granted /\ perms' = perms
    BY <1>2
  <2>4. union_permissions(row.roles) = union_permissions(old.roles)
    BY <1>11
  <2>5. QED
    BY <1>2, <1>6, <1>8, <1>9, <1>10, <1>11, <1>12, <2>1, <2>2, <2>3, <2>4 DEF UserWritten
<1>14. QED
  BY <1>1, <1>2, <1>3, <1>4, <1>13, FinishStep

\* A user is created with the roles and the rights of who creates him.
LEMMA FinishCreateUserStep ==
  ASSUME AcctInv, NEW c \in AcctClerks, FinishCreateUser(c) PROVE AcctInv'
<1>1. PICK r : r = acctReq[c] /\ AcctRequestOK(r)
  BY DEF AcctInv
<1>2. PICK u : u = r.user
  OBVIOUS
<1>3. /\ r.op = "create" /\ r.roles \subseteq KnownRoles
      /\ acct' = [acct EXCEPT ![u] = [row |-> TRUE, active |-> TRUE, password |-> r.password,
                                      entered |-> FALSE, roles |-> r.roles]]
      /\ granted' = [granted EXCEPT ![u] = r.rights]
      /\ tokens' = [tokens EXCEPT ![u] = {}]
      /\ Close(c) /\ perms' = perms
  BY <1>1, <1>2 DEF FinishCreateUser
<1>4. r \in CreateRequest /\ r \in UserRequest
  BY <1>1, <1>3, AcctRequestKinds DEF UserRequest
<1>5. PICK row : row = [row |-> TRUE, active |-> TRUE, password |-> r.password, entered |-> FALSE,
                        roles |-> r.roles]
  OBVIOUS
<1>6. u \in Accts /\ r.roles \in Assigned /\ r.rights \in Rights
  BY <1>2, <1>4 DEF CreateRequest
<1>7. row \in Account /\ row.row = TRUE /\ row.roles = r.roles /\ row.entered = FALSE
  BY <1>4, <1>5 DEF CreateRequest, Account
<1>8. granted' \in [Accts -> Rights] /\ granted'[u] = r.rights
      /\ \A v \in Accts : granted[v] \subseteq granted'[v] \/ v = u
  BY <1>3, <1>6 DEF AcctInv, AcctRows
<1>9. tokens' \in [Accts -> SUBSET TokenKinds]
  BY <1>3, <1>6 DEF AcctInv, AcctRows
<1>10. u \notin tangled' => HasRead(r) /\ r.roles # {}
  BY <1>1, <1>2, <1>3, <1>4, CloseTangles
<1>11. u \notin tangled' => union_permissions(row.roles) \subseteq granted'[u]
  BY <1>3, <1>7, <1>8, <1>10 DEF HasRead, Within, union_permissions
<1>12. tangled \subseteq tangled'
  BY <1>3 DEF Close
<1>13. UserWritten(u, row)
  BY <1>3, <1>5, <1>7, <1>8, <1>9, <1>10, <1>11, <1>12 DEF UserWritten
<1>14. QED
  BY <1>1, <1>2, <1>3, <1>4, <1>13, FinishStep

\* An edit gives the roles that were asked for if the rows are those it has read.
LEMMA FinishUpdateAccountStep ==
  ASSUME AcctInv, NEW c \in AcctClerks, FinishUpdateAccount(c) PROVE AcctInv'
<1>1. PICK r : r = acctReq[c] /\ AcctRequestOK(r)
  BY DEF AcctInv
<1>2. PICK u : u = r.user
  OBVIOUS
<1>3. /\ r.op = "update" /\ HasRow(u) /\ r.roles \ r.had \subseteq KnownRoles
      /\ acct' = [acct EXCEPT ![u].roles = set_roles(r, @),
                              ![u].password = @ \/ r.password,
                              ![u].active = IF r.active # r.was THEN r.active ELSE @]
      /\ granted' = IF r.roles = {} THEN granted ELSE [granted EXCEPT ![u] = @ \cup r.rights]
      /\ Close(c) /\ UNCHANGED <<perms, tokens>>
  BY <1>1, <1>2 DEF FinishUpdateAccount
<1>4. r \in UpdateRequest /\ r \in UserRequest
  BY <1>1, <1>3, AcctRequestKinds DEF UserRequest
<1>5. u \in Accts /\ r.roles \in Assigned /\ r.rights \in Rights /\ r.had \in Assigned
      /\ r.password \in BOOLEAN /\ r.active \in BOOLEAN
  BY <1>2, <1>4 DEF UpdateRequest
<1>6. PICK old : old = acct[u] /\ old \in Account
  BY <1>5, RowInOrder
<1>7. PICK roles : roles = set_roles(r, old.roles)
  OBVIOUS
<1>8. PICK password : password = (old.password \/ r.password)
  OBVIOUS
<1>9. PICK active : active = IF r.active # r.was THEN r.active ELSE old.active
  OBVIOUS
<1>10. PICK row : row = [row |-> old.row, active |-> active, password |-> password,
                         entered |-> old.entered, roles |-> roles]
  OBVIOUS
<1>11. acct' = [acct EXCEPT ![u] = row]
  <2>1. PICK first : first = [old EXCEPT !.roles = roles]
    OBVIOUS
  <2>2. PICK second : second = [first EXCEPT !.password = password]
    OBVIOUS
  <2>3. PICK third : third = [second EXCEPT !.active = active]
    OBVIOUS
  <2>4. first = [row |-> old.row, active |-> old.active, password |-> old.password,
                 entered |-> old.entered, roles |-> roles]
    BY <1>6, <2>1 DEF Account
  <2>5. second = [row |-> old.row, active |-> old.active, password |-> password,
                  entered |-> old.entered, roles |-> roles]
    BY <2>2, <2>4
  <2>6. third = row
    BY <1>10, <2>3, <2>5
  <2>7. first.password = old.password /\ second.active = old.active
    BY <2>4, <2>5
  <2>8. [acct EXCEPT ![u].roles = set_roles(r, @),
                     ![u].password = @ \/ r.password,
                     ![u].active = IF r.active # r.was THEN r.active ELSE @]
          = [acct EXCEPT ![u] = third]
    <3>1. PICK one : one = [acct EXCEPT ![u].roles = set_roles(r, @)]
      OBVIOUS
    <3>2. PICK two : two = [one EXCEPT ![u].password = @ \/ r.password]
      OBVIOUS
    <3>3. PICK three : three = [two EXCEPT ![u].active = IF r.active # r.was THEN r.active ELSE @]
      OBVIOUS
    <3>4. one = [acct EXCEPT ![u] = first]
      BY <1>5, <1>6, <1>7, <2>1, <3>1 DEF AcctInv, AcctRows
    <3>5. two = [acct EXCEPT ![u] = second]
      BY <1>5, <1>6, <1>8, <2>2, <2>7, <3>2, <3>4 DEF AcctInv, AcctRows
    <3>6. three = [acct EXCEPT ![u] = third]
      BY <1>5, <1>6, <1>9, <2>3, <2>7, <3>3, <3>5 DEF AcctInv, AcctRows
    <3>7. [acct EXCEPT ![u].roles = set_roles(r, @),
                       ![u].password = @ \/ r.password,
                       ![u].active = IF r.active # r.was THEN r.active ELSE @] = three
      BY <3>1, <3>2, <3>3
    <3>8. QED
      BY <3>6, <3>7
  <2>9. QED
    BY <1>3, <2>6, <2>8
<1>12. roles = (IF r.roles = {} THEN old.roles ELSE (old.roles \ (r.had \ r.roles)) \cup (r.roles \ r.had))
  BY <1>7 DEF set_roles
<1>13. /\ old.roles \subseteq KnownRoles /\ old.row
       /\ old.password \in BOOLEAN /\ old.entered \in BOOLEAN /\ old.active \in BOOLEAN
       /\ KnownRoles \subseteq AcctRoles
  BY <1>3, <1>5, <1>6, RowInOrder DEF HasRow, AcctInv, AcctRows
<1>14. roles \subseteq KnownRoles
  BY <1>3, <1>12, <1>13
<1>15. /\ row \in Account /\ row.row = old.row /\ row.roles = roles
       /\ row.password = password /\ row.entered = old.entered
  <2>1. password \in BOOLEAN /\ active \in BOOLEAN
    BY <1>5, <1>8, <1>9, <1>13
  <2>2. roles \in Assigned
    BY <1>13, <1>14 DEF Assigned
  <2>3. QED
    BY <1>10, <1>13, <2>1, <2>2 DEF Account
<1>16. /\ granted' \in [Accts -> Rights] /\ \A v \in Accts : granted[v] \subseteq granted'[v]
       /\ r.roles # {} => r.rights \subseteq granted'[u]
  BY <1>3, <1>5 DEF AcctInv, AcctRows, Rights
<1>17. tangled \subseteq tangled'
  BY <1>3 DEF Close
<1>18. ASSUME u \notin tangled'
       PROVE  /\ roles # {} /\ (~password => ~old.entered)
              /\ union_permissions(roles) \subseteq granted'[u]
  <2>1. u \notin tangled /\ HasRead(r)
    BY <1>1, <1>2, <1>3, <1>4, <1>18, CloseTangles
  <2>2. /\ old.roles # {} /\ (~old.password => ~old.entered)
        /\ union_permissions(old.roles) \subseteq granted[u]
    BY <1>5, <1>6, <1>13, <2>1, RowInOrder
  <2>3. r.had = old.roles /\ Within(r.roles, r.rights)
    BY <1>2, <1>3, <1>6, <2>1 DEF HasRead
  <2>4. CASE r.roles = {}
    <3>1. roles = old.roles
      BY <1>12, <2>4
    <3>2. QED
      BY <1>5, <1>8, <1>16, <2>2, <3>1
  <2>5. CASE r.roles # {}
    <3>1. roles = r.roles
      BY <1>12, <2>3, <2>5
    <3>2. union_permissions(roles) \subseteq r.rights
      BY <1>14, <2>3, <3>1 DEF Within, union_permissions
    <3>3. QED
      BY <1>8, <1>16, <2>2, <2>5, <3>1, <3>2
  <2>6. QED
    BY <2>4, <2>5
<1>19. UserWritten(u, row)
  <2>1. u \notin tangled' /\ row.row => /\ row.roles # {}
                                        /\ ~row.password => ~row.entered
                                        /\ union_permissions(row.roles) \subseteq granted'[u]
    BY <1>15, <1>18
  <2>2. tokens' \in [Accts -> SUBSET TokenKinds] /\ perms' = perms
    BY <1>3 DEF AcctInv, AcctRows
  <2>3. row.roles \subseteq KnownRoles /\ (~row.row => row.roles = {})
    BY <1>13, <1>14, <1>15
  <2>4. QED
    BY <1>11, <1>15, <1>16, <1>17, <2>1, <2>2, <2>3 DEF UserWritten
<1>20. QED
  BY <1>1, <1>2, <1>3, <1>4, <1>19, FinishStep

\* A reset goes back to a first entry, unless the password changed meanwhile.
LEMMA FinishResetStep ==
  ASSUME AcctInv, NEW c \in AcctClerks, FinishReset(c) PROVE AcctInv'
<1>1. PICK r : r = acctReq[c] /\ AcctRequestOK(r)
  BY DEF AcctInv
<1>2. PICK u : u = r.user
  OBVIOUS
<1>3. PICK old : old = acct[u]
  OBVIOUS
<1>4. PICK row : row = reset_password(r, old)
  OBVIOUS
<1>5. /\ r.op = "reset" /\ HasRow(u) /\ acct' = [acct EXCEPT ![u] = row]
      /\ Close(c) /\ UNCHANGED <<perms, tokens, granted>>
  BY <1>1, <1>2, <1>3, <1>4 DEF FinishReset
<1>6. r \in ResetRequest /\ r \in UserRequest
  BY <1>1, <1>5, AcctRequestKinds DEF UserRequest
<1>7. u \in Accts /\ r.password \in BOOLEAN /\ r.entered \in BOOLEAN /\ old \in Account
  BY <1>2, <1>3, <1>6, RowInOrder DEF ResetRequest
<1>8. PICK password \in BOOLEAN, entered \in BOOLEAN :
         /\ password = IF r.password THEN FALSE ELSE old.password
         /\ entered = IF r.entered THEN FALSE ELSE old.entered
  BY <1>7 DEF Account
<1>9. row = [row |-> old.row, active |-> old.active, password |-> password, entered |-> entered,
             roles |-> old.roles]
  <2>1. row = [old EXCEPT !.password = password, !.entered = entered]
    BY <1>4, <1>7, <1>8 DEF reset_password, Account
  <2>2. QED
    BY <1>7, <2>1 DEF Account
<1>10. /\ row \in Account /\ row.row = old.row /\ row.roles = old.roles
       /\ row.password = password /\ row.entered = entered
  BY <1>7, <1>9 DEF Account
<1>11. ASSUME u \notin tangled'
       PROVE  /\ old.roles # {} /\ entered = FALSE
              /\ union_permissions(old.roles) \subseteq granted[u]
  <2>1. u \notin tangled /\ HasRead(r)
    BY <1>1, <1>2, <1>5, <1>6, <1>11, CloseTangles
  <2>2. old.roles # {} /\ union_permissions(old.roles) \subseteq granted[u]
    BY <1>3, <1>5, <1>7, <2>1, RowInOrder DEF HasRow
  <2>3. r.entered <=> old.entered
    BY <1>2, <1>3, <1>5, <2>1 DEF HasRead
  <2>4. QED
    BY <1>7, <1>8, <2>2, <2>3 DEF Account
<1>12. UserWritten(u, row)
  <2>1. u \notin tangled' /\ row.row => /\ row.roles # {}
                                        /\ ~row.password => ~row.entered
                                        /\ union_permissions(row.roles) \subseteq granted'[u]
    BY <1>5, <1>10, <1>11
  <2>2. row.roles \subseteq KnownRoles /\ (~row.row => row.roles = {})
    BY <1>3, <1>7, <1>10, RowInOrder
  <2>3. tangled \subseteq tangled'
    BY <1>5 DEF Close
  <2>4. QED
    BY <1>5, <1>10, <2>1, <2>2, <2>3 DEF UserWritten, AcctInv, AcctRows
<1>13. QED
  BY <1>1, <1>2, <1>5, <1>6, <1>12, FinishStep

\* New rights of a role are in the reach of who holds it, by the hand of the one
\* who changes it.
LEMMA FinishUpdateRoleStep ==
  ASSUME AcctInv, NEW c \in AcctClerks, FinishUpdateRole(c) PROVE AcctInv'
<1>1. PICK r : r = acctReq[c] /\ AcctRequestOK(r)
  BY DEF AcctInv
<1>2. /\ r.op = "role" /\ r.role \in KnownRoles
      /\ perms' = [perms EXCEPT ![r.role] = r.perms]
      /\ granted' = [u \in Accts |-> IF r.role \in acct[u].roles THEN granted[u] \cup r.rights
                                     ELSE granted[u]]
      /\ Close(c) /\ UNCHANGED <<acct, tokens>>
  BY <1>1 DEF FinishUpdateRole
<1>3. r \in RoleRequest /\ r.role \in r.touched /\ r.perms \subseteq r.rights
      /\ r.perms \in Rights /\ r.rights \in Rights
  <2>1. r \in RoleRequest
    BY <1>1, <1>2, AcctRequestKinds
  <2>2. r \notin UserRequest /\ r # Quiet
    BY <1>2 DEF UserRequest, EntryRequest, CreateRequest, UpdateRequest, ResetRequest, Quiet
  <2>3. QED
    BY <1>1, <2>1, <2>2 DEF AcctRequestOK, RoleRequest
<1>4. KnownRoles' = KnownRoles /\ perms' \in [KnownRoles -> Rights]
      /\ \A q \in KnownRoles : perms'[q] = IF q = r.role THEN r.perms ELSE perms[q]
  BY <1>2, <1>3 DEF AcctInv, AcctRows, KnownRoles
<1>5. \A d \in AcctClerks : AcctRequestOK(acctReq[d])'
  BY <1>1, <1>2, <1>3, <1>4, CloseStep
<1>6. AcctRows'
  BY <1>2, <1>3, <1>4 DEF AcctInv, AcctRows, HasRow, Rights
<1>7. tangled \subseteq tangled'
  BY <1>2 DEF Close
<1>8. EveryUserHasRole' /\ NoPasswordMeansPending'
  BY <1>2, <1>7 DEF AcctInv, AcctClaims, EveryUserHasRole, NoPasswordMeansPending, HasRow
<1>9. RightsAreGranted'
  <2>1. SUFFICES ASSUME NEW u \in Accts, u \notin tangled', NEW q \in acct[u].roles
                 PROVE  perms'[q] \subseteq granted'[u]
    BY <1>2 DEF RightsAreGranted, union_permissions
  <2>2. q \in KnownRoles /\ perms[q] \subseteq granted[u]
    BY <1>7, <2>1 DEF AcctInv, AcctRows, AcctClaims, RightsAreGranted, union_permissions
  <2>3. QED
    BY <1>2, <1>3, <1>4, <2>2
<1>10. QED
  BY <1>5, <1>6, <1>8, <1>9 DEF AcctInv, AcctClaims

\* Steps of one transaction: a user who goes takes his roles with him, a role is
\* new to everybody, and one that is held stays.
LEMMA AtOnceSteps ==
  ASSUME AcctInv, NEW a \in Principals,
         \/ \E u \in Accts : DeleteAccount(a, u)
         \/ \E r \in AcctRoles : create_role(a, r) \/ delete_role(a, r)
  PROVE  AcctInv'
<1>1. UNCHANGED <<tokens, acctReq, granted, tangled>>
  BY DEF DeleteAccount, create_role, delete_role
<1>2. ASSUME NEW u \in Accts, DeleteAccount(a, u) PROVE AcctInv'
  <2>1. acct' = [acct EXCEPT ![u] = NoAcct] /\ perms' = perms /\ retired \subseteq retired'
    BY <1>2 DEF DeleteAccount
  <2>2. NoAcct \in Account /\ NoAcct.roles = {} /\ NoAcct.row = FALSE
    BY DEF NoAcct, Account, Assigned
  <2>3. \A v \in Accts : acct'[v] = IF v = u THEN NoAcct ELSE acct[v]
    BY <2>1 DEF AcctInv, AcctRows
  <2>4. AcctRows'
    BY <1>1, <2>1, <2>2, <2>3 DEF AcctInv, AcctRows, HasRow, KnownRoles
  <2>5. EveryUserHasRole' /\ NoPasswordMeansPending'
    BY <1>1, <2>2, <2>3 DEF AcctInv, AcctClaims, EveryUserHasRole, NoPasswordMeansPending, HasRow
  <2>6. RightsAreGranted'
    BY <1>1, <2>1, <2>2, <2>3 DEF AcctInv, AcctClaims, RightsAreGranted, union_permissions
  <2>7. ASSUME NEW d \in AcctClerks PROVE AcctRequestOK(acctReq[d])'
    <3>1. PICK r : r = acctReq[d] /\ AcctRequestOK(r)
      BY DEF AcctInv
    <3>2. ASSUME HasRead(r), r \in UserRequest PROVE HasRead(r)'
      <4>1. r.user \in Accts
        BY <3>2 DEF UserRequest, EntryRequest, CreateRequest, UpdateRequest, ResetRequest
      <4>2. HasRow(r.user)' => acct'[r.user] = acct[r.user] /\ HasRow(r.user)
        BY <2>2, <2>3, <4>1 DEF HasRow
      <4>3. \A roles, rights : Within(roles, rights)' <=> Within(roles, rights)
        BY <2>1 DEF Within, KnownRoles
      <4>4. QED
        BY <3>2, <4>2, <4>3 DEF HasRead
    <3>3. KnownRoles' = KnownRoles
      BY <2>1 DEF KnownRoles
    <3>4. QED
      BY <1>1, <2>1, <3>1, <3>2, <3>3 DEF AcctRequestOK
  <2>8. QED
    BY <2>4, <2>5, <2>6, <2>7 DEF AcctInv, AcctClaims
<1>3. ASSUME acct' = acct, retired \subseteq retired', KnownRoles \subseteq KnownRoles' \cup retired',
             \A q \in KnownRoles' : q \in KnownRoles \/ q \notin KnownRoles \cup retired,
             \A q \in KnownRoles \cap KnownRoles' : perms'[q] = perms[q],
             \A u \in Accts : acct[u].roles \subseteq KnownRoles', AcctRows'
      PROVE  AcctInv'
  <2>1. EveryUserHasRole' /\ NoPasswordMeansPending'
    BY <1>1, <1>3 DEF AcctInv, AcctClaims, EveryUserHasRole, NoPasswordMeansPending, HasRow
  <2>2. RightsAreGranted'
    <3>1. SUFFICES ASSUME NEW u \in Accts, u \notin tangled, NEW q \in acct[u].roles
                   PROVE  perms'[q] \subseteq granted[u]
      BY <1>1, <1>3 DEF RightsAreGranted, union_permissions
    <3>2. q \in KnownRoles /\ q \in KnownRoles' /\ perms[q] \subseteq granted[u]
      BY <1>3, <3>1 DEF AcctInv, AcctRows, AcctClaims, RightsAreGranted, union_permissions
    <3>3. QED
      BY <1>3, <3>2
  <2>3. ASSUME NEW d \in AcctClerks PROVE AcctRequestOK(acctReq[d])'
    <3>1. PICK r : r = acctReq[d] /\ AcctRequestOK(r)
      BY DEF AcctInv
    <3>2. ASSUME HasRead(r), r.op \in {"create", "update"} => r.roles \subseteq KnownRoles \cup retired
          PROVE  HasRead(r)'
      <4>1. r.op \in {"create", "update"} /\ Within(r.roles, r.rights) => Within(r.roles, r.rights)'
        BY <1>3, <3>2 DEF Within
      <4>2. QED
        BY <1>3, <3>2, <4>1 DEF HasRead, HasRow
    <3>3. r.op \in {"create", "update"} /\ r.roles \subseteq KnownRoles \cup retired
            => r.roles \subseteq KnownRoles' \cup retired'
      BY <1>3
    <3>4. QED
      BY <1>1, <3>1, <3>2, <3>3 DEF AcctRequestOK
  <2>4. QED
    BY <1>3, <2>1, <2>2, <2>3 DEF AcctInv, AcctClaims
<1>4. ASSUME NEW r \in AcctRoles, create_role(a, r) PROVE AcctInv'
  <2>1. PICK rights \in Rights : perms' = [q \in KnownRoles \cup {r} |-> IF q = r THEN rights ELSE perms[q]]
    BY <1>4 DEF create_role
  <2>2. /\ r \notin KnownRoles \cup retired /\ UNCHANGED <<acct, retired>>
        /\ KnownRoles' = KnownRoles \cup {r}
    BY <1>4, <2>1 DEF create_role, KnownRoles
  <2>3. AcctRows'
    BY <1>1, <2>1, <2>2 DEF AcctInv, AcctRows, HasRow
  <2>4. \A u \in Accts : acct[u].roles \subseteq KnownRoles'
    BY <2>2 DEF AcctInv, AcctRows
  <2>5. QED
    BY <1>3, <2>1, <2>2, <2>3, <2>4
<1>5. ASSUME NEW r \in AcctRoles, delete_role(a, r) PROVE AcctInv'
  <2>1. /\ perms' = [q \in KnownRoles \ {r} |-> perms[q]] /\ acct' = acct /\ retired' = retired \cup {r}
        /\ KnownRoles' = KnownRoles \ {r} /\ Holders({r}) = {}
    BY <1>5 DEF delete_role, KnownRoles
  <2>2. \A u \in Accts : acct[u].roles \subseteq KnownRoles'
    BY <2>1 DEF AcctInv, AcctRows, Holders
  <2>3. AcctRows'
    BY <1>1, <2>1, <2>2 DEF AcctInv, AcctRows, HasRow
  <2>4. QED
    BY <1>3, <2>1, <2>2, <2>3
<1>6. QED
  BY <1>2, <1>4, <1>5

\* The steps that write nothing of a user or role.
LEMMA IdleSteps ==
  ASSUME AcctInv,
         \/ \E c \in AcctClerks : AbortAcct(c)
         \/ \E u \in Accts, token \in TokenKinds : Expire(u, token)
         \/ UNCHANGED accountsVars
  PROVE  AcctInv'
<1>1. UNCHANGED <<acct, perms, granted, retired, tangled>>
  BY DEF AbortAcct, Expire, accountsVars
<1>2. tokens' \in [Accts -> SUBSET TokenKinds]
  BY DEF AbortAcct, Expire, accountsVars, AcctInv, AcctRows
<1>3. ASSUME NEW d \in AcctClerks
      PROVE  acctReq'[d] = acctReq[d] \/ acctReq'[d] = Quiet \/ acctReq' = acctReq
  <2>1. CASE acctReq' = acctReq
    BY <2>1
  <2>2. ASSUME NEW c \in AcctClerks, AbortAcct(c)
        PROVE  acctReq'[d] = acctReq[d] \/ acctReq'[d] = Quiet \/ acctReq' = acctReq
    <3>1. acctReq' = [acctReq EXCEPT ![c] = Quiet]
      BY <2>2 DEF AbortAcct
    <3>2. QED
      BY <3>1
  <2>3. QED
    BY <2>1, <2>2 DEF Expire, accountsVars
<1>4. AcctRows' /\ AcctClaims'
  BY <1>1, <1>2 DEF AcctInv, AcctRows, AcctClaims, HasRow, EveryUserHasRole, NoPasswordMeansPending,
              RightsAreGranted, union_permissions, KnownRoles
<1>5. ASSUME NEW d \in AcctClerks PROVE AcctRequestOK(acctReq[d])'
  <2>1. AcctRequestOK(acctReq'[d])
    BY <1>3 DEF AcctInv, AcctRequestOK
  <2>2. QED
    BY <1>1, <2>1 DEF AcctRequestOK, HasRead, HasRow, Within, KnownRoles
<1>6. QED
  BY <1>4, <1>5 DEF AcctInv

\* One user with one role, and another role, are there at first.
LEMMA AcctBegins == AccountsInit => AcctInv
<1> SUFFICES ASSUME AccountsInit PROVE AcctInv
  OBVIOUS
<1> USE AccountsAssumption DEF AccountsInit
<1>1. FirstRole \in AcctRoles /\ OtherRole \in AcctRoles
  BY DEF FirstRole, OtherRole
<1>2. KnownRoles = {FirstRole, OtherRole} /\ perms \in [KnownRoles -> Rights] /\ perms[FirstRole] = {"users"}
  BY DEF KnownRoles, Rights
<1>3. \A u \in Accts : /\ acct[u] \in Account /\ acct[u].roles \subseteq {FirstRole}
                       /\ HasRow(u) => u = FirstAcct /\ acct[u].password /\ acct[u].roles = {FirstRole}
                       /\ ~HasRow(u) => acct[u].roles = {}
  BY <1>1 DEF Account, Assigned, NoAcct, HasRow
<1>4. AcctRows
  BY <1>1, <1>2, <1>3 DEF AcctRows, Account, Assigned, NoAcct, Rights
<1>5. EveryUserHasRole /\ NoPasswordMeansPending
  BY <1>3 DEF EveryUserHasRole, NoPasswordMeansPending
<1>6. RightsAreGranted
  BY <1>2, <1>3 DEF RightsAreGranted, union_permissions
<1>7. \A c \in AcctClerks : AcctRequestOK(acctReq[c])
  BY DEF AcctRequestOK
<1>8. QED
  BY <1>4, <1>5, <1>6, <1>7 DEF AcctInv, AcctClaims

\* Every step keeps the invariant, which is more than the property.
LEMMA AcctNext == AcctInv /\ [AccountsNext]_accountsVars => AcctInv'
<1> SUFFICES ASSUME AcctInv, [AccountsNext]_accountsVars PROVE AcctInv'
  OBVIOUS
<1>1. CASE UNCHANGED accountsVars
  BY <1>1, IdleSteps
<1>2. ASSUME NEW c \in AcctClerks,
             \/ \E u \in Accts : BeginLogin(c, u) \/ BeginSetPassword(c, u)
             \/ \E a \in Principals :
                  \/ \E u \in Accts : BeginCreateUser(c, a, u) \/ BeginUpdateAccount(c, a, u)
                                      \/ BeginReset(c, a, u)
                  \/ \E r \in AcctRoles : BeginUpdateRole(c, a, r)
      PROVE  AcctInv'
  BY <1>2, BeginAcctStep
<1>3. ASSUME NEW c \in AcctClerks,
             \/ FinishLogin(c) \/ IssueSetup(c) \/ FinishSetPassword(c)
             \/ FinishCreateUser(c) \/ FinishUpdateAccount(c) \/ FinishReset(c)
             \/ FinishUpdateRole(c)
      PROVE  AcctInv'
  BY <1>3, EntrySteps, FinishCreateUserStep, FinishUpdateAccountStep, FinishResetStep,
     FinishUpdateRoleStep
<1>4. ASSUME \E c \in AcctClerks : AbortAcct(c) PROVE AcctInv'
  BY <1>4, IdleSteps
<1>5. ASSUME NEW a \in Principals,
             \/ \E u \in Accts : DeleteAccount(a, u)
             \/ \E r \in AcctRoles : create_role(a, r) \/ delete_role(a, r)
      PROVE  AcctInv'
  BY <1>5, AtOnceSteps
<1>6. ASSUME \E u \in Accts, token \in TokenKinds : Expire(u, token) PROVE AcctInv'
  BY <1>6, IdleSteps
<1>7. QED
  BY <1>1, <1>2, <1>3, <1>4, <1>5, <1>6 DEF AccountsNext

\* The invariant is more than the property.
LEMMA AcctInvHolds == AcctInv => AccountsAndRolesHold
<1> SUFFICES ASSUME AcctInv PROVE AccountsAndRolesHold
  OBVIOUS
<1>1. \A r \in KnownRoles : [perms |-> perms[r]] \in Role
  BY DEF AcctInv, AcctRows, Role
<1>2. QED
  BY <1>1 DEF AcctInv, AcctRows, AcctClaims, AccountsAndRolesHold, AccountsTypeOK

\* Every user has a role, one without a password is pending, and nobody has a right
\* that was not in the reach of who gave it, unless two requests worked on him at
\* once (_assert_roles_within_actor, set_roles, reset_password).
THEOREM AccountsCorrect == AccountsSpec => []AccountsAndRolesHold
<1> QED
  BY AcctBegins, AcctNext, AcctInvHolds, PTL DEF AccountsSpec

\* The same of the console as a whole.
THEOREM ConsoleAccounts == ConsoleSpec => []AccountsHold
<1>1. ConsoleInit => AcctInv
  BY AcctBegins DEF ConsoleInit
<1>2. AcctInv /\ [ConsoleNext]_consoleVars => AcctInv'
  <2>1. [ConsoleNext]_consoleVars => [AccountsNext]_accountsVars
    BY DEF ConsoleNext, consoleVars
  <2>2. QED
    BY <2>1, AcctNext
<1>3. AcctInv => AccountsHold
  BY AcctInvHolds DEF AccountsHold
<1>4. QED
  BY <1>1, <1>2, <1>3, PTL DEF ConsoleSpec

----------------------------------------------------------------------------
(* Teams, their leaders and members, and the extras of users.               *)

\* A list filtered holds the members of it that are of the set, and no other.
LEMMA KeptHas ==
  ASSUME NEW S, NEW s \in Seq(S), NEW T
  PROVE  /\ Kept(s, T) \in Seq(S)
         /\ Elements(Kept(s, T)) = Elements(s) \cap T
<1> DEFINE at == {i \in DOMAIN s : s[i] \in T}
           nth(n) == CHOOSE i \in at : Cardinality({j \in at : j <= i}) = n
<1>1. IsFiniteSet(at) /\ at \subseteq Nat /\ Cardinality(at) \in Nat
  <2>1. DOMAIN s = 1 .. Len(s) /\ Len(s) \in Nat
    OBVIOUS
  <2>2. IsFiniteSet(DOMAIN s)
    BY <2>1, FS_Interval
  <2>3. QED
    BY <2>1, <2>2, FS_Subset, FS_CardinalityType
<1>2. ASSUME NEW n \in 1 .. Cardinality(at)
      PROVE  nth(n) \in at /\ Cardinality({j \in at : j <= nth(n)}) = n
  <2>1. \E i \in at : Cardinality({j \in at : j <= i}) = n
    BY <1>1, RankOnto
  <2>2. QED
    BY <2>1
<1>3. Kept(s, T) = [n \in 1 .. Cardinality(at) |-> s[nth(n)]]
  BY DEF Kept
<1>4. \A n \in 1 .. Cardinality(at) : s[nth(n)] \in Elements(s) \cap T /\ s[nth(n)] \in S
  <2> SUFFICES ASSUME NEW n \in 1 .. Cardinality(at)
               PROVE  s[nth(n)] \in Elements(s) \cap T /\ s[nth(n)] \in S
    OBVIOUS
  <2>1. PICK i : i = nth(n) /\ i \in at
    BY <1>2
  <2>2. i \in DOMAIN s /\ s[i] \in T
    BY ONLY <2>1
  <2>3. s[i] \in S
    BY <2>2
  <2>4. s[i] \in Elements(s)
    BY ONLY <2>2 DEF Elements
  <2>5. QED
    BY <2>1, <2>2, <2>3, <2>4
<1>a. PICK size : size = Cardinality(at) /\ size \in Nat
  BY <1>1
<1>b. PICK k : k = [n \in 1 .. size |-> s[nth(n)]]
  OBVIOUS
<1>c. DOMAIN k = 1 .. size /\ \A n \in 1 .. size : k[n] = s[nth(n)]
  BY <1>b
<1>d. \A n \in 1 .. size : k[n] \in Elements(s) \cap T /\ k[n] \in S
  BY <1>4, <1>a, <1>c
<1>5. k \in Seq(S)
  <2>1. k \in [1 .. size -> S]
    BY <1>b, <1>c, <1>d
  <2>2. k \in Seq(S)
    <3> HIDE DEF nth, at
    <3>1. QED
      BY ONLY <1>a, <2>1
  <2>3. QED
    BY <2>2
<1>6. Elements(k) \subseteq Elements(s) \cap T
  BY <1>c, <1>d DEF Elements
<1>7. ASSUME NEW i \in at PROVE s[i] \in Elements(k)
  <2>1. PICK n : n = Cardinality({j \in at : j <= i})
    OBVIOUS
  <2>2. n \in 1 .. Cardinality(at)
    BY <1>1, <2>1, RankBounds
  <2>3. nth(n) = i
    BY <1>1, <1>2, <2>1, <2>2, RankInjective
  <2>4. k[n] = s[i]
    BY <1>a, <1>c, <2>2, <2>3
  <2>5. n \in DOMAIN k
    BY <1>a, <1>c, <2>2
  <2>6. QED
    BY <2>4, <2>5 DEF Elements
<1>8. Elements(s) \cap T \subseteq Elements(k)
  <2>1. \A v \in Elements(s) \cap T : \E i \in at : v = s[i]
    BY DEF Elements
  <2>2. QED
    BY <1>7, <2>1
<1>9. k = Kept(s, T)
  BY <1>3, <1>a, <1>b
<1>10. QED
  BY <1>5, <1>6, <1>8, <1>9

\* Without a user, the others are left.
LEMMA WithoutHas ==
  ASSUME NEW S, NEW s \in Seq(S), NEW u
  PROVE  Without(s, u) \in Seq(S) /\ Elements(Without(s, u)) = Elements(s) \ {u}
BY KeptHas DEF Without

\* The first of a list is of it, unless it is empty.
LEMMA FirstHas ==
  ASSUME NEW S, NEW s \in Seq(S)
  PROVE  First(s) = Nobody \/ First(s) \in Elements(s)
BY DEF First, Elements

\* A list with one more at its end.
LEMMA AppendHas ==
  ASSUME NEW S, NEW s \in Seq(S), NEW u \in S
  PROVE  /\ Append(s, u) \in Seq(S) /\ Append(s, u) # <<>>
         /\ Elements(Append(s, u)) = Elements(s) \cup {u}
<1>1. /\ Append(s, u) \in Seq(S) /\ Len(Append(s, u)) = Len(s) + 1 /\ Len(s) \in Nat
      /\ \A i \in 1 .. Len(s) : Append(s, u)[i] = s[i]
      /\ Append(s, u)[Len(s) + 1] = u
  OBVIOUS
<1>2. /\ DOMAIN Append(s, u) = 1 .. Len(s) + 1 /\ DOMAIN s = 1 .. Len(s)
      /\ 1 .. Len(s) + 1 = 1 .. Len(s) \cup {Len(s) + 1}
  BY <1>1
<1>3. QED
  BY <1>1, <1>2 DEF Elements

\* Two lists, one after the other.
LEMMA ConcatHas ==
  ASSUME NEW S, NEW s \in Seq(S), NEW t \in Seq(S)
  PROVE  s \o t \in Seq(S) /\ Elements(s \o t) = Elements(s) \cup Elements(t)
<1>1. s \o t \in Seq(S) /\ Len(s \o t) = Len(s) + Len(t)
  OBVIOUS
<1>2. \A i \in 1 .. Len(s) + Len(t) :
        (s \o t)[i] = IF i <= Len(s) THEN s[i] ELSE t[i - Len(s)]
  OBVIOUS
<1>3. Elements(s \o t) \subseteq Elements(s) \cup Elements(t)
  BY <1>1, <1>2 DEF Elements
<1>4. Elements(s) \subseteq Elements(s \o t)
  BY <1>1, <1>2 DEF Elements
<1>5. ASSUME NEW j \in 1 .. Len(t) PROVE t[j] \in Elements(s \o t)
  <2>1. (s \o t)[Len(s) + j] = t[j] /\ Len(s) + j \in 1 .. Len(s) + Len(t)
    BY <1>2
  <2>2. QED
    BY <1>1, <2>1 DEF Elements
<1>6. QED
  BY <1>1, <1>3, <1>4, <1>5 DEF Elements

\* An empty list has no members, and another has some.
LEMMA NoElements ==
  ASSUME NEW S, NEW s \in Seq(S)
  PROVE  s = <<>> <=> Elements(s) = {}
BY DEF Elements

\* What a request holds between its two steps; "desired" and "old" of a team,
\* "current" and "led" of a user.
TeamsRequest == [op : {"team"}, team : TeamIds, leader : Staff \cup {Nobody, Keep},
                 desired : Seq(Staff) \cup {Keep}, old : Staff \cup {Nobody},
                 touched : SUBSET TeamIds, raced : BOOLEAN]
MembersRequest == [op : {"user"}, user : Staff, own : (SUBSET TeamIds) \cup {Keep},
                   extra : (SUBSET TeamIds) \cup {Keep}, current : SUBSET TeamIds,
                   led : SUBSET TeamIds, stored : SUBSET TeamIds,
                   touched : SUBSET TeamIds, raced : BOOLEAN]
LeaveRequest == [op : {"delete"}, user : Staff, led : SUBSET TeamIds,
                 touched : SUBSET TeamIds, raced : BOOLEAN]

\* A team's request works on its team, and puts its leader among the members;
\* until a commit crosses it, the leader it has read is the one there, or nobody.
TeamsRequestOK(r) ==
  /\ r \in TeamsRequest /\ r.touched = {r.team}
  /\ r.leader \in Staff => r.desired # Keep /\ r.leader \in Elements(r.desired)
  /\ ~r.raced => leader[r.team] \in {r.old, Nobody}

\* A user's request works on all the teams it reads or writes; until a commit
\* crosses it, he is in those it has read him in, and leads those it has read.
MembersRequestOK(r) ==
  /\ r \in MembersRequest /\ userRow[r.user] # "none"
  /\ r.current \subseteq r.touched /\ r.led \subseteq r.touched /\ r.stored \subseteq r.touched
  /\ r.own # Keep => r.own \subseteq r.touched
  /\ r.extra # Keep => r.extra \subseteq r.touched
  /\ ~r.raced /\ userRow[r.user] = "live" =>
       \A t \in r.touched : /\ t \in r.current <=> r.user \in MembersOf(t)
                            /\ t \in r.led <=> leader[t] = r.user

TeamRequestOK(r) ==
  \/ r = Waiting
  \/ TeamsRequestOK(r)
  \/ MembersRequestOK(r)
  \/ r \in LeaveRequest /\ r.led \subseteq r.touched

TeamInv == MembershipsHold /\ \A c \in TeamClerks : TeamRequestOK(teamReq[c])

\* A request that is not waiting is of one of three kinds, told by its name.
LEMMA TeamRequestKinds ==
  ASSUME NEW r, TeamRequestOK(r)
  PROVE  /\ r.op = "team" => TeamsRequestOK(r)
         /\ r.op = "user" => MembersRequestOK(r)
         /\ r.op = "delete" => r \in LeaveRequest /\ r.led \subseteq r.touched
         /\ r # Waiting => r.touched \subseteq TeamIds /\ r.raced \in BOOLEAN
<1>1. r = Waiting => r.op = "wait"
  BY DEF Waiting
<1>2. TeamsRequestOK(r) => r.op = "team" /\ r.touched \subseteq TeamIds /\ r.raced \in BOOLEAN
  BY DEF TeamsRequestOK, TeamsRequest
<1>3. MembersRequestOK(r) => r.op = "user" /\ r.touched \subseteq TeamIds /\ r.raced \in BOOLEAN
  BY DEF MembersRequestOK, MembersRequest
<1>4. r \in LeaveRequest => r.op = "delete" /\ r.touched \subseteq TeamIds /\ r.raced \in BOOLEAN
  BY DEF LeaveRequest
<1>5. QED
  BY <1>1, <1>2, <1>3, <1>4 DEF TeamRequestOK

\* What a commit that works on a set of teams may do to the others: nobody comes to
\* lead them, and nobody joins or leaves them or stops leading, but a user who goes.
Beside(touched) ==
  /\ \A u \in Staff : /\ userRow[u] # "none" => userRow'[u] # "none"
                      /\ userRow'[u] = "live" /\ userRow[u] # "none" => userRow[u] = "live"
  /\ \A t \in TeamIds \ touched :
       /\ leader'[t] \in {leader[t], Nobody}
       /\ \A u \in Staff : userRow'[u] = "live" /\ userRow[u] = "live" =>
            /\ u \in Elements(members'[t]) <=> u \in Elements(members[t])
            /\ leader'[t] = u <=> leader[t] = u

\* What a request has read stays so beside such a commit, or it is raced.
LEMMA BesideKeeps ==
  ASSUME TeamInv, NEW c, NEW touched, Beside(touched), teamReq' = Crossing(c, touched)
  PROVE  \A d \in TeamClerks : TeamRequestOK(teamReq[d])'
<1> SUFFICES ASSUME NEW d \in TeamClerks PROVE TeamRequestOK(teamReq[d])'
  OBVIOUS
<1>1. PICK old : old = teamReq[d]
  OBVIOUS
<1>2. PICK new : new = teamReq'[d]
  OBVIOUS
<1>3. TeamRequestOK(old)
  BY <1>1 DEF TeamInv
<1>4. new = IF d = c THEN Waiting
            ELSE IF old # Waiting /\ old.touched \cap touched # {} THEN [old EXCEPT !.raced = TRUE]
            ELSE old
  BY <1>1, <1>2 DEF Crossing
<1>5. CASE new = Waiting
  BY <1>2, <1>5 DEF TeamRequestOK
<1>6. CASE d # c /\ old # Waiting /\ old.touched \cap touched # {}
  <2>1. new = [old EXCEPT !.raced = TRUE]
    BY <1>4, <1>6
  <2>2. CASE TeamsRequestOK(old)
    <3>1. new \in TeamsRequest /\ new.raced /\ new.touched = old.touched /\ new.team = old.team
          /\ new.leader = old.leader /\ new.desired = old.desired
      BY <2>1, <2>2 DEF TeamsRequestOK, TeamsRequest
    <3>2. TeamsRequestOK(teamReq[d])'
      BY <1>2, <2>2, <3>1 DEF TeamsRequestOK
    <3>3. QED
      BY <3>2 DEF TeamRequestOK
  <2>3. CASE MembersRequestOK(old)
    <3>1. new \in MembersRequest /\ new.raced /\ new.touched = old.touched /\ new.user = old.user
          /\ new.own = old.own /\ new.extra = old.extra /\ new.current = old.current
          /\ new.led = old.led /\ new.stored = old.stored
      BY <2>1, <2>3 DEF MembersRequestOK, MembersRequest
    <3>2. userRow'[new.user] # "none"
      BY <2>3, <3>1 DEF Beside, MembersRequestOK, MembersRequest
    <3>3. MembersRequestOK(teamReq[d])'
      BY <1>2, <2>3, <3>1, <3>2 DEF MembersRequestOK
    <3>4. QED
      BY <3>3 DEF TeamRequestOK
  <2>4. CASE old \in LeaveRequest /\ old.led \subseteq old.touched
    <3>1. new \in LeaveRequest /\ new.led \subseteq new.touched
      BY <2>1, <2>4 DEF LeaveRequest
    <3>2. QED
      BY <1>2, <3>1 DEF TeamRequestOK
  <2>5. QED
    BY <1>3, <1>6, <2>2, <2>3, <2>4 DEF TeamRequestOK
<1>7. CASE new = old /\ old # Waiting /\ old.touched \cap touched = {}
  <2>2. CASE TeamsRequestOK(old)
    <3>1. old.team \in TeamIds \ touched /\ old.touched = {old.team} /\ old \in TeamsRequest
      BY <1>7, <2>2 DEF TeamsRequestOK, TeamsRequest
    <3>2. ~old.raced => leader'[old.team] \in {old.old, Nobody}
      BY <2>2, <3>1 DEF Beside, TeamsRequestOK
    <3>3. TeamsRequestOK(teamReq[d])'
      BY <1>2, <1>7, <2>2, <3>2 DEF TeamsRequestOK
    <3>4. QED
      BY <3>3 DEF TeamRequestOK
  <2>3. CASE MembersRequestOK(old)
    <3>1. old \in MembersRequest /\ old.user \in Staff /\ old.touched \subseteq TeamIds \ touched
      BY <1>7, <2>3 DEF MembersRequestOK, MembersRequest
    <3>2. userRow'[old.user] # "none"
          /\ (userRow'[old.user] = "live" => userRow[old.user] = "live")
      BY <2>3, <3>1 DEF Beside, MembersRequestOK
    <3>3. ASSUME ~old.raced, userRow'[old.user] = "live", NEW t \in old.touched
          PROVE  /\ t \in old.current <=> old.user \in Elements(members'[t])
                 /\ t \in old.led <=> leader'[t] = old.user
      <4>1. t \in TeamIds \ touched
        BY <3>1
      <4>2. /\ old.user \in Elements(members'[t]) <=> old.user \in Elements(members[t])
            /\ leader'[t] = old.user <=> leader[t] = old.user
        BY <3>1, <3>2, <3>3, <4>1 DEF Beside
      <4>3. /\ t \in old.current <=> old.user \in MembersOf(t)
            /\ t \in old.led <=> leader[t] = old.user
        BY <2>3, <3>2, <3>3 DEF MembersRequestOK
      <4>4. QED
        BY <4>2, <4>3 DEF MembersOf
    <3>4. MembersRequestOK(teamReq[d])'
      BY <1>2, <1>7, <2>3, <3>2, <3>3 DEF MembersRequestOK, MembersOf
    <3>5. QED
      BY <3>4 DEF TeamRequestOK
  <2>4. CASE old \in LeaveRequest /\ old.led \subseteq old.touched
    BY <1>2, <1>7, <2>4 DEF TeamRequestOK
  <2>5. QED
    BY <1>3, <1>7, <2>2, <2>3, <2>4 DEF TeamRequestOK
<1>8. QED
  BY <1>4, <1>5, <1>6, <1>7

\* The teams of a request that ends are raced when it was.
LEMMA EndedRequest ==
  ASSUME NEW c \in TeamClerks, EndRequest(c)
  PROVE  /\ teamReq' = Crossing(c, teamReq[c].touched) /\ raced \subseteq raced'
         /\ teamReq[c].raced => teamReq[c].touched \subseteq raced'
BY DEF EndRequest

\* A list of users without repetition is a list of users.
LEMMA ListsAreLists == \A given \in Lists : given \in Seq(Users) /\ given \in Seq(Staff)
<1> SUFFICES ASSUME NEW given \in Lists PROVE given \in Seq(Users) /\ given \in Seq(Staff)
  OBVIOUS
<1>1. Users \subseteq Staff
  BY DEF Users
<1>2. PICK k \in 0 .. Cardinality(Users) : given \in [1 .. k -> Users]
  BY DEF Lists
<1>3. k \in Nat
  OBVIOUS
<1>4. given \in Seq(Users)
  BY ONLY <1>2, <1>3
<1>5. QED
  BY <1>1, <1>4

\* A new team is led by a member, and is nobody's extra among its members.
LEMMA create_teamStep ==
  ASSUME TeamInv, NEW t \in TeamIds, create_team(t)
  PROVE  TeamInv'
<1> USE TeamsAssumption
<1>1. PICK lead \in Users \cup {Nobody}, given \in Lists :
        LET roll == IF lead # Nobody /\ lead \notin Elements(given)
                       THEN Append(given, lead) ELSE given
        IN  /\ members' = [members EXCEPT ![t] = roll]
            /\ leader' = [leader EXCEPT ![t] = IF lead # Nobody THEN lead ELSE First(roll)]
            /\ extras' = [u \in Staff |->
                            IF u \in Elements(roll) THEN extras[u] \ {t} ELSE extras[u]]
  BY DEF create_team
<1>2. PICK roll : roll = IF lead # Nobody /\ lead \notin Elements(given)
                               THEN Append(given, lead) ELSE given
  OBVIOUS
<1>3. given \in Seq(Users) /\ Users \subseteq Staff
  BY ListsAreLists DEF Users
<1>4. roll \in Seq(Users) /\ (lead # Nobody => lead \in Elements(roll))
  <2>1. CASE lead # Nobody /\ lead \notin Elements(given)
    <3>1. roll = Append(given, lead) /\ lead \in Users
      BY <1>2, <2>1
    <3>2. QED
      BY <1>3, <3>1, AppendHas
  <2>2. CASE ~(lead # Nobody /\ lead \notin Elements(given))
    BY <1>2, <1>3, <2>2
  <2>3. QED
    BY <2>1, <2>2
<1>5. PICK first : first = IF lead # Nobody THEN lead ELSE First(roll)
  OBVIOUS
<1>6. first = Nobody \/ first \in Elements(roll)
  BY <1>4, <1>5, FirstHas
<1>7. /\ members' = [members EXCEPT ![t] = roll] /\ leader' = [leader EXCEPT ![t] = first]
      /\ extras' = [u \in Staff |->
                      IF u \in Elements(roll) THEN extras[u] \ {t} ELSE extras[u]]
  BY <1>1, <1>2, <1>5
<1>8. /\ teamRow' = [teamRow EXCEPT ![t] = "live"] /\ userRow' = userRow /\ raced' = raced
      /\ teamReq' = Crossing(Nobody, {t})
  BY DEF create_team, AtOnce
<1>9. Elements(roll) \subseteq Users
  BY <1>4 DEF Elements
<1>10. /\ members \in [TeamIds -> Seq(Staff)] /\ leader \in [TeamIds -> Staff \cup {Nobody}]
       /\ extras \in [Staff -> SUBSET TeamIds] /\ teamRow \in [TeamIds -> RowStates]
  BY DEF TeamInv, MembershipsHold, TeamsTypeOK, UserTeams, TeamLeaders, UserChannelTeams
<1>11. roll \in Seq(Staff)
  BY <1>3, <1>4
<1>12. \A s \in TeamIds : /\ members'[s] = IF s = t THEN roll ELSE members[s]
                          /\ leader'[s] = IF s = t THEN first ELSE leader[s]
                          /\ teamRow'[s] = IF s = t THEN "live" ELSE teamRow[s]
  BY <1>7, <1>8, <1>10
<1>13. \A u \in Staff : extras'[u] \subseteq extras[u]
                        /\ (u \in Elements(roll) => t \notin extras'[u])
  BY <1>7
<1>14. Users' = Users /\ LiveTeams \subseteq LiveTeams'
  BY <1>8, <1>12 DEF Users, LiveTeams
<1>15. TeamsTypeOK'
  <2>1. /\ userRow' \in [Staff -> RowStates] /\ teamRow' \in [TeamIds -> RowStates]
        /\ leader' \in TeamLeaders /\ members' \in UserTeams /\ extras' \in UserChannelTeams
    <3>1. leader' \in TeamLeaders
      BY <1>3, <1>6, <1>7, <1>9, <1>10 DEF TeamLeaders
    <3>2. teamRow' \in [TeamIds -> RowStates]
      BY <1>8, <1>10 DEF RowStates
    <3>3. members' \in UserTeams
      BY <1>7, <1>10, <1>11 DEF UserTeams
    <3>4. extras' \in UserChannelTeams
      BY <1>7, <1>10 DEF UserChannelTeams
    <3>5. QED
      BY <1>8, <3>1, <3>2, <3>3, <3>4 DEF TeamInv, MembershipsHold, TeamsTypeOK
  <2>2. ASSUME NEW s \in TeamIds
        PROVE  /\ leader'[s] \in Users' \cup {Nobody} /\ Elements(members'[s]) \subseteq Users'
               /\ members'[s] # <<>> => teamRow'[s] = "live"
    BY <1>6, <1>9, <1>12, <1>14 DEF TeamInv, MembershipsHold, TeamsTypeOK, MembersOf
  <2>3. \A u \in Staff : extras'[u] \subseteq LiveTeams'
    BY <1>13, <1>14 DEF TeamInv, MembershipsHold, TeamsTypeOK
  <2>4. QED
    BY <2>1, <2>2, <2>3 DEF TeamsTypeOK, MembersOf
<1>16. LeaderIsMember'
  BY <1>6, <1>8, <1>12 DEF TeamInv, MembershipsHold, LeaderIsMember, MembersOf
<1>17. ExtrasAreExtra'
  BY <1>8, <1>12, <1>13 DEF TeamInv, MembershipsHold, ExtrasAreExtra, MembersOf, team_ids_of_user
<1>18. Beside({t})
  BY <1>8, <1>12 DEF Beside
<1>19. \A d \in TeamClerks : TeamRequestOK(teamReq[d])'
  BY <1>8, <1>18, BesideKeeps
<1>20. QED
  BY <1>15, <1>16, <1>17, <1>19 DEF TeamInv, MembershipsHold

\* A team that goes leaves nothing behind.
LEMMA delete_teamStep ==
  ASSUME TeamInv, NEW t \in TeamIds, delete_team(t)
  PROVE  TeamInv'
<1> USE TeamsAssumption
<1>1. /\ teamRow' = [teamRow EXCEPT ![t] = "gone"] /\ userRow' = userRow /\ raced' = raced
      /\ members' = [members EXCEPT ![t] = <<>>] /\ leader' = [leader EXCEPT ![t] = Nobody]
      /\ extras' = [u \in Staff |-> extras[u] \ {t}] /\ teamReq' = Crossing(Nobody, {t})
  BY DEF delete_team, AtOnce
<1>2. /\ members \in [TeamIds -> Seq(Staff)] /\ leader \in [TeamIds -> Staff \cup {Nobody}]
      /\ extras \in [Staff -> SUBSET TeamIds] /\ teamRow \in [TeamIds -> RowStates]
  BY DEF TeamInv, MembershipsHold, TeamsTypeOK, UserTeams, TeamLeaders, UserChannelTeams
<1>3. \A s \in TeamIds : /\ members'[s] = IF s = t THEN <<>> ELSE members[s]
                         /\ leader'[s] = IF s = t THEN Nobody ELSE leader[s]
                         /\ teamRow'[s] = IF s = t THEN "gone" ELSE teamRow[s]
  BY <1>1, <1>2
<1>4. Users' = Users /\ LiveTeams \ {t} \subseteq LiveTeams'
  BY <1>1, <1>3 DEF Users, LiveTeams
<1>5. Elements(<<>>) = {}
  BY DEF Elements
<1>6. TeamsTypeOK'
  <2>1. /\ userRow' \in [Staff -> RowStates] /\ teamRow' \in [TeamIds -> RowStates]
        /\ leader' \in TeamLeaders /\ members' \in UserTeams /\ extras' \in UserChannelTeams
    <3>1. leader' \in TeamLeaders /\ teamRow' \in [TeamIds -> RowStates]
      BY <1>1, <1>2 DEF TeamLeaders, RowStates
    <3>2. members' \in UserTeams /\ extras' \in UserChannelTeams
      BY <1>1, <1>2 DEF UserTeams, UserChannelTeams
    <3>3. QED
      BY <1>1, <3>1, <3>2 DEF TeamInv, MembershipsHold, TeamsTypeOK
  <2>2. ASSUME NEW s \in TeamIds
        PROVE  /\ leader'[s] \in Users' \cup {Nobody} /\ Elements(members'[s]) \subseteq Users'
               /\ members'[s] # <<>> => teamRow'[s] = "live"
    BY <1>3, <1>4, <1>5 DEF TeamInv, MembershipsHold, TeamsTypeOK, MembersOf
  <2>3. \A u \in Staff : extras'[u] \subseteq LiveTeams'
    BY <1>1, <1>4 DEF TeamInv, MembershipsHold, TeamsTypeOK
  <2>4. QED
    BY <2>1, <2>2, <2>3 DEF TeamsTypeOK, MembersOf
<1>7. LeaderIsMember'
  BY <1>1, <1>3 DEF TeamInv, MembershipsHold, LeaderIsMember, MembersOf
<1>8. ExtrasAreExtra'
  BY <1>1, <1>3 DEF TeamInv, MembershipsHold, ExtrasAreExtra, MembersOf, team_ids_of_user
<1>9. Beside({t})
  BY <1>1, <1>3 DEF Beside
<1>10. \A d \in TeamClerks : TeamRequestOK(teamReq[d])'
  BY <1>1, <1>9, BesideKeeps
<1>11. QED
  BY <1>6, <1>7, <1>8, <1>10 DEF TeamInv, MembershipsHold

\* A new user joins his own teams, and is given the others beyond them.
LEMMA create_userStep ==
  ASSUME TeamInv, NEW u \in Staff, create_user(u)
  PROVE  TeamInv'
<1> USE TeamsAssumption
<1>1. PICK own \in SUBSET LiveTeams, extra \in SUBSET LiveTeams :
        /\ members' = [t \in TeamIds |->
                         IF t \in own THEN Append(members[t], u) ELSE members[t]]
        /\ extras' = [extras EXCEPT ![u] = extra \ own]
        /\ AtOnce(own \cup extra)
  BY DEF create_user
<1>2. /\ userRow[u] = "none" /\ userRow' = [userRow EXCEPT ![u] = "live"]
      /\ teamRow' = teamRow /\ leader' = leader /\ raced' = raced
      /\ teamReq' = Crossing(Nobody, own \cup extra)
  BY <1>1 DEF create_user, AtOnce
<1>3. /\ members \in [TeamIds -> Seq(Staff)] /\ leader \in [TeamIds -> Staff \cup {Nobody}]
      /\ extras \in [Staff -> SUBSET TeamIds] /\ userRow \in [Staff -> RowStates]
  BY DEF TeamInv, MembershipsHold, TeamsTypeOK, UserTeams, TeamLeaders, UserChannelTeams
<1>4. Users' = Users \cup {u} /\ u \notin Users /\ LiveTeams' = LiveTeams /\ LiveTeams \subseteq TeamIds
  BY <1>2, <1>3 DEF Users, LiveTeams
<1>5. ASSUME NEW t \in TeamIds
      PROVE  /\ members'[t] \in Seq(Staff)
             /\ Elements(members'[t]) = IF t \in own THEN Elements(members[t]) \cup {u}
                                        ELSE Elements(members[t])
             /\ members'[t] # <<>> => members[t] # <<>> \/ t \in own
  <2>1. members[t] \in Seq(Staff)
    BY <1>3
  <2>2. members'[t] = IF t \in own THEN Append(members[t], u) ELSE members[t]
    BY <1>1
  <2>3. /\ Append(members[t], u) \in Seq(Staff)
        /\ Elements(Append(members[t], u)) = Elements(members[t]) \cup {u}
    BY <2>1, AppendHas
  <2>4. QED
    BY <2>1, <2>2, <2>3
<1>6. TeamsTypeOK'
  <2>1. /\ userRow' \in [Staff -> RowStates] /\ teamRow' \in [TeamIds -> RowStates]
        /\ leader' \in TeamLeaders /\ members' \in UserTeams /\ extras' \in UserChannelTeams
    <3>1. userRow' \in [Staff -> RowStates]
      BY <1>2, <1>3 DEF RowStates
    <3>2. members' \in UserTeams
      BY <1>1, <1>5 DEF UserTeams
    <3>3. extras' \in UserChannelTeams
      BY <1>1, <1>3, <1>4 DEF UserChannelTeams
    <3>4. QED
      BY <1>2, <3>1, <3>2, <3>3 DEF TeamInv, MembershipsHold, TeamsTypeOK
  <2>2. ASSUME NEW s \in TeamIds
        PROVE  /\ leader'[s] \in Users' \cup {Nobody} /\ Elements(members'[s]) \subseteq Users'
               /\ members'[s] # <<>> => teamRow'[s] = "live"
    BY <1>2, <1>4, <1>5 DEF TeamInv, MembershipsHold, TeamsTypeOK, MembersOf, LiveTeams
  <2>3. \A v \in Staff : extras'[v] \subseteq LiveTeams'
    BY <1>1, <1>3, <1>4 DEF TeamInv, MembershipsHold, TeamsTypeOK
  <2>4. QED
    BY <2>1, <2>2, <2>3 DEF TeamsTypeOK, MembersOf
<1>7. LeaderIsMember'
  BY <1>2, <1>5 DEF TeamInv, MembershipsHold, LeaderIsMember, MembersOf
<1>8. ExtrasAreExtra'
  <2>1. SUFFICES ASSUME NEW v \in Staff, NEW t \in TeamIds, t \in extras'[v],
                        v \in Elements(members'[t])
                 PROVE  t \in raced'
    BY <1>1 DEF ExtrasAreExtra, team_ids_of_user, MembersOf
  <2>2. CASE v = u
    <3>1. t \in extra /\ t \notin own
      BY <1>1, <1>3, <2>1, <2>2
    <3>2. u \in Users
      BY <1>5, <2>1, <2>2, <3>1 DEF TeamInv, MembershipsHold, TeamsTypeOK, MembersOf
    <3>3. QED
      BY <1>4, <3>2
  <2>3. CASE v # u
    <3>1. extras'[v] = extras[v]
      BY <1>1, <1>3, <2>3
    <3>2. v \in Elements(members[t])
      BY <1>5, <2>1, <2>3
    <3>3. t \in extras[v] /\ v \in Elements(members[t])
      BY <2>1, <3>1, <3>2
    <3>4. QED
      BY <1>2, <3>3 DEF TeamInv, MembershipsHold, ExtrasAreExtra, team_ids_of_user, MembersOf
  <2>4. QED
    BY <2>2, <2>3
<1>9. Beside(own \cup extra)
  <2>1. \A v \in Staff : userRow'[v] = IF v = u THEN "live" ELSE userRow[v]
    BY <1>2, <1>3
  <2>2. \A t \in TeamIds \ (own \cup extra) :
          Elements(members'[t]) = Elements(members[t]) /\ leader'[t] = leader[t]
    BY <1>2, <1>5
  <2>3. QED
    BY <1>2, <2>1, <2>2 DEF Beside
<1>10. \A d \in TeamClerks : TeamRequestOK(teamReq[d])'
  BY <1>2, <1>9, BesideKeeps
<1>11. QED
  BY <1>6, <1>7, <1>8, <1>10 DEF TeamInv, MembershipsHold

\* What the tables hold is of the tables alone.
LEMMA SameTables ==
  ASSUME TeamInv, UNCHANGED <<userRow, teamRow, leader, members, extras, raced>>
  PROVE  MembershipsHold'
BY DEF TeamInv, MembershipsHold, TeamsTypeOK, LeaderIsMember, ExtrasAreExtra, Users, LiveTeams,
       MembersOf, team_ids_of_user

\* One request more, or one fewer, and tables as they were.
LEMMA OneRequest ==
  ASSUME TeamInv, UNCHANGED <<userRow, teamRow, leader, members, extras, raced>>,
         NEW c \in TeamClerks, NEW new, TeamRequestOK(new), teamReq' = [teamReq EXCEPT ![c] = new]
  PROVE  TeamInv'
<1>1. ASSUME NEW d \in TeamClerks PROVE TeamRequestOK(teamReq[d])'
  <2>1. teamReq'[d] = teamReq[d] \/ teamReq'[d] = new \/ teamReq' = teamReq
    OBVIOUS
  <2>2. TeamRequestOK(teamReq'[d])
    BY <2>1 DEF TeamInv
  <2>3. QED
    BY <2>2 DEF TeamRequestOK, TeamsRequestOK, MembersRequestOK, MembersOf
<1>2. QED
  BY <1>1, SameTables DEF TeamInv

\* A request on a team puts its leader among the members it asks for.
LEMMA BeginUpdateTeamStep ==
  ASSUME TeamInv, NEW c \in TeamClerks, NEW t \in TeamIds, BeginUpdateTeam(c, t)
  PROVE  TeamInv'
<1> USE TeamsAssumption
<1>1. PICK lead \in Users \cup {Nobody, Keep}, given \in Lists \cup {Keep} :
        LET wanted == IF given = Keep /\ lead \in Users THEN members[t] ELSE given
            desired == IF lead \in Users /\ lead \notin Elements(wanted)
                       THEN Append(wanted, lead) ELSE wanted
        IN  teamReq' = [teamReq EXCEPT ![c] =
              [op |-> "team", team |-> t, leader |-> lead, desired |-> desired,
               old |-> leader[t], touched |-> {t}, raced |-> FALSE]]
  BY DEF BeginUpdateTeam
<1>2. PICK wanted : wanted = IF given = Keep /\ lead \in Users THEN members[t] ELSE given
  OBVIOUS
<1>3. PICK desired : desired = IF lead \in Users /\ lead \notin Elements(wanted)
                               THEN Append(wanted, lead) ELSE wanted
  OBVIOUS
<1>4. PICK new : new = [op |-> "team", team |-> t, leader |-> lead, desired |-> desired,
                        old |-> leader[t], touched |-> {t}, raced |-> FALSE]
  OBVIOUS
<1>5. teamReq' = [teamReq EXCEPT ![c] = new]
  BY <1>1, <1>2, <1>3, <1>4
<1>6. Users \subseteq Staff /\ members[t] \in Seq(Staff) /\ leader[t] \in Staff \cup {Nobody}
  BY DEF Users, TeamInv, MembershipsHold, TeamsTypeOK, UserTeams, TeamLeaders
<1>7. /\ lead \in Users => wanted \in Seq(Staff)
      /\ wanted \in Seq(Staff) \cup {Keep}
  BY <1>2, <1>6, ListsAreLists
<1>8. /\ lead \in Users => desired \in Seq(Staff) /\ lead \in Elements(desired)
      /\ desired \in Seq(Staff) \cup {Keep}
  <2>1. CASE lead \in Users /\ lead \notin Elements(wanted)
    <3>1. desired = Append(wanted, lead) /\ wanted \in Seq(Staff) /\ lead \in Staff
      BY <1>3, <1>6, <1>7, <2>1
    <3>2. QED
      BY <3>1, AppendHas
  <2>2. CASE ~(lead \in Users /\ lead \notin Elements(wanted))
    BY <1>3, <1>7, <2>2
  <2>3. QED
    BY <2>1, <2>2
<1>9. new \in TeamsRequest
  BY <1>4, <1>6, <1>8 DEF TeamsRequest
<1>10. lead \in Staff => lead \in Users
  OBVIOUS
<1>11. TeamsRequestOK(new)
  BY <1>4, <1>8, <1>9, <1>10 DEF TeamsRequestOK
<1>12. QED
  BY <1>5, <1>11, OneRequest DEF BeginUpdateTeam, TeamRequestOK

\* A request on a user works on every team it reads or writes.
LEMMA BeginUpdateUserStep ==
  ASSUME TeamInv, NEW c \in TeamClerks, NEW u \in Staff, BeginUpdateUser(c, u)
  PROVE  TeamInv'
<1>1. PICK own \in {Keep} \cup SUBSET LiveTeams, extra \in {Keep} \cup SUBSET LiveTeams :
        teamReq' = [teamReq EXCEPT ![c] =
          [op |-> "user", user |-> u, own |-> own, extra |-> extra,
           current |-> team_ids_of_user(u), led |-> ids_led_by(u), stored |-> extras[u],
           touched |-> scope_team_ids(u) \cup ids_led_by(u) \cup (IF own = Keep THEN {} ELSE own)
                       \cup (IF extra = Keep THEN {} ELSE extra),
           raced |-> FALSE]]
  BY DEF BeginUpdateUser
<1>2. PICK works : works = scope_team_ids(u) \cup ids_led_by(u)
                             \cup (IF own = Keep THEN {} ELSE own)
                             \cup (IF extra = Keep THEN {} ELSE extra)
  OBVIOUS
<1>3. PICK new : new = [op |-> "user", user |-> u, own |-> own, extra |-> extra,
                        current |-> team_ids_of_user(u), led |-> ids_led_by(u),
                        stored |-> extras[u], touched |-> works, raced |-> FALSE]
  OBVIOUS
<1>4. teamReq' = [teamReq EXCEPT ![c] = new]
  BY <1>1, <1>2, <1>3
<1>5. LiveTeams \subseteq TeamIds /\ team_ids_of_user(u) \subseteq TeamIds
      /\ ids_led_by(u) \subseteq TeamIds /\ extras[u] \subseteq TeamIds
  BY DEF LiveTeams, team_ids_of_user, ids_led_by, TeamInv, MembershipsHold, TeamsTypeOK,
         UserChannelTeams
<1>6. /\ works \subseteq TeamIds /\ team_ids_of_user(u) \subseteq works
      /\ ids_led_by(u) \subseteq works /\ extras[u] \subseteq works
      /\ own # Keep => own \subseteq works
      /\ extra # Keep => extra \subseteq works
  BY <1>2, <1>5 DEF scope_team_ids
<1>7. own \in (SUBSET TeamIds) \cup {Keep} /\ extra \in (SUBSET TeamIds) \cup {Keep}
  BY <1>5
<1>8. new \in MembersRequest
  BY <1>3, <1>5, <1>6, <1>7 DEF MembersRequest
<1>9. \A t \in works : /\ t \in team_ids_of_user(u) <=> u \in MembersOf(t)
                       /\ t \in ids_led_by(u) <=> leader[t] = u
  BY <1>6 DEF team_ids_of_user, ids_led_by
<1>10. userRow[u] # "none"
  BY DEF BeginUpdateUser
<1>11. MembersRequestOK(new)
  BY <1>3, <1>6, <1>8, <1>9, <1>10 DEF MembersRequestOK
<1>12. QED
  BY <1>4, <1>11, OneRequest DEF BeginUpdateUser, TeamRequestOK

\* A request to delete a user works on the teams he is seen in.
LEMMA BeginDeleteUserStep ==
  ASSUME TeamInv, NEW c \in TeamClerks, NEW u \in Staff, BeginDeleteUser(c, u)
  PROVE  TeamInv'
<1>1. PICK new : new = [op |-> "delete", user |-> u, led |-> ids_led_by(u),
                        touched |-> scope_team_ids(u) \cup ids_led_by(u), raced |-> FALSE]
  OBVIOUS
<1>2. teamReq' = [teamReq EXCEPT ![c] = new]
  BY <1>1 DEF BeginDeleteUser
<1>3. scope_team_ids(u) \subseteq TeamIds /\ ids_led_by(u) \subseteq TeamIds
  BY DEF scope_team_ids, team_ids_of_user, ids_led_by, TeamInv, MembershipsHold, TeamsTypeOK,
         UserChannelTeams
<1>4. new \in LeaveRequest /\ new.led \subseteq new.touched
  BY <1>1, <1>3 DEF LeaveRequest
<1>5. QED
  BY <1>2, <1>4, OneRequest DEF BeginDeleteUser, TeamRequestOK

\* A request given up leaves everything as it is.
LEMMA AbortTeamStep ==
  ASSUME TeamInv, NEW c \in TeamClerks, AbortTeamRequest(c) PROVE TeamInv'
<1>1. TeamRequestOK(Waiting)
  BY DEF TeamRequestOK
<1>2. QED
  BY <1>1, OneRequest DEF AbortTeamRequest

\* The rows a team is left with are those of the users it was asked to have.
LEMMA ReplacedHas ==
  ASSUME NEW t \in TeamIds, NEW desired \in Seq(Staff), members[t] \in Seq(Staff)
  PROVE  /\ replace_members(t, desired) \in Seq(Staff)
         /\ Elements(replace_members(t, desired)) = Elements(desired)
<1>1. PICK old : old = members[t]
  OBVIOUS
<1>2. PICK stay : stay = Kept(old, Elements(desired))
  OBVIOUS
<1>3. PICK come : come = Kept(desired, Elements(desired) \ Elements(old))
  OBVIOUS
<1>4. stay \in Seq(Staff) /\ Elements(stay) = Elements(old) \cap Elements(desired)
  BY <1>1, <1>2, KeptHas
<1>5. come \in Seq(Staff) /\ Elements(come) = Elements(desired) \cap (Elements(desired) \ Elements(old))
  BY <1>3, KeptHas
<1>6. replace_members(t, desired) = stay \o come
  BY <1>1, <1>2, <1>3 DEF replace_members, MembersOf
<1>7. stay \o come \in Seq(Staff) /\ Elements(stay \o come) = Elements(stay) \cup Elements(come)
  BY <1>4, <1>5, ConcatHas
<1>8. QED
  BY <1>4, <1>5, <1>6, <1>7

\* A team is written with its leader among its members, and none of those it was
\* asked to have keeps it as an extra.
LEMMA FinishUpdateTeamStep ==
  ASSUME TeamInv, NEW c \in TeamClerks, FinishUpdateTeam(c)
  PROVE  TeamInv'
<1> USE TeamsAssumption
<1>1. PICK r : r = teamReq[c]
  OBVIOUS
<1>2. PICK t : t = r.team
  OBVIOUS
<1>3. PICK rows : rows = IF r.desired = Keep THEN members[t] ELSE replace_members(t, r.desired)
  OBVIOUS
<1>4. PICK next : next = _resolve_leader(r, rows)
  OBVIOUS
<1>5. /\ r.op = "team" /\ teamRow[t] = "live" /\ Elements(rows) \subseteq Users
      /\ next # r.old => next \in Users \cup {Nobody}
      /\ members' = [members EXCEPT ![t] = rows]
      /\ extras' = IF r.desired = Keep THEN extras ELSE remove_team_for_users(t, r.desired)
      /\ leader' = [leader EXCEPT ![t] = IF next # r.old THEN next ELSE leader[t]]
      /\ userRow' = userRow /\ teamRow' = teamRow /\ EndRequest(c)
  BY <1>1, <1>2, <1>3, <1>4 DEF FinishUpdateTeam
<1>6. TeamsRequestOK(r)
  BY <1>1, <1>5, TeamRequestKinds DEF TeamInv
<1>7. /\ t \in TeamIds /\ r.touched = {t} /\ r.raced \in BOOLEAN
      /\ r.leader \in Staff \cup {Nobody, Keep} /\ r.old \in Staff \cup {Nobody}
      /\ r.desired # Keep => r.desired \in Seq(Staff)
      /\ r.leader \in Staff => r.desired # Keep /\ r.leader \in Elements(r.desired)
      /\ ~r.raced => leader[t] \in {r.old, Nobody}
  BY <1>2, <1>6 DEF TeamsRequestOK, TeamsRequest
<1>8. /\ members \in [TeamIds -> Seq(Staff)] /\ leader \in [TeamIds -> Staff \cup {Nobody}]
      /\ extras \in [Staff -> SUBSET TeamIds] /\ \A s \in TeamIds : leader[s] \in Users \cup {Nobody}
  BY DEF TeamInv, MembershipsHold, TeamsTypeOK, UserTeams, TeamLeaders, UserChannelTeams
<1>9. rows \in Seq(Staff) /\ (r.desired # Keep => Elements(rows) = Elements(r.desired))
  <2>1. CASE r.desired = Keep
    BY <1>3, <1>7, <1>8, <2>1
  <2>2. CASE r.desired # Keep
    <3>1. members[t] \in Seq(Staff) /\ r.desired \in Seq(Staff) /\ rows = replace_members(t, r.desired)
      BY <1>3, <1>7, <1>8, <2>2
    <3>2. QED
      BY <1>7, <3>1, ReplacedHas
  <2>3. QED
    BY <2>1, <2>2
<1>10. PICK led : led = IF next # r.old THEN next ELSE leader[t]
  OBVIOUS
<1>11. led \in Users \cup {Nobody}
  BY <1>5, <1>7, <1>8, <1>10
<1>12. \A s \in TeamIds : /\ members'[s] = IF s = t THEN rows ELSE members[s]
                          /\ leader'[s] = IF s = t THEN led ELSE leader[s]
  BY <1>5, <1>7, <1>8, <1>10
<1>13. \A u \in Staff : /\ extras'[u] \subseteq extras[u]
                        /\ r.desired # Keep /\ u \in Elements(r.desired) => t \notin extras'[u]
                        /\ r.desired = Keep => extras'[u] = extras[u]
  BY <1>5 DEF remove_team_for_users
<1>14. /\ raced \subseteq raced' /\ teamReq' = Crossing(c, {t})
       /\ r.raced => t \in raced'
  BY <1>1, <1>5, <1>7, EndedRequest
<1>15. Users' = Users /\ LiveTeams' = LiveTeams /\ Users \subseteq Staff
  BY <1>5 DEF Users, LiveTeams
<1>16. TeamsTypeOK'
  <2>1. leader' \in TeamLeaders /\ members' \in UserTeams /\ extras' \in UserChannelTeams
    <3>1. leader' \in TeamLeaders
      BY <1>5, <1>8, <1>10, <1>11, <1>15 DEF TeamLeaders
    <3>2. members' \in UserTeams
      BY <1>5, <1>8, <1>9 DEF UserTeams
    <3>3. extras' \in UserChannelTeams
      BY <1>5, <1>8 DEF UserChannelTeams, remove_team_for_users
    <3>4. QED
      BY <3>1, <3>2, <3>3
  <2>2. ASSUME NEW s \in TeamIds
        PROVE  /\ leader'[s] \in Users' \cup {Nobody} /\ Elements(members'[s]) \subseteq Users'
               /\ members'[s] # <<>> => teamRow'[s] = "live"
    BY <1>5, <1>11, <1>12, <1>15 DEF TeamInv, MembershipsHold, TeamsTypeOK, MembersOf
  <2>3. \A u \in Staff : extras'[u] \subseteq LiveTeams'
    BY <1>13, <1>15 DEF TeamInv, MembershipsHold, TeamsTypeOK
  <2>4. userRow' \in [Staff -> RowStates] /\ teamRow' \in [TeamIds -> RowStates]
    BY <1>5 DEF TeamInv, MembershipsHold, TeamsTypeOK
  <2>5. QED
    BY <2>1, <2>2, <2>3, <2>4 DEF TeamsTypeOK, MembersOf
<1>17. t \notin raced' /\ led # Nobody => led \in Elements(rows)
  <2>1. SUFFICES ASSUME t \notin raced', led # Nobody PROVE led \in Elements(rows)
    OBVIOUS
  <2>2. leader[t] \in {r.old, Nobody} /\ t \notin raced
    BY <1>7, <1>14, <2>1
  <2>3. CASE r.leader # Keep
    <3>1. next = r.leader
      BY <1>4, <2>3 DEF _resolve_leader
    <3>2. led = r.leader
      BY <1>10, <2>1, <2>2, <3>1
    <3>3. r.leader \in Staff
      BY <1>7, <2>1, <2>3, <3>2
    <3>4. QED
      BY <1>7, <1>9, <3>2, <3>3
  <2>4. CASE r.leader = Keep /\ r.desired = Keep
    <3>1. next = r.old
      BY <1>4, <2>4 DEF _resolve_leader
    <3>2. led = leader[t] /\ rows = members[t]
      BY <1>3, <1>10, <2>4, <3>1
    <3>3. QED
      BY <1>7, <2>1, <2>2, <3>2 DEF TeamInv, MembershipsHold, LeaderIsMember, MembersOf
  <2>5. CASE r.leader = Keep /\ r.desired # Keep /\ r.old \in Elements(r.desired)
    <3>1. next = r.old
      BY <1>4, <2>5 DEF _resolve_leader
    <3>2. led = r.old
      BY <1>10, <2>1, <2>2, <3>1
    <3>3. QED
      BY <1>9, <2>5, <3>2
  <2>6. CASE r.leader = Keep /\ r.desired # Keep /\ r.old \notin Elements(r.desired)
    <3>1. next = First(rows)
      BY <1>4, <2>6 DEF _resolve_leader, get_first_member
    <3>2. next = Nobody \/ next \in Elements(rows)
      BY <1>9, <3>1, FirstHas
    <3>3. led = next
      BY <1>10, <2>1, <2>2
    <3>4. QED
      BY <2>1, <3>2, <3>3
  <2>7. QED
    BY <2>3, <2>4, <2>5, <2>6
<1>18. LeaderIsMember'
  <2>1. SUFFICES ASSUME NEW s \in TeamIds \ raced', leader'[s] # Nobody
                 PROVE  leader'[s] \in Elements(members'[s])
    BY DEF LeaderIsMember, MembersOf
  <2>2. CASE s = t
    BY <1>12, <1>17, <2>1, <2>2
  <2>3. CASE s # t
    BY <1>12, <1>14, <2>1, <2>3 DEF TeamInv, MembershipsHold, LeaderIsMember, MembersOf
  <2>4. QED
    BY <2>2, <2>3
<1>19. ExtrasAreExtra'
  <2>1. SUFFICES ASSUME NEW u \in Staff, NEW s \in TeamIds, s \in extras'[u],
                        u \in Elements(members'[s])
                 PROVE  s \in raced'
    BY DEF ExtrasAreExtra, team_ids_of_user, MembersOf
  <2>2. CASE s = t /\ r.desired # Keep
    <3>1. u \in Elements(r.desired)
      BY <1>9, <1>12, <2>1, <2>2
    <3>2. QED
      BY <1>13, <2>1, <2>2, <3>1
  <2>3. CASE s # t \/ r.desired = Keep
    <3>1. members'[s] = members[s]
      BY <1>3, <1>12, <2>3
    <3>2. s \in extras[u] /\ u \in Elements(members[s])
      BY <1>13, <2>1, <3>1
    <3>3. QED
      BY <1>14, <3>2 DEF TeamInv, MembershipsHold, ExtrasAreExtra, team_ids_of_user, MembersOf
  <2>4. QED
    BY <2>2, <2>3
<1>20. Beside({t})
  BY <1>5, <1>12 DEF Beside
<1>21. \A d \in TeamClerks : TeamRequestOK(teamReq[d])'
  BY <1>14, <1>20, BesideKeeps
<1>22. QED
  BY <1>16, <1>18, <1>19, <1>21 DEF TeamInv, MembershipsHold

\* A user's teams are written as he was asked to have them: a team he leaves and
\* leads is handed over, and his own teams are not extras.
LEMMA FinishUpdateUserStep ==
  ASSUME TeamInv, NEW c \in TeamClerks, FinishUpdateUser(c)
  PROVE  TeamInv'
<1> USE TeamsAssumption
<1>1. PICK r : r = teamReq[c]
  OBVIOUS
<1>2. PICK u : u = r.user
  OBVIOUS
<1>3. PICK given : given = _normalize_extras(r)
  OBVIOUS
<1>4. /\ r.op = "user" /\ userRow[u] = "live"
      /\ r.own # Keep => \A t \in r.own \ r.current : t \in LiveTeams /\ u \notin MembersOf(t)
      /\ given[u] \subseteq LiveTeams
      /\ members' = IF r.own = Keep THEN members ELSE set_membership(r)
      /\ leader' = IF r.own = Keep THEN leader ELSE _replace_membership_with_transfer(r)
      /\ extras' = given /\ userRow' = userRow /\ teamRow' = teamRow /\ EndRequest(c)
  BY <1>1, <1>2, <1>3 DEF FinishUpdateUser
<1>5. MembersRequestOK(r)
  BY <1>1, <1>4, TeamRequestKinds DEF TeamInv
<1>6. /\ u \in Staff /\ r.touched \subseteq TeamIds /\ r.raced \in BOOLEAN
      /\ r.current \subseteq r.touched /\ r.led \subseteq r.touched /\ r.stored \subseteq r.touched
      /\ r.own # Keep => r.own \subseteq r.touched
      /\ r.extra # Keep => r.extra \subseteq r.touched
      /\ ~r.raced => \A t \in r.touched : /\ t \in r.current <=> u \in MembersOf(t)
                                          /\ t \in r.led <=> leader[t] = u
  BY <1>2, <1>4, <1>5 DEF MembersRequestOK, MembersRequest
<1>7. /\ members \in [TeamIds -> Seq(Staff)] /\ leader \in [TeamIds -> Staff \cup {Nobody}]
      /\ extras \in [Staff -> SUBSET TeamIds] /\ \A s \in TeamIds : leader[s] \in Users \cup {Nobody}
  BY DEF TeamInv, MembershipsHold, TeamsTypeOK, UserTeams, TeamLeaders, UserChannelTeams
<1>8. /\ raced \subseteq raced' /\ teamReq' = Crossing(c, r.touched)
      /\ r.raced => r.touched \subseteq raced'
  BY <1>1, EndedRequest, <1>4
<1>9. Users' = Users /\ LiveTeams' = LiveTeams /\ Users \subseteq Staff /\ LiveTeams \subseteq TeamIds
      /\ u \in Users
  BY <1>4, <1>6 DEF Users, LiveTeams
<1> DEFINE Joins(t) == r.own # Keep /\ t \in r.own \ r.current
           Leaves(t) == r.own # Keep /\ t \in r.current \ r.own
<1>10. ASSUME NEW t \in TeamIds
       PROVE  /\ members'[t] \in Seq(Staff)
              /\ Joins(t) => Elements(members'[t]) = Elements(members[t]) \cup {u}
              /\ Leaves(t) => Elements(members'[t]) = Elements(members[t]) \ {u}
              /\ ~Joins(t) /\ ~Leaves(t) => members'[t] = members[t]
  <2>1. members[t] \in Seq(Staff)
    BY <1>7
  <2>2. members'[t] = IF Joins(t) THEN Append(members[t], u)
                      ELSE IF Leaves(t) THEN Without(members[t], u) ELSE members[t]
    BY <1>2, <1>4 DEF set_membership
  <2>3. /\ Append(members[t], u) \in Seq(Staff)
        /\ Elements(Append(members[t], u)) = Elements(members[t]) \cup {u}
    BY <1>6, <2>1, AppendHas
  <2>4. /\ Without(members[t], u) \in Seq(Staff)
        /\ Elements(Without(members[t], u)) = Elements(members[t]) \ {u}
    BY <2>1, WithoutHas
  <2>5. ~(Joins(t) /\ Leaves(t))
    OBVIOUS
  <2> HIDE DEF Joins, Leaves
  <2>6. QED
    BY <2>1, <2>2, <2>3, <2>4, <2>5
<1>11. ASSUME NEW t \in TeamIds
       PROVE  \/ leader'[t] = leader[t] /\ ~(Leaves(t) /\ t \in r.led)
              \/ /\ Leaves(t) /\ t \in r.led
                 /\ leader'[t] = Nobody \/ leader'[t] \in Elements(members'[t])
  <2>1. CASE Leaves(t) /\ t \in r.led
    <3>1. leader'[t] = First(Without(members[t], u)) /\ members'[t] = Without(members[t], u)
      BY <1>2, <1>4, <2>1 DEF _replace_membership_with_transfer, promote_next_leader, set_membership
    <3>2. QED
      BY <1>10, <2>1, <3>1, FirstHas
  <2>2. CASE ~(Leaves(t) /\ t \in r.led)
    BY <1>4, <2>2 DEF _replace_membership_with_transfer
  <2>3. QED
    BY <2>1, <2>2
<1>12. ASSUME NEW t \in TeamIds
       PROVE  /\ Elements(members'[t]) \subseteq Users
              /\ members'[t] # <<>> => teamRow[t] = "live"
  <2>1. Elements(members[t]) \subseteq Users /\ (members[t] # <<>> => teamRow[t] = "live")
    BY DEF TeamInv, MembershipsHold, TeamsTypeOK, MembersOf
  <2>2. CASE Joins(t)
    BY <1>4, <1>9, <1>10, <2>1, <2>2 DEF LiveTeams
  <2>3. CASE Leaves(t)
    <3>1. Elements(members'[t]) = Elements(members[t]) \ {u} /\ members'[t] \in Seq(Staff)
      BY <1>10, <2>3
    <3>2. members'[t] # <<>> => members[t] # <<>>
      BY <1>7, <3>1, NoElements
    <3>3. QED
      BY <2>1, <3>1, <3>2
  <2>4. CASE ~Joins(t) /\ ~Leaves(t)
    BY <1>10, <2>1, <2>4
  <2>5. QED
    BY <2>2, <2>3, <2>4
<1>13. PICK base : base = IF r.own # Keep THEN r.own ELSE r.current
  OBVIOUS
<1>14. PICK target : target = IF r.extra # Keep THEN r.extra ELSE r.stored
  OBVIOUS
<1>15. \/ r.own = Keep /\ extras' = extras
       \/ extras' = [extras EXCEPT ![u] = target \ base]
  BY <1>2, <1>3, <1>4, <1>13, <1>14 DEF _normalize_extras
<1>16. target \subseteq r.touched
  BY <1>6, <1>14
<1>17. \A v \in Staff : extras'[v] \subseteq TeamIds /\ (v # u => extras'[v] = extras[v])
  BY <1>6, <1>7, <1>15, <1>16
<1>18. TeamsTypeOK'
  <2>1. leader' \in TeamLeaders /\ members' \in UserTeams /\ extras' \in UserChannelTeams
    <3>1. \A t \in TeamIds : leader'[t] \in Users \cup {Nobody}
      BY <1>7, <1>11, <1>12
    <3>2. DOMAIN leader' = TeamIds /\ leader' = [t \in TeamIds |-> leader'[t]]
      BY <1>4, <1>7 DEF _replace_membership_with_transfer
    <3>3. leader' \in TeamLeaders
      BY <1>9, <3>1, <3>2 DEF TeamLeaders
    <3>4. members' = [t \in TeamIds |-> members'[t]]
      BY <1>4, <1>7 DEF set_membership
    <3>5. members' \in UserTeams
      BY <1>10, <3>4 DEF UserTeams
    <3>6. extras' \in UserChannelTeams
      BY <1>6, <1>7, <1>15, <1>16 DEF UserChannelTeams
    <3>7. QED
      BY <3>3, <3>5, <3>6
  <2>2. \A s \in TeamIds : /\ leader'[s] \in Users' \cup {Nobody}
                           /\ Elements(members'[s]) \subseteq Users'
                           /\ members'[s] # <<>> => teamRow'[s] = "live"
    BY <1>4, <1>7, <1>9, <1>11, <1>12
  <2>3. \A v \in Staff : extras'[v] \subseteq LiveTeams'
    BY <1>4, <1>9, <1>17 DEF TeamInv, MembershipsHold, TeamsTypeOK
  <2>4. userRow' \in [Staff -> RowStates] /\ teamRow' \in [TeamIds -> RowStates]
    BY <1>4 DEF TeamInv, MembershipsHold, TeamsTypeOK
  <2>5. QED
    BY <2>1, <2>2, <2>3, <2>4 DEF TeamsTypeOK, MembersOf
<1>19. LeaderIsMember'
  <2>1. SUFFICES ASSUME NEW t \in TeamIds \ raced', leader'[t] # Nobody
                 PROVE  leader'[t] \in Elements(members'[t])
    BY DEF LeaderIsMember, MembersOf
  <2>2. CASE Leaves(t) /\ t \in r.led
    BY <1>11, <2>1, <2>2
  <2>3. CASE ~(Leaves(t) /\ t \in r.led)
    <3>1. leader'[t] = leader[t] /\ leader[t] \in Elements(members[t])
      BY <1>8, <1>11, <2>1, <2>3 DEF TeamInv, MembershipsHold, LeaderIsMember, MembersOf
    <3>2. Leaves(t) => leader[t] # u
      BY <1>6, <1>8, <2>1, <2>3
    <3>3. QED
      BY <1>10, <3>1, <3>2
  <2>4. QED
    BY <2>2, <2>3
<1>20. ExtrasAreExtra'
  <2>1. SUFFICES ASSUME NEW v \in Staff, NEW t \in TeamIds, t \in extras'[v],
                        v \in Elements(members'[t])
                 PROVE  t \in raced'
    BY DEF ExtrasAreExtra, team_ids_of_user, MembersOf
  <2>2. CASE v # u \/ (r.own = Keep /\ extras' = extras)
    <3>1. t \in extras[v]
      BY <1>17, <2>1, <2>2
    <3>2. v \in Elements(members[t])
      BY <1>10, <2>1, <2>2
    <3>3. QED
      BY <1>8, <3>1, <3>2 DEF TeamInv, MembershipsHold, ExtrasAreExtra, team_ids_of_user, MembersOf
  <2>3. CASE v = u /\ extras' = [extras EXCEPT ![u] = target \ base]
    <3>1. t \in target /\ t \notin base
      BY <1>6, <1>7, <2>1, <2>3
    <3>2. CASE r.raced
      BY <1>8, <1>16, <3>1, <3>2
    <3>3. CASE ~r.raced
      <4>1. t \in r.touched /\ (t \in r.current <=> u \in Elements(members[t]))
        BY <1>6, <1>16, <3>1, <3>3 DEF MembersOf
      <4>2. ~Joins(t) /\ (t \in r.current => Leaves(t))
        BY <1>13, <3>1
      <4>3. u \notin Elements(members'[t])
        BY <1>10, <4>1, <4>2
      <4>4. QED
        BY <2>1, <2>3, <4>3
    <3>4. QED
      BY <1>6, <3>2, <3>3
  <2>4. QED
    BY <1>15, <2>2, <2>3
<1>21. Beside(r.touched)
  <2>1. ASSUME NEW t \in TeamIds \ r.touched
        PROVE  leader'[t] = leader[t] /\ members'[t] = members[t]
    <3>1. ~Joins(t) /\ ~Leaves(t)
      BY <1>6
    <3>2. QED
      BY <1>10, <1>11, <3>1
  <2>2. QED
    BY <1>4, <2>1 DEF Beside
<1>22. \A d \in TeamClerks : TeamRequestOK(teamReq[d])'
  BY <1>8, <1>21, BesideKeeps
<1>23. QED
  BY <1>18, <1>19, <1>20, <1>22 DEF TeamInv, MembershipsHold

\* A user who goes leaves no team led by him and none he is a member of.
LEMMA FinishDeleteUserStep ==
  ASSUME TeamInv, NEW c \in TeamClerks, FinishDeleteUser(c)
  PROVE  TeamInv'
<1> USE TeamsAssumption
<1>1. PICK r : r = teamReq[c]
  OBVIOUS
<1>2. PICK u : u = r.user
  OBVIOUS
<1>3. /\ r.op = "delete" /\ userRow[u] = "live" /\ userRow' = [userRow EXCEPT ![u] = "gone"]
      /\ members' = [t \in TeamIds |-> Without(members[t], u)]
      /\ leader' = [t \in TeamIds |->
                      IF t \in r.led /\ teamRow[t] = "live" THEN promote_next_leader(t, u)
                      ELSE IF leader[t] = u THEN Nobody ELSE leader[t]]
      /\ extras' = [extras EXCEPT ![u] = {}] /\ teamRow' = teamRow /\ EndRequest(c)
  BY <1>1, <1>2 DEF FinishDeleteUser
<1>4. r \in LeaveRequest /\ r.led \subseteq r.touched
  BY <1>1, <1>3, TeamRequestKinds DEF TeamInv
<1>5. u \in Staff /\ r.touched \subseteq TeamIds
  BY <1>2, <1>4 DEF LeaveRequest
<1>6. /\ members \in [TeamIds -> Seq(Staff)] /\ leader \in [TeamIds -> Staff \cup {Nobody}]
      /\ extras \in [Staff -> SUBSET TeamIds] /\ userRow \in [Staff -> RowStates]
      /\ \A s \in TeamIds : leader[s] \in Users \cup {Nobody}
  BY DEF TeamInv, MembershipsHold, TeamsTypeOK, UserTeams, TeamLeaders, UserChannelTeams
<1>7. raced \subseteq raced' /\ teamReq' = Crossing(c, r.touched)
  BY <1>1, <1>3, EndedRequest
<1>8. Users' = Users \ {u} /\ LiveTeams' = LiveTeams /\ Users \subseteq Staff
  BY <1>3, <1>5, <1>6 DEF Users, LiveTeams
<1>9. ASSUME NEW t \in TeamIds
      PROVE  /\ members'[t] \in Seq(Staff)
             /\ Elements(members'[t]) = Elements(members[t]) \ {u}
             /\ members'[t] # <<>> => members[t] # <<>>
  <2>1. members[t] \in Seq(Staff) /\ members'[t] = Without(members[t], u)
    BY <1>3, <1>6
  <2>2. /\ members'[t] \in Seq(Staff)
        /\ Elements(members'[t]) = Elements(members[t]) \ {u}
    BY <2>1, WithoutHas
  <2>3. members'[t] # <<>> => members[t] # <<>>
    BY <2>1, <2>2, NoElements
  <2>4. QED
    BY <2>2, <2>3
<1>10. ASSUME NEW t \in TeamIds
       PROVE  \/ /\ t \in r.led
                 /\ leader'[t] = Nobody \/ leader'[t] \in Elements(members'[t])
              \/ leader[t] # u /\ leader'[t] = leader[t]
              \/ leader[t] = u /\ leader'[t] = Nobody
  <2>1. CASE t \in r.led /\ teamRow[t] = "live"
    <3>1. leader'[t] = First(members'[t])
      BY <1>3, <2>1 DEF promote_next_leader
    <3>2. QED
      BY <1>9, <2>1, <3>1, FirstHas
  <2>2. CASE ~(t \in r.led /\ teamRow[t] = "live")
    BY <1>3, <2>2
  <2>3. QED
    BY <2>1, <2>2
<1>11. \A t \in TeamIds : Elements(members[t]) \subseteq Users
                          /\ (members[t] # <<>> => teamRow[t] = "live")
  BY DEF TeamInv, MembershipsHold, TeamsTypeOK, MembersOf
<1>12. TeamsTypeOK'
  <2>1. \A t \in TeamIds : leader'[t] \in (Users \ {u}) \cup {Nobody}
    BY <1>6, <1>9, <1>10, <1>11
  <2>2. leader' \in TeamLeaders
    <3>1. leader' = [t \in TeamIds |-> leader'[t]]
      BY <1>3
    <3>2. QED
      BY <1>8, <2>1, <3>1 DEF TeamLeaders
  <2>3. members' \in UserTeams
    <3>1. members' = [t \in TeamIds |-> members'[t]]
      BY <1>3
    <3>2. QED
      BY <1>9, <3>1 DEF UserTeams
  <2>4. extras' \in UserChannelTeams /\ userRow' \in [Staff -> RowStates]
    BY <1>3, <1>6 DEF UserChannelTeams, RowStates
  <2>5. \A v \in Staff : extras'[v] \subseteq LiveTeams'
    <3>1. \A v \in Staff : extras'[v] \subseteq extras[v]
      BY <1>3, <1>6
    <3>2. QED
      BY <1>8, <3>1 DEF TeamInv, MembershipsHold, TeamsTypeOK
  <2>6. \A t \in TeamIds : /\ leader'[t] \in Users' \cup {Nobody}
                           /\ Elements(members'[t]) \subseteq Users'
                           /\ members'[t] # <<>> => teamRow'[t] = "live"
    <3>1. \A t \in TeamIds : Elements(members'[t]) \subseteq Users \ {u}
      BY <1>9, <1>11
    <3>2. \A t \in TeamIds : members'[t] # <<>> => teamRow'[t] = "live"
      BY <1>3, <1>9, <1>11
    <3>3. QED
      BY <1>8, <2>1, <3>1, <3>2
  <2>7. teamRow' \in [TeamIds -> RowStates]
    BY <1>3 DEF TeamInv, MembershipsHold, TeamsTypeOK
  <2>8. QED
    BY <2>2, <2>3, <2>4, <2>5, <2>6, <2>7 DEF TeamsTypeOK, MembersOf
<1>13. LeaderIsMember'
  <2>1. SUFFICES ASSUME NEW t \in TeamIds \ raced', leader'[t] # Nobody
                 PROVE  leader'[t] \in Elements(members'[t])
    BY DEF LeaderIsMember, MembersOf
  <2>2. leader[t] # Nobody => leader[t] \in Elements(members[t])
    BY <1>7, <2>1 DEF TeamInv, MembershipsHold, LeaderIsMember, MembersOf
  <2>3. QED
    BY <1>9, <1>10, <2>1, <2>2
<1>14. ExtrasAreExtra'
  <2>1. SUFFICES ASSUME NEW v \in Staff, NEW t \in TeamIds, t \in extras'[v],
                        v \in Elements(members'[t])
                 PROVE  t \in raced'
    BY DEF ExtrasAreExtra, team_ids_of_user, MembersOf
  <2>2. v # u /\ t \in extras[v]
    BY <1>3, <1>6, <2>1
  <2>3. v \in Elements(members[t])
    BY <1>9, <2>1
  <2>4. QED
    BY <1>7, <2>2, <2>3 DEF TeamInv, MembershipsHold, ExtrasAreExtra, team_ids_of_user, MembersOf
<1>15. Beside(r.touched)
  <2>1. \A v \in Staff : userRow'[v] = IF v = u THEN "gone" ELSE userRow[v]
    BY <1>3, <1>6
  <2>2. ASSUME NEW t \in TeamIds \ r.touched
        PROVE  /\ leader'[t] = IF leader[t] = u THEN Nobody ELSE leader[t]
               /\ Elements(members'[t]) = Elements(members[t]) \ {u}
    BY <1>3, <1>4, <1>9, <2>2
  <2>3. ASSUME NEW t \in TeamIds \ r.touched
        PROVE  /\ leader'[t] \in {leader[t], Nobody}
               /\ \A v \in Staff : userRow'[v] = "live" /\ userRow[v] = "live" =>
                    /\ v \in Elements(members'[t]) <=> v \in Elements(members[t])
                    /\ leader'[t] = v <=> leader[t] = v
    BY <2>1, <2>2
  <2>4. QED
    BY <2>1, <2>3 DEF Beside
<1>16. \A d \in TeamClerks : TeamRequestOK(teamReq[d])'
  BY <1>7, <1>15, BesideKeeps
<1>17. QED
  BY <1>12, <1>13, <1>14, <1>16 DEF TeamInv, MembershipsHold

\* One user and one team are there at first, and nobody works on them.
LEMMA TeamsBegin == TeamsInit => TeamInv
<1> SUFFICES ASSUME TeamsInit PROVE TeamInv
  OBVIOUS
<1> USE DEF TeamsInit
<1>1. Elements(<<>>) = {}
  BY DEF Elements
<1>2. \A t \in TeamIds : members[t] = <<>> /\ leader[t] = Nobody /\ MembersOf(t) = {}
  BY <1>1 DEF MembersOf
<1>3. \A u \in Staff : extras[u] = {}
  OBVIOUS
<1>4. /\ userRow \in [Staff -> RowStates] /\ teamRow \in [TeamIds -> RowStates]
      /\ leader \in TeamLeaders /\ extras \in UserChannelTeams
  BY DEF RowStates, TeamLeaders, UserChannelTeams
<1>5. members \in UserTeams
  <2>1. <<>> \in Seq(Staff)
    OBVIOUS
  <2>2. QED
    BY <2>1 DEF UserTeams
<1>6. TeamsTypeOK
  BY <1>2, <1>3, <1>4, <1>5 DEF TeamsTypeOK
<1>7. LeaderIsMember /\ ExtrasAreExtra
  BY <1>2, <1>3 DEF LeaderIsMember, ExtrasAreExtra
<1>8. \A c \in TeamClerks : TeamRequestOK(teamReq[c])
  BY DEF TeamRequestOK
<1>9. QED
  BY <1>6, <1>7, <1>8 DEF TeamInv, MembershipsHold

\* Every step keeps the invariant.
LEMMA TeamsSteps == TeamInv /\ [TeamsNext]_teamsVars => TeamInv'
<1> SUFFICES ASSUME TeamInv, [TeamsNext]_teamsVars PROVE TeamInv'
  OBVIOUS
<1>1. CASE UNCHANGED teamsVars
  <2>1. MembershipsHold'
    BY <1>1, SameTables DEF teamsVars
  <2>2. ASSUME NEW d \in TeamClerks PROVE TeamRequestOK(teamReq[d])'
    <3>1. TeamRequestOK(teamReq[d])
      BY DEF TeamInv
    <3>2. QED
      BY <1>1, <3>1 DEF teamsVars, TeamRequestOK, TeamsRequestOK, MembersRequestOK, MembersOf
  <2>3. QED
    BY <2>1, <2>2 DEF TeamInv
<1>2. ASSUME NEW t \in TeamIds, create_team(t) \/ delete_team(t) PROVE TeamInv'
  BY <1>2, create_teamStep, delete_teamStep
<1>3. ASSUME NEW u \in Staff, create_user(u) PROVE TeamInv'
  BY <1>3, create_userStep
<1>4. ASSUME NEW c \in TeamClerks, NEW t \in TeamIds, BeginUpdateTeam(c, t) PROVE TeamInv'
  BY <1>4, BeginUpdateTeamStep
<1>5. ASSUME NEW c \in TeamClerks, NEW u \in Staff, BeginUpdateUser(c, u) \/ BeginDeleteUser(c, u)
      PROVE  TeamInv'
  BY <1>5, BeginUpdateUserStep, BeginDeleteUserStep
<1>6. ASSUME NEW c \in TeamClerks, FinishUpdateTeam(c) \/ FinishUpdateUser(c) \/ FinishDeleteUser(c)
      PROVE  TeamInv'
  BY <1>6, FinishUpdateTeamStep, FinishUpdateUserStep, FinishDeleteUserStep
<1>7. ASSUME NEW c \in TeamClerks, AbortTeamRequest(c) PROVE TeamInv'
  BY <1>7, AbortTeamStep
<1>8. QED
  BY <1>1, <1>2, <1>3, <1>4, <1>5, <1>6, <1>7 DEF TeamsNext

\* A leader is a member of his team, and nobody's extra of a channel is a team he is
\* a member of, whichever of the two services wrote the rows, unless two requests
\* worked on the team at once (replace_members, _replace_membership_with_transfer,
\* delete_user, _normalize_extras).
THEOREM TeamsCorrect == TeamsSpec => []MembershipsHold
<1>1. TeamInv => MembershipsHold
  BY DEF TeamInv
<1>2. QED
  BY <1>1, TeamsBegin, TeamsSteps, PTL DEF TeamsSpec

\* The same of the console as a whole.
THEOREM ConsoleTeams == ConsoleSpec => []TeamsHold
<1>1. ConsoleInit => TeamInv
  BY TeamsBegin DEF ConsoleInit
<1>2. TeamInv /\ [ConsoleNext]_consoleVars => TeamInv'
  <2>1. [ConsoleNext]_consoleVars => [TeamsNext]_teamsVars
    BY DEF ConsoleNext, consoleVars
  <2>2. QED
    BY <2>1, TeamsSteps
<1>3. TeamInv => TeamsHold
  BY DEF TeamInv, TeamsHold
<1>4. QED
  BY <1>1, <1>2, <1>3, PTL DEF ConsoleSpec
=============================================================================
