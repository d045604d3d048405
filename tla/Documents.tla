----------------------------- MODULE Documents -----------------------------
(***************************************************************************)
(* The tree of documents (services/document_service.py and its repository) *)
(* and the reader of its incremental feed (the knowledge base).            *)
(*                                                                         *)
(* A write request is one READ COMMITTED transaction of two steps: the     *)
(* reads and checks, then the writes with the commit; a copy reads the     *)
(* rows of the subtree and their roles in two more.  updated_at is         *)
(* PostgreSQL's now(), the start of the transaction, so rows may become    *)
(* visible in another order than their updated_at.  Nodes never move, so a *)
(* parent has a smaller identifier than its children; 0 is "no node".      *)
(* Names, text, positions, owners and sizes are left out: text is the      *)
(* start of the transaction that wrote it last.                            *)
(***************************************************************************)
EXTENDS Naturals, FiniteSets

CONSTANTS
  Writers,       \* requests in flight
  DocRoles,      \* roles
  MaxNodes,      \* bound on rows of document_nodes
  MaxDocTx,      \* bound on transactions
  FeedLimit      \* "limit" of the reader of the feed

ASSUME DocumentsAssumption ==
  /\ MaxNodes \in Nat \ {0, 1} /\ MaxDocTx \in Nat /\ FeedLimit \in Nat \ {0}
  /\ IsFiniteSet(DocRoles)

VARIABLES
  nodes,         \* document_nodes with the rows of document_node_roles
  docReq,        \* what each writer has in flight
  docTx,         \* transactions begun: the clock of updated_at
  roleRows,      \* roles that exist
  mirror,        \* what the reader knows of each node
  watermark,     \* the updated_at its last walk ended with
  feedCursor,    \* where it is in a walk, NoCursor between walks
  stranded,      \* nodes put under a folder while it was being deleted
  crossed,       \* nodes whose visibility two requests set at once, and copies
                 \* made of them or across a change of their source's mode
  overlapped,    \* nodes two requests edited at once
  late,          \* nodes last written by a transaction the feed had passed
  unannounced    \* nodes whose effective visibility or exclusion changed
                 \* without a new updated_at

documentsVars == <<nodes, docReq, docTx, roleRows, mirror, watermark, feedCursor,
                   stranded, crossed, overlapped, late, unannounced>>

Ids == 1 .. MaxNodes
Root == 0
NoCursor == <<0, 0>>
Modes == {"inherit", "restricted"}

\* document_node_roles of a node, and the row of document_nodes itself.
NodeRoles == SUBSET DocRoles

Node == [kind : {"folder", "document"}, parent : 0 .. MaxNodes, mode : Modes,
         roles : NodeRoles, rag : BOOLEAN, version : Nat, text : Nat,
         deleted : BOOLEAN, at : Nat]
NoRow == [kind |-> "none"]

Exists(n) == n \in Ids /\ nodes[n] # NoRow

\* get_node: tombstones are outside every internal query.
Live(n) == Exists(n) /\ ~nodes[n].deleted

-----------------------------------------------------------------------------
(* Visibility.  A scope is what get_document_scope computes.               *)

Scopes == [all : {FALSE}, roles : SUBSET DocRoles] \cup [all : {TRUE}, roles : {{}}]

Last(S) == IF S = {} THEN Root ELSE CHOOSE n \in S : \A m \in S : m <= n

\* The way up from a node over rows of any state (_EFFECTIVE_GOV_SQL) and
\* over live rows only, which ends at the first tombstone (_GOVERNING_SQL).
Ancestors[n \in Ids] ==
  {n} \cup IF ~Exists(n) \/ nodes[n].parent = Root THEN {} ELSE Ancestors[nodes[n].parent]

LiveChain[n \in Ids] ==
  IF ~Live(n) THEN {}
  ELSE {n} \cup IF nodes[n].parent = Root THEN {} ELSE LiveChain[nodes[n].parent]

Restricted(S) == {a \in S : nodes[a].mode = "restricted"}

governing_restricted(n) == Last(Restricted(LiveChain[n]))

node_role_ids(n) == nodes[n].roles

\* resolve_visible_node: is node n there for this scope?
Visible(n, scope) ==
  /\ Live(n)
  /\ ~scope.all /\ governing_restricted(n) # Root
       => scope.roles \cap node_role_ids(governing_restricted(n)) # {}

\* _VISIBLE_CTE: from the roots down through live rows, carrying the nearest
\* restricted node; an administrator is listed every live row instead.
list_visible_tree(scope) ==
  IF scope.all THEN {n \in Ids : Live(n)}
  ELSE {n \in Ids :
          /\ Exists(n) /\ \A a \in Ancestors[n] : Live(a)
          /\ LET gov == Last(Restricted(Ancestors[n]))
             IN  gov = Root \/ nodes[gov].roles \cap scope.roles # {}}

list_visible_children(scope, p) ==
  {n \in list_visible_tree(scope) : nodes[n].parent = p}

\* The external view of a node: roles of the nearest restricted ancestor and
\* the exclusion from the knowledge base, both inherited downwards.
effective_role_ids_for(n) ==
  LET gov == Last(Restricted(Ancestors[n]))
  IN  IF gov = Root THEN {} ELSE nodes[gov].roles

rag_excluded(n) == \E a \in Ancestors[n] : nodes[a].rag

subtree_ids(r) == {n \in Ids : Live(n) /\ r \in LiveChain[n]}

\* _resolve_parent: the root, or a visible folder.
ParentAllowed(p, scope) ==
  p # Root => Visible(p, scope) /\ nodes[p].kind = "folder"

-----------------------------------------------------------------------------
(* The reader of the feed: external code, written from its contract in     *)
(* docs/04-api.md.  It walks GET /changes from its watermark and fetches   *)
(* the text of a node whose content_version is new to it.                  *)

Heard == [version : Nat, dead : BOOLEAN, have : Nat, text : Nat]
Unknown == [version |-> 0, dead |-> FALSE, have |-> 0, text |-> 0]

Before(n, m) == nodes[n].at < nodes[m].at \/ (nodes[n].at = nodes[m].at /\ n < m)

\* Is the row with this updated_at and id behind position c?
Passed(at, n, c) == at < c[1] \/ (at = c[1] /\ n <= c[2])

\* Fault: the cursor compares the date alone.
AfterCursorByDate(since, c) ==
  {n \in Ids : Exists(n) /\ nodes[n].at >= since
               /\ (c # NoCursor => nodes[n].at > c[1])}

\* The rows list_external selects after a cursor, with tombstones.
AfterCursor(since, c) ==
  {n \in Ids : Exists(n) /\ nodes[n].at >= since
               /\ (c # NoCursor => ~Passed(nodes[n].at, n, c))}

\* ORDER BY updated_at, id LIMIT.
FirstRows(S) ==
  IF Cardinality(S) <= FeedLimit THEN S
  ELSE CHOOSE P \in SUBSET S :
         Cardinality(P) = FeedLimit /\ \A n \in P, m \in S \ P : Before(n, m)

LastRow(P) == CHOOSE n \in P : \A m \in P \ {n} : Before(m, n)

\* The cursor is taken from the page before excluded nodes are cut out of it.
list_external(since, c) ==
  LET rows == AfterCursor(since, c)
      page == FirstRows(rows)
  IN  [items |-> {n \in page : ~rag_excluded(n)},
       next  |-> IF rows # page THEN <<nodes[LastRow(page)].at, LastRow(page)>> ELSE NoCursor,
       end   |-> IF page # {} THEN nodes[LastRow(page)].at
                 ELSE IF c # NoCursor THEN c[1] ELSE since]

ReadChanges ==
  LET page == list_external(watermark, feedCursor)
  IN  /\ mirror' = [n \in Ids |->
                      IF n \in page.items
                      THEN [mirror[n] EXCEPT !.version = nodes[n].version,
                                             !.dead = nodes[n].deleted]
                      ELSE mirror[n]]
      /\ feedCursor' = page.next
      /\ watermark' = IF page.next = NoCursor THEN page.end ELSE watermark
      /\ UNCHANGED <<nodes, docReq, docTx, roleRows, stranded, crossed, overlapped, late,
                     unannounced>>

\* GET /{id}: the text and its version; 410 when the node is a tombstone.
get_external(n) ==
  /\ ~mirror[n].dead /\ mirror[n].version # mirror[n].have
  /\ mirror' = [mirror EXCEPT ![n] =
       IF nodes[n].deleted THEN [@ EXCEPT !.dead = TRUE]
       ELSE [@ EXCEPT !.version = nodes[n].version, !.have = nodes[n].version,
                      !.text = nodes[n].text]]
  /\ UNCHANGED <<nodes, docReq, docTx, roleRows, watermark, feedCursor, stranded, crossed,
                 overlapped, late, unannounced>>

-----------------------------------------------------------------------------
(* Write requests.                                                         *)

Idle == [op |-> "idle"]

CanBegin(w) == docReq[w] = Idle /\ docTx < MaxDocTx

\* now() of the transaction that begins.
Start == docTx + 1

Begin(w, request) ==
  /\ docTx' = request.start
  /\ docReq' = [docReq EXCEPT ![w] = request]
  /\ UNCHANGED <<nodes, roleRows, mirror, watermark, feedCursor, stranded, crossed,
                 overlapped, late, unannounced>>

\* What every commit does to the history of the feed: the rows in T now carry
\* the start of this transaction, which a reader may have passed already.
Committed(w, T) ==
  /\ docReq' = [docReq EXCEPT ![w] = Idle]
  /\ late' = (late \ T) \cup
             {n \in T : \/ docReq[w].start < watermark
                        \/ feedCursor # NoCursor /\ Passed(docReq[w].start, n, feedCursor)}
  /\ UNCHANGED <<docTx, mirror, watermark, feedCursor>>

Top == Cardinality({n \in Ids : Exists(n)})

\* create_folder, create_document, upload_document: _resolve_parent, INSERT.
BeginCreate(w) ==
  /\ CanBegin(w)
  /\ \E p \in 0 .. MaxNodes, kind \in {"folder", "document"}, scope \in Scopes :
       /\ ParentAllowed(p, scope)
       /\ Begin(w, [op |-> "create", start |-> Start, parent |-> p, kind |-> kind])

NewNode(r) ==
  [kind |-> r.kind, parent |-> r.parent, mode |-> "inherit", roles |-> {}, rag |-> FALSE,
   version |-> 1, text |-> r.start, deleted |-> FALSE, at |-> r.start]

FinishCreate(w) ==
  LET r == docReq[w] n == Top + 1 IN
    /\ r.op = "create" /\ n <= MaxNodes
    /\ nodes' = [nodes EXCEPT ![n] = NewNode(r)]
    /\ stranded' = IF r.parent # Root /\ (~Live(r.parent) \/ r.parent \in stranded)
                   THEN stranded \cup {n} ELSE stranded
    /\ Committed(w, {n})
    /\ UNCHANGED <<roleRows, crossed, overlapped, unannounced>>

\* patch_node: the row is loaded and expected_version compared with it.  An
\* empty patch changes nothing, and a folder takes no text.
BeginPatch(w) ==
  /\ CanBegin(w)
  /\ \E n \in Ids, scope \in Scopes, field \in {"name", "content_md", "none"} :
       /\ Visible(n, scope)
       /\ field = "content_md" => nodes[n].kind = "document"
       /\ \E expected \in 0 .. MaxDocTx :
            expected # 0 => expected = nodes[n].version
       /\ Begin(w, [op |-> "patch", start |-> Start, node |-> n, field |-> field,
                    version |-> nodes[n].version])

\* Fault: only a rename counts as an edit.
apply_patch_rename_only(row, r) ==
  IF r.field = "none" THEN row
  ELSE [row EXCEPT !.version = IF r.field = "name" THEN r.version + 1 ELSE @,
                   !.text = r.start, !.at = r.start]

\* apply_patch: the version is the one loaded plus one, for a name and for
\* text alike; a tombstone that appeared meanwhile is written all the same.
apply_patch(row, r) ==
  IF r.field = "none" THEN row
  ELSE [row EXCEPT !.version = r.version + 1, !.text = r.start, !.at = r.start]

FinishPatch(w) ==
  LET r == docReq[w] IN
    /\ r.op = "patch"
    /\ nodes' = [nodes EXCEPT ![r.node] = apply_patch(@, r)]
    /\ overlapped' = IF nodes[r.node].version # r.version THEN overlapped \cup {r.node}
                     ELSE overlapped
    /\ Committed(w, IF r.field = "none" THEN {} ELSE {r.node})
    /\ UNCHANGED <<roleRows, stranded, crossed, unannounced>>

\* set_visibility: the row is loaded, the roles are looked up, and set_roles
\* deletes the rows of document_node_roles that are committed by then.
BeginSetVisibility(w) ==
  /\ CanBegin(w)
  /\ \E n \in Ids, scope \in Scopes, mode \in Modes, rag \in BOOLEAN :
       \E roles \in IF mode = "restricted" THEN SUBSET roleRows ELSE {{}} :
         /\ Visible(n, scope)
         /\ Begin(w, [op |-> "visibility", start |-> Start, node |-> n, mode |-> mode, rag |-> rag,
                      roles |-> roles, loaded |-> [mode |-> nodes[n].mode, rag |-> nodes[n].rag],
                      removed |-> nodes[n].roles])

\* A column is written only where it differs from what was loaded, and with
\* no such column there is no UPDATE and no new updated_at.
set_visibility(row, r) ==
  LET set(c) == r[c] # r.loaded[c]
  IN  [row EXCEPT !.mode = IF set("mode") THEN r.mode ELSE @,
                  !.rag = IF set("rag") THEN r.rag ELSE @,
                  !.at = IF set("mode") \/ set("rag") THEN r.start ELSE @,
                  !.roles = (@ \ r.removed) \cup r.roles]

Below(n) == {m \in Ids : Exists(m) /\ n \in Ancestors[m]}

\* The INSERT refuses a role that is gone and a row that another request
\* inserted meanwhile: the whole request is rolled back.
FinishSetVisibility(w) ==
  LET r == docReq[w]
      row == nodes[r.node]
      wrote == set_visibility(row, r).at # row.at
      told == IF wrote THEN Below(r.node) \ {r.node} ELSE Below(r.node)
  IN
    /\ r.op = "visibility"
    /\ r.roles \subseteq roleRows /\ r.roles \cap (row.roles \ r.removed) = {}
    /\ nodes' = [nodes EXCEPT ![r.node] = set_visibility(@, r)]
    /\ crossed' = IF r.loaded.mode # row.mode \/ r.removed # row.roles
                  THEN crossed \cup {r.node} ELSE crossed
    /\ unannounced' = unannounced \cup told
    /\ Committed(w, IF wrote THEN {r.node} ELSE {})
    /\ UNCHANGED <<roleRows, stranded, overlapped>>

\* reorder: a full permutation of the visible level; every row of it is
\* written.  Positions are left out.
BeginReorder(w) ==
  /\ CanBegin(w)
  /\ \E p \in 0 .. MaxNodes, scope \in Scopes :
       /\ list_visible_children(scope, p) # {}
       /\ Begin(w, [op |-> "reorder", start |-> Start, ids |-> list_visible_children(scope, p)])

FinishReorder(w) ==
  LET r == docReq[w] IN
    /\ r.op = "reorder"
    /\ nodes' = [n \in Ids |-> IF n \in r.ids THEN [nodes[n] EXCEPT !.at = r.start]
                               ELSE nodes[n]]
    /\ Committed(w, r.ids)
    /\ UNCHANGED <<roleRows, stranded, crossed, overlapped, unannounced>>

\* What a request reads next in its transaction.
Reads(w, request) ==
  /\ docReq' = [docReq EXCEPT ![w] = request]
  /\ UNCHANGED <<nodes, docTx, roleRows, mirror, watermark, feedCursor, stranded, crossed,
                 overlapped, late, unannounced>>

\* copy_node: the root is loaded and the target checked, its own folder too.
BeginCopy(w) ==
  /\ CanBegin(w)
  /\ \E n \in Ids, target \in 0 .. MaxNodes, scope \in Scopes :
       /\ Visible(n, scope) /\ ParentAllowed(target, scope)
       /\ target \notin subtree_ids(n)
       /\ Top + Cardinality(subtree_ids(n)) <= MaxNodes
       /\ Begin(w, [op |-> "load", start |-> Start, node |-> n, parent |-> target,
                    root |-> nodes[n]])

\* The rows of the subtree; the root stays as the session has it.
load_subtree(w) ==
  LET r == docReq[w] IN
    /\ r.op = "load" /\ subtree_ids(r.node) # {}
    /\ Reads(w, [op |-> "roles", start |-> r.start, node |-> r.node, parent |-> r.parent,
                 source |-> [m \in subtree_ids(r.node) |->
                               IF m = r.node THEN r.root ELSE nodes[m]]])

\* The roles of those rows, and which of them have another mode by now.
roles_for_nodes(w) ==
  LET r == docReq[w] IN
    /\ r.op = "roles"
    /\ Reads(w, [op |-> "copy", start |-> r.start, node |-> r.node, parent |-> r.parent,
                 source |-> [m \in DOMAIN r.source |->
                               [r.source[m] EXCEPT !.roles = nodes[m].roles]],
                 torn |-> {m \in DOMAIN r.source : nodes[m].mode # r.source[m].mode}])

\* The copies take the next identifiers, parents first; the exclusion from
\* the knowledge base is not carried over, and versions start again.
FinishCopy(w) ==
  LET r == docReq[w]
      old == DOMAIN r.source
      new(m) == Top + Cardinality({a \in old : a <= m})
      copy(m) == [r.source[m] EXCEPT
                    !.parent = IF m = r.node THEN r.parent ELSE new(@),
                    !.rag = FALSE, !.version = 1, !.at = r.start]
      copies == {new(m) : m \in old}
  IN
    /\ r.op = "copy" /\ Top + Cardinality(old) <= MaxNodes
    /\ \A m \in old : r.source[m].roles \subseteq roleRows
    /\ nodes' = [n \in Ids |-> IF n \in copies THEN copy(CHOOSE m \in old : new(m) = n)
                               ELSE nodes[n]]
    /\ stranded' = IF r.parent # Root /\ (~Live(r.parent) \/ r.parent \in stranded)
                   THEN stranded \cup copies ELSE stranded
    /\ crossed' = crossed \cup {new(m) : m \in old \cap (crossed \cup r.torn)}
    /\ Committed(w, copies)
    /\ UNCHANGED <<roleRows, overlapped, unannounced>>

\* delete_node: the subtree is listed, then its live rows become tombstones.
BeginDelete(w) ==
  /\ CanBegin(w)
  /\ \E n \in Ids, scope \in Scopes :
       /\ Visible(n, scope)
       /\ Begin(w, [op |-> "delete", start |-> Start, node |-> n, ids |-> subtree_ids(n),
                    known |-> Top])

\* Fault: only the folder itself becomes a tombstone.
soft_delete_one(r) ==
  [n \in Ids |-> IF n = r.node /\ Live(n)
                 THEN [nodes[n] EXCEPT !.deleted = TRUE, !.at = r.start] ELSE nodes[n]]

soft_delete_subtree(r) ==
  [n \in Ids |-> IF n \in r.ids /\ Live(n)
                 THEN [nodes[n] EXCEPT !.deleted = TRUE, !.at = r.start] ELSE nodes[n]]

FinishDelete(w) ==
  LET r == docReq[w] IN
    /\ r.op = "delete"
    /\ nodes' = soft_delete_subtree(r)
    /\ stranded' = stranded \cup {n \in Below(r.node) : n > r.known}
    /\ Committed(w, {n \in r.ids : Live(n)})
    /\ UNCHANGED <<roleRows, crossed, overlapped, unannounced>>

\* An error, a disconnected client or a restart: the transaction is rolled back.
AbortDocument(w) ==
  /\ docReq[w] # Idle
  /\ docReq' = [docReq EXCEPT ![w] = Idle]
  /\ UNCHANGED <<nodes, docTx, roleRows, mirror, watermark, feedCursor, stranded, crossed,
                 overlapped, late, unannounced>>

\* delete_role: rows of document_node_roles go by cascade, nodes do not notice.
DeleteDocRole(x) ==
  LET touched == {n \in Ids : Exists(n) /\ x \in nodes[n].roles} IN
    /\ x \in roleRows
    /\ roleRows' = roleRows \ {x}
    /\ nodes' = [n \in Ids |-> IF n \in touched THEN [nodes[n] EXCEPT !.roles = @ \ {x}]
                               ELSE nodes[n]]
    /\ unannounced' = unannounced \cup UNION {Below(n) : n \in touched}
    /\ UNCHANGED <<docReq, docTx, mirror, watermark, feedCursor, stranded, crossed,
                   overlapped, late>>

-----------------------------------------------------------------------------
\* A folder with a document in it, known to the reader.
DocumentsInit ==
  /\ \E mode \in Modes : \E roles \in IF mode = "restricted" THEN SUBSET DocRoles ELSE {{}} :
       nodes = [n \in Ids |->
         CASE n = 1 -> [kind |-> "folder", parent |-> Root, mode |-> mode, roles |-> roles,
                        rag |-> FALSE, version |-> 1, text |-> 0, deleted |-> FALSE, at |-> 0]
           [] n = 2 -> [kind |-> "document", parent |-> 1, mode |-> "inherit", roles |-> {},
                        rag |-> FALSE, version |-> 1, text |-> 0, deleted |-> FALSE, at |-> 0]
           [] OTHER -> NoRow]
  /\ docReq = [w \in Writers |-> Idle] /\ docTx = 0 /\ roleRows = DocRoles
  /\ mirror = [n \in Ids |-> IF n <= 2 THEN [Unknown EXCEPT !.version = 1, !.have = 1]
                             ELSE Unknown]
  /\ watermark = 0 /\ feedCursor = NoCursor
  /\ stranded = {} /\ crossed = {} /\ overlapped = {} /\ late = {} /\ unannounced = {}

DocumentsNext ==
  \/ \E w \in Writers :
       \/ BeginCreate(w) \/ FinishCreate(w)
       \/ BeginPatch(w) \/ FinishPatch(w)
       \/ BeginSetVisibility(w) \/ FinishSetVisibility(w)
       \/ BeginReorder(w) \/ FinishReorder(w)
       \/ BeginCopy(w) \/ load_subtree(w) \/ roles_for_nodes(w) \/ FinishCopy(w)
       \/ BeginDelete(w) \/ FinishDelete(w)
       \/ AbortDocument(w)
  \/ \E x \in DocRoles : DeleteDocRole(x)
  \/ ReadChanges
  \/ \E n \in Ids : get_external(n)

DocumentsSpec == DocumentsInit /\ [][DocumentsNext]_documentsVars

-----------------------------------------------------------------------------
DocumentsTypeOK ==
  /\ nodes \in [Ids -> Node \cup {NoRow}]
  /\ \A w \in Writers : docReq[w] # Idle => docReq[w].start \in 1 .. docTx
  /\ docTx \in 0 .. MaxDocTx /\ roleRows \subseteq DocRoles
  /\ mirror \in [Ids -> Heard]
  /\ watermark \in 0 .. MaxDocTx /\ feedCursor \in (0 .. MaxDocTx) \X (0 .. MaxNodes)
  /\ stranded \cup crossed \cup overlapped \cup late \cup unannounced \subseteq Ids

\* The list of the tree, computed downwards, and the check of one node,
\* computed upwards, agree on what a person with given roles may see, except
\* for nodes that were put under a folder while it was being deleted: they are
\* live below a tombstone, the list skips them and the check ends there.
ListAgreesWithLookup ==
  \A scope \in Scopes :
    list_visible_tree(scope) \ stranded = {n \in Ids \ stranded : Visible(n, scope)}

\* Only a restricted node has rows in document_node_roles, unless two requests
\* set its visibility at once, or it was copied from such a node or while the
\* mode of its source was set between the reads of the row and of its roles
\* (docs/modules/documents/README.md promises it of every node).
RolesOnlyWhenRestricted ==
  \A n \in Ids \ crossed : Exists(n) /\ nodes[n].mode = "inherit" => nodes[n].roles = {}

\* The feed loses nothing: what the reader does not know yet of a node still
\* lies ahead of its watermark or of its cursor, unless the transaction that
\* wrote the node had started before a point the reader had already passed.
FeedLosesNothing ==
  \A n \in Ids \ (late \cup unannounced) :
    Exists(n) /\ ~rag_excluded(n) =>
      \/ mirror[n].version = nodes[n].version /\ mirror[n].dead = nodes[n].deleted
      \/ IF feedCursor = NoCursor THEN nodes[n].at >= watermark
         ELSE ~Passed(nodes[n].at, n, feedCursor)

\* content_version tells the reader whether it must fetch the text again: equal
\* versions mean equal text, unless two requests edited the node at once.
VersionNamesContent ==
  \A n \in Ids \ overlapped :
    mirror[n].have > 0 /\ mirror[n].have = nodes[n].version => mirror[n].text = nodes[n].text

\* docs/modules/documents/README.md: updated_at moves with any change of the
\* node, visibility named among them, so that every change returns the node to
\* the feed.  Replacing the roles of a restricted node does not move it, and the
\* property does not hold: README, section 6.
VisibilityMovesUpdatedAt ==
  [][\A n \in Ids :
       Exists(n) /\ roleRows' = roleRows
         /\ <<nodes'[n].mode, nodes'[n].roles, nodes'[n].rag>>
              # <<nodes[n].mode, nodes[n].roles, nodes[n].rag>>
       => nodes'[n].at # nodes[n].at]_documentsVars

\* What holds of the tree at any moment: its shape, one answer to who sees what,
\* and roles where they count.
DocumentTreeHolds == DocumentsTypeOK /\ ListAgreesWithLookup /\ RolesOnlyWhenRestricted
=============================================================================
