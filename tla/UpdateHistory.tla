---------------------------- MODULE UpdateHistory ----------------------------
(***************************************************************************)
(* The update history: S3Store.ListUpdates, and getStackUpdates,           *)
(* getLatestUpdate and getUpdateByVersion on top of it, read while the     *)
(* handlers of Backend work on the same stack.                             *)
(*                                                                         *)
(* ListUpdates reads stack.json, then lists the update records under the   *)
(* incarnation's prefix page by page, in the order of their keys, and GETs *)
(* every record of a page before it asks for the next page.                *)
(***************************************************************************)
EXTENDS Backend, FiniteSetsExt

CONSTANTS
  Rank,       \* the place of an update's key in the bucket's key order
  ListPage    \* keys per page of a listing (1000 in S3)

ASSUME HistoryAssumption ==
  /\ Rank \in [UpdateIDs -> Nat \ {0}]
  /\ \A i, j \in UpdateIDs : Rank[i] = Rank[j] => i = j
  /\ ListPage \in Nat \ {0}

VARIABLES
  step,     \* the reader's next request: "stack", "list", "read", or its end
  prefix,   \* the incarnation whose records it lists
  cursor,   \* the last key of the pages listed so far
  more,     \* whether the last page was truncated
  page,     \* keys of the current page that are still to be read
  got,      \* the records read
  known     \* what clients had been told when the listing began

readerVars == <<step, prefix, cursor, more, page, got, known>>
historyVars == <<backendVars, readerVars>>

\* Keys after the cursor, as a listing sees them now.
Remaining == {id \in UpdateIDs : At(prefix, UpdateKey(id)) # {} /\ Rank[id] > cursor}

\* The first keys of a set, as many as make a page.
FirstPage(ids) == {id \in ids : Cardinality({j \in ids : Rank[j] < Rank[id]}) < ListPage}

\* GetStack, ListUpdates' first request.
ListUpdates ==
  /\ step = "stack"
  /\ known' = acks
  /\ \/ stack = NoStack /\ step' = "failed" /\ UNCHANGED prefix
     \/ stack # NoStack /\ step' = "list" /\ prefix' = stack.inc
  /\ UNCHANGED <<cursor, more, page, got>>

\* NextPage with a page that starts where the last one ended up.
NextPageFrom(start) ==
  LET first == FirstPage({id \in Remaining : Rank[id] > start})
  IN  /\ step = "list"
      /\ page' = first
      /\ more' = (first # Remaining)
      /\ cursor' = Max({Rank[id] : id \in first} \cup {cursor})
      /\ step' = IF first = {} THEN "done" ELSE "read"
      /\ UNCHANGED <<prefix, got, known>>

\* NextPage, skipping a key at the boundary.
NextPageSkipping == NextPageFrom(IF cursor = 0 THEN 0 ELSE cursor + 1)

NextPage == NextPageFrom(cursor)

\* A record that is gone since its page was listed fails the whole listing.
ReadRecord ==
  /\ step = "read"
  /\ LET id == CHOOSE i \in page : \A j \in page : Rank[i] <= Rank[j]
     IN  \/ /\ At(prefix, UpdateKey(id)) = {}
            /\ step' = "failed"
            /\ UNCHANGED <<page, got>>
         \/ \E o \in At(prefix, UpdateKey(id)) :
              /\ got' = got \cup {o.val}
              /\ page' = page \ {id}
              /\ step' = IF page' # {} THEN "read" ELSE IF more THEN "list" ELSE "done"
  /\ UNCHANGED <<prefix, cursor, more, known>>

\* A failed request.
ReaderFails ==
  /\ step \in {"stack", "list", "read"}
  /\ step' = "failed"
  /\ UNCHANGED <<prefix, cursor, more, page, got, known>>

Reader == ListUpdates \/ NextPage \/ ReadRecord \/ ReaderFails

\* historicalUpdates, sorted by version, the newest first.  Records of the same
\* version come in any order.
Historical(updates) == {u \in updates : u.kind # "preview"}

\* LatestUpdates without the sort.
LatestUnsorted(updates) == Historical(updates)

\* What getLatestUpdate may answer with.
LatestUpdates(updates) ==
  {u \in Historical(updates) : \A w \in Historical(updates) : w.version <= u.version}

HistoryInit ==
  /\ BackendInit
  /\ step = "stack"
  /\ prefix = 0
  /\ cursor = 0
  /\ more = FALSE
  /\ page = {}
  /\ got = {}
  /\ known = {}

HistoryNext ==
  \/ BackendNext /\ UNCHANGED readerVars
  \/ Reader /\ UNCHANGED backendVars

HistorySpec == HistoryInit /\ [][HistoryNext]_historyVars

------------------------------------------------------------------------------
(* Properties *)

\* A listing that succeeds has every update that was acknowledged before it
\* began, whatever is created, rolled back or deleted while it runs, unless its
\* stack is deleted meanwhile (ListUpdates).
HistoryComplete ==
  step = "done" /\ stack # NoStack /\ stack.inc = prefix /\ ~DeletionFence(stack.lock) =>
    \A a \in known : a.what \in {"created", "ended"} /\ a.inc = prefix =>
      \E u \in got : u.id = a.id

\* The update that getLatestUpdate answers with is never older than one that was
\* acknowledged before it was asked.
LatestNotStale ==
  step = "done" /\ stack # NoStack /\ stack.inc = prefix /\ ~DeletionFence(stack.lock) =>
    \A a \in known, u \in LatestUpdates(got) :
      a.what = "created" /\ a.inc = prefix =>
        \A o \in At(prefix, UpdateKey(a.id)) : o.val.kind # "preview" => o.val.version <= u.version
==============================================================================
