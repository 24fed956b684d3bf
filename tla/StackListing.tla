---------------------------- MODULE StackListing -----------------------------
(***************************************************************************)
(* Listing stacks: S3Store.ListStacks and the listStacks handler, while    *)
(* stacks are created and deleted.                                         *)
(*                                                                         *)
(* ListStacks lists the keys of the bucket, or of one organization, page   *)
(* by page.  A stack has keys other than that of its stack.json, which are *)
(* skipped; every stack.json of a page is read before the next page.       *)
(***************************************************************************)
EXTENDS Integers, FiniteSets, FiniteSetsExt

CONSTANTS
  Stacks,      \* stacks: organization, project and name
  Rank,        \* the place of a stack's stack.json in the bucket's key order
  Others,      \* the number of other keys of a stack, which come just before
  ListPage,    \* keys per page of a listing (1000 in S3)
  Queries,     \* organizations and projects that are asked for; "" stands for any
  NoAuth, AccessRules, Groups,   \* who asks, and what that identity may see
  GroupNames, Names

ASSUME ListingAssumption ==
  /\ Rank \in [Stacks -> Nat] /\ Others \in [Stacks -> Nat]
  /\ \A s \in Stacks : Others[s] < Rank[s]
  /\ \A s, t \in Stacks : Rank[s] < Rank[t] => Rank[s] < Rank[t] - Others[t]
  /\ \A s, t \in Stacks : Rank[s] = Rank[t] => s = t
  /\ ListPage \in Nat \ {0}

VARIABLES
  bucket,   \* the stacks that exist
  query,    \* what was asked for
  step,     \* "none", "list", "read", "done" or "failed"
  cursor,   \* the last key of the pages listed so far
  more,     \* whether the last page was truncated
  page,     \* stacks of the current page that are still to be read
  got,      \* stacks read
  always,   \* stacks that existed all the time since the listing began
  ever      \* stacks that existed some time since then

readerVars == <<query, step, cursor, more, page, got>>
listingVars == <<bucket, readerVars, always, ever>>

Access ==
  INSTANCE Authorization WITH rules <- AccessRules, running <- TRUE, Drafts <- {}, MaxRules <- 0

Keys(s) == Rank[s] - Others[s] .. Rank[s]
InOrg(s, org) == org = "" \/ s.org = org

\* Keys after the cursor that a listing with the prefix of org sees now.
Remaining(org) ==
  {k \in UNION {Keys(s) : s \in {t \in bucket : InOrg(t, org)}} : k > cursor}
FirstPage(keys) == {k \in keys : Cardinality({j \in keys : j < k}) < ListPage}

\* The stacks whose stack.json is among the keys.
StacksOf(keys) == {s \in Stacks : Rank[s] \in keys}

\* Where the listing goes when a page is read.
AfterPage(truncated) == IF truncated THEN "list" ELSE "done"

ListStacks(q) ==
  /\ step \in {"none", "done", "failed"}
  /\ query' = q
  /\ step' = "list"
  /\ cursor' = 0
  /\ more' = FALSE
  /\ page' = {}
  /\ got' = {}
  /\ always' = bucket
  /\ ever' = bucket
  /\ UNCHANGED bucket

\* NextPage, ending the listing at a page without stacks.
NextPageOrEnd ==
  LET keys == FirstPage(Remaining(query.org))
  IN  /\ step = "list"
      /\ page' = StacksOf(keys)
      /\ more' = (keys # Remaining(query.org))
      /\ cursor' = Max(keys \cup {cursor})
      /\ step' = IF page' # {} THEN "read" ELSE "done"
      /\ UNCHANGED <<bucket, query, got, always, ever>>

NextPage ==
  LET keys == FirstPage(Remaining(query.org))
  IN  /\ step = "list"
      /\ page' = StacksOf(keys)
      /\ more' = (keys # Remaining(query.org))
      /\ cursor' = Max(keys \cup {cursor})
      /\ step' = IF page' # {} THEN "read" ELSE AfterPage(more')
      /\ UNCHANGED <<bucket, query, got, always, ever>>

\* A stack that is gone since its page was listed fails the whole listing.
ReadStack ==
  /\ step = "read"
  /\ LET s == CHOOSE t \in page : \A u \in page : Rank[t] <= Rank[u]
     IN  IF s \in bucket
         THEN /\ got' = got \cup {s}
              /\ page' = page \ {s}
              /\ step' = IF page' # {} THEN "read" ELSE AfterPage(more)
         ELSE step' = "failed" /\ UNCHANGED <<page, got>>
  /\ UNCHANGED <<bucket, query, cursor, more, always, ever>>

ReaderFails ==
  /\ step \in {"list", "read"}
  /\ step' = "failed"
  /\ UNCHANGED <<bucket, query, cursor, more, page, got, always, ever>>

\* authorizeListStack
Visible(s) == NoAuth \/ Access!Allows(Groups, "read", s.org, s.project, s.name)

\* What listStacks answers with.
Listed == {s \in got : Visible(s) /\ (query.project = "" \/ s.project = query.project)}

\* Other requests; to a listing a stack is there when its stack.json is.
CreateStack(s) ==
  /\ s \notin bucket
  /\ bucket' = bucket \cup {s}
  /\ ever' = ever \cup {s}
  /\ UNCHANGED <<readerVars, always>>

DeleteStack(s) ==
  /\ s \in bucket
  /\ bucket' = bucket \ {s}
  /\ always' = always \ {s}
  /\ UNCHANGED <<readerVars, ever>>

ListingInit ==
  /\ bucket \in SUBSET Stacks
  /\ query \in Queries
  /\ step = "none" /\ cursor = 0 /\ more = FALSE /\ page = {} /\ got = {}
  /\ always = {} /\ ever = {}

ListingNext ==
  \/ \E q \in Queries : ListStacks(q)
  \/ NextPage \/ ReadStack \/ ReaderFails
  \/ \E s \in Stacks : CreateStack(s) \/ DeleteStack(s)

ListingSpec == ListingInit /\ [][ListingNext]_listingVars

------------------------------------------------------------------------------

\* What a query asks for, among some stacks.
Wanted(stacks) ==
  {s \in stacks : /\ query.org \in {"", s.org}
                  /\ query.project \in {"", s.project}
                  /\ NoAuth \/ Access!Allows(Groups, "read", s.org, s.project, s.name)}

\* A listing that succeeds has every stack asked for that existed all along, and
\* no stack but those asked for that existed at some time meanwhile, however
\* creations and deletions fall between its pages (ListStacks, listStacks).
ListingExact == step = "done" => Wanted(always) \subseteq Listed /\ Listed \subseteq Wanted(ever)
==============================================================================
