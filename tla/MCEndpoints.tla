----------------------------- MODULE MCEndpoints -----------------------------
(***************************************************************************)
(* Instances, for TLC, of the parts that do not share state with the       *)
(* handlers of Backend or with one another: pages of the history, the      *)
(* listing of stacks, secret values and the life of the process.  Each     *)
(* behaviour is about one of them.                                         *)
(***************************************************************************)
EXTENDS HistoryPages, StackListing, Secrets, Serve, TLC

VARIABLE part   \* the one that this behaviour is about

allVars == <<vars, listingVars, secretVars, serveVars, part>>

------------------------------------------------------------------------------
(* Pages: histories of up to five updates and six-bit integers, so that    *)
(* (page-1) times the page size can overflow.                              *)
SomePages == {Absent, -1, 0, 1, 2, 3, 4, 5, 6, 9, 12, 17, 31}
SomePageSizes == {Absent, -1, 0, 1, 2, 3, 4, 5, 7, 8}

------------------------------------------------------------------------------
(* Listing: four stacks of two organizations, one of which the identity    *)
(* that asks may not read.                                                 *)
Stack(org, project, name) == [org |-> org, project |-> project, name |-> name]
s1 == Stack("n1", "n1", "n1")
s2 == Stack("n1", "n1", "n2")
s3 == Stack("n1", "n2", "n1")
s4 == Stack("n2", "n1", "n1")
SomeStacks == {s1, s2, s3, s4}
KeyOrder == s1 :> 2 @@ s2 :> 6 @@ s3 :> 7 @@ s4 :> 9
OtherKeys == s1 :> 1 @@ s2 :> 3 @@ s3 :> 0 @@ s4 :> 1
SomeQueries == [org : {"", "n1"}, project : {"", "n1"}]
SomeRules ==
  {[groups |-> {"g1"}, organizations |-> {"*"}, projects |-> {"n1"}, stacks |-> {"n1"},
    actions |-> {"read"}],
   [groups |-> {"g1"}, organizations |-> {"n1"}, projects |-> {"n2"}, stacks |-> {"*"},
    actions |-> {"read", "write"}]}

------------------------------------------------------------------------------
(* Secrets: names made of the bytes that stackScope itself writes, short   *)
(* ones and one whose length takes two digits, and plaintexts at the       *)
(* limits.                                                                 *)
ShortNames == {<<1>>, <<1, Colon, 1>>}
LongName == [i \in 1..11 |-> IF i = 2 THEN Colon ELSE 1]
SomeOwners == [org : ShortNames \cup {LongName}, project : ShortNames, name : ShortNames]
SomeSizes == {0, MaxPlaintext, MaxPlaintext + 1}

------------------------------------------------------------------------------

MCInit ==
  /\ part \in {"pages", "listing", "secrets", "serve"}
  /\ Init /\ ListingInit /\ SecretsInit /\ ServeInit
  /\ part # "pages" => total = 0 /\ size = Absent
  /\ part # "listing" => bucket = {} /\ query = [org |-> "", project |-> ""]

MCNext ==
  /\ \/ part = "pages" /\ Next /\ UNCHANGED <<listingVars, secretVars, serveVars>>
     \/ part = "listing" /\ ListingNext /\ UNCHANGED <<vars, secretVars, serveVars>>
     \/ part = "secrets" /\ SecretsNext /\ UNCHANGED <<vars, listingVars, serveVars>>
     \/ part = "serve" /\ ServeNext /\ UNCHANGED <<vars, listingVars, secretVars>>
  /\ UNCHANGED part

MCSpec == MCInit /\ [][MCNext]_allVars /\ ServeFairness
==============================================================================
