--------------------------- MODULE MCUpdateHistory ---------------------------
(***************************************************************************)
(* An instance of UpdateHistory for TLC: a stack with one update, whose    *)
(* history is read while two clients create updates, or while one is       *)
(* created and started and its status asked for.                           *)
(***************************************************************************)
EXTENDS MCBackend, UpdateHistory

\* New updates land before and after the first one in the listing.
KeyRank == u2 :> 1 @@ u1 :> 2 @@ u3 :> 3

Created(owner, id) == Req("createUpdate", owner, id)
History ==
  From(UsedFirst, {Created(alice, u2), Created(bob, u3)}, UsedAcks, 1)
    \cup From(UsedFirst, {Created(bob, u3), Req("start", bob, u3), Req("status", bob, u3)},
              UsedAcks, 1)
=============================================================================
