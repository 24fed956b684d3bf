---------------------------- MODULE UpdateService ----------------------------
(***************************************************************************)
(* What the API promises about one stack: who may work on it, in which     *)
(* phase an update is, and when the deployment changes.  Leases, lock      *)
(* generations, ETags and S3 requests do not appear.                       *)
(*                                                                         *)
(* An update gets the stack at most once: from the moment its record       *)
(* exists it either still has the stack or never gets it again.            *)
(***************************************************************************)
EXTENDS Integers

CONSTANTS
  IDs,         \* updates
  Deletions,   \* deletions
  Contents,    \* deployments
  None         \* nobody; no deployment

VARIABLES
  exists,      \* whether the stack exists
  holder,      \* the update or deletion that has the stack
  phase,       \* per update: "none", "not-started", "in-progress" or "ended"
  version,     \* the version of the last update that took one
  deployment   \* the stack's latest deployment

serviceVars == <<exists, holder, phase, version, deployment>>

NoPhases == [id \in IDs |-> "none"]

Init ==
  /\ exists \in BOOLEAN
  /\ holder \in IDs \cup Deletions \cup {None}
  /\ phase \in [IDs -> {"none", "not-started", "in-progress", "ended"}]
  /\ version \in Nat
  /\ deployment \in Contents \cup {None}

Create ==
  /\ ~exists
  /\ exists' = TRUE
  /\ holder' = None
  /\ phase' = NoPhases
  /\ version' = 0
  /\ deployment' = None

\* A new update or deletion gets the stack, from nobody or from a holder whose
\* lease has run out; a deletion gives way to another deletion alone.
Grant(id) ==
  /\ exists
  /\ id \in IDs => phase[id] = "none" /\ holder \notin Deletions
  /\ holder' = id
  /\ UNCHANGED <<exists, phase, version, deployment>>

Free ==
  /\ exists
  /\ holder' = None
  /\ UNCHANGED <<exists, phase, version, deployment>>

\* Each takes its record to a later phase; a record that was not started may
\* also be withdrawn.
Move(id, to) ==
  /\ exists
  /\ <<phase[id], to>> \in {<<"none", "not-started">>, <<"not-started", "none">>,
                            <<"not-started", "in-progress">>, <<"not-started", "ended">>,
                            <<"in-progress", "ended">>}
  /\ phase' = [phase EXCEPT ![id] = to]
  /\ UNCHANGED <<exists, holder, version, deployment>>

\* The holder takes the next version.
Advance ==
  /\ exists /\ holder \in IDs
  /\ version' = version + 1
  /\ UNCHANGED <<exists, holder, phase, deployment>>

\* The deployment is the holder's to change, once the holder is started.  A
\* stack that has never been updated is seeded by its creation.
Write ==
  /\ exists
  /\ \/ holder \in IDs /\ phase[holder] \in {"in-progress", "ended"}
     \/ holder = None /\ version = 0
  /\ deployment' \in Contents
  /\ UNCHANGED <<exists, holder, phase, version>>

\* A deletion removes records, in batches, and then the stack.
Purge ==
  /\ exists /\ holder \in Deletions
  /\ phase' \in {[id \in IDs |-> IF id \in gone THEN "none" ELSE phase[id]] :
                   gone \in SUBSET IDs}
  /\ UNCHANGED <<exists, holder, version, deployment>>

Remove ==
  /\ exists /\ holder \in Deletions
  /\ exists' = FALSE
  /\ holder' = None
  /\ phase' = NoPhases
  /\ version' = 0
  /\ deployment' = None

Next ==
  /\ serviceVars' # serviceVars
  /\ \/ Create \/ Free \/ Advance \/ Write \/ Purge \/ Remove
     \/ \E id \in IDs \cup Deletions : Grant(id)
     \/ \E id \in IDs, to \in {"none", "not-started", "in-progress", "ended"} : Move(id, to)

Spec == Init /\ [][Next]_serviceVars
==============================================================================
