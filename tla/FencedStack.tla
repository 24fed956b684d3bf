----------------------------- MODULE FencedStack -----------------------------
(***************************************************************************)
(* What stack.json promises, without S3: one stack whose lock, fence,      *)
(* version and checkpoint pointers change in atomic steps.                 *)
(*                                                                         *)
(*  - A lock is granted when the stack has none or its lease has run out,  *)
(*    always with a generation above every earlier one (the fence).        *)
(*  - A deletion fence yields only to its release, to another deletion     *)
(*    fence, or to the removal of the stack, even when it has expired.     *)
(*  - Version and checkpoints change only under an update's lock, except   *)
(*    for the seed of an untouched stack.                                  *)
(*  - A stack that comes back after its removal is a new incarnation.      *)
(*                                                                         *)
(* StackStore implements this specification.                               *)
(***************************************************************************)
EXTENDS Integers

CONSTANTS
  DeletionIDs,    \* IDs of deletion fences
  NoLock, NoStack, NoData,
  SkewedClocks,   \* whether a lease may be judged to have run out early
  FirstStacks     \* initial stacks

VARIABLES
  stack,     \* the stack, or NoStack
  expired,   \* whether the lease of its lock has run out
  incs       \* incarnations drawn so far

fencedVars == <<stack, expired, incs>>

Fence(lock)      == lock # NoLock /\ lock.id \in DeletionIDs
Generation(lock) == IF lock = NoLock THEN 0 ELSE lock.gen

Blank(inc) ==
  [inc |-> inc, version |-> 0, fence |-> 0, canonical |-> TRUE, lock |-> NoLock,
   latest |-> NoData, checkpoints |-> {}]

------------------------------------------------------------------------------
(* The ways in which one write may change the stack from st to new. *)

Relocked(st, lock, fence) ==
  [st EXCEPT !.lock = lock, !.fence = fence, !.canonical = TRUE]

\* A new lock, above the fence and above the lock it replaces.
Grants(st, exp, new) ==
  /\ new.lock # NoLock
  /\ st.lock # NoLock =>
       (exp \/ SkewedClocks) /\ (Fence(st.lock) => Fence(new.lock))
  /\ new.lock.gen > st.fence
  /\ new.lock.gen > Generation(st.lock)
  /\ new = Relocked(st, new.lock, new.lock.gen)

\* The same lock with a new lease; a lock without a generation gets one.
Renews(st, new) ==
  /\ st.lock # NoLock /\ new.lock # NoLock
  /\ new.lock.id = st.lock.id /\ new.lock.owner = st.lock.owner
  /\ st.lock.gen # 0 => new.lock.gen = st.lock.gen
  /\ st.lock.gen = 0 => new.lock.gen > st.fence
  /\ new.fence >= st.fence /\ new.fence >= new.lock.gen
  /\ new = Relocked(st, new.lock, new.fence)

\* The lock goes and the fence remembers its generation.
Releases(st, new) ==
  /\ new.lock = NoLock
  /\ st.lock = NoLock => ~st.canonical
  /\ new.fence >= st.fence /\ new.fence >= Generation(st.lock)
  /\ new = Relocked(st, NoLock, new.fence)

\* An update takes the next version.
Advances(st, new) ==
  /\ st.lock # NoLock /\ ~Fence(st.lock)
  /\ new = [st EXCEPT !.version = @ + 1]

\* The checkpoint of the current version, and of no other, is set.
Points(st, new) ==
  /\ IF st.lock = NoLock THEN st.version = 0 ELSE ~Fence(st.lock)
  /\ new.latest # NoData /\ new.latest[1] = st.inc
  /\ new = [st EXCEPT !.latest = new.latest,
                      !.checkpoints = {p \in @ : p[1] # st.version}
                                        \cup {<<st.version, new.latest>>}]

------------------------------------------------------------------------------

Init ==
  /\ \E f \in FirstStacks :
       stack = f.stack /\ incs = IF f.stack = NoStack THEN 0 ELSE f.stack.inc
  /\ expired = FALSE

\* A creation draws an incarnation, in vain if the stack exists.
Create ==
  /\ incs' = incs + 1
  /\ \/ stack = NoStack /\ stack' = Blank(incs + 1) /\ expired' = FALSE
     \/ UNCHANGED <<stack, expired>>

NewLease ==
  /\ stack # NoStack /\ stack' # NoStack
  /\ Grants(stack, expired, stack') \/ Renews(stack, stack')
  /\ ~expired'
  /\ UNCHANGED incs

Release ==
  /\ stack # NoStack /\ stack' # NoStack
  /\ Releases(stack, stack')
  /\ ~expired'
  /\ UNCHANGED incs

Commit ==
  /\ stack # NoStack /\ stack' # NoStack
  /\ Advances(stack, stack') \/ Points(stack, stack')
  /\ UNCHANGED <<expired, incs>>

Remove ==
  /\ stack # NoStack /\ Fence(stack.lock)
  /\ stack' = NoStack
  /\ ~expired'
  /\ UNCHANGED incs

Expire ==
  /\ stack # NoStack /\ stack.lock # NoLock
  /\ expired' = TRUE
  /\ UNCHANGED <<stack, incs>>

Next == Create \/ NewLease \/ Release \/ Commit \/ Remove \/ Expire

Spec == Init /\ [][Next]_fencedVars
==============================================================================
