----------------------------- MODULE StackObject -----------------------------
(***************************************************************************)
(* stack.json, the one S3 object that carries a stack's lock, fence,       *)
(* version and checkpoint pointers (store.go, type Stack), and the way     *)
(* every store call changes it: GET it with its ETag, compute the next     *)
(* body, PUT that body with If-Match (s3store.go, getWithETag, GetStack,   *)
(* putConditional).  A store call runs on behalf of a caller, one          *)
(* goroutine; between any two of its S3 requests any other caller, in this *)
(* process or in another replica, may act.                                 *)
(*                                                                         *)
(* S3 is modelled by how the code uses it.  A PUT is answered (200), or    *)
(* refused because the ETag moved (412), or the object is gone (404), or   *)
(* its reply never arrives.  In the last case the caller sees an error and *)
(* the PUT may still land at any later moment at which its ETag is         *)
(* current.  The SDK retries a request whose reply was lost, so a PUT that *)
(* did land can also be reported as refused.                               *)
(***************************************************************************)
EXTENDS Integers

CONSTANTS
  Callers,       \* goroutines that run store calls
  UpdateIDs,     \* IDs drawn by NewUpdateID
  DeletionIDs,   \* IDs with the "delete-" prefix
  Owners,        \* principals
  Deployments,   \* checkpoint contents
  NoID,          \* the empty update ID
  NoLock,        \* nil *Lock
  NoStack,       \* stack.json does not exist
  NoData,        \* the empty checkpoint key
  NoCall,        \* the arguments of a caller that has no call running
  MaxTries,      \* rounds of a conditional-write loop (5 in the code)
  SkewedClocks,  \* whether replicas may disagree on what has expired
  Kept           \* the results that callers remember after a call returned

LockIDs == UpdateIDs \cup DeletionIDs

\* type Lock; ExpiresAt is the variable `expired` below.
Locks == [id : LockIDs, owner : Owners, gen : Nat]

\* A checkpoint object's key: its incarnation and the hash of its contents.
CheckpointKeys == Nat \X Deployments

\* type Stack; incarnation 0 is the empty string of stacks from older builds.
Stacks ==
  [inc : Nat, version : Nat, fence : Nat, canonical : BOOLEAN,
   lock : Locks \cup {NoLock}, latest : CheckpointKeys \cup {NoData},
   checkpoints : SUBSET (Nat \X CheckpointKeys)]

ASSUME ConstantsAssumption ==
  /\ UpdateIDs \cap DeletionIDs = {}
  /\ NoID \notin LockIDs
  /\ NoLock \notin Locks
  /\ NoStack \notin Stacks
  /\ NoData \notin CheckpointKeys
  /\ MaxTries \in Nat \ {0}
  /\ SkewedClocks \in BOOLEAN

VARIABLES
  stack,     \* the body of stack.json, or NoStack
  etag,      \* its ETag: the number of the last write
  expired,   \* whether the lease of stack.lock has run out
  late,      \* PUTs of stack.json given up by their callers, still able to land
  pc,        \* per caller: the S3 request its call sends next, or "idle"
  arg,       \* per caller: the arguments of its call
  tries,     \* per caller: rounds left in the current conditional-write loop
  snap,      \* per caller: stack.json as its last GET returned it
  write,     \* per caller: the PUT it has prepared
  ret        \* per caller: what its last call returned, if that is in Kept

objectVars == <<stack, etag, expired, late>>
callVars   == <<pc, arg, tries, snap, write, ret>>

\* A prepared PUT: the ETag it requires, the body, and whether the body
\* carries a new ExpiresAt.
Writes == [etag : Nat, body : Stacks, renews : BOOLEAN]
\* No PUT, but the ETag that was read.
OnlyETag(e) == [etag |-> e, body |-> NoStack, renews |-> FALSE]
NoWrite == OnlyETag(0)

DeletionFence(lock) == lock # NoLock /\ lock.id \in DeletionIDs

\* lock.Expired(now) as some replica's clock sees it.
Judgements(exp) == IF SkewedClocks THEN BOOLEAN ELSE {exp}

------------------------------------------------------------------------------
(* A caller's control.  Local data that a call can no longer use is reset. *)

Goto(c, label) == pc' = [pc EXCEPT ![c] = label]

Step(c, label) == Goto(c, label) /\ UNCHANGED <<arg, tries, snap, write, ret>>

\* What a call returns: an error and, depending on the call, a value.
Result(err, val) == [err |-> err, val |-> val]
NoResult == Result("none", NoLock)

Return(c, err, val) ==
  /\ Goto(c, "idle")
  /\ ret' = [ret EXCEPT ![c] = IF err \in Kept THEN Result(err, val) ELSE NoResult]
  /\ arg' = [arg EXCEPT ![c] = NoCall]
  /\ tries' = [tries EXCEPT ![c] = MaxTries]
  /\ snap' = [snap EXCEPT ![c] = NoStack]
  /\ write' = [write EXCEPT ![c] = NoWrite]

\* The call keeps the stack.json it has just read and goes on.
Read(c, label) ==
  /\ Goto(c, label)
  /\ snap' = [snap EXCEPT ![c] = stack]
  /\ write' = [write EXCEPT ![c] = OnlyETag(etag)]
  /\ UNCHANGED <<arg, tries, ret>>

\* The call has computed the body of its PUT from st, read under ETag e.
Prepare(c, label, e, body, renews) ==
  /\ Goto(c, label)
  /\ write' = [write EXCEPT ![c] = [etag |-> e, body |-> body, renews |-> renews]]
  /\ UNCHANGED <<arg, tries, snap, ret>>

\* NextRound with no limit on the rounds.
NextRoundUnlimited(c, label) ==
  /\ tries' = [tries EXCEPT ![c] = @ - 1]
  /\ Goto(c, label)
  /\ snap' = [snap EXCEPT ![c] = NoStack]
  /\ write' = [write EXCEPT ![c] = NoWrite]
  /\ UNCHANGED <<arg, ret>>

\* A refused PUT sends the call back to the head of its loop while rounds are left.
NextRound(c, label) ==
  /\ tries[c] > 1
  /\ tries' = [tries EXCEPT ![c] = @ - 1]
  /\ Goto(c, label)
  /\ snap' = [snap EXCEPT ![c] = NoStack]
  /\ write' = [write EXCEPT ![c] = NoWrite]
  /\ UNCHANGED <<arg, ret>>

LastRound(c) == tries[c] = 1

------------------------------------------------------------------------------
(* S3's side of a conditional PUT of stack.json. *)

\* Lands for a PUT without If-Match.
LandsUnconditionally(w) ==
  /\ stack # NoStack
  /\ stack' = w.body
  /\ etag' = etag + 1
  /\ expired' = (w.body.lock # NoLock /\ expired /\ ~w.renews)
  /\ late' = {}

\* The PUT w takes effect.  S3 derives the ETag of an unencrypted object from
\* its body, so writing the same body back may keep the ETag.
Lands(w) ==
  /\ stack # NoStack
  /\ w.etag = etag
  /\ stack' = w.body
  /\ etag' \in {etag + 1} \cup (IF w.body = stack /\ ~w.renews THEN {etag} ELSE {})
  /\ expired' = (w.body.lock # NoLock /\ expired /\ ~w.renews)
  /\ late' = IF etag' = etag THEN late ELSE {}

\* 412: the ETag moved, or it moved because this very PUT landed and the SDK
\* sent it again after losing the first reply.
Refused(w) ==
  \/ stack # NoStack /\ w.etag # etag /\ UNCHANGED objectVars
  \/ Lands(w) /\ etag' # etag

\* The caller gets an error instead of a reply.  ETags do not recur, so only a
\* PUT whose ETag is still current can ever land.
Abandoned(w) ==
  /\ late' = IF w.etag = etag /\ w.body # NoStack THEN late \cup {w} ELSE late
  /\ UNCHANGED <<stack, etag, expired>>

\* An abandoned PUT reaches S3 after all.
LatePut ==
  /\ \E w \in late : Lands(w)
  /\ UNCHANGED callVars

\* The lease runs out.
LeaseExpires ==
  /\ stack # NoStack
  /\ stack.lock # NoLock
  /\ ~expired
  /\ expired' = TRUE
  /\ UNCHANGED <<stack, etag, late, callVars>>

\* The process dies, or the request context is cancelled: the call never
\* returns, and its outstanding PUT may still land.
Crash(c) ==
  /\ pc[c] # "idle"
  /\ Abandoned(write[c])
  /\ Return(c, "crashed", NoLock)
==============================================================================
