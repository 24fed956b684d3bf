-------------------------- MODULE StackStoreProofs ---------------------------
(***************************************************************************)
(* The theorems about StackStore, for any callers, any calls and any       *)
(* first stacks: TypeOK, CommitByHolder and RenewNeverRevives are          *)
(* invariants, and StackStore implements FencedStack.                      *)
(***************************************************************************)
EXTENDS StackLockProofs, StackUpdateProofs, StackObjectsProofs

------------------------------------------------------------------------------
(* Any step *)

\* A crash keeps the invariant: the PUT it abandons was legal.
LEMMA CrashOK ==
  ASSUME Inv, NEW c \in Callers, Crash(c), upd' = [upd EXCEPT ![c] = NoUpdate],
         UNCHANGED <<lockfileVars, objects, incs>>
  PROVE  StepOK(c)
<1>1. StackOK /\ LocalTypes /\ Local(c) /\ DataOK
  BY InvParts
<1>2. DataOK'
  BY <1>1 DEF DataOK, lockfileVars
<1>3. /\ write[c] \in Writes \cup EmptyWrites
      /\ Ready(write[c]) /\ write[c].etag <= etag
  BY <1>1 DEF LocalTypes, Local, CallerOK
<1>4. StackOK' /\ Moves /\ FencedStep
  BY <1>1, <1>3, AbandonedOK DEF Crash
<1>5. LocalTypes' /\ Others(c) /\ Local(c)'
  BY <1>1, <1>4, ReturnOK DEF Crash, UpdReset, StackOK
<1> QED
  BY <1>2, <1>4, <1>5 DEF StepOK

\* Every step of a running call keeps the invariant.
LEMMA RequestOK ==
  ASSUME Inv, NEW c \in Callers, Request(c)
  PROVE  StepOK(c)
<1>1. CASE LockStep(c) /\ UNCHANGED <<dataVars, lifeVars>>
  BY <1>1, LockGetOK, LegacyGetOK, LockPutOK, LegacyDeleteOK DEF LockStep
<1>2. CASE CreateUpdateStep(c) /\ UNCHANGED lifeVars
  BY <1>2, CreateUpdateStepOK
<1>3. CASE RecordStep(c) /\ UNCHANGED lifeVars
  BY <1>3, RecordStackOK, RecordGetOK, RecordPutOK DEF RecordStep
<1>4. CASE SaveCheckpointStep(c) /\ UNCHANGED lifeVars
  BY <1>4, SaveStackOK, SaveDataOK, SaveGetOK, SavePutOK DEF SaveCheckpointStep
<1>5. CASE GetCheckpointStep(c) /\ UNCHANGED lifeVars
  BY <1>5, GetCheckpointOK
<1>6. CASE CreateStack(c)
  BY <1>6, CreateStackOK
<1>7. CASE DeleteStep(c)
  BY <1>7, DeleteReadOK, DeleteBatchOK, DeleteStackObjectOK DEF DeleteStep
<1>8. CASE /\ Crash(c) /\ upd' = [upd EXCEPT ![c] = NoUpdate]
           /\ UNCHANGED <<lockfileVars, objects, incs>>
  BY <1>8, CrashOK
<1> QED
  BY <1>1, <1>2, <1>3, <1>4, <1>5, <1>6, <1>7, <1>8 DEF Request

\* The start of a call keeps the invariant.
LEMMA InvokeOK ==
  ASSUME Inv, NEW c \in Callers, NEW a \in Calls, Invoke(c, a)
  PROVE  StepOK(c)
<1>1. /\ StackOK /\ LocalTypes /\ Local(c) /\ pc[c] = "idle"
      /\ UNCHANGED <<objectVars, lockfileVars, objects, incs, upd>>
      /\ UNCHANGED <<tries, snap, write>>
  BY InvParts DEF Invoke, dataVars, lifeVars
<1>2. StackOK' /\ DataOK' /\ Moves /\ FencedStep
  BY <1>1, QuietOK
<1> DEFINE label == Entry[a.op]
<1>3. a.op \in Ops
  BY CallsAssumption DEF AllCalls
<1>4. /\ label \in {"lock.get", "update.get", "record.stack", "save.stack",
                    "read.stack", "create.put", "delete.get"}
      /\ label = "update.get" => a.op = "createUpdate"
      /\ label = "save.stack" => a.op = "save"
      /\ label = "record.stack" => a.op \in {"getUpdate", "start", "complete"}
  <2>1. Ops = {"acquire", "renew", "release", "getLock", "createUpdate", "getUpdate",
               "start", "complete", "save", "getStack", "getCheckpoint",
               "getCheckpointVersion", "createStack", "deleteStack"}
    BY DEF Ops, Entry
  <2>2. CASE a.op \in {"acquire", "renew", "release", "getLock"}
    BY <2>2 DEF Entry
  <2>3. CASE a.op \in {"createUpdate", "save"}
    BY <2>3 DEF Entry
  <2>4. CASE a.op \in {"getUpdate", "start", "complete"}
    BY <2>4 DEF Entry
  <2>5. CASE a.op \in {"getStack", "getCheckpoint", "getCheckpointVersion"}
    BY <2>5 DEF Entry
  <2>6. CASE a.op \in {"createStack", "deleteStack"}
    BY <2>6 DEF Entry
  <2> QED
    BY <1>3, <2>1, <2>2, <2>3, <2>4, <2>5, <2>6
<1> HIDE DEF label
<1>5. pc' = [pc EXCEPT ![c] = label] /\ arg' = [arg EXCEPT ![c] = a]
  BY DEF Invoke, Goto, label
<1>6. label \in Labels
  BY <1>4 DEF Labels
<1>7. LocalTypes'
  BY <1>1, <1>5, <1>6 DEF LocalTypes
<1>8. Others(c)
  BY <1>1, <1>5 DEF LocalTypes, Others, SameLocal
<1>9. pc'[c] = label /\ arg'[c] = a /\ write'[c] = write[c]
  BY <1>1, <1>5 DEF LocalTypes
<1>10. (write[c].etag <= etag)' /\ Ready(write[c])'
  BY <1>1, <1>9 DEF Local, CallerOK, Ready, objectVars
<1>11. Local(c)'
  BY <1>4, <1>9, <1>10 DEF Local, CallerOK, CommitsAsHolder, RenewsOwn, PutLabels,
     CreateUpdateLabels, SaveLabels, RecordLabels, WorkingLabels, DeletingLabels
<1> QED
  BY <1>2, <1>7, <1>8, <1>11 DEF StepOK

\* Steps that are no caller's.
LEMMA EnvironmentOK ==
  ASSUME Inv, Environment
  PROVE  Inv' /\ FencedStep
<1>1. /\ StackOK /\ LocalTypes /\ DataOK /\ (\A d \in Callers : Local(d))
      /\ UNCHANGED <<callVars, lockfile, dataVars, lifeVars>>
  BY InvParts DEF Environment, LatePut, LeaseExpires, LegacyLeaseExpires, lockfileVars
<1>2. UNCHANGED <<pc, arg, tries, snap, write, objects, upd, incs>>
  BY <1>1 DEF callVars, dataVars, lifeVars
<1>3. lockfileExpired' \in BOOLEAN
  BY <1>1 DEF Environment, LatePut, LeaseExpires, LegacyLeaseExpires, lockfileVars, DataOK
<1>4. LocalTypes' /\ DataOK' /\ \A d \in Callers : SameLocal(d)
  BY <1>1, <1>2, <1>3 DEF LocalTypes, DataOK, SameLocal
<1>5. StackOK' /\ Moves /\ FencedStep
  <2>1. CASE LatePut
    <3>1. PICK w \in late : Lands(w)
      BY <2>1 DEF LatePut
    <3>2. w \in Writes /\ Ready(w)
      BY <1>1, <3>1 DEF StackOK, ObjectOK
    <3> QED
      BY <1>1, <1>2, <3>1, <3>2, LandsOK
  <2>2. CASE LeaseExpires
    <3>1. /\ stack # NoStack /\ stack.lock # NoLock /\ expired' = TRUE
          /\ UNCHANGED <<stack, etag, late>>
      BY <2>2 DEF LeaseExpires
    <3>2. Moves
      BY <3>1 DEF Moves
    <3>3. etag' \in Nat /\ expired' \in BOOLEAN
      BY <1>1, <3>1 DEF StackOK
    <3>4. \A v \in late' : v \in Writes /\ v.etag <= etag' /\ Ready(v)'
      <4>1. SUFFICES ASSUME NEW v \in late'
                     PROVE  v \in Writes /\ v.etag <= etag' /\ Ready(v)'
        OBVIOUS
      <4>2. v \in Writes /\ v.etag <= etag /\ Ready(v)
        BY <1>1, <3>1 DEF StackOK, ObjectOK
      <4> QED
        BY <1>1, <3>2, <3>3, <4>2, ReadyKept
    <3>5. StackOK'
      BY <1>1, <3>1, <3>3, <3>4 DEF StackOK, ObjectOK
    <3>6. Fenced!Expire
      BY <1>2, <3>1 DEF Fenced!Expire
    <3> QED
      BY <3>2, <3>5, <3>6 DEF FencedStep, Fenced!Next
  <2>3. CASE LegacyLeaseExpires
    BY <1>1, <1>2, <2>3, SameOK DEF LegacyLeaseExpires
  <2> QED
    BY <2>1, <2>2, <2>3 DEF Environment
<1>6. \A d \in Callers : Local(d)'
  BY <1>1, <1>4, <1>5, OthersKept
<1>7. Inv'
  BY <1>4, <1>5, <1>6 DEF Inv, PendingLegal, TypeOK, LocalTypes, StackOK, DataOK, Local,
     CommitByHolder, RenewNeverRevives
<1> QED
  BY <1>5, <1>7

\* The invariant holds initially.
LEMMA InitOK == Init => Inv
<1> SUFFICES ASSUME Init PROVE Inv
  OBVIOUS
<1>1. PICK f \in FirstStacks :
        /\ stack = f.stack /\ lockfile = f.lockfile /\ objects = f.objects
        /\ incs = IF f.stack = NoStack THEN 0 ELSE f.stack.inc
  BY DEF Init
<1>2. stack \in Stacks \cup {NoStack} /\ incs \in Nat
  BY <1>1, CallsAssumption DEF Stacks
<1>3. DataOK
  BY <1>1, <1>2, CallsAssumption DEF DataOK, Init
<1>4. StackOK
  BY <1>2 DEF StackOK, ObjectOK, Init
<1>5. LocalTypes
  <2>1. "idle" \in Labels /\ NoWrite \in EmptyWrites /\ MaxTries \in 1..MaxTries
    BY ConstantsAssumption DEF Labels, NoWrite, OnlyETag, EmptyWrites
  <2> QED
    BY <2>1 DEF LocalTypes, Init
<1>6. ASSUME NEW c \in Callers PROVE Local(c)
  <2>1. pc[c] = "idle" /\ write[c] = NoWrite /\ etag = 1
    BY DEF Init
  <2>2. write[c].etag <= etag /\ Ready(write[c])
    BY <2>1 DEF Ready, NoWrite, OnlyETag
  <2>3. CommitsAsHolder(c) /\ RenewsOwn(c)
    BY <2>1 DEF CommitsAsHolder, RenewsOwn
  <2>4. CallerOK(c)
    BY <2>1, <2>2 DEF CallerOK, CreateUpdateLabels, SaveLabels, RecordLabels, WorkingLabels,
       DeletingLabels
  <2> QED
    BY <2>1, <2>3, <2>4 DEF Local, PutLabels
<1> QED
  BY <1>3, <1>4, <1>5, <1>6, InvParts

\* The invariant is inductive.
LEMMA NextOK ==
  ASSUME Inv, [Next]_vars
  PROVE  Inv' /\ FencedStep
<1>1. CASE \E c \in Callers, a \in Calls : Invoke(c, a)
  BY <1>1, InvokeOK, StepPreserves DEF StepOK
<1>2. CASE \E c \in Callers : Request(c) /\ UNCHANGED clientVars
  BY <1>2, RequestOK, StepPreserves DEF StepOK
<1>3. CASE Environment
  BY <1>3, EnvironmentOK
<1>4. CASE UNCHANGED vars
  <2>1. /\ UNCHANGED <<objectVars, lockfileVars, objects, incs>>
        /\ UNCHANGED <<pc, arg, tries, snap, write, upd>>
    BY <1>4 DEF vars, callVars, dataVars, lifeVars
  <2>2. StackOK' /\ DataOK' /\ Moves /\ FencedStep
    BY <2>1, QuietOK
  <2>3. StackOK /\ LocalTypes /\ \A d \in Callers : Local(d)
    BY InvParts
  <2>4. LocalTypes' /\ \A d \in Callers : SameLocal(d)
    BY <2>1, <2>3 DEF LocalTypes, SameLocal
  <2>5. \A d \in Callers : Local(d)'
    BY <2>2, <2>3, <2>4, OthersKept
  <2> QED
    BY <2>2, <2>4, <2>5 DEF Inv, PendingLegal, TypeOK, LocalTypes, StackOK, DataOK, Local,
       CommitByHolder, RenewNeverRevives
<1> QED
  BY <1>1, <1>2, <1>3, <1>4 DEF Next

------------------------------------------------------------------------------
(* The theorems *)

\* Inv is an invariant: the ETag that every store call hands back with its PUT
\* of stack.json keeps any call from acting on what it read once that changed.
THEOREM Invariance == Spec => []Inv
<1>1. Init => Inv
  BY InitOK
<1>2. Inv /\ [Next]_vars => Inv'
  BY NextOK
<1> QED
  BY <1>1, <1>2, PTL DEF Spec

\* Every variable keeps its type, through crashes, late PUTs and retries.
THEOREM TypeCorrect == Spec => []TypeOK
<1>1. Inv => TypeOK
  BY DEF Inv, PendingLegal
<1> QED
  BY <1>1, Invariance, PTL

\* Every PUT of stack.json that S3 would still accept is legal.
THEOREM PendingLegality == Spec => []PendingLegal
<1>1. Inv => PendingLegal
  BY DEF Inv
<1> QED
  BY <1>1, Invariance, PTL

\* commitUpdateVersion and SaveCheckpoint take effect only for the lock's holder,
\* even if the lock is lost, expired or replaced between their GET and their PUT.
THEOREM HolderCommits == Spec => []CommitByHolder
<1>1. Inv => CommitByHolder
  BY DEF Inv
<1> QED
  BY <1>1, Invariance, PTL

\* RenewLock revives no released lock from an orphaned lock.json.
THEOREM NoRevival == Spec => []RenewNeverRevives
<1>1. Inv => RenewNeverRevives
  BY DEF Inv
<1> QED
  BY <1>1, Invariance, PTL

\* The store implements FencedStack: whatever calls interleave, stack.json
\* changes only in the ways FencedStack allows.
THEOREM Refinement == Spec => FencedSpec
<1>1. Init => Fenced!Init
  BY DEF Init, Fenced!Init
<1>2. Inv /\ [Next]_vars => [Fenced!Next]_(Fenced!fencedVars)
  BY NextOK DEF FencedStep
<1> QED
  BY <1>1, <1>2, Invariance, PTL DEF Spec, FencedSpec, Fenced!Spec

\* The ways in which stack.json changes within an incarnation.
LEMMA Changes ==
  ASSUME Inv, Inv', FencedStep, SameIncarnation, stack' # stack
  PROVE  /\ stack \in Stacks /\ stack' \in Stacks
         /\ \/ Fenced!Grants(stack, expired, stack') \/ Fenced!Renews(stack, stack')
            \/ Fenced!Releases(stack, stack') \/ Fenced!Advances(stack, stack')
            \/ Fenced!Points(stack, stack')
<1>1. stack \in Stacks /\ stack' \in Stacks
  BY DEF Inv, PendingLegal, TypeOK, SameIncarnation
<1> QED
  BY <1>1 DEF FencedStep, Fenced!Next, Fenced!fencedVars, Fenced!Create, Fenced!NewLease,
     Fenced!Release, Fenced!Commit, Fenced!Remove, Fenced!Expire, SameIncarnation

\* No generation of the lock is given out twice in an incarnation.
THEOREM FenceMonotone == Spec => FenceRises
<1> DEFINE A == SameIncarnation =>
                  /\ stack'.fence >= stack.fence
                  /\ stack'.lock \in {stack.lock, NoLock} \/ stack'.lock.gen > stack.fence
<1>1. ASSUME Inv, Inv', [Next]_vars PROVE [A]_stack
  <2> SUFFICES ASSUME SameIncarnation, stack' # stack
               PROVE  /\ stack'.fence >= stack.fence
                      /\ \/ stack'.lock \in {stack.lock, NoLock}
                         \/ stack'.lock.gen > stack.fence
    OBVIOUS
  <2>1. FencedStep
    BY <1>1, NextOK
  <2>2. stack \in Stacks /\ stack' \in Stacks
    BY <1>1, <2>1, Changes
  <2>3. /\ stack.fence \in Nat /\ stack'.fence \in Nat
        /\ stack.lock \in Locks \cup {NoLock} /\ stack'.lock \in Locks \cup {NoLock}
    BY <2>2 DEF Stacks
  <2>4. CASE Fenced!Grants(stack, expired, stack')
    <3>1. stack'.fence = stack'.lock.gen
      BY <2>2, <2>4 DEF Fenced!Grants, Fenced!Relocked, Stacks
    <3>2. stack'.lock # NoLock /\ stack'.lock.gen > stack.fence
      BY <2>4 DEF Fenced!Grants
    <3> QED
      BY <2>3, <3>1, <3>2
  <2>5. CASE Fenced!Renews(stack, stack')
    <3>1. stack.lock.gen # 0 => stack'.lock = stack.lock
      BY <2>3, <2>5 DEF Fenced!Renews, Locks
    <3> QED
      BY <2>3, <2>5, <3>1 DEF Fenced!Renews
  <2>6. CASE Fenced!Releases(stack, stack')
    BY <2>6 DEF Fenced!Releases
  <2>7. CASE Fenced!Advances(stack, stack') \/ Fenced!Points(stack, stack')
    <3>1. stack'.fence = stack.fence /\ stack'.lock = stack.lock
      BY <2>2, <2>7 DEF Fenced!Advances, Fenced!Points, Stacks
    <3> QED
      BY <2>3, <3>1
  <2> QED
    BY <1>1, <2>1, <2>4, <2>5, <2>6, <2>7, Changes
<1> QED
  BY <1>1, Invariance, PTL DEF Spec, FenceRises

\* An update never gets past a deletion fence, not even an expired one.
THEOREM TombstoneStands == Spec => TombstoneKept
<1> DEFINE A == SameIncarnation /\ DeletionFence(stack.lock) =>
                  /\ stack'.lock = NoLock \/ DeletionFence(stack'.lock)
                  /\ stack'.version = stack.version
                  /\ stack'.latest = stack.latest
                  /\ stack'.checkpoints = stack.checkpoints
<1>1. ASSUME Inv, Inv', [Next]_vars PROVE [A]_stack
  <2> SUFFICES ASSUME SameIncarnation, stack' # stack, DeletionFence(stack.lock)
               PROVE  /\ stack'.lock = NoLock \/ DeletionFence(stack'.lock)
                      /\ stack'.version = stack.version
                      /\ stack'.latest = stack.latest
                      /\ stack'.checkpoints = stack.checkpoints
    OBVIOUS
  <2>1. FencedStep
    BY <1>1, NextOK
  <2>2. stack \in Stacks /\ stack' \in Stacks /\ Fenced!Fence(stack.lock)
    BY <1>1, <2>1, Changes DEF DeletionFence, Fenced!Fence
  <2>3. \/ Fenced!Grants(stack, expired, stack') \/ Fenced!Renews(stack, stack')
        \/ Fenced!Releases(stack, stack')
    BY <1>1, <2>1, <2>2, Changes DEF Fenced!Advances, Fenced!Points, Fenced!Fence
  <2>4. PICK lock, fence : stack' = Fenced!Relocked(stack, lock, fence)
    BY <2>3 DEF Fenced!Grants, Fenced!Renews, Fenced!Releases
  <2>5. /\ stack'.version = stack.version /\ stack'.latest = stack.latest
        /\ stack'.checkpoints = stack.checkpoints
    BY <2>2, <2>4 DEF Fenced!Relocked, Stacks
  <2>6. stack'.lock = NoLock \/ DeletionFence(stack'.lock)
    BY <2>2, <2>3 DEF Fenced!Grants, Fenced!Renews, Fenced!Releases, Fenced!Fence,
       DeletionFence
  <2> QED
    BY <2>5, <2>6
<1> QED
  BY <1>1, Invariance, PTL DEF Spec, TombstoneKept

\* A change that FencedStack allows keeps the checkpoint pointers in agreement.
LEMMA PointersKept ==
  ASSUME Inv, Inv', FencedStep, LatestIsNewest
  PROVE  LatestIsNewest'
<1> SUFFICES ASSUME stack' # NoStack PROVE PointersAgree(stack')
  BY DEF LatestIsNewest
<1>1. stack' \in Stacks /\ (stack # NoStack => stack \in Stacks /\ PointersAgree(stack))
  BY DEF Inv, PendingLegal, TypeOK, LatestIsNewest
<1>2. CASE stack' = stack
  BY <1>1, <1>2
<1>3. CASE Fenced!Create
  BY <1>1, <1>2, <1>3 DEF Fenced!Create, Fenced!Blank, PointersAgree
<1>4. ASSUME stack # NoStack, NEW lock, NEW fence, stack' = Fenced!Relocked(stack, lock, fence)
      PROVE  PointersAgree(stack')
  <2>1. /\ stack'.version = stack.version /\ stack'.latest = stack.latest
        /\ stack'.checkpoints = stack.checkpoints
    BY <1>1, <1>4 DEF Fenced!Relocked, Stacks
  <2> QED
    BY <1>1, <1>4, <2>1 DEF PointersAgree
<1>5. CASE Fenced!NewLease \/ Fenced!Release
  BY <1>4, <1>5 DEF Fenced!NewLease, Fenced!Release, Fenced!Grants, Fenced!Renews,
     Fenced!Releases
<1>6. CASE Fenced!Commit /\ Fenced!Advances(stack, stack')
  <2>1. /\ stack # NoStack /\ stack.version \in Nat /\ stack'.version = stack.version + 1
        /\ stack'.latest = stack.latest /\ stack'.checkpoints = stack.checkpoints
        /\ stack.checkpoints \subseteq Nat \X CheckpointKeys
    BY <1>1, <1>6 DEF Fenced!Commit, Fenced!Advances, Stacks
  <2>2. \A p \in stack'.checkpoints : p[1] \in Nat /\ p[1] <= stack.version
    BY <1>1, <2>1 DEF PointersAgree
  <2>3. \A p \in stack'.checkpoints : p[1] <= stack'.version
    BY <2>1, <2>2
  <2> QED
    BY <1>1, <2>1, <2>3 DEF PointersAgree
<1>7. CASE Fenced!Commit /\ Fenced!Points(stack, stack')
  <2> DEFINE v == stack.version
             new == <<v, stack'.latest>>
  <2>1. /\ stack # NoStack /\ v \in Nat /\ stack'.version = v
        /\ stack.checkpoints \subseteq Nat \X CheckpointKeys
        /\ stack'.checkpoints = {p \in stack.checkpoints : p[1] # v} \cup {new}
    BY <1>1, <1>7 DEF Fenced!Commit, Fenced!Points, Stacks
  <2>2. \A p \in stack.checkpoints : p[1] \in Nat /\ p[1] <= v
    BY <1>1, <2>1 DEF PointersAgree
  <2>3. new[1] = v /\ new[2] = stack'.latest
    OBVIOUS
  <2>4. \A p \in stack'.checkpoints : p[1] \in Nat /\ p[1] <= v /\ (p[1] = v => p = new)
    BY <2>1, <2>2, <2>3
  <2>5. \A p, q \in stack'.checkpoints : p[1] = q[1] => p = q
    <3> SUFFICES ASSUME NEW p \in stack'.checkpoints, NEW q \in stack'.checkpoints, p[1] = q[1]
                 PROVE  p = q
      OBVIOUS
    <3>1. CASE p[1] = v
      BY <2>4, <3>1
    <3>2. CASE p[1] # v
      BY <1>1, <2>1, <2>3, <3>2 DEF PointersAgree
    <3> QED
      BY <3>1, <3>2
  <2>6. new \in stack'.checkpoints
    BY <2>1
  <2>7. ASSUME NEW p \in stack'.checkpoints, \A q \in stack'.checkpoints : q[1] <= p[1]
        PROVE  stack'.latest = p[2]
    <3>1. new[1] <= p[1]
      BY <2>6, <2>7
    <3>2. v <= p[1] /\ p[1] <= v /\ p[1] \in Nat /\ v \in Nat
      BY <2>1, <2>3, <2>4, <2>7, <3>1
    <3>3. p[1] = v
      BY <3>2
    <3> QED
      BY <2>3, <2>4, <2>7, <3>3
  <2> QED
    BY <2>1, <2>4, <2>5, <2>6, <2>7 DEF PointersAgree
<1> QED
  BY <1>2, <1>3, <1>5, <1>6, <1>7 DEF FencedStep, Fenced!Next, Fenced!fencedVars,
     Fenced!Commit, Fenced!Remove, Fenced!Expire

\* GetCheckpoint's pointer is that of the newest version, for any number of
\* clients and versions.
THEOREM LatestPointer == Spec => []LatestIsNewest
<1>1. Init => LatestIsNewest
  BY FirstAssumption DEF Init, LatestIsNewest
<1>2. Inv /\ Inv' /\ LatestIsNewest /\ [Next]_vars => LatestIsNewest'
  BY NextOK, PointersKept
<1> QED
  BY <1>1, <1>2, Invariance, PTL DEF Spec
==============================================================================
