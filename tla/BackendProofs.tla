---------------------------- MODULE BackendProofs ----------------------------
(***************************************************************************)
(* The handlers of Backend use the store only through its calls: whatever  *)
(* they do is a behaviour of StackStore, so that what StackStoreProofs     *)
(* shows of stack.json holds under them, for any requests, any number of   *)
(* callers and any failures.                                               *)
(***************************************************************************)
EXTENDS Backend, StackStoreProofs

\* What a step of a handler is to the store: the start of a call, or nothing.
Uses(c) == (\E a \in Calls : Invoke(c, a)) \/ UNCHANGED vars

\* A handler that makes a call starts one of the store's calls.
LEMMA CallUses ==
  \A c, label, op, m : Call(c, label, op, m) => Uses(c)
BY DEF Call, Issue, Uses

\* A handler that answers leaves the store alone.
LEMMA AnswerUses ==
  \A c, what : Answer(c, what) => Uses(c)
BY DEF Answer, Uses

\* Both together, for the ways in which handlers end.
LEMMA EndUses ==
  /\ \A c : Fails(c) => Uses(c)
  /\ \A c, what : Succeeds(c, what) => Uses(c)
  /\ \A c, m : ReleaseOnExit(c, m) => Uses(c)
BY CallUses, AnswerUses DEF Fails, Succeeds, ReleaseOnExit

\* Every step of the handlers of updates.go uses the store through calls only.
LEMMA UpdateHandlersUse ==
  ASSUME NEW c \in Callers,
         \/ createUpdate(c) \/ startUpdate(c) \/ saveCheckpointForUpdate(c)
         \/ releaseUpdateLock(c) \/ completeUpdate(c) \/ renewLease(c) \/ cancelUpdate(c)
  PROVE  Uses(c)
<1>1. CASE createUpdate(c)
  BY <1>1, CallUses, EndUses DEF createUpdate, Replay, Abandon
<1>2. CASE startUpdate(c)
  BY <1>2, CallUses, AnswerUses, EndUses DEF startUpdate
<1>3. CASE saveCheckpointForUpdate(c)
  BY <1>3, CallUses, EndUses DEF saveCheckpointForUpdate
<1>4. CASE releaseUpdateLock(c)
  BY <1>4, EndUses DEF releaseUpdateLock
<1>5. CASE completeUpdate(c)
  BY <1>5, CallUses, EndUses DEF completeUpdate, CompleteAgain
<1>6. CASE renewLease(c)
  BY <1>6, CallUses, AnswerUses, EndUses DEF renewLease
<1>7. CASE cancelUpdate(c)
  BY <1>7, CallUses, EndUses DEF cancelUpdate
<1> QED
  BY <1>1, <1>2, <1>3, <1>4, <1>5, <1>6, <1>7

\* Every step of the handlers of stacks.go, and of those that only read.
LEMMA StackHandlersUse ==
  ASSUME NEW c \in Callers,
         \/ createStack(c) \/ rollbackFailedStackCreation(c) \/ deleteStack(c)
         \/ importStack(c) \/ getStack(c) \/ exportStack(c) \/ getUpdateStatus(c) \/ Exit(c)
  PROVE  Uses(c)
<1>1. CASE createStack(c)
  <2>1. \A label, a, m : Issue(c, label, a, m) => Uses(c)
    BY DEF Issue, Uses
  <2> QED
    BY <1>1, <2>1, CallUses, AnswerUses, EndUses DEF createStack
<1>2. CASE rollbackFailedStackCreation(c)
  BY <1>2, CallUses, EndUses DEF rollbackFailedStackCreation
<1>3. CASE deleteStack(c)
  BY <1>3, CallUses, EndUses DEF deleteStack, Deleted
<1>4. CASE importStack(c)
  BY <1>4, CallUses, EndUses DEF importStack
<1>5. CASE getStack(c) \/ exportStack(c) \/ getUpdateStatus(c) \/ Exit(c)
  BY <1>5, CallUses, AnswerUses, EndUses DEF getStack, exportStack, getUpdateStatus, Exit
<1> QED
  BY <1>1, <1>2, <1>3, <1>4, <1>5

\* Every step of the backend is a step of the store or a stutter.
LEMMA BackendStep == [BackendNext]_backendVars => [Next]_vars
<1> SUFFICES ASSUME [BackendNext]_backendVars PROVE [Next]_vars
  OBVIOUS
<1>1. ASSUME NEW c \in Callers, Uses(c) PROVE [Next]_vars
  BY <1>1 DEF Uses, Next
<1>2. CASE \E c \in Callers, r \in Requests : Arrive(c, r)
  BY <1>1, <1>2 DEF Arrive, Issue, Uses
<1>3. ASSUME NEW c \in Callers, Progress(c) PROVE [Next]_vars
  <2>1. CASE Handle(c)
    BY <1>1, <2>1, UpdateHandlersUse, StackHandlersUse DEF Handle
  <2>2. CASE CallStep(c)
    BY <2>2 DEF CallStep, Next, clientVars
  <2> QED
    BY <1>3, <2>1, <2>2 DEF Progress
<1>4. CASE Environment /\ UNCHANGED <<clientVars, todo, handlerVars, acks, faults, setting>>
  BY <1>4 DEF Next
<1>5. CASE UNCHANGED backendVars
  BY <1>5 DEF backendVars
<1> QED
  BY <1>2, <1>3, <1>4, <1>5 DEF BackendNext

\* The handlers make store calls and nothing else: under any requests and any
\* failures they drive the store through behaviours of StackStore.
THEOREM UsesStore == BackendSpec => Spec
<1>1. BackendInit => Init
  BY DEF BackendInit
<1> QED
  BY <1>1, BackendStep, PTL DEF BackendSpec, Spec

\* Whatever the handlers do, stack.json is a fenced stack: leases are taken and
\* given up, versions advance and checkpoints are set as FencedStack allows.
THEOREM BackendFenced == BackendSpec => FencedSpec
BY UsesStore, Refinement, PTL

\* Whatever the handlers do, a version or checkpoint PUT that S3 would still
\* accept belongs to the lock's holder, and exports serve the newest version.
THEOREM BackendCommits == BackendSpec => [](CommitByHolder /\ LatestIsNewest)
BY UsesStore, HolderCommits, LatestPointer, PTL
==============================================================================
