------------------------- MODULE StackObjectsProofs --------------------------
(***************************************************************************)
(* The steps that write, read and delete checkpoints, and those that       *)
(* create and delete the stack, keep the invariant of StackStore.          *)
(***************************************************************************)
EXTENDS StackStepProofs

------------------------------------------------------------------------------
(* Checkpoints *)

\* The arguments of SaveCheckpoint.
LEMMA SaveArgs ==
  ASSUME NEW c \in Callers, Local(c), pc[c] \in SaveLabels
  PROVE  /\ arg[c].id \notin DeletionIDs /\ arg[c].inc \in Nat
         /\ arg[c].version \in Nat /\ arg[c].data \in Deployments
<1>1. arg[c] \in Calls /\ arg[c].op = "save"
  BY DEF Local, CallerOK, SaveLabels
<1>2. arg[c] \in AllCalls /\ arg[c].id \notin DeletionIDs
  BY <1>1, CallsAssumption
<1> QED
  BY <1>2 DEF AllCalls

\* Writing an object that is no update record.
LEMMA PutDataOK ==
  ASSUME DataOK, NEW inc, NEW key, NEW val, \A id \in LockIDs : key # UpdateKey(id),
         objects' = objects \/ objects' = Put(Object(inc, key, val)),
         UNCHANGED <<lockfileVars, incs>>
  PROVE  DataOK'
<1> DEFINE new == Object(inc, key, val)
<1>1. new.key = key
  BY DEF Object
<1> HIDE DEF new
<1>2. \A o \in Put(new) : o \in objects \/ o = new
  BY DEF Put
<1>3. \A o \in objects' : o \in objects \/ o = new
  BY <1>2 DEF new
<1> QED
  BY <1>1, <1>3 DEF DataOK, lockfileVars

\* SaveCheckpoint's first GET keeps the invariant.
LEMMA SaveStackOK ==
  ASSUME Inv, NEW c \in Callers, SaveStack(c), UNCHANGED lifeVars
  PROVE  StepOK(c)
<1>1. /\ StackOK /\ LocalTypes /\ Local(c) /\ pc[c] = "save.stack"
      /\ UNCHANGED <<objectVars, lockfileVars, objects, incs, upd>> /\ etag' \in Nat
  BY InvParts DEF SaveStack, dataVars, lifeVars, objectVars, StackOK
<1>2. StackOK' /\ DataOK' /\ Moves /\ FencedStep
  BY <1>1, QuietOK
<1>3. LocalTypes' /\ Others(c) /\ Local(c)'
  <2>1. CASE \E err, val : Return(c, err, val)
    BY <1>1, <2>1, ReturnOK DEF UpdReset
  <2>2. CASE Step(c, "save.object")
    <3>1. /\ SameCall(c, "save.object") /\ "save.object" \notin PutLabels
          /\ "save.object" \notin DeletingLabels /\ "save.object" \notin WorkingLabels
      BY <1>1 DEF SameCall, Labels, PutLabels, CreateUpdateLabels, SaveLabels,
         RecordLabels, DeletingLabels, WorkingLabels
    <3> QED
      BY <1>1, <2>2, <3>1, StepLocalOK DEF UpdKept
  <2> QED
    BY <2>1, <2>2 DEF SaveStack
<1> QED
  BY <1>2, <1>3 DEF StepOK

\* The PUTs of the deployment and of its copies.
LEMMA SaveDataOK ==
  ASSUME Inv, NEW c \in Callers, SaveObject(c) \/ SaveHistory(c) \/ SaveLatest(c),
         UNCHANGED lifeVars
  PROVE  StepOK(c)
<1>1. /\ StackOK /\ LocalTypes /\ Local(c) /\ DataOK
      /\ pc[c] \in {"save.object", "save.history", "save.latest"}
      /\ UNCHANGED <<objectVars, lockfileVars, incs, upd>> /\ etag' \in Nat
  BY InvParts DEF SaveObject, SaveHistory, SaveLatest, lifeVars, objectVars, StackOK
<1>2. StackOK' /\ Moves /\ FencedStep
  BY <1>1, SameOK
<1>3. DataOK'
  <2>1. \A x : \A id \in LockIDs : /\ CheckpointKey(x) # UpdateKey(id)
                                   /\ HistoryKey(x) # UpdateKey(id)
                                   /\ LatestKey # UpdateKey(id)
    BY DEF CheckpointKey, HistoryKey, LatestKey, UpdateKey
  <2>2. CASE SaveObject(c)
    BY <1>1, <2>1, <2>2, PutDataOK DEF SaveObject
  <2>3. CASE SaveHistory(c)
    BY <1>1, <2>1, <2>3, PutDataOK DEF SaveHistory
  <2>4. CASE SaveLatest(c)
    BY <1>1, <2>1, <2>4, PutDataOK DEF SaveLatest
  <2> QED
    BY <2>2, <2>3, <2>4
<1>4. LocalTypes' /\ Others(c) /\ Local(c)'
  <2>1. CASE \E err, val : Return(c, err, val)
    BY <1>1, <2>1, ReturnOK DEF UpdReset
  <2>2. ASSUME NEW label \in {"save.get", "save.latest"}, Step(c, label)
        PROVE  LocalTypes' /\ Others(c) /\ Local(c)'
    <3>1. /\ SameCall(c, label) /\ label \notin PutLabels
          /\ label \notin DeletingLabels /\ label \notin WorkingLabels
      BY <1>1 DEF SameCall, Labels, PutLabels, CreateUpdateLabels, SaveLabels,
         RecordLabels, DeletingLabels, WorkingLabels
    <3> QED
      BY <1>1, <2>2, <3>1, StepLocalOK DEF UpdKept
  <2> QED
    BY <2>1, <2>2 DEF SaveObject, SaveHistory, SaveLatest
<1> QED
  BY <1>2, <1>3, <1>4 DEF StepOK

\* Setting the checkpoint of the current version.
LEMMA PointedLegal ==
  ASSUME NEW st \in Stacks, NEW data \in Deployments,
         IF st.lock = NoLock THEN st.version = 0 ELSE ~Fenced!Fence(st.lock)
  PROVE  LET new == Pointed(st, st.version, <<st.inc, data>>)
         IN  new \in Stacks /\ Fenced!Points(st, new)
<1> DEFINE key == <<st.inc, data>>
           points == {p \in st.checkpoints : p[1] # st.version} \cup {<<st.version, key>>}
           new == Pointed(st, st.version, key)
<1> SUFFICES new \in Stacks /\ Fenced!Points(st, new)
  OBVIOUS
<1>1. /\ st.inc \in Nat /\ st.version \in Nat
      /\ st.checkpoints \in SUBSET (Nat \X CheckpointKeys)
  BY DEF Stacks
<1>2. key \in CheckpointKeys /\ key # NoData /\ key[1] = st.inc
  BY <1>1, ConstantsAssumption DEF CheckpointKeys
<1> HIDE DEF key
<1>3. points \in SUBSET (Nat \X CheckpointKeys)
  BY <1>1, <1>2
<1>4. new = [st EXCEPT !.latest = key, !.checkpoints = points]
  BY DEF Pointed
<1>5. new \in Stacks /\ new.latest = key
  <2> HIDE DEF points
  <2> QED
    BY <1>2, <1>3, <1>4 DEF Stacks
<1>6. Fenced!Points(st, new)
  <2>1. new = [st EXCEPT !.latest = new.latest,
                         !.checkpoints = {p \in @ : p[1] # st.version}
                                           \cup {<<st.version, new.latest>>}]
    BY <1>5 DEF Pointed
  <2> HIDE DEF new
  <2> QED
    BY <1>2, <1>5, <2>1 DEF Fenced!Points
<1> QED
  BY <1>5, <1>6

\* So does the GET on which it decides.
LEMMA SaveGetOK ==
  ASSUME Inv, NEW c \in Callers, SaveGet(c), UNCHANGED lifeVars
  PROVE  StepOK(c)
<1>1. /\ StackOK /\ LocalTypes /\ Local(c) /\ pc[c] = "save.get"
      /\ UNCHANGED <<objectVars, lockfileVars, objects, incs, upd>> /\ etag' \in Nat
  BY InvParts DEF SaveGet, dataVars, lifeVars, objectVars, StackOK
<1>2. StackOK' /\ DataOK' /\ Moves /\ FencedStep
  BY <1>1, QuietOK
<1>3. LocalTypes' /\ Others(c) /\ Local(c)'
  <2> DEFINE seed == arg[c].id = NoID
             new == Pointed(stack, arg[c].version, <<arg[c].inc, arg[c].data>>)
  <2>1. CASE \E err, val : Return(c, err, val)
    BY <1>1, <2>1, ReturnOK DEF UpdReset
  <2>2. ASSUME stack # NoStack, stack.inc = arg[c].inc, NEW exp,
               IF seed THEN Untouched(c) ELSE OwnsCheckpoint(c, exp),
               Prepare(c, "save.put", etag, new, FALSE)
        PROVE  LocalTypes' /\ Others(c) /\ Local(c)'
    <3>1. stack \in Stacks /\ etag \in Nat /\ etag <= etag
      <4>1. stack \in Stacks \cup {NoStack} /\ etag \in Nat
        BY <1>1 DEF StackOK
      <4>2. stack # NoStack
        BY <2>2
      <4> QED
        BY <4>1, <4>2
    <3>2. arg[c].id \notin DeletionIDs /\ arg[c].data \in Deployments
      BY <1>1, SaveArgs DEF SaveLabels
    <3>3. /\ stack.version = arg[c].version
          /\ IF seed THEN stack.lock = NoLock /\ stack.version = 0
                     ELSE HoldsFor(arg[c].id, arg[c].gen)
      BY <2>2 DEF Untouched, OwnsCheckpoint, HoldsFor
    <3>4. IF stack.lock = NoLock THEN stack.version = 0 ELSE ~Fenced!Fence(stack.lock)
      BY <3>2, <3>3 DEF HoldsFor, Fenced!Fence
    <3>5. new = Pointed(stack, stack.version, <<stack.inc, arg[c].data>>)
      BY <2>2, <3>3
    <3> HIDE DEF new
    <3>6. new \in Stacks /\ Fenced!Points(stack, new)
      BY <3>1, <3>2, <3>4, <3>5, PointedLegal
    <3>7. Legal([etag |-> etag, body |-> new, renews |-> FALSE], stack, expired)
      BY <3>6 DEF Legal
    <3>8. /\ SameCall(c, "save.put") /\ "save.put" \in PutLabels
          /\ "save.put" \notin WorkingLabels
      BY <1>1 DEF SameCall, Labels, PutLabels, CreateUpdateLabels, SaveLabels,
         RecordLabels, WorkingLabels
    <3> QED
      BY <1>1, <2>2, <3>1, <3>3, <3>6, <3>7, <3>8, PrepareLocalOK
  <2> QED
    BY <2>1, <2>2 DEF SaveGet
<1> QED
  BY <1>2, <1>3 DEF StepOK

\* So does the PUT of the pointers.
LEMMA SavePutOK ==
  ASSUME Inv, NEW c \in Callers, SavePut(c), UNCHANGED lifeVars
  PROVE  StepOK(c)
<1>1. /\ StackOK /\ LocalTypes /\ Local(c) /\ DataOK /\ pc[c] = "save.put"
      /\ UNCHANGED <<lockfileVars, objects, incs, upd>>
  BY InvParts DEF SavePut, dataVars, lifeVars
<1>2. write[c] \in Writes /\ Ready(write[c]) /\ write[c].etag <= etag
  BY <1>1 DEF Local, CallerOK, LocalTypes, PutLabels, EmptyWrites
<1>3. DataOK'
  BY <1>1 DEF DataOK, lockfileVars
<1>4. StackOK' /\ Moves /\ FencedStep
  BY <1>1, <1>2, LandsOK, RefusedOK, AbandonedOK DEF SavePut
<1>5. etag' \in Nat
  BY <1>4 DEF StackOK
<1>6. LocalTypes' /\ Others(c) /\ Local(c)'
  <2>1. CASE \E err, val : Return(c, err, val)
    BY <1>1, <1>5, <2>1, ReturnOK DEF UpdReset
  <2>2. CASE NextRound(c, "save.get")
    BY <1>1, <1>5, <2>2, NextRoundOK
  <2>3. CASE /\ Goto(c, "save.history")
             /\ write' = [write EXCEPT ![c] = NoWrite]
             /\ UNCHANGED <<arg, tries, snap>>
    <3>1. NoWrite \in EmptyWrites /\ "save.history" \in Labels
      BY DEF NoWrite, OnlyETag, EmptyWrites, Labels
    <3>2. LocalTypes'
      BY <1>1, <2>3, <3>1 DEF LocalTypes, Goto
    <3>3. Others(c)
      BY <1>1, <2>3 DEF LocalTypes, Goto, Others, SameLocal
    <3>4. pc'[c] = "save.history" /\ write'[c] = NoWrite /\ arg'[c] = arg[c]
      BY <1>1, <2>3 DEF LocalTypes, Goto
    <3>5. Local(c)'
      <4>1. arg[c] \in Calls /\ arg[c].op = "save"
        BY <1>1 DEF Local, CallerOK, SaveLabels
      <4> QED
        BY <1>5, <3>4, <4>1, NoWriteLocalOK DEF PutLabels, CreateUpdateLabels, SaveLabels,
           RecordLabels, WorkingLabels, DeletingLabels
    <3> QED
      BY <3>2, <3>3, <3>5
  <2> QED
    BY <2>1, <2>2, <2>3 DEF SavePut
<1> QED
  BY <1>3, <1>4, <1>6 DEF StepOK

\* The reads of GetStack, GetCheckpoint and GetCheckpointVersion keep the invariant.
LEMMA GetCheckpointOK ==
  ASSUME Inv, NEW c \in Callers, GetCheckpointStep(c), UNCHANGED lifeVars
  PROVE  StepOK(c)
<1>1. /\ StackOK /\ LocalTypes /\ Local(c) /\ pc[c] \in {"read.stack", "read.object"}
      /\ UNCHANGED <<objectVars, lockfileVars, objects, incs, upd>> /\ etag' \in Nat
  BY InvParts DEF GetCheckpointStep, ReadStack, ReadObject, dataVars, lifeVars,
     objectVars, StackOK
<1>2. StackOK' /\ DataOK' /\ Moves /\ FencedStep
  BY <1>1, QuietOK
<1>3. LocalTypes' /\ Others(c) /\ Local(c)'
  <2>1. CASE \E err, val : Return(c, err, val)
    BY <1>1, <2>1, ReturnOK DEF UpdReset
  <2>2. CASE stack # NoStack /\ Read(c, "read.object")
    <3>1. /\ SameCall(c, "read.object") /\ "read.object" \notin PutLabels
          /\ "read.object" \notin DeletingLabels /\ "read.object" \notin WorkingLabels
      BY <1>1 DEF SameCall, Labels, PutLabels, CreateUpdateLabels, SaveLabels,
         RecordLabels, DeletingLabels, WorkingLabels
    <3> QED
      BY <1>1, <2>2, <3>1, ReadLocalOK
  <2> QED
    BY <2>1, <2>2 DEF GetCheckpointStep, ReadStack, ReadObject
<1> QED
  BY <1>2, <1>3 DEF StepOK

------------------------------------------------------------------------------
(* Creation and deletion *)

\* stack.json is replaced or removed, and every PUT prepared before dies.
LEMMA ReplacedOK ==
  ASSUME StackOK, stack' \in Stacks \cup {NoStack}, etag' = etag + 1,
         expired' = FALSE, late' = {}
  PROVE  StackOK' /\ Moves
<1>1. etag \in Nat /\ etag' \in Nat /\ etag' > etag
  BY DEF StackOK
<1>2. ObjectOK'
  <2>1. \A w \in late' : FALSE
    OBVIOUS
  <2>2. ~expired'
    OBVIOUS
  <2> QED
    BY <2>1, <2>2 DEF ObjectOK
<1>3. \A w \in late' : w \in Writes
  OBVIOUS
<1> QED
  BY <1>1, <1>2, <1>3 DEF StackOK, Moves

\* CreateStack keeps the invariant.
LEMMA CreateStackOK ==
  ASSUME Inv, NEW c \in Callers, CreateStack(c)
  PROVE  StepOK(c)
<1>1. /\ StackOK /\ LocalTypes /\ Local(c) /\ DataOK /\ incs \in Nat /\ etag \in Nat
      /\ UNCHANGED <<lockfileVars, objects, upd>> /\ incs' = incs + 1
  BY InvParts DEF CreateStack, dataVars, DataOK, StackOK
<1>2. DataOK'
  BY <1>1 DEF DataOK, lockfileVars
<1>3. StackOK' /\ Moves /\ FencedStep
  <2>1. CASE UNCHANGED objectVars
    <3>1. UNCHANGED <<stack, etag, expired, late>>
      BY <2>1 DEF objectVars
    <3>2. \A v : Ready(v)' <=> Ready(v)
      BY <3>1 DEF Ready
    <3>3. StackOK' /\ Moves
      BY <1>1, <3>1, <3>2 DEF StackOK, ObjectOK, Moves
    <3>4. Fenced!Create
      BY <1>1, <3>1 DEF Fenced!Create
    <3> QED
      BY <3>3, <3>4 DEF FencedStep, Fenced!Next
  <2>2. CASE /\ stack = NoStack /\ stack' = NewStack(incs + 1) /\ etag' = etag + 1
             /\ expired' = FALSE /\ late' = {}
    <3>1. NewStack(incs + 1) \in Stacks /\ NewStack(incs + 1) = Fenced!Blank(incs + 1)
      BY <1>1 DEF NewStack, Stacks, Fenced!Blank
    <3>2. StackOK' /\ Moves
      BY <1>1, <2>2, <3>1, ReplacedOK
    <3>3. Fenced!Create
      BY <1>1, <2>2, <3>1 DEF Fenced!Create
    <3> QED
      BY <3>2, <3>3 DEF FencedStep, Fenced!Next
  <2> QED
    BY <2>1, <2>2 DEF CreateStack
<1>4. LocalTypes' /\ Others(c) /\ Local(c)'
  <2>1. \E err, val : Return(c, err, val)
    BY DEF CreateStack
  <2> QED
    BY <1>1, <1>3, <2>1, ReturnOK DEF UpdReset, StackOK
<1> QED
  BY <1>2, <1>3, <1>4 DEF StepOK

\* The steps of DeleteStack that read or check.
LEMMA DeleteReadOK ==
  ASSUME Inv, NEW c \in Callers,
         DeleteGet(c) \/ DeleteList(c) \/ DeleteValidate(c) \/ DeleteRelist(c)
  PROVE  StepOK(c)
<1>1. /\ StackOK /\ LocalTypes /\ Local(c) /\ etag' \in Nat
      /\ UNCHANGED <<objectVars, lockfileVars, objects, incs, upd>>
  BY InvParts DEF DeleteGet, DeleteList, DeleteValidate, DeleteRelist, dataVars,
     objectVars, StackOK
<1>2. StackOK' /\ DataOK' /\ Moves /\ FencedStep
  BY <1>1, QuietOK
<1>3. LocalTypes' /\ Others(c) /\ Local(c)'
  <2>1. CASE \E err : Quit(c, err)
    BY <1>1, <2>1, ReturnOK DEF UpdReset, Quit
  <2>2. CASE /\ pc[c] = "delete.get" /\ stack # NoStack
             /\ OwnFence(c) /\ Read(c, "delete.list")
    <3>1. /\ SameCall(c, "delete.list") /\ "delete.list" \notin PutLabels
          /\ "delete.list" \notin WorkingLabels /\ DeletionFence(stack.lock)
      BY <2>2 DEF SameCall, Labels, PutLabels, CreateUpdateLabels, SaveLabels,
         RecordLabels, WorkingLabels, OwnFence
    <3> QED
      BY <1>1, <2>2, <3>1, ReadLocalOK
  <2>3. ASSUME NEW label \in DeletingLabels, Step(c, label), pc[c] \in DeletingLabels
        PROVE  LocalTypes' /\ Others(c) /\ Local(c)'
    <3>1. /\ SameCall(c, label) /\ label \notin PutLabels
          /\ label \notin WorkingLabels /\ label \notin {"lock.legacy", "record.get"}
      BY <2>3 DEF SameCall, Labels, PutLabels, CreateUpdateLabels, SaveLabels,
         RecordLabels, WorkingLabels, DeletingLabels
    <3> QED
      BY <1>1, <2>3, <3>1, StepLocalOK DEF UpdKept
  <2>4. CASE DeleteGet(c)
    BY <2>1, <2>2, <2>4 DEF DeleteGet
  <2>5. CASE DeleteList(c)
    BY <2>1, <2>3, <2>5 DEF DeleteList, DeletingLabels
  <2>6. CASE DeleteValidate(c)
    BY <2>1, <2>3, <2>6 DEF DeleteValidate, DeletingLabels
  <2>7. CASE DeleteRelist(c)
    BY <2>1, <2>3, <2>7 DEF DeleteRelist, DeletingLabels
  <2> QED
    BY <2>4, <2>5, <2>6, <2>7
<1> QED
  BY <1>2, <1>3 DEF StepOK

\* A batch of DeleteObjects, complete or not, keeps the invariant.
LEMMA DeleteBatchOK ==
  ASSUME Inv, NEW c \in Callers, DeleteBatch(c)
  PROVE  StepOK(c)
<1>1. /\ StackOK /\ LocalTypes /\ Local(c) /\ DataOK /\ pc[c] = "delete.batch"
      /\ etag' \in Nat /\ UNCHANGED <<objectVars, lockfileExpired, incs, upd>>
  BY InvParts DEF DeleteBatch, objectVars, StackOK
<1>2. StackOK' /\ Moves /\ FencedStep
  BY <1>1, SameOK
<1>3. DataOK'
  <2>1. (\A o \in objects' : o \in objects) /\ lockfile' \in {lockfile, NoLock}
    BY DEF DeleteBatch
  <2> QED
    BY <1>1, <2>1 DEF DataOK
<1>4. LocalTypes' /\ Others(c) /\ Local(c)'
  <2>1. CASE \E err : Quit(c, err)
    BY <1>1, <2>1, ReturnOK DEF UpdReset, Quit
  <2>2. ASSUME NEW label \in {"delete.relist", "delete.validate"}, Step(c, label)
        PROVE  LocalTypes' /\ Others(c) /\ Local(c)'
    <3>1. /\ SameCall(c, label) /\ label \notin PutLabels
          /\ label \notin WorkingLabels /\ pc[c] \in DeletingLabels
      BY <1>1 DEF SameCall, Labels, PutLabels, CreateUpdateLabels, SaveLabels,
         RecordLabels, WorkingLabels, DeletingLabels
    <3> QED
      BY <1>1, <2>2, <3>1, StepLocalOK DEF UpdKept
  <2> QED
    BY <2>1, <2>2 DEF DeleteBatch
<1> QED
  BY <1>2, <1>3, <1>4 DEF StepOK

\* The removal of stack.json keeps the invariant.
LEMMA DeleteStackObjectOK ==
  ASSUME Inv, NEW c \in Callers, DeleteStackObject(c)
  PROVE  StepOK(c)
<1>1. /\ StackOK /\ LocalTypes /\ Local(c) /\ DataOK /\ pc[c] = "delete.stack"
      /\ UNCHANGED <<lockfileVars, objects, incs, upd>>
  BY InvParts DEF DeleteStackObject, dataVars
<1>2. DataOK'
  BY <1>1 DEF DataOK, lockfileVars
<1>3. StackOK' /\ Moves /\ FencedStep
  <2>1. CASE UNCHANGED objectVars
    BY <1>1, <2>1, SameOK
  <2>2. CASE /\ stack # NoStack /\ write[c].etag = etag
             /\ stack' = NoStack /\ etag' = etag + 1 /\ expired' = FALSE /\ late' = {}
    <3>1. Fenced!Fence(stack.lock)
      BY <1>1, <2>2 DEF Local, CallerOK, DeletingLabels, DeletionFence, Fenced!Fence
    <3>2. Fenced!Remove
      BY <1>1, <2>2, <3>1 DEF Fenced!Remove
    <3>3. StackOK' /\ Moves
      BY <1>1, <2>2, ReplacedOK
    <3> QED
      BY <3>2, <3>3 DEF FencedStep, Fenced!Next
  <2> QED
    BY <2>1, <2>2 DEF DeleteStackObject
<1>4. LocalTypes' /\ Others(c) /\ Local(c)'
  <2>1. \E err : Quit(c, err)
    BY DEF DeleteStackObject
  <2> QED
    BY <1>1, <1>3, <2>1, ReturnOK DEF UpdReset, Quit, StackOK
<1> QED
  BY <1>2, <1>3, <1>4 DEF StepOK
==============================================================================
