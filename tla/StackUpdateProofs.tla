-------------------------- MODULE StackUpdateProofs --------------------------
(***************************************************************************)
(* The steps of CreateUpdate, GetUpdate, StartUpdate and CompleteUpdate    *)
(* keep the invariant of StackStore.                                       *)
(***************************************************************************)
EXTENDS StackStepProofs

\* A failing CreateUpdate returns, or goes on to delete its record.
LEMMA FailOK ==
  ASSUME LocalTypes, NEW c \in Callers, Local(c), NEW err, NEW val, Fail(c, err, val),
         pc[c] \in CreateUpdateLabels \ {"update.get"}, etag' \in Nat
  PROVE  LocalTypes' /\ Others(c) /\ Local(c)'
<1>1. CASE Finish(c, err, val)
  BY <1>1, ReturnOK DEF Finish, UpdReset
<1>2. CASE /\ Goto(c, "update.rollback")
           /\ snap' = [snap EXCEPT ![c] = NoStack]
           /\ write' = [write EXCEPT ![c] = NoWrite]
           /\ UNCHANGED <<arg, tries, upd>>
  <2>1. NoWrite \in EmptyWrites /\ "update.rollback" \in Labels
    BY DEF NoWrite, OnlyETag, EmptyWrites, Labels
  <2>2. LocalTypes'
    BY <1>2, <2>1 DEF LocalTypes, Goto
  <2>3. Others(c)
    BY <1>2 DEF LocalTypes, Goto, Others, SameLocal
  <2>4. /\ pc'[c] = "update.rollback" /\ write'[c] = NoWrite
        /\ arg'[c] = arg[c] /\ upd'[c] = upd[c]
    BY <1>2 DEF LocalTypes, Goto
  <2>5. arg[c] \in Calls /\ arg[c].op = "createUpdate" /\ upd[c] \in Working
    BY DEF Local, CallerOK, WorkingLabels, CreateUpdateLabels
  <2>6. Local(c)'
    BY <2>4, <2>5, NoWriteLocalOK DEF PutLabels, CreateUpdateLabels, SaveLabels,
       RecordLabels, WorkingLabels, DeletingLabels
  <2> QED
    BY <2>2, <2>3, <2>6
<1> QED
  BY <1>1, <1>2 DEF Fail

\* The arguments of CreateUpdate.
LEMMA CreateUpdateArgs ==
  ASSUME NEW c \in Callers, Local(c), pc[c] \in CreateUpdateLabels
  PROVE  /\ arg[c] \in Calls /\ arg[c].op = "createUpdate"
         /\ arg[c].id \in LockIDs /\ arg[c].id \notin DeletionIDs
         /\ arg[c].kind \in Kinds
<1>1. arg[c] \in Calls /\ arg[c].op = "createUpdate"
  BY DEF Local, CallerOK, CreateUpdateLabels
<1>2. arg[c] \in AllCalls
  BY <1>1, CallsAssumption
<1>3. arg[c].id # NoID /\ arg[c].id \notin DeletionIDs
  BY <1>1, CallsAssumption
<1> QED
  BY <1>1, <1>2, <1>3 DEF AllCalls

\* CreateUpdate's first GET keeps the invariant.
LEMMA CreateUpdateGetOK ==
  ASSUME Inv, NEW c \in Callers, CreateUpdateGet(c), UNCHANGED lifeVars
  PROVE  StepOK(c)
<1>1. /\ StackOK /\ LocalTypes /\ Local(c) /\ pc[c] = "update.get"
      /\ UNCHANGED <<objectVars, lockfileVars, objects, incs>> /\ etag' \in Nat
  BY InvParts DEF CreateUpdateGet, lifeVars, objectVars, StackOK
<1>2. StackOK' /\ DataOK' /\ Moves /\ FencedStep
  BY <1>1, QuietOK
<1>3. LocalTypes' /\ Others(c) /\ Local(c)'
  <2> DEFINE preview == arg[c].kind = "preview"
             u == [id |-> arg[c].id, kind |-> arg[c].kind, status |-> "not-started",
                   version |-> IF preview THEN stack.version ELSE stack.version + 1]
             w == [inc |-> stack.inc, u |-> u, fresh |-> FALSE,
                   gen |-> IF preview THEN 0 ELSE stack.lock.gen]
  <2>1. CASE \E err, val : Finish(c, err, val)
    BY <1>1, <2>1, ReturnOK DEF Finish, UpdReset
  <2>2. CASE /\ stack # NoStack /\ (preview \/ stack.lock # NoLock)
             /\ upd' = [upd EXCEPT ![c] = w] /\ Step(c, "update.put")
    <3>1. /\ stack \in Stacks /\ stack.inc \in Nat /\ stack.version \in Nat
          /\ stack.lock \in Locks \cup {NoLock}
      BY <1>1, <2>2 DEF StackOK, Stacks
    <3>2. arg[c].id \in LockIDs /\ arg[c].kind \in Kinds
      BY <1>1, CreateUpdateArgs DEF CreateUpdateLabels
    <3>3. u \in Updates
      <4>1. (IF preview THEN stack.version ELSE stack.version + 1) \in Nat
        BY <3>1
      <4>2. "not-started" \in Statuses
        BY DEF Statuses
      <4> QED
        BY <3>2, <4>1, <4>2 DEF Updates
    <3>4. (IF preview THEN 0 ELSE stack.lock.gen) \in Nat
      BY <2>2, <3>1 DEF Locks
    <3>5. w \in Working
      BY <3>1, <3>3, <3>4 DEF Working
    <3> HIDE DEF w
    <3>6. UpdKept(c) /\ upd'[c] \in Working
      BY <1>1, <2>2, <3>5 DEF UpdKept, LocalTypes
    <3>7. /\ SameCall(c, "update.put") /\ "update.put" \notin PutLabels
          /\ "update.put" \notin DeletingLabels
      BY <1>1 DEF SameCall, Labels, PutLabels, CreateUpdateLabels, SaveLabels,
         RecordLabels, DeletingLabels
    <3> QED
      BY <1>1, <2>2, <3>6, <3>7, StepLocalOK
  <2> QED
    BY <2>1, <2>2 DEF CreateUpdateGet
<1> QED
  BY <1>2, <1>3 DEF StepOK

\* So does the PUT of the record.
LEMMA CreateUpdatePutOK ==
  ASSUME Inv, NEW c \in Callers, CreateUpdatePut(c), UNCHANGED lifeVars
  PROVE  StepOK(c)
<1>1. /\ StackOK /\ LocalTypes /\ Local(c) /\ DataOK /\ pc[c] = "update.put"
      /\ UNCHANGED <<objectVars, lockfileVars, incs>> /\ etag' \in Nat
  BY InvParts DEF CreateUpdatePut, lifeVars, objectVars, StackOK
<1>2. upd[c] \in Working /\ upd[c].u \in Updates
  BY <1>1 DEF Local, CallerOK, WorkingLabels, CreateUpdateLabels, Working
<1>3. StackOK' /\ Moves /\ FencedStep
  BY <1>1, SameOK
<1>4. DataOK'
  <2>1. \/ objects' = objects
        \/ objects' = objects \cup {RecordOf(upd[c].inc, upd[c].u)}
    BY DEF CreateUpdatePut
  <2>2. RecordOf(upd[c].inc, upd[c].u).val \in Updates
    BY <1>2 DEF RecordOf, Object
  <2> QED
    BY <1>1, <2>1, <2>2 DEF DataOK, lockfileVars
<1>5. LocalTypes' /\ Others(c) /\ Local(c)'
  <2>1. CASE \E err, val : Finish(c, err, val)
    BY <1>1, <2>1, ReturnOK DEF Finish, UpdReset
  <2>2. ASSUME NEW label \in {"preview.get", "commit.get", "existing.stack"},
               NEW fresh \in BOOLEAN,
               Step(c, label), upd' = [upd EXCEPT ![c].fresh = fresh]
        PROVE  LocalTypes' /\ Others(c) /\ Local(c)'
    <3> DEFINE w == [upd[c] EXCEPT !.fresh = fresh]
    <3>1. w \in Working
      BY <1>2 DEF Working
    <3>2. upd' = [upd EXCEPT ![c] = w]
      BY <2>2
    <3> HIDE DEF w
    <3>3. UpdKept(c) /\ upd'[c] \in Working
      BY <1>1, <3>1, <3>2 DEF UpdKept, LocalTypes
    <3>4. SameCall(c, label) /\ label \notin PutLabels /\ label \notin DeletingLabels
      BY <1>1 DEF SameCall, Labels, PutLabels, CreateUpdateLabels, SaveLabels,
         RecordLabels, DeletingLabels
    <3> QED
      BY <1>1, <2>2, <3>3, <3>4, StepLocalOK
  <2> QED
    BY <2>1, <2>2 DEF CreateUpdatePut
<1> QED
  BY <1>3, <1>4, <1>5 DEF StepOK

\* So does the GET of stack.json for a record that exists.
LEMMA ExistingStackOK ==
  ASSUME Inv, NEW c \in Callers, ExistingStack(c), UNCHANGED lifeVars
  PROVE  StepOK(c)
<1>1. /\ StackOK /\ LocalTypes /\ Local(c) /\ pc[c] = "existing.stack"
      /\ UNCHANGED <<objectVars, lockfileVars, objects, incs>> /\ etag' \in Nat
  BY InvParts DEF ExistingStack, lifeVars, objectVars, StackOK
<1>2. StackOK' /\ DataOK' /\ Moves /\ FencedStep
  BY <1>1, QuietOK
<1>3. LocalTypes' /\ Others(c) /\ Local(c)'
  <2>1. CASE Finish(c, "error", NoLock)
    BY <1>1, <2>1, ReturnOK DEF Finish, UpdReset
  <2>2. CASE stack # NoStack /\ Read(c, "existing.record") /\ UNCHANGED upd
    <3>1. /\ SameCall(c, "existing.record") /\ "existing.record" \notin PutLabels
          /\ "existing.record" \notin DeletingLabels /\ upd[c] \in Working
      BY <1>1 DEF SameCall, Labels, PutLabels, CreateUpdateLabels, SaveLabels,
         RecordLabels, DeletingLabels, WorkingLabels, Local, CallerOK
    <3> QED
      BY <1>1, <2>2, <3>1, ReadLocalOK
  <2> QED
    BY <2>1, <2>2 DEF ExistingStack
<1> QED
  BY <1>2, <1>3 DEF StepOK

\* So does the GET of that record.
LEMMA ExistingRecordOK ==
  ASSUME Inv, NEW c \in Callers, ExistingRecord(c), UNCHANGED lifeVars
  PROVE  StepOK(c)
<1>1. /\ StackOK /\ LocalTypes /\ Local(c) /\ DataOK /\ pc[c] = "existing.record"
      /\ UNCHANGED <<objectVars, lockfileVars, objects, incs>> /\ etag' \in Nat
  BY InvParts DEF ExistingRecord, lifeVars, objectVars, StackOK
<1>2. StackOK' /\ DataOK' /\ Moves /\ FencedStep
  BY <1>1, QuietOK
<1>3. LocalTypes' /\ Others(c) /\ Local(c)'
  <2>1. CASE \E err, val : Finish(c, err, val)
    BY <1>1, <2>1, ReturnOK DEF Finish, UpdReset
  <2>2. ASSUME NEW o \in At(snap[c].inc, UpdateKey(arg[c].id)),
               upd' = [upd EXCEPT ![c].u = o.val], Step(c, "commit.get")
        PROVE  LocalTypes' /\ Others(c) /\ Local(c)'
    <3>1. arg[c].id \in LockIDs
      BY <1>1, CreateUpdateArgs DEF CreateUpdateLabels
    <3>2. o.val \in Updates
      BY <1>1, <3>1 DEF At, DataOK
    <3>3. upd[c] \in Working
      BY <1>1 DEF Local, CallerOK, WorkingLabels, CreateUpdateLabels
    <3> DEFINE w == [upd[c] EXCEPT !.u = o.val]
    <3>4. w \in Working
      BY <3>2, <3>3 DEF Working
    <3>5. upd' = [upd EXCEPT ![c] = w]
      BY <2>2
    <3> HIDE DEF w
    <3>6. UpdKept(c) /\ upd'[c] \in Working
      BY <1>1, <3>4, <3>5 DEF UpdKept, LocalTypes
    <3>7. /\ SameCall(c, "commit.get") /\ "commit.get" \notin PutLabels
          /\ "commit.get" \notin DeletingLabels
      BY <1>1 DEF SameCall, Labels, PutLabels, CreateUpdateLabels, SaveLabels,
         RecordLabels, DeletingLabels
    <3> QED
      BY <1>1, <2>2, <3>6, <3>7, StepLocalOK
  <2> QED
    BY <2>1, <2>2 DEF ExistingRecord
<1> QED
  BY <1>2, <1>3 DEF StepOK

\* So does the GET of commitUpdateVersion: the version it prepares is the next one.
LEMMA CommitGetOK ==
  ASSUME Inv, NEW c \in Callers, CommitGet(c), UNCHANGED lifeVars
  PROVE  StepOK(c)
<1>1. /\ StackOK /\ LocalTypes /\ Local(c) /\ pc[c] = "commit.get"
      /\ UNCHANGED <<objectVars, lockfileVars, objects, incs>> /\ etag' \in Nat
  BY InvParts DEF CommitGet, lifeVars, objectVars, StackOK
<1>2. StackOK' /\ DataOK' /\ Moves /\ FencedStep
  BY <1>1, QuietOK
<1>3. LocalTypes' /\ Others(c) /\ Local(c)'
  <2>1. CASE \E err, val : Finish(c, err, val)
    BY <1>1, <2>1, ReturnOK DEF Finish, UpdReset
  <2>2. CASE \E err, val : Fail(c, err, val)
    BY <1>1, <2>2, FailOK DEF CreateUpdateLabels
  <2> DEFINE new == [stack EXCEPT !.version = upd[c].u.version]
  <2>3. ASSUME stack # NoStack, NEW exp, OwnsVersion(c, exp),
               stack.version = upd[c].u.version - 1,
               Prepare(c, "commit.put", etag, new, FALSE), UNCHANGED upd
        PROVE  LocalTypes' /\ Others(c) /\ Local(c)'
    <3>1. stack \in Stacks /\ etag \in Nat /\ stack.version \in Nat
      BY <1>1, <2>3 DEF StackOK, Stacks
    <3>2. upd[c] \in Working /\ upd[c].u.version \in Nat
      BY <1>1 DEF Local, CallerOK, WorkingLabels, CreateUpdateLabels, Working, Updates
    <3>3. upd[c].u.version = stack.version + 1
      BY <2>3, <3>1, <3>2
    <3>4. new \in Stacks
      BY <3>1, <3>2 DEF Stacks
    <3>5. ~Fenced!Fence(stack.lock)
      BY <1>1, <2>3, CreateUpdateArgs DEF OwnsVersion, Fenced!Fence, CreateUpdateLabels
    <3>6. new = [stack EXCEPT !.version = @ + 1]
      BY <3>3
    <3>7. Fenced!Advances(stack, new)
      BY <2>3, <3>5, <3>6 DEF Fenced!Advances, OwnsVersion
    <3> HIDE DEF new
    <3>8. Legal([etag |-> etag, body |-> new, renews |-> FALSE], stack, expired)
      BY <3>7 DEF Legal
    <3>9. stack.inc = upd[c].inc /\ HoldsFor(arg[c].id, upd[c].gen)
      BY <2>3 DEF OwnsVersion, HoldsFor
    <3>10. SameCall(c, "commit.put") /\ "commit.put" \in PutLabels /\ etag <= etag
      BY <1>1, <3>1 DEF SameCall, Labels, PutLabels, CreateUpdateLabels, SaveLabels,
         RecordLabels
    <3> QED
      BY <1>1, <2>3, <3>1, <3>2, <3>4, <3>8, <3>9, <3>10, PrepareLocalOK
  <2> QED
    BY <2>1, <2>2, <2>3 DEF CommitGet
<1> QED
  BY <1>2, <1>3 DEF StepOK

\* The PUT of a version, or of a preview's barrier.
LEMMA UpdatePutOK ==
  ASSUME Inv, NEW c \in Callers, CommitPut(c) \/ PreviewPut(c), UNCHANGED lifeVars
  PROVE  StepOK(c)
<1>1. /\ StackOK /\ LocalTypes /\ Local(c) /\ DataOK
      /\ pc[c] \in {"commit.put", "preview.put"}
      /\ UNCHANGED <<lockfileVars, objects, incs>>
  BY InvParts DEF CommitPut, PreviewPut, lifeVars
<1>2. write[c] \in Writes /\ Ready(write[c]) /\ write[c].etag <= etag
  BY <1>1 DEF Local, CallerOK, LocalTypes, PutLabels, EmptyWrites
<1>3. DataOK'
  BY <1>1 DEF DataOK, lockfileVars
<1>4. StackOK' /\ Moves /\ FencedStep
  BY <1>1, <1>2, LandsOK, RefusedOK, AbandonedOK DEF CommitPut, PreviewPut
<1>5. etag' \in Nat
  BY <1>4 DEF StackOK
<1>6. LocalTypes' /\ Others(c) /\ Local(c)'
  <2>1. CASE \E err, val : Finish(c, err, val)
    BY <1>1, <1>5, <2>1, ReturnOK DEF Finish, UpdReset
  <2>2. CASE \E err, val : Fail(c, err, val)
    BY <1>1, <1>5, <2>2, FailOK DEF CreateUpdateLabels
  <2>3. CASE pc[c] = "commit.put" /\ NextRound(c, "commit.get") /\ UNCHANGED upd
    BY <1>1, <1>5, <2>3, NextRoundOK
  <2>4. CASE pc[c] = "preview.put" /\ NextRound(c, "preview.get") /\ UNCHANGED upd
    BY <1>1, <1>5, <2>4, NextRoundOK
  <2> QED
    BY <2>1, <2>2, <2>3, <2>4 DEF CommitPut, PreviewPut
<1> QED
  BY <1>3, <1>4, <1>6 DEF StepOK

\* So does the GET of a preview's barrier, which prepares the stack unchanged.
LEMMA PreviewGetOK ==
  ASSUME Inv, NEW c \in Callers, PreviewGet(c), UNCHANGED lifeVars
  PROVE  StepOK(c)
<1>1. /\ StackOK /\ LocalTypes /\ Local(c) /\ pc[c] = "preview.get"
      /\ UNCHANGED <<objectVars, lockfileVars, objects, incs>> /\ etag' \in Nat
  BY InvParts DEF PreviewGet, lifeVars, objectVars, StackOK
<1>2. StackOK' /\ DataOK' /\ Moves /\ FencedStep
  BY <1>1, QuietOK
<1>3. LocalTypes' /\ Others(c) /\ Local(c)'
  <2>1. CASE \E err, val : Fail(c, err, val)
    BY <1>1, <2>1, FailOK DEF CreateUpdateLabels
  <2>2. CASE /\ stack # NoStack
             /\ Prepare(c, "preview.put", etag, stack, FALSE) /\ UNCHANGED upd
    <3>1. stack \in Stacks /\ etag \in Nat /\ etag <= etag
      BY <1>1, <2>2 DEF StackOK
    <3>2. Legal([etag |-> etag, body |-> stack, renews |-> FALSE], stack, expired)
      BY DEF Legal
    <3>3. SameCall(c, "preview.put") /\ "preview.put" \in PutLabels /\ upd[c] \in Working
      BY <1>1 DEF SameCall, Labels, PutLabels, CreateUpdateLabels, SaveLabels,
         RecordLabels, WorkingLabels, Local, CallerOK
    <3> QED
      BY <1>1, <2>2, <3>1, <3>2, <3>3, PrepareLocalOK
  <2> QED
    BY <2>1, <2>2 DEF PreviewGet
<1> QED
  BY <1>2, <1>3 DEF StepOK

\* So does the rollback of a record.
LEMMA RollbackUpdateOK ==
  ASSUME Inv, NEW c \in Callers, RollbackUpdate(c), UNCHANGED lifeVars
  PROVE  StepOK(c)
<1>1. /\ StackOK /\ LocalTypes /\ DataOK
      /\ UNCHANGED <<objectVars, lockfileVars, incs>> /\ etag' \in Nat
  BY InvParts DEF RollbackUpdate, lifeVars, objectVars, StackOK
<1>2. DataOK'
  <2>1. \A o \in objects' : o \in objects
    BY DEF RollbackUpdate
  <2> QED
    BY <1>1, <2>1 DEF DataOK, lockfileVars
<1>3. StackOK' /\ Moves /\ FencedStep
  BY <1>1, SameOK
<1>4. LocalTypes' /\ Others(c) /\ Local(c)'
  BY <1>1, ReturnOK DEF RollbackUpdate, Finish, UpdReset
<1> QED
  BY <1>2, <1>3, <1>4 DEF StepOK

\* Every step of CreateUpdate keeps the invariant.
LEMMA CreateUpdateStepOK ==
  ASSUME Inv, NEW c \in Callers, CreateUpdateStep(c), UNCHANGED lifeVars
  PROVE  StepOK(c)
BY CreateUpdateGetOK, CreateUpdatePutOK, ExistingStackOK, ExistingRecordOK,
   CommitGetOK, UpdatePutOK, PreviewGetOK, RollbackUpdateOK DEF CreateUpdateStep

\* The arguments of GetUpdate, StartUpdate and CompleteUpdate.
LEMMA RecordArgs ==
  ASSUME NEW c \in Callers, Local(c), pc[c] \in RecordLabels
  PROVE  arg[c].id \in LockIDs /\ Target(c) \in Statuses
<1>1. arg[c] \in Calls /\ arg[c].op \in {"getUpdate", "start", "complete"}
  BY DEF Local, CallerOK, RecordLabels
<1>2. arg[c] \in AllCalls /\ arg[c].id # NoID
  BY <1>1, CallsAssumption
<1> QED
  BY <1>2 DEF AllCalls, Target, Statuses

\* The first GET of GetUpdate, StartUpdate and CompleteUpdate keeps the invariant.
LEMMA RecordStackOK ==
  ASSUME Inv, NEW c \in Callers, RecordStack(c), UNCHANGED lifeVars
  PROVE  StepOK(c)
<1>1. /\ StackOK /\ LocalTypes /\ Local(c) /\ pc[c] = "record.stack"
      /\ UNCHANGED <<objectVars, lockfileVars, objects, incs>> /\ etag' \in Nat
  BY InvParts DEF RecordStack, lifeVars, objectVars, StackOK
<1>2. StackOK' /\ DataOK' /\ Moves /\ FencedStep
  BY <1>1, QuietOK
<1>3. LocalTypes' /\ Others(c) /\ Local(c)'
  <2>1. CASE \E err, val : Finish(c, err, val)
    BY <1>1, <2>1, ReturnOK DEF Finish, UpdReset
  <2>2. CASE stack # NoStack /\ Read(c, "record.get") /\ UNCHANGED upd
    <3>1. /\ SameCall(c, "record.get") /\ "record.get" \notin PutLabels
          /\ "record.get" \notin DeletingLabels /\ "record.get" \notin WorkingLabels
      BY <1>1 DEF SameCall, Labels, PutLabels, CreateUpdateLabels, SaveLabels,
         RecordLabels, DeletingLabels, WorkingLabels
    <3> QED
      BY <1>1, <2>2, <3>1, ReadLocalOK
  <2> QED
    BY <2>1, <2>2 DEF RecordStack
<1> QED
  BY <1>2, <1>3 DEF StepOK

\* So does the GET of the record.
LEMMA RecordGetOK ==
  ASSUME Inv, NEW c \in Callers, RecordGet(c), UNCHANGED lifeVars
  PROVE  StepOK(c)
<1>1. /\ StackOK /\ LocalTypes /\ Local(c) /\ DataOK /\ pc[c] = "record.get"
      /\ UNCHANGED <<objectVars, lockfileVars, objects, incs>> /\ etag' \in Nat
  BY InvParts DEF RecordGet, lifeVars, objectVars, StackOK
<1>2. StackOK' /\ DataOK' /\ Moves /\ FencedStep
  BY <1>1, QuietOK
<1>3. LocalTypes' /\ Others(c) /\ Local(c)'
  <2>1. CASE \E err, val : Finish(c, err, val)
    BY <1>1, <2>1, ReturnOK DEF Finish, UpdReset
  <2>2. ASSUME NEW o \in At(snap[c].inc, UpdateKey(arg[c].id)),
               upd' = [upd EXCEPT ![c] = Told(o)], Step(c, "record.put")
        PROVE  LocalTypes' /\ Others(c) /\ Local(c)'
    <3>1. arg[c].id \in LockIDs
      BY <1>1, RecordArgs DEF RecordLabels
    <3>2. o.val \in Updates
      BY <1>1, <3>1 DEF At, DataOK
    <3>3. o.inc \in Nat
      BY <1>1 DEF At, Local, CallerOK, LocalTypes, Stacks
    <3>4. Told(o) \in Working
      BY <3>2, <3>3 DEF Told, Working
    <3>5. UpdKept(c) /\ upd'[c] \in Working
      BY <1>1, <2>2, <3>4 DEF UpdKept, LocalTypes
    <3>6. /\ SameCall(c, "record.put") /\ "record.put" \notin PutLabels
          /\ "record.put" \notin DeletingLabels
      BY <1>1 DEF SameCall, Labels, PutLabels, CreateUpdateLabels, SaveLabels,
         RecordLabels, DeletingLabels
    <3> QED
      BY <1>1, <2>2, <3>5, <3>6, StepLocalOK
  <2> QED
    BY <2>1, <2>2 DEF RecordGet
<1> QED
  BY <1>2, <1>3 DEF StepOK

\* So does the PUT of the record.
LEMMA RecordPutOK ==
  ASSUME Inv, NEW c \in Callers, RecordPut(c), UNCHANGED lifeVars
  PROVE  StepOK(c)
<1>1. /\ StackOK /\ LocalTypes /\ Local(c) /\ DataOK /\ pc[c] = "record.put"
      /\ UNCHANGED <<objectVars, lockfileVars, incs>> /\ etag' \in Nat
  BY InvParts DEF RecordPut, lifeVars, objectVars, StackOK
<1>2. DataOK'
  <2> DEFINE old == RecordOf(upd[c].inc, upd[c].u)
             new == [old EXCEPT !.val.status = Target(c)]
  <2>1. upd[c] \in Working /\ upd[c].u \in Updates /\ Target(c) \in Statuses
    BY <1>1, RecordArgs DEF Local, CallerOK, WorkingLabels, RecordLabels, Working
  <2>2. new.val \in Updates
    BY <2>1 DEF RecordOf, Object, Updates
  <2>3. objects' = objects \/ objects' = Put(new)
    BY DEF RecordPut
  <2> HIDE DEF new
  <2>4. \A o \in Put(new) : o \in objects \/ o = new
    BY DEF Put
  <2> QED
    BY <1>1, <2>2, <2>3, <2>4 DEF DataOK, lockfileVars
<1>3. StackOK' /\ Moves /\ FencedStep
  BY <1>1, SameOK
<1>4. LocalTypes' /\ Others(c) /\ Local(c)'
  <2>1. \E err, val : Finish(c, err, val)
    BY DEF RecordPut
  <2> QED
    BY <1>1, <2>1, ReturnOK DEF Finish, UpdReset
<1> QED
  BY <1>2, <1>3, <1>4 DEF StepOK
==============================================================================
