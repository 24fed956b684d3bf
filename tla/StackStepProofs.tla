--------------------------- MODULE StackStepProofs ---------------------------
(***************************************************************************)
(* What any step of StackStore keeps, for any callers, any calls and any   *)
(* first stacks.                                                           *)
(*                                                                         *)
(* Every step is taken apart the same way.  It changes the object          *)
(* stack.json (or not), other data, and the local state of at most one     *)
(* caller.  What the other callers rely on survives because either the     *)
(* ETag moves, and their PUTs die, or stack.json stays what it was.        *)
(***************************************************************************)
EXTENDS StackStore, TLAPS

\* The parts of Inv.
LocalTypes ==
  /\ pc \in [Callers -> Labels]
  /\ arg \in [Callers -> Calls \cup {NoCall}]
  /\ tries \in [Callers -> 1..MaxTries]
  /\ snap \in [Callers -> Stacks \cup {NoStack}]
  /\ write \in [Callers -> Writes \cup EmptyWrites]
  /\ upd \in [Callers -> Working \cup {NoUpdate}]

StackOK ==
  /\ stack \in Stacks \cup {NoStack}
  /\ etag \in Nat
  /\ expired \in BOOLEAN
  /\ \A w \in late : w \in Writes
  /\ ObjectOK

DataOK ==
  /\ lockfile \in Locks \cup {NoLock}
  /\ lockfileExpired \in BOOLEAN
  /\ incs \in Nat
  /\ \A o \in objects, id \in LockIDs : o.key = UpdateKey(id) => o.val \in Updates

Local(c) ==
  /\ pc[c] # "idle" => arg[c] \in Calls
  /\ pc[c] \in PutLabels => write[c].body # NoStack
  /\ CallerOK(c)
  /\ CommitsAsHolder(c)
  /\ RenewsOwn(c)

SameLocal(d) ==
  /\ pc'[d] = pc[d] /\ arg'[d] = arg[d] /\ snap'[d] = snap[d]
  /\ write'[d] = write[d] /\ upd'[d] = upd[d]

\* What a step of caller c does to the local state of the others: nothing.
Others(c) == \A d \in Callers \ {c} : SameLocal(d)

\* What a step does to stack.json: the ETag moves, or all is as before, except
\* that the lease may run out.
Moves ==
  \/ etag' > etag
  \/ etag' = etag /\ stack' = stack /\ (expired => expired')

FencedStep == [Fenced!Next]_(Fenced!fencedVars)

\* The conclusion about each action.
StepOK(c) ==
  /\ LocalTypes' /\ Others(c) /\ Local(c)'
  /\ StackOK' /\ DataOK' /\ Moves /\ FencedStep

\* Inv is the conjunction of its parts.
LEMMA InvParts ==
  Inv <=> LocalTypes /\ StackOK /\ DataOK /\ \A c \in Callers : Local(c)
BY DEF Inv, PendingLegal, TypeOK, LocalTypes, StackOK, DataOK, Local,
       CommitByHolder, RenewNeverRevives

------------------------------------------------------------------------------
(* stack.json *)

\* A PUT that was legal stays legal if it is still acceptable.
LEMMA ReadyKept ==
  ASSUME StackOK, etag' \in Nat, expired' \in BOOLEAN, Moves,
         NEW w \in Writes \cup EmptyWrites, w.etag <= etag, Ready(w)
  PROVE  w.etag <= etag' /\ Ready(w)'
<1>1. w.etag \in Nat
  BY DEF Writes, EmptyWrites
<1>2. CASE etag' > etag
  BY <1>1, <1>2 DEF Ready, StackOK
<1>3. CASE etag' = etag /\ stack' = stack /\ (expired => expired')
  BY <1>1, <1>3 DEF Ready, Legal, Fenced!Grants, StackOK
<1> QED
  BY <1>2, <1>3 DEF Moves

\* What the other callers rely on survives a step.
LEMMA OthersKept ==
  ASSUME StackOK, StackOK', Moves, LocalTypes,
         NEW d \in Callers, SameLocal(d), Local(d)
  PROVE  Local(d)'
<1>1. /\ pc'[d] = pc[d] /\ arg'[d] = arg[d] /\ snap'[d] = snap[d]
      /\ write'[d] = write[d] /\ upd'[d] = upd[d]
  BY DEF SameLocal
<1>2. write[d] \in Writes \cup EmptyWrites
  BY DEF LocalTypes
<1>3. write[d].etag <= etag /\ Ready(write[d])
  BY DEF Local, CallerOK
<1>4. write[d].etag <= etag' /\ Ready(write[d])'
  BY <1>2, <1>3, <1>1, ReadyKept DEF StackOK
<1>5. write[d].etag \in Nat /\ etag \in Nat /\ etag' \in Nat
  BY <1>2 DEF Writes, EmptyWrites, StackOK
<1>6. write[d].etag = etag' => etag' = etag /\ stack' = stack
  BY <1>3, <1>5 DEF Moves
<1>7. CallerOK(d)'
  BY <1>1, <1>4, <1>6 DEF Local, CallerOK
<1>8. CommitsAsHolder(d)' /\ RenewsOwn(d)'
  BY <1>1, <1>6 DEF Local, CommitsAsHolder, RenewsOwn, HoldsFor
<1> QED
  BY <1>1, <1>7, <1>8 DEF Local

\* A step that is StepOK for one caller preserves Inv.
LEMMA StepPreserves ==
  ASSUME Inv, NEW c \in Callers, StepOK(c)
  PROVE  Inv'
<1>1. \A d \in Callers \ {c} : Local(d)'
  BY OthersKept, InvParts DEF StepOK, Others
<1>2. \A d \in Callers : Local(d)'
  BY <1>1 DEF StepOK
<1>3. LocalTypes' /\ StackOK' /\ DataOK'
  BY DEF StepOK
<1> QED
  BY <1>2, <1>3 DEF Inv, PendingLegal, TypeOK, LocalTypes, StackOK, DataOK, Local,
       CommitByHolder, RenewNeverRevives

\* Writing stack.json back, unchanged or not, is a step of FencedStack.
LEMMA LandsOK ==
  ASSUME StackOK, NEW w \in Writes, Ready(w), Lands(w), UNCHANGED incs
  PROVE  StackOK' /\ Moves /\ FencedStep
<1>1. /\ stack \in Stacks /\ stack # NoStack /\ etag \in Nat /\ w.etag = etag
      /\ w.body \in Stacks /\ w.body # NoStack /\ w.renews \in BOOLEAN
  BY ConstantsAssumption DEF StackOK, Lands, Writes
<1>2. Legal(w, stack, expired)
  BY <1>1 DEF Ready
<1>3. /\ stack' = w.body /\ stack' \in Stacks /\ stack' # NoStack
      /\ expired' = (w.body.lock # NoLock /\ expired /\ ~w.renews)
      /\ expired' \in BOOLEAN
  BY <1>1 DEF Lands
<1>4. \/ etag' = etag + 1 /\ late' = {}
      \/ etag' = etag /\ late' = late /\ w.body = stack /\ ~w.renews
  BY <1>1 DEF Lands
<1>5. Moves
  <2>1. CASE etag' = etag + 1
    BY <1>1, <2>1 DEF Moves
  <2>2. CASE etag' = etag /\ w.body = stack /\ ~w.renews
    BY <1>3, <2>2 DEF Moves, StackOK, ObjectOK
  <2> QED
    BY <1>4, <2>1, <2>2
<1>6. etag' \in Nat
  BY <1>1, <1>4
<1>7. \A v \in late' : v \in Writes /\ v.etag <= etag' /\ Ready(v)'
  <2>1. SUFFICES ASSUME NEW v \in late' PROVE v \in Writes /\ v.etag <= etag' /\ Ready(v)'
    OBVIOUS
  <2>2. v \in late
    BY <1>4
  <2>3. v \in Writes /\ v.etag <= etag /\ Ready(v)
    BY <2>2 DEF StackOK, ObjectOK
  <2> QED
    BY <2>3, <1>3, <1>5, <1>6, ReadyKept
<1>8. StackOK'
  BY <1>3, <1>6, <1>7 DEF StackOK, ObjectOK
<1>9. FencedStep
  <2>1. CASE w.renews
    <3>1. Fenced!Grants(stack, expired, stack') \/ Fenced!Renews(stack, stack')
      BY <1>2, <1>3, <2>1 DEF Legal
    <3>2. Fenced!NewLease
      BY <1>1, <1>3, <2>1, <3>1 DEF Fenced!NewLease
    <3> QED
      BY <3>2 DEF FencedStep, Fenced!Next
  <2>2. CASE ~w.renews /\ Fenced!Releases(stack, w.body)
    <3>1. Fenced!Release
      BY <1>1, <1>3, <2>2 DEF Fenced!Release, Fenced!Releases
    <3> QED
      BY <3>1 DEF FencedStep, Fenced!Next
  <2>3. CASE ~w.renews /\ (Fenced!Advances(stack, w.body) \/ Fenced!Points(stack, w.body))
    <3>1. w.body.lock = stack.lock
      BY <1>1, <2>3 DEF Fenced!Advances, Fenced!Points, Stacks
    <3>2. expired' = expired
      BY <1>3, <2>3, <3>1 DEF StackOK, ObjectOK
    <3>3. Fenced!Commit
      BY <1>1, <1>3, <2>3, <3>2 DEF Fenced!Commit
    <3> QED
      BY <3>3 DEF FencedStep, Fenced!Next
  <2>4. CASE ~w.renews /\ w.body = stack
    BY <1>3, <2>4 DEF FencedStep, Fenced!fencedVars, StackOK, ObjectOK
  <2> QED
    BY <1>2, <2>1, <2>2, <2>3, <2>4 DEF Legal
<1> QED
  BY <1>5, <1>8, <1>9

\* A PUT that is given up is kept among the late ones only while it is legal.
LEMMA AbandonedOK ==
  ASSUME StackOK, NEW w \in Writes \cup EmptyWrites, Ready(w), w.etag <= etag,
         Abandoned(w), UNCHANGED incs
  PROVE  StackOK' /\ Moves /\ FencedStep
<1>1. UNCHANGED <<stack, etag, expired>>
  BY DEF Abandoned
<1>2. Moves /\ FencedStep
  BY <1>1 DEF Moves, FencedStep, Fenced!fencedVars
<1>3. ASSUME NEW v \in late' PROVE v \in Writes /\ v.etag <= etag' /\ Ready(v)'
  <2>1. v \in Writes /\ v.etag <= etag /\ Ready(v)
    BY <1>3 DEF Abandoned, StackOK, ObjectOK, EmptyWrites
  <2> QED
    BY <1>1, <2>1 DEF Ready
<1> QED
  BY <1>1, <1>2, <1>3 DEF StackOK, ObjectOK

\* A step that leaves stack.json alone.
LEMMA SameOK ==
  ASSUME StackOK, UNCHANGED <<objectVars, incs>>
  PROVE  StackOK' /\ Moves /\ FencedStep
<1>1. UNCHANGED <<stack, etag, expired, late, incs>>
  BY DEF objectVars
<1>2. \A v : Ready(v)' <=> Ready(v)
  BY <1>1 DEF Ready
<1> QED
  BY <1>1, <1>2 DEF StackOK, ObjectOK, Moves, FencedStep, Fenced!fencedVars

\* A refused PUT, one that took effect and was repeated included, keeps the invariant.
LEMMA RefusedOK ==
  ASSUME StackOK, NEW w \in Writes, Ready(w), Refused(w), UNCHANGED incs
  PROVE  StackOK' /\ Moves /\ FencedStep
BY LandsOK, SameOK DEF Refused

------------------------------------------------------------------------------
(* The local state of the caller that takes the step *)

UpdReset(c) == UNCHANGED upd \/ upd' = [upd EXCEPT ![c] = NoUpdate]

\* A caller with no PUT prepared relies on nothing but its arguments.
LEMMA NoWriteLocalOK ==
  ASSUME NEW c \in Callers, NEW label, etag' \in Nat, pc'[c] = label, write'[c] = NoWrite,
         label \notin PutLabels, label \notin DeletingLabels,
         label \notin {"lock.legacy", "record.get"},
         label # "idle" => arg'[c] \in Calls,
         label \in CreateUpdateLabels => arg'[c].op = "createUpdate",
         label \in SaveLabels => arg'[c].op = "save",
         label \in RecordLabels => arg'[c].op \in {"getUpdate", "start", "complete"},
         label \in WorkingLabels => upd'[c] \in Working
  PROVE  Local(c)'
<1>1. write'[c].etag = 0 /\ write'[c].body = NoStack
  BY DEF NoWrite, OnlyETag
<1>2. (write[c].etag <= etag)' /\ Ready(write[c])'
  BY <1>1 DEF Ready
<1>3. CommitsAsHolder(c)' /\ RenewsOwn(c)'
  BY DEF CommitsAsHolder, RenewsOwn, PutLabels
<1>4. CallerOK(c)'
  BY <1>2 DEF CallerOK
<1> QED
  BY <1>3, <1>4 DEF Local

\* A call that returns leaves nothing to rely on.
LEMMA ReturnOK ==
  ASSUME LocalTypes, NEW c \in Callers, NEW err, NEW val, Return(c, err, val),
         UpdReset(c), etag' \in Nat
  PROVE  LocalTypes' /\ Others(c) /\ Local(c)'
<1>1. LocalTypes'
  <2>1. "idle" \in Labels /\ NoWrite \in EmptyWrites /\ MaxTries \in 1..MaxTries
    BY ConstantsAssumption DEF Labels, NoWrite, OnlyETag, EmptyWrites
  <2>2. pc' \in [Callers -> Labels] /\ tries' \in [Callers -> 1..MaxTries]
    BY <2>1 DEF LocalTypes, Return, Goto
  <2>3. /\ arg' \in [Callers -> Calls \cup {NoCall}]
        /\ snap' \in [Callers -> Stacks \cup {NoStack}]
        /\ write' \in [Callers -> Writes \cup EmptyWrites]
    BY <2>1 DEF LocalTypes, Return
  <2>4. upd' \in [Callers -> Working \cup {NoUpdate}]
    BY DEF LocalTypes, UpdReset
  <2> QED
    BY <2>2, <2>3, <2>4 DEF LocalTypes
<1>2. Others(c)
  BY DEF LocalTypes, Return, Goto, UpdReset, Others, SameLocal
<1>3. pc'[c] = "idle" /\ write'[c] = NoWrite
  BY DEF LocalTypes, Return, Goto
<1>4. Local(c)'
  <2>1. /\ "idle" \notin PutLabels /\ "idle" \notin DeletingLabels
        /\ "idle" \notin CreateUpdateLabels /\ "idle" \notin SaveLabels
        /\ "idle" \notin RecordLabels /\ "idle" \notin WorkingLabels
    BY DEF PutLabels, CreateUpdateLabels, SaveLabels, RecordLabels, WorkingLabels,
       DeletingLabels
  <2> QED
    BY <1>3, <2>1, NoWriteLocalOK
<1> QED
  BY <1>1, <1>2, <1>4

\* A caller that goes back to the head of its loop keeps its arguments.
LEMMA NextRoundOK ==
  ASSUME LocalTypes, NEW c \in Callers, Local(c), NEW label, NextRound(c, label),
         UNCHANGED upd, etag' \in Nat,
         \/ label = "lock.get"
         \/ label = "commit.get" /\ pc[c] = "commit.put"
         \/ label = "preview.get" /\ pc[c] = "preview.put"
         \/ label = "save.get" /\ pc[c] = "save.put",
         pc[c] # "idle"
  PROVE  LocalTypes' /\ Others(c) /\ Local(c)'
<1>1. LocalTypes'
  <2>1. label \in Labels /\ NoWrite \in EmptyWrites
    BY DEF Labels, NoWrite, OnlyETag, EmptyWrites
  <2>2. tries[c] \in 1..MaxTries /\ tries[c] > 1 => tries[c] - 1 \in 1..MaxTries
    BY ConstantsAssumption
  <2>3. tries' \in [Callers -> 1..MaxTries]
    BY <2>2 DEF LocalTypes, NextRound
  <2>4. pc' \in [Callers -> Labels]
    BY <2>1 DEF LocalTypes, NextRound, Goto
  <2>5. /\ snap' \in [Callers -> Stacks \cup {NoStack}]
        /\ write' \in [Callers -> Writes \cup EmptyWrites]
    BY <2>1 DEF LocalTypes, NextRound
  <2> QED
    BY <2>3, <2>4, <2>5 DEF LocalTypes, NextRound
<1>2. Others(c)
  BY DEF LocalTypes, NextRound, Goto, Others, SameLocal
<1>3. pc'[c] = label /\ write'[c] = NoWrite /\ arg'[c] = arg[c] /\ upd'[c] = upd[c]
  BY DEF LocalTypes, NextRound, Goto
<1>4. Local(c)'
  <2>1. /\ label \notin PutLabels /\ label \notin DeletingLabels
        /\ label \notin RecordLabels /\ label \notin {"lock.legacy", "record.get"}
        /\ label \in CreateUpdateLabels => pc[c] \in CreateUpdateLabels
        /\ label \in WorkingLabels => pc[c] \in WorkingLabels
        /\ label \in SaveLabels => pc[c] \in SaveLabels
    BY DEF PutLabels, CreateUpdateLabels, SaveLabels, RecordLabels, WorkingLabels,
       DeletingLabels
  <2>2. /\ arg[c] \in Calls
        /\ pc[c] \in CreateUpdateLabels => arg[c].op = "createUpdate"
        /\ pc[c] \in WorkingLabels => upd[c] \in Working
        /\ pc[c] \in SaveLabels => arg[c].op = "save"
    BY DEF Local, CallerOK
  <2> QED
    BY <1>3, <2>1, <2>2, NoWriteLocalOK
<1> QED
  BY <1>1, <1>2, <1>4

\* The label belongs to the call that c is running.
SameCall(c, label) ==
  /\ label \in Labels /\ pc[c] # "idle"
  /\ label \in CreateUpdateLabels => pc[c] \in CreateUpdateLabels
  /\ label \in SaveLabels => pc[c] \in SaveLabels
  /\ label \in RecordLabels => pc[c] \in RecordLabels

\* The update c works on is kept, or replaced by another.
UpdKept(c) ==
  \/ UNCHANGED upd
  \/ \E u \in Working : upd' = [upd EXCEPT ![c] = u]

\* A call that goes on with what it has.
LEMMA StepLocalOK ==
  ASSUME StackOK, LocalTypes, NEW c \in Callers, Local(c), UNCHANGED objectVars,
         NEW label, Step(c, label), SameCall(c, label), UpdKept(c),
         label \notin PutLabels, label \notin {"lock.legacy", "record.get"},
         label \in DeletingLabels => pc[c] \in DeletingLabels,
         label \in WorkingLabels => upd'[c] \in Working
  PROVE  LocalTypes' /\ Others(c) /\ Local(c)'
<1>1. LocalTypes'
  BY DEF LocalTypes, Step, Goto, UpdKept, SameCall
<1>2. Others(c)
  BY DEF LocalTypes, Step, Goto, UpdKept, Others, SameLocal
<1>3. pc'[c] = label /\ write'[c] = write[c] /\ arg'[c] = arg[c] /\ snap'[c] = snap[c]
  BY DEF LocalTypes, Step, Goto
<1>4. (write[c].etag <= etag)' /\ Ready(write[c])'
  BY <1>3 DEF Local, CallerOK, Ready, objectVars
<1>5. CommitsAsHolder(c)' /\ RenewsOwn(c)'
  BY <1>3 DEF CommitsAsHolder, RenewsOwn, PutLabels
<1>6. CallerOK(c)'
  <2>1. CallerOK(c)
    BY DEF Local
  <2>2. /\ label \in CreateUpdateLabels => arg[c].op = "createUpdate"
        /\ label \in SaveLabels => arg[c].op = "save"
        /\ label \in RecordLabels => arg[c].op \in {"getUpdate", "start", "complete"}
    BY <2>1 DEF CallerOK, SameCall
  <2> QED
    BY <1>3, <1>4, <2>1, <2>2 DEF CallerOK, objectVars
<1> QED
  BY <1>1, <1>2, <1>3, <1>5, <1>6 DEF Local, SameCall

\* A call that goes on with the stack.json it has just read.
LEMMA ReadLocalOK ==
  ASSUME StackOK, LocalTypes, NEW c \in Callers, Local(c), UNCHANGED <<objectVars, upd>>,
         NEW label, Read(c, label), SameCall(c, label), label \notin PutLabels,
         stack # NoStack,
         label = "lock.legacy" => ~UsesCanonicalLock(stack),
         label \in DeletingLabels => DeletionFence(stack.lock),
         label \in WorkingLabels => upd[c] \in Working
  PROVE  LocalTypes' /\ Others(c) /\ Local(c)'
<1> DEFINE w == OnlyETag(etag)
<1>0. w \in EmptyWrites /\ w.etag = etag /\ w.body = NoStack
  BY DEF StackOK, EmptyWrites, OnlyETag
<1> HIDE DEF w
<1>1. LocalTypes'
  BY <1>0 DEF w, LocalTypes, Read, Goto, SameCall, StackOK
<1>2. Others(c)
  BY DEF LocalTypes, Read, Goto, Others, SameLocal
<1>3. pc'[c] = label /\ write'[c] = w /\ arg'[c] = arg[c] /\ snap'[c] = stack
  BY DEF w, LocalTypes, Read, Goto
<1>4. (write[c].etag <= etag)' /\ Ready(write[c])'
  BY <1>0, <1>3 DEF Ready, objectVars, StackOK
<1>5. CommitsAsHolder(c)' /\ RenewsOwn(c)'
  BY <1>3 DEF CommitsAsHolder, RenewsOwn, PutLabels
<1>6. CallerOK(c)'
  BY <1>3, <1>4 DEF Local, CallerOK, objectVars, SameCall
<1> QED
  BY <1>1, <1>2, <1>3, <1>5, <1>6 DEF Local, SameCall

\* A call that has prepared its PUT.
LEMMA PrepareLocalOK ==
  ASSUME StackOK, LocalTypes, NEW c \in Callers, Local(c), UNCHANGED <<objectVars, upd>>,
         NEW label \in PutLabels, NEW e \in Nat, NEW body \in Stacks, NEW renews \in BOOLEAN,
         Prepare(c, label, e, body, renews), SameCall(c, label), e <= etag,
         label \in WorkingLabels => upd[c] \in Working,
         e = etag =>
           /\ stack # NoStack
           /\ Legal([etag |-> e, body |-> body, renews |-> renews], stack, expired)
           /\ label = "commit.put" =>
                stack.inc = upd[c].inc /\ HoldsFor(arg[c].id, upd[c].gen)
           /\ label = "save.put" =>
                /\ stack.inc = arg[c].inc /\ stack.version = arg[c].version
                /\ IF arg[c].id = NoID THEN stack.lock = NoLock
                                       ELSE HoldsFor(arg[c].id, arg[c].gen)
           /\ label = "lock.put" /\ arg[c].op = "renew" /\ stack.canonical =>
                stack.lock # NoLock /\ stack.lock.id = arg[c].id
  PROVE  LocalTypes' /\ Others(c) /\ Local(c)'
<1> DEFINE w == [etag |-> e, body |-> body, renews |-> renews]
<1>0. w \in Writes /\ w.etag = e /\ w.body = body /\ body # NoStack
  BY ConstantsAssumption DEF Writes
<1>1. LocalTypes'
  BY <1>0 DEF LocalTypes, Prepare, Goto, SameCall
<1>2. Others(c)
  BY DEF LocalTypes, Prepare, Goto, Others, SameLocal
<1>3. pc'[c] = label /\ write'[c] = w /\ arg'[c] = arg[c] /\ upd' = upd
  BY DEF LocalTypes, Prepare, Goto
<1>4. UNCHANGED <<stack, etag, expired>>
  BY DEF objectVars
<1>5. (write[c].etag <= etag)' /\ Ready(write[c])'
  BY <1>0, <1>3, <1>4 DEF Ready
<1>6. CommitsAsHolder(c)' /\ RenewsOwn(c)'
  BY <1>0, <1>3, <1>4 DEF CommitsAsHolder, RenewsOwn, HoldsFor
<1>7. CallerOK(c)'
  BY <1>3, <1>5 DEF Local, CallerOK, SameCall, PutLabels, DeletingLabels
<1> QED
  BY <1>0, <1>1, <1>2, <1>3, <1>6, <1>7 DEF Local, SameCall

\* Reading, or writing nothing but a caller's local state.
LEMMA QuietOK ==
  ASSUME Inv, UNCHANGED <<objectVars, lockfileVars, objects, incs>>
  PROVE  StackOK' /\ DataOK' /\ Moves /\ FencedStep
<1>1. StackOK /\ DataOK
  BY InvParts
<1>2. DataOK'
  BY <1>1 DEF DataOK, lockfileVars
<1> QED
  BY <1>1, <1>2, SameOK
==============================================================================
