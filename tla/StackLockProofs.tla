--------------------------- MODULE StackLockProofs ---------------------------
(***************************************************************************)
(* The steps of the lock calls keep the invariant of StackStore.           *)
(***************************************************************************)
EXTENDS StackStepProofs

\* The fields of a stack with a new lock (AcquireLock, RenewLock).
LEMMA WithLockProps ==
  ASSUME NEW st \in Stacks, NEW lock \in Locks
  PROVE  /\ WithLock(st, lock) \in Stacks
         /\ WithLock(st, lock).lock = lock
         /\ WithLock(st, lock).fence = MaxOf(st.fence, lock.gen)
         /\ WithLock(st, lock) = Fenced!Relocked(st, lock, MaxOf(st.fence, lock.gen))
<1>1. lock.gen \in Nat /\ st.fence \in Nat /\ MaxOf(st.fence, lock.gen) \in Nat
  BY DEF Locks, Stacks, MaxOf
<1>2. WithLock(st, lock) = Fenced!Relocked(st, lock, MaxOf(st.fence, lock.gen))
  BY DEF WithLock, Fenced!Relocked
<1> QED
  BY <1>1, <1>2 DEF WithLock, Stacks

\* A new lock, in place of none or of an expired one, is a grant.
LEMMA NewLockGrants ==
  ASSUME NEW st \in Stacks, NEW cur \in Locks \cup {NoLock}, NEW exp \in BOOLEAN,
         NEW id \in LockIDs, NEW owner \in Owners,
         st.lock # NoLock => /\ cur = st.lock /\ (exp \/ SkewedClocks)
                             /\ DeletionFence(cur) => id \in DeletionIDs
  PROVE  LET new == WithLock(st, NewLock(st, cur, id, owner))
         IN  new \in Stacks /\ Fenced!Grants(st, exp, new)
<1> DEFINE lock == NewLock(st, cur, id, owner)
           new == WithLock(st, lock)
<1>1. st.fence \in Nat /\ Gen(cur) \in Nat
  BY DEF Stacks, Gen, Locks
<1>2. lock \in Locks /\ lock.gen > st.fence /\ lock.gen > Gen(cur) /\ lock.id = id
  BY <1>1 DEF NewLock, Locks, MaxOf
<1>3. lock # NoLock /\ lock.gen \in Nat
  BY <1>2, ConstantsAssumption DEF Locks
<1>4. MaxOf(st.fence, lock.gen) = lock.gen
  BY <1>1, <1>2, <1>3 DEF MaxOf
<1> HIDE DEF lock
<1>5. new \in Stacks /\ new.lock = lock /\ new.fence = lock.gen
      /\ new = Fenced!Relocked(st, lock, lock.gen)
  BY <1>2, <1>4, WithLockProps
<1> HIDE DEF new
<1>6. Gen(st.lock) < lock.gen
  BY <1>1, <1>2, <1>3 DEF Gen
<1>7. st.lock # NoLock => (Fenced!Fence(st.lock) => Fenced!Fence(new.lock))
  BY <1>2, <1>3, <1>5 DEF Fenced!Fence, DeletionFence
<1>8. new.lock.gen > Fenced!Generation(st.lock)
  BY <1>5, <1>6, <1>1, <1>3 DEF Fenced!Generation, Gen, Stacks, Locks
<1>9. Fenced!Grants(st, exp, new)
  BY <1>2, <1>3, <1>5, <1>7, <1>8 DEF Fenced!Grants
<1> QED
  BY <1>5, <1>9 DEF new, lock

\* Keeping the lock that is there is a renewal; taking over the one of lock.json
\* is a grant.
LEMMA KeptLockLegal ==
  ASSUME NEW st \in Stacks, NEW cur \in Locks, NEW exp \in BOOLEAN,
         cur = st.lock \/ ~UsesCanonicalLock(st)
  PROVE  LET new == WithLock(st, Numbered(st, cur))
         IN  new \in Stacks /\ (Fenced!Grants(st, exp, new) \/ Fenced!Renews(st, new))
<1> DEFINE lock == Numbered(st, cur)
           new == WithLock(st, lock)
<1> SUFFICES new \in Stacks /\ (Fenced!Grants(st, exp, new) \/ Fenced!Renews(st, new))
  OBVIOUS
<1>1. st.fence \in Nat /\ cur.gen \in Nat /\ cur # NoLock
  BY ConstantsAssumption DEF Stacks, Locks
<1>2. /\ lock \in Locks /\ lock.id = cur.id /\ lock.owner = cur.owner
      /\ cur.gen # 0 => lock.gen = cur.gen
      /\ cur.gen = 0 => lock.gen = st.fence + 1
  BY <1>1 DEF Numbered, Locks
<1>3. lock # NoLock /\ lock.gen \in Nat
  BY <1>2, ConstantsAssumption DEF Locks
<1> HIDE DEF lock
<1>4. new \in Stacks /\ new.lock = lock /\ new.fence = MaxOf(st.fence, lock.gen)
      /\ new = Fenced!Relocked(st, lock, MaxOf(st.fence, lock.gen))
  BY <1>2, WithLockProps
<1> HIDE DEF new
<1>5. CASE cur = st.lock
  <2>1. /\ MaxOf(st.fence, lock.gen) >= st.fence
        /\ MaxOf(st.fence, lock.gen) >= lock.gen
        /\ st.lock.gen = 0 => lock.gen > st.fence
    BY <1>1, <1>2, <1>3, <1>5 DEF MaxOf
  <2>2. new = Fenced!Relocked(st, new.lock, new.fence)
    BY <1>4
  <2> QED
    BY <1>1, <1>2, <1>3, <1>4, <1>5, <2>1, <2>2 DEF Fenced!Renews
<1>6. CASE ~UsesCanonicalLock(st)
  <2>1. st.lock = NoLock /\ st.fence = 0
    BY <1>6 DEF UsesCanonicalLock
  <2>2. lock.gen > 0 /\ MaxOf(st.fence, lock.gen) = lock.gen
    BY <1>1, <1>2, <1>3, <2>1 DEF MaxOf
  <2>3. new = Fenced!Relocked(st, new.lock, new.lock.gen)
    BY <1>4, <2>2
  <2> QED
    BY <1>3, <1>4, <2>1, <2>2, <2>3 DEF Fenced!Grants, Fenced!Generation
<1> QED
  BY <1>5, <1>6

\* What a lock call prepares, from a stack st that is current or out of date.
LEMMA DecideOK ==
  ASSUME Inv, NEW c \in Callers, pc[c] \in {"lock.get", "lock.legacy"},
         NEW st \in Stacks, NEW e \in Nat, e <= etag, e = etag => stack = st,
         NEW cur \in Locks \cup {NoLock}, NEW exp \in BOOLEAN,
         \/ cur = st.lock /\ (exp => expired \/ SkewedClocks)
         \/ ~UsesCanonicalLock(st),
         Decide(c, st, e, cur, exp), UNCHANGED <<objectVars, upd>>
  PROVE  LocalTypes' /\ Others(c) /\ Local(c)'
<1>1. /\ StackOK /\ LocalTypes /\ Local(c) /\ etag' \in Nat /\ UpdReset(c)
      /\ arg[c] \in Calls /\ SameCall(c, "lock.put")
  <2>1. StackOK /\ LocalTypes /\ Local(c)
    BY InvParts
  <2>2. arg[c] \in Calls /\ pc[c] # "idle"
    BY <2>1 DEF Local
  <2> QED
    BY <2>1, <2>2 DEF StackOK, UpdReset, objectVars, SameCall, Labels, PutLabels,
       CreateUpdateLabels, SaveLabels, RecordLabels
<1>2. ASSUME NEW body \in Stacks, NEW renews \in BOOLEAN,
             Prepare(c, "lock.put", e, body, renews),
             Legal([etag |-> e, body |-> body, renews |-> renews], st, expired),
             arg[c].op = "renew" /\ st.canonical => st.lock # NoLock /\ st.lock.id = arg[c].id
      PROVE  LocalTypes' /\ Others(c) /\ Local(c)'
  BY <1>1, <1>2, PrepareLocalOK, ConstantsAssumption
  DEF PutLabels, WorkingLabels, CreateUpdateLabels
<1>3. CASE AcquireLock(c, st, e, cur, exp)
  <2>1. arg[c].id \in LockIDs /\ arg[c].owner \in Owners /\ arg[c].op = "acquire"
    BY <1>1, <1>3, CallsAssumption DEF AllCalls, AcquireLock
  <2>2. CASE Return(c, "LockHeld", cur)
    BY <1>1, <2>2, ReturnOK
  <2>3. CASE /\ ~Held(c, cur, exp) /\ cur # NoLock /\ ~exp
             /\ Prepare(c, "lock.put", e, WithLock(st, Numbered(st, cur)), TRUE)
    <3>1. expired \in BOOLEAN
      BY <1>1 DEF StackOK
    <3>2. cur \in Locks /\ (cur = st.lock \/ ~UsesCanonicalLock(st))
      BY <2>3
    <3> DEFINE new == WithLock(st, Numbered(st, cur))
    <3>3. new \in Stacks /\ (Fenced!Grants(st, expired, new) \/ Fenced!Renews(st, new))
      BY <3>1, <3>2, KeptLockLegal
    <3> HIDE DEF new
    <3>4. Legal([etag |-> e, body |-> new, renews |-> TRUE], st, expired)
      BY <3>3 DEF Legal
    <3> QED
      BY <1>2, <2>1, <2>3, <3>3, <3>4 DEF new
  <2>4. CASE /\ ~Held(c, cur, exp) /\ ~(cur # NoLock /\ ~exp)
             /\ Prepare(c, "lock.put", e,
                        WithLock(st, NewLock(st, cur, arg[c].id, arg[c].owner)), TRUE)
    <3>1. expired \in BOOLEAN
      BY <1>1 DEF StackOK
    <3>2. st.lock # NoLock => /\ cur = st.lock /\ (expired \/ SkewedClocks)
                              /\ DeletionFence(cur) => arg[c].id \in DeletionIDs
      BY <2>4 DEF Held, UsesCanonicalLock
    <3> DEFINE new == WithLock(st, NewLock(st, cur, arg[c].id, arg[c].owner))
    <3>3. new \in Stacks /\ Fenced!Grants(st, expired, new)
      BY <2>1, <3>1, <3>2, NewLockGrants
    <3> HIDE DEF new
    <3>4. Legal([etag |-> e, body |-> new, renews |-> TRUE], st, expired)
      BY <3>3 DEF Legal
    <3> QED
      BY <1>2, <2>1, <2>4, <3>3, <3>4 DEF new
  <2> QED
    BY <1>3, <2>2, <2>3, <2>4 DEF AcquireLock
<1>4. CASE RenewLock(c, st, e, cur, exp)
  <2>1. CASE \E err, val : Return(c, err, val)
    BY <1>1, <2>1, ReturnOK
  <2>2. CASE /\ cur # NoLock /\ ~NamesOther(c, cur) /\ ~exp
             /\ Prepare(c, "lock.put", e, WithLock(st, Numbered(st, cur)), TRUE)
    <3>1. expired \in BOOLEAN
      BY <1>1 DEF StackOK
    <3>2. cur \in Locks /\ (cur = st.lock \/ ~UsesCanonicalLock(st))
      BY <2>2
    <3> DEFINE new == WithLock(st, Numbered(st, cur))
    <3>3. new \in Stacks /\ (Fenced!Grants(st, expired, new) \/ Fenced!Renews(st, new))
      BY <3>1, <3>2, KeptLockLegal
    <3> HIDE DEF new
    <3>4. Legal([etag |-> e, body |-> new, renews |-> TRUE], st, expired)
      BY <3>3 DEF Legal
    <3>5. st.canonical => st.lock # NoLock /\ st.lock.id = arg[c].id
      BY <2>2, <3>2 DEF NamesOther, UsesCanonicalLock
    <3> QED
      BY <1>2, <2>2, <3>3, <3>4, <3>5 DEF new
  <2> QED
    BY <1>4, <2>1, <2>2 DEF RenewLock
<1>5. CASE ReleaseLock(c, st, e, cur)
  <2>1. CASE \E err, val : Return(c, err, val)
    BY <1>1, <2>1, ReturnOK
  <2> DEFINE new == [st EXCEPT !.lock = NoLock, !.fence = MaxOf(@, cur.gen),
                               !.canonical = TRUE]
  <2>2. CASE cur # NoLock /\ Prepare(c, "lock.put", e, new, FALSE)
    <3>1. cur \in Locks /\ cur.gen \in Nat /\ st.fence \in Nat
      BY <2>2 DEF Locks, Stacks
    <3>2. /\ MaxOf(st.fence, cur.gen) \in Nat /\ MaxOf(st.fence, cur.gen) >= st.fence
          /\ MaxOf(st.fence, cur.gen) >= cur.gen
      BY <3>1 DEF MaxOf
    <3>3. new = Fenced!Relocked(st, NoLock, MaxOf(st.fence, cur.gen))
      BY DEF Fenced!Relocked
    <3>4. new \in Stacks /\ new.lock = NoLock /\ new.fence = MaxOf(st.fence, cur.gen)
      BY <3>2 DEF Stacks
    <3> HIDE DEF new
    <3>5. /\ st.lock = NoLock => ~st.canonical
          /\ new.fence >= Fenced!Generation(st.lock)
      BY <2>2, <3>1, <3>2, <3>4 DEF UsesCanonicalLock, Fenced!Generation
    <3>6. Fenced!Releases(st, new)
      BY <3>2, <3>3, <3>4, <3>5 DEF Fenced!Releases
    <3>7. Legal([etag |-> e, body |-> new, renews |-> FALSE], st, expired)
      BY <3>6 DEF Legal
    <3> QED
      BY <1>2, <1>5, <2>2, <3>4, <3>7 DEF ReleaseLock
  <2> QED
    BY <1>5, <2>1, <2>2 DEF ReleaseLock
<1>6. CASE GetLock(c, cur)
  BY <1>1, <1>6, ReturnOK DEF GetLock
<1> QED
  BY <1>3, <1>4, <1>5, <1>6 DEF Decide

\* The GET of stack.json in a lock call keeps the invariant.
LEMMA LockGetOK ==
  ASSUME Inv, NEW c \in Callers, LockGet(c), UNCHANGED <<dataVars, lifeVars>>
  PROVE  StepOK(c)
<1>1. /\ StackOK /\ LocalTypes /\ Local(c) /\ pc[c] = "lock.get"
      /\ UNCHANGED <<objectVars, lockfileVars, objects, incs, upd>> /\ etag' \in Nat
  BY InvParts DEF LockGet, lockfileVars, dataVars, lifeVars, objectVars, StackOK
<1>2. StackOK' /\ DataOK' /\ Moves /\ FencedStep
  BY <1>1, QuietOK
<1>3. LocalTypes' /\ Others(c) /\ Local(c)'
  <2>1. CASE \E err, val : Return(c, err, val)
    BY <1>1, <2>1, ReturnOK DEF UpdReset
  <2>2. ASSUME stack # NoStack, NEW exp \in Judgements(expired),
               Decide(c, stack, etag, stack.lock, exp)
        PROVE  LocalTypes' /\ Others(c) /\ Local(c)'
    <3>1. stack \in Stacks /\ etag \in Nat /\ stack.lock \in Locks \cup {NoLock}
      BY <1>1, <2>2 DEF StackOK, Stacks
    <3>2. exp \in BOOLEAN /\ (exp => expired \/ SkewedClocks)
      BY <1>1, <2>2, ConstantsAssumption DEF Judgements, StackOK
    <3>3. etag <= etag
      BY <3>1
    <3> QED
      BY <1>1, <2>2, <3>1, <3>2, <3>3, DecideOK
  <2>3. CASE stack # NoStack /\ ~UsesCanonicalLock(stack) /\ Read(c, "lock.legacy")
    <3>1. /\ SameCall(c, "lock.legacy") /\ "lock.legacy" \notin PutLabels
          /\ "lock.legacy" \notin DeletingLabels /\ "lock.legacy" \notin WorkingLabels
      BY <1>1 DEF SameCall, Labels, PutLabels, CreateUpdateLabels, SaveLabels,
         RecordLabels, DeletingLabels, WorkingLabels
    <3> QED
      BY <1>1, <2>3, <3>1, ReadLocalOK
  <2> QED
    BY <2>1, <2>2, <2>3 DEF LockGet
<1> QED
  BY <1>2, <1>3 DEF StepOK

\* So does the GET of lock.json, decided against the stack.json read before it.
LEMMA LegacyGetOK ==
  ASSUME Inv, NEW c \in Callers, LegacyGet(c), UNCHANGED <<dataVars, lifeVars>>
  PROVE  StepOK(c)
<1>1. /\ StackOK /\ LocalTypes /\ Local(c) /\ DataOK /\ pc[c] = "lock.legacy"
      /\ UNCHANGED <<objectVars, lockfileVars, objects, incs, upd>> /\ etag' \in Nat
  BY InvParts DEF LegacyGet, lockfileVars, dataVars, lifeVars, objectVars, StackOK
<1>2. StackOK' /\ DataOK' /\ Moves /\ FencedStep
  BY <1>1, QuietOK
<1>3. LocalTypes' /\ Others(c) /\ Local(c)'
  <2>1. CASE \E err, val : Return(c, err, val)
    BY <1>1, <2>1, ReturnOK DEF UpdReset
  <2>2. ASSUME NEW exp \in BOOLEAN, Decide(c, snap[c], write[c].etag, lockfile, exp)
        PROVE  LocalTypes' /\ Others(c) /\ Local(c)'
    <3>1. /\ snap[c] \in Stacks /\ ~UsesCanonicalLock(snap[c])
          /\ write[c].etag = etag => stack = snap[c]
          /\ write[c].etag <= etag
      BY <1>1 DEF Local, CallerOK, LocalTypes
    <3>2. write[c].etag \in Nat /\ lockfile \in Locks \cup {NoLock}
      BY <1>1 DEF LocalTypes, Writes, EmptyWrites, DataOK
    <3> QED
      BY <1>1, <2>2, <3>1, <3>2, DecideOK
  <2>3. CASE \E exp \in Judgements(lockfileExpired) :
               Decide(c, snap[c], write[c].etag, lockfile, exp)
    <3>1. PICK exp \in Judgements(lockfileExpired) :
               Decide(c, snap[c], write[c].etag, lockfile, exp)
      BY <2>3
    <3> QED
      BY <1>1, <2>2, <3>1, ConstantsAssumption DEF Judgements, DataOK
  <2> QED
    BY <2>1, <2>3 DEF LegacyGet
<1> QED
  BY <1>2, <1>3 DEF StepOK

\* So does the PUT of a lock call, whatever its outcome.
LEMMA LockPutOK ==
  ASSUME Inv, NEW c \in Callers, LockPut(c), UNCHANGED <<dataVars, lifeVars>>
  PROVE  StepOK(c)
<1>1. /\ StackOK /\ LocalTypes /\ Local(c) /\ DataOK /\ pc[c] = "lock.put"
      /\ UNCHANGED <<lockfileVars, objects, incs, upd>>
  BY InvParts DEF LockPut, dataVars, lifeVars
<1>2. write[c] \in Writes /\ Ready(write[c]) /\ write[c].etag <= etag
  BY <1>1 DEF Local, CallerOK, LocalTypes, PutLabels, EmptyWrites
<1>3. DataOK'
  BY <1>1 DEF DataOK, lockfileVars
<1>4. StackOK' /\ Moves /\ FencedStep
  BY <1>1, <1>2, LandsOK, RefusedOK, AbandonedOK DEF LockPut
<1>5. etag' \in Nat
  BY <1>4 DEF StackOK
<1>6. LocalTypes' /\ Others(c) /\ Local(c)'
  <2>1. CASE \E err, val : Return(c, err, val)
    BY <1>1, <1>5, <2>1, ReturnOK DEF UpdReset
  <2>2. CASE NextRound(c, "lock.get")
    BY <1>1, <1>5, <2>2, NextRoundOK
  <2>3. CASE /\ Goto(c, "lock.delete")
             /\ snap' = [snap EXCEPT ![c] = NoStack]
             /\ write' = [write EXCEPT ![c] = NoWrite]
             /\ UNCHANGED <<arg, tries>>
    <3>1. NoWrite \in EmptyWrites /\ "lock.delete" \in Labels
      BY DEF NoWrite, OnlyETag, EmptyWrites, Labels
    <3>2. LocalTypes'
      BY <1>1, <2>3, <3>1 DEF LocalTypes, Goto
    <3>3. Others(c)
      BY <1>1, <2>3 DEF LocalTypes, Goto, Others, SameLocal
    <3>4. pc'[c] = "lock.delete" /\ write'[c] = NoWrite /\ arg'[c] = arg[c]
      BY <1>1, <2>3 DEF LocalTypes, Goto
    <3>5. Local(c)'
      <4>1. arg[c] \in Calls
        BY <1>1 DEF Local
      <4> QED
        BY <1>5, <3>4, <4>1, NoWriteLocalOK DEF PutLabels, CreateUpdateLabels, SaveLabels,
           RecordLabels, WorkingLabels, DeletingLabels
    <3> QED
      BY <3>2, <3>3, <3>5
  <2> QED
    BY <2>1, <2>2, <2>3 DEF LockPut
<1> QED
  BY <1>3, <1>4, <1>6 DEF StepOK

\* So does the removal of a migrated lock.json.
LEMMA LegacyDeleteOK ==
  ASSUME Inv, NEW c \in Callers, LegacyDelete(c), UNCHANGED <<dataVars, lifeVars>>
  PROVE  StepOK(c)
<1>1. /\ StackOK /\ LocalTypes /\ DataOK
      /\ UNCHANGED <<objectVars, objects, incs, upd>> /\ etag' \in Nat
  BY InvParts DEF LegacyDelete, dataVars, lifeVars, objectVars, StackOK
<1>2. DataOK'
  BY <1>1 DEF DataOK, LegacyDelete
<1>3. StackOK' /\ Moves /\ FencedStep
  BY <1>1, SameOK
<1>4. LocalTypes' /\ Others(c) /\ Local(c)'
  BY <1>1, ReturnOK DEF LegacyDelete, UpdReset
<1> QED
  BY <1>2, <1>3, <1>4 DEF StepOK
==============================================================================
