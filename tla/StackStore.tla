----------------------------- MODULE StackStore ------------------------------
(***************************************************************************)
(* One stack of the S3 store under any mix of concurrent store calls       *)
(* (store.go, type Store): the calls of StackLock, StackUpdates,           *)
(* StackCheckpoints and StackLifecycle, interleaved at every S3 request,   *)
(* with crashes, lost replies, late PUTs and expiring leases.              *)
(***************************************************************************)
EXTENDS StackLifecycle

CONSTANTS
  Calls,         \* the calls that are made: operation and arguments
  Fresh,         \* the calls with a newly drawn ID, which are made once
  MaxCalls,      \* bound on the number of calls
  FirstStacks    \* what the bucket may hold at the start

VARIABLES
  issued,   \* the number of calls made so far
  made      \* which of Fresh are among them

clientVars == <<issued, made>>
vars == <<objectVars, callVars, lockfileVars, dataVars, lifeVars, clientVars>>

Entry ==
  [acquire |-> "lock.get", renew |-> "lock.get", release |-> "lock.get",
   getLock |-> "lock.get", createUpdate |-> "update.get",
   getUpdate |-> "record.stack", start |-> "record.stack",
   complete |-> "record.stack", save |-> "save.stack",
   getStack |-> "read.stack", getCheckpoint |-> "read.stack",
   getCheckpointVersion |-> "read.stack",
   createStack |-> "create.put", deleteStack |-> "delete.get"]

\* The methods of the Store interface.
Ops == DOMAIN Entry

AllCalls ==
  [op : Ops, inc : Nat, id : LockIDs \cup {NoID}, owner : Owners, gen : Nat,
   kind : Kinds, version : Nat, data : Deployments, status : Statuses]

ASSUME CallsAssumption ==
  /\ Calls \subseteq AllCalls
  /\ NoCall \notin Calls
  /\ \A a \in Calls : a.id = NoID => a.op = "save"
  /\ \A a \in Calls : a.op \in {"createUpdate", "save"} => a.id \notin DeletionIDs
  /\ MaxCalls \in Nat
  /\ \A f \in FirstStacks : /\ f.stack \in Stacks \cup {NoStack}
                             /\ f.lockfile \in Locks \cup {NoLock}
                             /\ \A o \in f.objects, id \in LockIDs :
                                  o.key = UpdateKey(id) => o.val \in Updates

Init ==
  /\ \E f \in FirstStacks :
       /\ stack = f.stack
       /\ lockfile = f.lockfile
       /\ objects = f.objects
       /\ incs = IF f.stack = NoStack THEN 0 ELSE f.stack.inc
  /\ etag = 1
  /\ expired = FALSE
  /\ lockfileExpired = FALSE
  /\ late = {}
  /\ pc = [c \in Callers |-> "idle"]
  /\ arg = [c \in Callers |-> NoCall]
  /\ tries = [c \in Callers |-> MaxTries]
  /\ snap = [c \in Callers |-> NoStack]
  /\ write = [c \in Callers |-> NoWrite]
  /\ ret = [c \in Callers |-> NoResult]
  /\ upd = [c \in Callers |-> NoUpdate]
  /\ listed = [c \in Callers |-> {}]
  /\ issued = 0
  /\ made = {}

Invoke(c, a) ==
  /\ issued < MaxCalls
  /\ a \notin made
  /\ pc[c] = "idle"
  /\ Goto(c, Entry[a.op])
  /\ arg' = [arg EXCEPT ![c] = a]
  /\ ret' = [ret EXCEPT ![c] = NoResult]
  /\ issued' = issued + 1
  /\ made' = made \cup ({a} \cap Fresh)
  /\ UNCHANGED <<tries, snap, write, objectVars, lockfileVars, dataVars, lifeVars>>

\* The next S3 request of a running call, or its end.
Request(c) ==
  \/ LockStep(c) /\ UNCHANGED <<dataVars, lifeVars>>
  \/ CreateUpdateStep(c) /\ UNCHANGED lifeVars
  \/ RecordStep(c) /\ UNCHANGED lifeVars
  \/ SaveCheckpointStep(c) /\ UNCHANGED lifeVars
  \/ GetCheckpointStep(c) /\ UNCHANGED lifeVars
  \/ CreateStack(c)
  \/ DeleteStep(c)
  \/ /\ Crash(c)
     /\ upd' = [upd EXCEPT ![c] = NoUpdate]
     /\ listed' = [listed EXCEPT ![c] = {}]
     /\ UNCHANGED <<lockfileVars, objects, incs>>

Environment ==
  \/ LatePut /\ UNCHANGED <<lockfileVars, dataVars, lifeVars>>
  \/ LeaseExpires /\ UNCHANGED <<lockfileVars, dataVars, lifeVars>>
  \/ LegacyLeaseExpires /\ UNCHANGED <<dataVars, lifeVars>>

Done == issued = MaxCalls /\ \A c \in Callers : pc[c] = "idle"

Next ==
  \/ \E c \in Callers, a \in Calls : Invoke(c, a)
  \/ \E c \in Callers : Request(c) /\ UNCHANGED clientVars
  \/ Environment /\ UNCHANGED clientVars
  \/ Done /\ UNCHANGED vars

Spec == Init /\ [][Next]_vars

------------------------------------------------------------------------------
(* Properties *)

\* The program points of a running call and of a call that has a PUT ready.
PutLabels == {"lock.put", "commit.put", "preview.put", "save.put"}
Labels ==
  PutLabels \cup
  {"idle", "lock.get", "lock.legacy", "lock.delete",
   "update.get", "update.put", "existing.stack", "existing.record",
   "commit.get", "preview.get", "update.rollback",
   "record.stack", "record.get", "record.put",
   "save.stack", "save.object", "save.get", "save.history", "save.latest",
   "read.stack", "read.object", "create.put",
   "delete.get", "delete.list", "delete.validate", "delete.batch",
   "delete.relist", "delete.revalidate", "delete.stack"}

EmptyWrites == [etag : Nat, body : {NoStack}, renews : {FALSE}]

\* Every variable has its type, and a call about to PUT stack.json has a body.
TypeOK ==
  /\ stack \in Stacks \cup {NoStack}
  /\ etag \in Nat
  /\ expired \in BOOLEAN
  /\ \A w \in late : w \in Writes
  /\ pc \in [Callers -> Labels]
  /\ arg \in [Callers -> Calls \cup {NoCall}]
  /\ tries \in [Callers -> 1..MaxTries]
  /\ snap \in [Callers -> Stacks \cup {NoStack}]
  /\ write \in [Callers -> Writes \cup EmptyWrites]
  /\ lockfile \in Locks \cup {NoLock}
  /\ lockfileExpired \in BOOLEAN
  /\ upd \in [Callers -> Working \cup {NoUpdate}]
  /\ incs \in Nat
  /\ \A o \in objects, id \in LockIDs : o.key = UpdateKey(id) => o.val \in Updates
  /\ \A c \in Callers : pc[c] # "idle" => arg[c] \in Calls
  /\ \A c \in Callers : pc[c] \in PutLabels => write[c].body # NoStack

\* stack.json as clients see it is a fenced stack: every PUT that takes
\* effect, late ones included, is one of the changes FencedStack allows.
Fenced == INSTANCE FencedStack
FencedSpec == Fenced!Spec

SameIncarnation == stack # NoStack /\ stack' # NoStack /\ stack'.inc = stack.inc

\* No generation is given out twice in an incarnation: the fence never falls,
\* and a lock that changes hands gets a generation above the fence
\* (AcquireLock's generation, RenewLock's and ReleaseLock's max).
FenceRises ==
  [][SameIncarnation =>
       /\ stack'.fence >= stack.fence
       /\ stack'.lock \in {stack.lock, NoLock} \/ stack'.lock.gen > stack.fence]_stack

\* While a deletion fence stands, expired or not, no update gets in: the fence
\* is all that changes until it is released or the stack is gone.
TombstoneKept ==
  [][SameIncarnation /\ DeletionFence(stack.lock) =>
       /\ stack'.lock = NoLock \/ DeletionFence(stack'.lock)
       /\ stack'.version = stack.version
       /\ stack'.latest = stack.latest /\ stack'.checkpoints = stack.checkpoints]_stack

HoldsFor(id, gen) ==
  stack.lock # NoLock /\ stack.lock.id = id /\ stack.lock.gen = gen

CommitsAsHolder(c) ==
  /\ pc[c] = "commit.put" /\ write[c].etag = etag =>
       stack.inc = upd[c].inc /\ HoldsFor(arg[c].id, upd[c].gen)
  /\ pc[c] = "save.put" /\ write[c].etag = etag =>
       /\ stack.inc = arg[c].inc /\ stack.version = arg[c].version
       /\ IF arg[c].id = NoID THEN stack.lock = NoLock
                              ELSE HoldsFor(arg[c].id, arg[c].gen)

\* A version or checkpoint PUT that S3 would still accept belongs to the lock's
\* present holder, under the generation the call was made with.
CommitByHolder == \A c \in Callers : CommitsAsHolder(c)

\* What callers were told of updates.
ToldUpdates ==
  {ret[c].val : c \in {x \in Callers : ret[x].err = "nil" /\ ret[x].val # NoLock
                                       /\ "fresh" \in DOMAIN ret[x].val}}

\* No two updates are acknowledged under the same version, even if the lock
\* passes from one to the other between the record and its commit
\* (commitUpdateVersion).
VersionsUnique ==
  \A v, w \in ToldUpdates :
    /\ v.inc = w.inc /\ v.u.version = w.u.version
    /\ v.u.kind # "preview" /\ w.u.kind # "preview"
    => v.u.id = w.u.id

RenewsOwn(c) ==
  pc[c] = "lock.put" /\ arg[c].op = "renew" /\ write[c].etag = etag /\ stack.canonical =>
    stack.lock # NoLock /\ stack.lock.id = arg[c].id

\* Renewing never revives a lock that was released: once a stack keeps its lock
\* in stack.json, a renewal that S3 would still accept extends the lock that is
\* there, whatever an orphaned lock.json says (usesCanonicalLock).
RenewNeverRevives == \A c \in Callers : RenewsOwn(c)

\* The record of an acknowledged update is there as long as its stack is and no
\* deletion runs, and never outlives its stack.
KeptWithStack(w) ==
  LET there == At(w.inc, UpdateKey(w.u.id)) # {}
      alive == stack # NoStack /\ stack.inc = w.inc
  IN  (alive /\ ~DeletionFence(stack.lock) => there) /\ (there => alive)

\* CreateUpdate's barrier orders a preview, which holds no lock, with deletion:
\* a preview that passed it is deleted with the stack, neither before nor never.
PreviewKept ==
  \A w \in ToldUpdates : w.fresh /\ w.u.kind = "preview" => KeptWithStack(w)

\* The same for every preview that CreateUpdate reports, the ones it found
\* already written included.
AnyPreviewKept ==
  \A w \in ToldUpdates : w.u.kind = "preview" => KeptWithStack(w)

\* What a caller was told of an update's status stays true or is a status it
\* has moved on from: of two outcomes that race only one is acknowledged
\* (StartUpdate, CompleteUpdate).
ToldStatus ==
  \A w \in ToldUpdates : \A o \in At(w.inc, UpdateKey(w.u.id)) :
    \/ o.val.status = w.u.status
    \/ MayMove(w.u.status, o.val.status)
    \/ w.u.status = "not-started" /\ MayMove("in-progress", o.val.status)

\* Outside a deletion, stack.json never points at a checkpoint that is gone:
\* SaveCheckpoint writes the object first, and no deletion, not even one whose
\* fence has expired half way, leaves a stack that can be used again.
NoDanglingCheckpoint ==
  stack # NoStack /\ ~DeletionFence(stack.lock) =>
    \A k \in {p[2] : p \in stack.checkpoints} \cup ({stack.latest} \ {NoData}) :
      At(k[1], CheckpointKey(k[2])) # {}

\* A reader whose stack.json is current gets the committed deployment, in
\* whatever order the copies for older builds were written.
ReadsCommitted ==
  \A c \in Callers :
    pc[c] = "read.object" /\ write[c].etag = etag /\ ~DeletionFence(stack.lock) =>
      LET from == CheckpointOf(snap[c], arg[c].op, arg[c].version)
          committed == IF arg[c].op = "getCheckpoint"
                       THEN {stack.latest} \ {NoData}
                       ELSE {p[2] : p \in {q \in stack.checkpoints : q[1] = arg[c].version}}
      IN  \A k \in committed : {o.val : o \in At(from[1], from[2])} = {k[2]}

\* The pointers of st agree: a version has one checkpoint, no version that is
\* not taken has one, and the latest one is that of the newest version.
PointersAgree(st) ==
  /\ \A p, q \in st.checkpoints : p[1] = q[1] => p = q
  /\ \A p \in st.checkpoints : p[1] <= st.version
  /\ st.checkpoints = {} => st.latest = NoData
  /\ \A p \in st.checkpoints :
       (\A q \in st.checkpoints : q[1] <= p[1]) => st.latest = p[2]

\* The deployment that GetCheckpoint returns is that of the newest version that
\* has one, through takeovers and repeated checkpoints of one version
\* (SaveCheckpoint).
LatestIsNewest == stack # NoStack => PointersAgree(stack)

\* The stacks that a service finds were written by one.
ASSUME FirstAssumption ==
  \A f \in FirstStacks : f.stack # NoStack => PointersAgree(f.stack)

------------------------------------------------------------------------------
(* The inductive invariant behind TypeOK, FencedSpec and CommitByHolder.   *)

\* The PUT w is one of the changes that FencedStack allows to st.
Legal(w, st, exp) ==
  IF w.renews
  THEN Fenced!Grants(st, exp, w.body) \/ Fenced!Renews(st, w.body)
  ELSE \/ Fenced!Releases(st, w.body) \/ Fenced!Advances(st, w.body)
       \/ Fenced!Points(st, w.body) \/ w.body = st

\* A PUT that S3 would accept now is legal now.
Ready(w) ==
  w.body # NoStack /\ w.etag = etag => stack # NoStack /\ Legal(w, stack, expired)

ObjectOK ==
  /\ expired => stack # NoStack /\ stack.lock # NoLock
  /\ \A w \in late : w.etag <= etag /\ Ready(w)

CreateUpdateLabels ==
  {"update.get", "update.put", "existing.stack", "existing.record", "commit.get",
   "commit.put", "preview.get", "preview.put", "update.rollback"}
WorkingLabels == (CreateUpdateLabels \ {"update.get"}) \cup {"record.put"}
RecordLabels == {"record.stack", "record.get", "record.put"}
SaveLabels ==
  {"save.stack", "save.object", "save.get", "save.put", "save.history", "save.latest"}
DeletingLabels ==
  {"delete.list", "delete.validate", "delete.batch", "delete.relist",
   "delete.revalidate", "delete.stack"}

\* What a caller relies on at each program point.
CallerOK(c) ==
  /\ pc[c] \in CreateUpdateLabels => arg[c].op = "createUpdate"
  /\ pc[c] \in SaveLabels => arg[c].op = "save"
  /\ pc[c] \in RecordLabels => arg[c].op \in {"getUpdate", "start", "complete"}
  /\ pc[c] \in WorkingLabels => upd[c] \in Working
  /\ pc[c] = "lock.legacy" =>
       /\ snap[c] # NoStack /\ ~UsesCanonicalLock(snap[c])
       /\ write[c].etag = etag => stack = snap[c]
  /\ pc[c] = "record.get" => snap[c] # NoStack
  /\ pc[c] \in DeletingLabels /\ write[c].etag = etag =>
       stack # NoStack /\ DeletionFence(stack.lock)
  /\ write[c].etag <= etag
  /\ Ready(write[c])

\* Every PUT of stack.json that S3 would still accept, prepared or given up, is
\* a legal change of the stack as it is now: no call acts on what it read once
\* that has changed.
PendingLegal == TypeOK /\ ObjectOK /\ \A c \in Callers : CallerOK(c)

Inv == PendingLegal /\ CommitByHolder /\ RenewNeverRevives
==============================================================================
