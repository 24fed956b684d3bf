---------------------------- MODULE MCStackStore -----------------------------
(***************************************************************************)
(* Instances of StackStore for TLC.  A scenario says which calls are made, *)
(* with which arguments, how many of them, and from which stack.json and   *)
(* lock.json; a run explores the scenarios that its configuration names.   *)
(***************************************************************************)
EXTENDS StackStore, TLC

CONSTANTS u1, u2, d1, d2, alice, bob, x1, x2, c1, c2, c3,
          Scenarios   \* the names of the scenarios of the run

VARIABLE scenario   \* the one that this behaviour belongs to

\* A call with the arguments its operation does not use left at a default.
AnyCall ==
  [op |-> "getStack", inc |-> 1, id |-> u1, owner |-> alice, gen |-> 0,
   kind |-> "update", version |-> 0, data |-> x1, status |-> "succeeded"]

Acquire(id, owner, inc) ==
  [AnyCall EXCEPT !.op = "acquire", !.id = id, !.owner = owner, !.inc = inc]
Renew(id, gen)     == [AnyCall EXCEPT !.op = "renew", !.id = id, !.gen = gen]
Release(id, gen)   == [AnyCall EXCEPT !.op = "release", !.id = id, !.gen = gen]
Update(id, kind)   == [AnyCall EXCEPT !.op = "createUpdate", !.id = id, !.kind = kind]
Save(id, gen, v, x) ==
  [AnyCall EXCEPT !.op = "save", !.id = id, !.gen = gen, !.version = v, !.data = x]
Seed(x)            == Save(NoID, 0, 0, x)
Delete(id, gen)    == [AnyCall EXCEPT !.op = "deleteStack", !.id = id, !.gen = gen]

Start(id)          == [AnyCall EXCEPT !.op = "start", !.id = id]
Complete(id, status) ==
  [AnyCall EXCEPT !.op = "complete", !.id = id, !.status = status]
Other(op)          == [AnyCall EXCEPT !.op = op]

First(st, file, objs) == [stack |-> st, lockfile |-> file, objects |-> objs]

Lock(id, owner, gen) == [id |-> id, owner |-> owner, gen |-> gen]
Locked(st, lock) == [st EXCEPT !.lock = lock, !.fence = lock.gen]
Record(id, kind, status, version) ==
  RecordOf(1, [id |-> id, kind |-> kind, status |-> status, version |-> version])

CallerSymmetry == Permutations(Callers)

------------------------------------------------------------------------------
(* Locking: two updates and a deletion contend for a new stack. *)
LockCalls ==
  {Acquire(u1, alice, 1), Acquire(u2, bob, 1), Acquire(d1, alice, 1)}
    \cup {Renew(u1, g) : g \in 0..1}
    \cup {Release(u1, 1), Release(u2, 2), Release(d1, 2)}
LockFirst == {First(NewStack(1), NoLock, {})}

------------------------------------------------------------------------------
(* Migration: a stack of an older build, its lock in lock.json, with and   *)
(* without a generation, and a deletion fence in lock.json.                *)
LegacyStack == [NewStack(0) EXCEPT !.canonical = FALSE]
MigrationCalls ==
  {Acquire(u2, bob, 0), Acquire(d1, alice, 0), Renew(u1, 0), Renew(u1, 3),
   Release(u1, 3), Release(u1, 0), Other("getLock")}
MigrationFirst ==
  {First(LegacyStack, file, {}) :
     file \in {NoLock, Lock(u1, alice, 0), Lock(u1, alice, 3), Lock(d1, alice, 0)}}

------------------------------------------------------------------------------
(* Commits: u1 holds the lock, before or after its version was taken, and  *)
(* may lose it to u2 at any point of creating its update or saving its     *)
(* checkpoint.                                                             *)
CommitCalls ==
  {Acquire(u2, bob, 1), Update(u1, "update"), Update(u2, "update"),
   Save(u1, 1, 1, x1), Save(u2, 2, 2, x2), Save(u2, 2, 1, x2), Release(u1, 1)}
CommitFirst ==
  LET held == Locked(NewStack(1), Lock(u1, alice, 1))
  IN  {First(held, NoLock, {}),
       First([held EXCEPT !.version = 1], NoLock,
             {Record(u1, "update", "in-progress", 1)})}

------------------------------------------------------------------------------
(* Deletion: a stack with a checkpoint and a running update, under d1's    *)
(* fence or not yet, is deleted while a preview, a checkpoint and another  *)
(* update go on.  Two deletions meet a preview and a creation.             *)
UsedStack ==
  [NewStack(1) EXCEPT !.version = 1, !.fence = 1, !.latest = <<1, x1>>,
                      !.checkpoints = {<<1, <<1, x1>>>>}]
UsedObjects(status) ==
  {Record(u1, "update", status, 1), Object(1, CheckpointKey(x1), x1),
   Object(1, LatestKey, x1)}
DeletionCalls ==
  {Delete(d1, 2), Acquire(d1, alice, 1), Acquire(u2, bob, 1), Update(u2, "preview"),
   Save(u1, 1, 1, x2)}
DeletionsCalls ==
  {Delete(d1, 2), Acquire(d1, alice, 1), Acquire(d2, bob, 1), Delete(d2, 3),
   Update(u2, "preview"), Other("createStack")}
DeletionFirst ==
  {First(Locked(UsedStack, lock), NoLock, UsedObjects("in-progress")) :
     lock \in {Lock(u1, alice, 1), Lock(d1, alice, 2)}}

\* A stack whose update is over, without the copy for older builds, or one whose
\* deletion by d1 was interrupted after its last batch.
DeletionsFirst ==
  {First(UsedStack, NoLock, {o \in UsedObjects("succeeded") : o.key # LatestKey}),
   First(Locked(UsedStack, Lock(d1, alice, 2)), NoLock, {})}

\* A preview and a deletion, no more.
PreviewCalls == {Acquire(d1, alice, 1), Delete(d1, 2), Update(u2, "preview")}
PreviewFirst == {First(UsedStack, NoLock, UsedObjects("succeeded"))}

------------------------------------------------------------------------------
(* Checkpoints: readers race the writers of two checkpoints of one version *)
(* or the seeds of a new stack.                                            *)
Readers ==
  {Other("getCheckpoint"), [Other("getCheckpointVersion") EXCEPT !.version = 1]}
CheckpointCalls == Readers \cup {Save(u1, 1, 1, x1), Save(u1, 1, 1, x2), Seed(x2)}
CheckpointFirst ==
  {First(Locked(UsedStack, Lock(u1, alice, 1)), NoLock, UsedObjects("in-progress"))}
SeedCalls == {Other("getCheckpoint"), Seed(x1), Seed(x2), Acquire(u2, bob, 1)}
SeedFirst == {First(NewStack(1), NoLock, {})}

------------------------------------------------------------------------------
(* Records: one update is started, completed and cancelled at once. *)
RecordCalls ==
  {Start(u1), Complete(u1, "succeeded"), Complete(u1, "failed"),
   Complete(u1, "cancelled"), Other("getUpdate")}
RecordFirst ==
  {First(Locked(UsedStack, Lock(u1, alice, 1)), NoLock, UsedObjects(status)) :
     status \in {"not-started", "in-progress"}}

------------------------------------------------------------------------------
(* The runs *)
Scenario ==
  [locking     |-> [calls |-> LockCalls, first |-> LockFirst, max |-> 4],
   migration   |-> [calls |-> MigrationCalls, first |-> MigrationFirst, max |-> 3],
   commits     |-> [calls |-> CommitCalls, first |-> CommitFirst, max |-> 3],
   deletion    |-> [calls |-> DeletionCalls, first |-> DeletionFirst, max |-> 3],
   deletions   |-> [calls |-> DeletionsCalls, first |-> DeletionsFirst, max |-> 3],
   preview     |-> [calls |-> PreviewCalls, first |-> PreviewFirst, max |-> 3],
   checkpoints |-> [calls |-> CheckpointCalls, first |-> CheckpointFirst, max |-> 3],
   seeds       |-> [calls |-> SeedCalls, first |-> SeedFirst, max |-> 3],
   records     |-> [calls |-> RecordCalls, first |-> RecordFirst, max |-> 4]]

ScenarioCalls == UNION {Scenario[s].calls : s \in Scenarios}
ScenarioFirst == UNION {Scenario[s].first : s \in Scenarios}

\* AcquireLock and the creation of a preview always get a newly drawn ID.
FreshCalls ==
  {a \in ScenarioCalls : \/ a.op = "acquire"
                         \/ a.op = "createUpdate" /\ a.kind = "preview"}

\* Spec, each behaviour within one scenario.
MCInit ==
  /\ Init
  /\ scenario \in {s \in Scenarios : First(stack, lockfile, objects) \in Scenario[s].first}

MCNext ==
  LET all == issued = Scenario[scenario].max IN
  /\ \/ \E c \in Callers, a \in Scenario[scenario].calls : ~all /\ Invoke(c, a)
     \/ \E c \in Callers : Request(c) /\ UNCHANGED clientVars
     \/ Environment /\ UNCHANGED clientVars
     \/ all /\ (\A c \in Callers : pc[c] = "idle") /\ UNCHANGED vars
  /\ UNCHANGED scenario

MCSpec == MCInit /\ [][MCNext]_<<vars, scenario>>
==============================================================================
