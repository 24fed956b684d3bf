------------------------------- MODULE Backend -------------------------------
(***************************************************************************)
(* The handlers of internal/api that work on one stack, each a program     *)
(* over the store calls of StackStore.                                     *)
(*                                                                         *)
(* A request is served by a caller of StackStore.  When the store call it  *)
(* waits for has returned, the handler looks at the result and makes the   *)
(* next call or answers.  Between any two S3 requests of one handler other *)
(* requests, here or in another replica, go on.                            *)
(*                                                                         *)
(* Clients know an update's ID from the answer to its creation, or as the  *)
(* stack's active update when they cancel it, and need the token that      *)
(* startUpdate answers with for everything else.                           *)
(***************************************************************************)
EXTENDS StackStore

CONSTANTS
  Situations,  \* where behaviours begin: what the bucket holds (first), the
               \* requests that clients make, each once, what they know (acks),
               \* cfg.NoAuth, and a bound on the number of failures (maxFaults)
  Empty,       \* deployments without resources
  S3Faults,    \* whether S3 itself fails requests, or only clients disconnect
  Crashes      \* whether processes die

ASSUME BackendAssumption ==
  /\ Empty \subseteq Deployments
  /\ {S3Faults, Crashes} \subseteq BOOLEAN
  /\ \A s \in Situations :
       s.first \in FirstStacks /\ s.noAuth \in BOOLEAN /\ s.maxFaults \in Nat

Requests == UNION {s.requests : s \in Situations}

VARIABLES
  todo,     \* requests still to be made
  at,       \* per caller: the store call its handler waits for, or "none"
  loc,      \* per caller: the handler's local variables, as arguments of calls
  flag,     \* per caller: ?force=true of a deletion, "state" of a creation
  acks,     \* what successful answers have told clients
  faults,   \* failures so far
  setting   \* noAuth and maxFaults of the situation

handlerVars == <<at, loc, flag>>
backendVars == <<vars, todo, handlerVars, acks, faults, setting>>

\* An answer: an update was created, checkpointed or ended, a token was issued,
\* or a stack was deleted.
Ack(what, m) == [what |-> what, id |-> m.id, inc |-> m.inc, gen |-> m.gen]
Acked(what) == {a \in acks : a.what = what}

Err(c) == ret[c].err
Val(c) == ret[c].val
Okay(c) == Err(c) = "nil"

------------------------------------------------------------------------------
(* A handler's steps. *)

\* The handler makes the store call a and keeps its variables in m.
Issue(c, label, a, m) ==
  /\ a \in Calls
  /\ Invoke(c, a)
  /\ at' = [at EXCEPT ![c] = label]
  /\ loc' = [loc EXCEPT ![c] = m]

Call(c, label, op, m) ==
  /\ Issue(c, label, [m EXCEPT !.op = op], m)
  /\ UNCHANGED <<flag, acks>>

\* Answer, leaving the handler's variables behind.
AnswerDirty(c, what) ==
  /\ at' = [at EXCEPT ![c] = "none"]
  /\ acks' = acks \cup what
  /\ UNCHANGED <<vars, loc, flag>>

\* The handler ends.
Answer(c, what) ==
  /\ at' = [at EXCEPT ![c] = "none"]
  /\ loc' = [loc EXCEPT ![c] = NoCall]
  /\ flag' = [flag EXCEPT ![c] = FALSE]
  /\ acks' = acks \cup what
  /\ UNCHANGED vars

\* storeError, writeStoreError, internalError, writeError
Fails(c) == Answer(c, {})

Succeeds(c, what) == Answer(c, {Ack(what, loc[c])})

\* releaseLockOnExit, then the answer.
ReleaseOnExit(c, m) == Call(c, "exit", "release", m)

\* lock.Expired(time.Now()) on a copy: sure to hold once the lease of that very
\* lock has run out, and possible whenever it has been renewed since.
CopyExpired(lock) ==
  IF stack # NoStack /\ stack.lock = lock /\ expired THEN {TRUE} ELSE BOOLEAN

\* requireLiveLock, on the result of GetLock; generation 0 stands for any.
Live(c, gen) ==
  /\ Okay(c)
  /\ Val(c).id = loc[c].id
  /\ gen # 0 => Val(c).gen = gen
  /\ FALSE \in CopyExpired(Val(c))

NotLive(c, gen) ==
  Okay(c) => \/ Val(c).id # loc[c].id
             \/ gen # 0 /\ Val(c).gen # gen
             \/ TRUE \in CopyExpired(Val(c))

WithGen(c) == [loc[c] EXCEPT !.gen = Val(c).gen]
Preview(u) == u.kind = "preview"

------------------------------------------------------------------------------
(* updates.go *)

\* Replay, taking the lock again.
ReplayAcquire(c) == Call(c, "createUpdate.renew", "acquire", loc[c])

\* The request repeats the creation of an update that holds the lock already:
\* it renews that lock and commits that update.
Replay(c) == Call(c, "createUpdate.renew", "renew", loc[c])

\* Abandon, taking no notice of the failure.
AbandonIgnored(c) == Succeeds(c, "created")

\* Abandon, keeping the lock.
AbandonLocked(c) == Fails(c)

\* CreateUpdate failed.
Abandon(c) == IF Preview(loc[c]) THEN Fails(c) ELSE ReleaseOnExit(c, loc[c])

createUpdate(c) ==
  LET m == loc[c] IN
  \/ /\ at[c] = "createUpdate.stack"
     /\ \/ ~Okay(c) /\ Fails(c)
        \/ /\ Okay(c)
           /\ IF Preview(m) THEN Call(c, "createUpdate.create", "createUpdate", m)
              ELSE Call(c, "createUpdate.lock", "acquire", [m EXCEPT !.inc = Val(c).inc])
  \/ /\ at[c] = "createUpdate.lock"
     /\ \/ Okay(c) /\ Call(c, "createUpdate.create", "createUpdate", WithGen(c))
        \/ /\ Err(c) = "LockHeld" /\ Val(c).owner = m.owner
           /\ Call(c, "createUpdate.existing", "getUpdate",
                   [m EXCEPT !.id = Val(c).id, !.gen = Val(c).gen])
        \/ /\ ~Okay(c) /\ (Err(c) = "LockHeld" => Val(c).owner # m.owner)
           /\ Fails(c)
  \/ \* the caller's own pending update
     /\ at[c] = "createUpdate.existing"
     /\ LET replay == Okay(c) /\ Val(c).u.kind = m.kind /\ Val(c).u.status = "not-started"
        IN  \/ replay /\ Replay(c)
            \/ ~replay /\ Fails(c)
  \/ /\ at[c] = "createUpdate.renew"
     /\ \/ Okay(c) /\ Call(c, "createUpdate.commit", "createUpdate", m)
        \/ ~Okay(c) /\ Fails(c)
  \/ /\ at[c] = "createUpdate.commit"
     /\ IF Okay(c) THEN Succeeds(c, "created") ELSE Fails(c)
  \/ /\ at[c] = "createUpdate.create"
     /\ \/ Okay(c) /\ Succeeds(c, "created")
        \/ ~Okay(c) /\ Abandon(c)

startUpdate(c) ==
  LET m == loc[c]
      begin == m.status = "not-started"
  IN
  \/ /\ at[c] = "start.record"
     /\ \/ /\ Okay(c) => Val(c).u.status \notin {"not-started", "in-progress"}
           /\ Fails(c)
        \/ /\ Okay(c) /\ Val(c).u.status \in {"not-started", "in-progress"}
           /\ LET read == [m EXCEPT !.kind = Val(c).u.kind, !.status = Val(c).u.status]
              IN  \/ ~Preview(read) /\ Call(c, "start.live", "getLock", read)
                  \/ /\ Preview(read) /\ read.status = "not-started"
                     /\ Call(c, "start.start", "start", read)
                  \/ Preview(read) /\ read.status = "in-progress" /\ Succeeds(c, "token")
  \/ /\ at[c] = "start.live"
     /\ \/ Live(c, 0) /\ Call(c, "start.renew", "renew", WithGen(c))
        \/ NotLive(c, 0) /\ Fails(c)
  \/ /\ at[c] = "start.renew"
     /\ \/ Okay(c) /\ begin /\ Call(c, "start.start", "start", WithGen(c))
        \/ Okay(c) /\ ~begin /\ Answer(c, {Ack("token", WithGen(c))})
        \/ ~Okay(c) /\ Fails(c)
  \/ /\ at[c] = "start.start"
     /\ IF Okay(c) THEN Succeeds(c, "token") ELSE Fails(c)

\* Checkpointable in any status.
CheckpointableAlways(u) == ~Preview(u)

Checkpointable(u) == ~Preview(u) /\ u.status = "in-progress"

\* patchCheckpoint, patchCheckpointVerbatim
saveCheckpointForUpdate(c) ==
  LET m == loc[c] IN
  \/ /\ at[c] = "patch.record"
     /\ LET open == Okay(c) /\ Checkpointable(Val(c).u)
        IN  \/ ~open /\ Fails(c)
            \/ open /\ Call(c, "patch.live", "getLock",
                            [m EXCEPT !.inc = Val(c).inc, !.version = Val(c).u.version])
  \/ /\ at[c] = "patch.live"
     /\ \/ Live(c, m.gen) /\ Call(c, "patch.renew", "renew", WithGen(c))
        \/ NotLive(c, m.gen) /\ Fails(c)
  \/ /\ at[c] = "patch.renew"
     /\ \/ Okay(c) /\ Call(c, "patch.save", "save", WithGen(c))
        \/ ~Okay(c) /\ Fails(c)
  \/ /\ at[c] = "patch.save"
     /\ IF Okay(c) THEN Succeeds(c, "saved") ELSE Fails(c)

\* releaseUpdateLock, whatever the release returned.
releaseUpdateLockUnchecked(c) == at[c] = "release" /\ Succeeds(c, "ended")

\* releaseUpdateLock, waiting for a better result.
releaseUpdateLockOrWait(c) ==
  at[c] = "release" /\ Err(c) \in {"nil", "LockHeld"} /\ Succeeds(c, "ended")

\* releaseUpdateLock, the last step of completeUpdate and cancelUpdate: a lock
\* that is someone else's by now is as good as released.
releaseUpdateLock(c) ==
  /\ at[c] = "release"
  /\ IF Err(c) \in {"nil", "LockHeld"} THEN Succeeds(c, "ended") ELSE Fails(c)

\* CompleteAgain, releasing only the lock that the claims name.
CompleteAgainByClaims(c) ==
  IF loc[c].gen = 0 THEN Succeeds(c, "ended") ELSE Call(c, "release", "release", loc[c])

\* The status is set already: only the lock may be left to release.
CompleteAgain(c) ==
  IF loc[c].gen = 0 THEN Call(c, "complete.lock", "getLock", loc[c])
                    ELSE Call(c, "release", "release", loc[c])

completeUpdate(c) ==
  LET m == loc[c] IN
  \/ /\ at[c] = "complete.record"
     /\ \/ ~Okay(c) /\ Fails(c)
        \/ /\ Okay(c) /\ Val(c).u.status = m.status
           /\ IF Preview(Val(c).u) THEN Succeeds(c, "ended") ELSE CompleteAgain(c)
        \/ /\ Okay(c) /\ Val(c).u.status # m.status
           /\ \/ Val(c).u.status # "in-progress" /\ Fails(c)
              \/ /\ Val(c).u.status = "in-progress"
                 /\ LET read == [m EXCEPT !.kind = Val(c).u.kind]
                    IN  IF Preview(read) THEN Call(c, "complete.complete", "complete", read)
                                         ELSE Call(c, "complete.live", "getLock", read)
  \/ /\ at[c] = "complete.lock"
     /\ LET own == Okay(c) /\ Val(c).id = m.id
        IN  \/ own /\ Val(c).gen # 0 /\ Call(c, "release", "release", WithGen(c))
            \/ /\ \/ ~own /\ Err(c) \in {"nil", "ErrNoLock"}
                  \/ own /\ Val(c).gen = 0
               /\ Succeeds(c, "ended")
            \/ Err(c) \notin {"nil", "ErrNoLock"} /\ Fails(c)
  \/ /\ at[c] = "complete.live"
     /\ \/ Live(c, m.gen) /\ Call(c, "complete.complete", "complete", WithGen(c))
        \/ NotLive(c, m.gen) /\ Fails(c)
  \/ /\ at[c] = "complete.complete"
     /\ \/ Okay(c) /\ ~Preview(m) /\ Call(c, "release", "release", m)
        \/ Okay(c) /\ Preview(m) /\ Succeeds(c, "ended")
        \/ ~Okay(c) /\ Fails(c)

renewLease(c) ==
  LET m == loc[c] IN
  \/ /\ at[c] = "renew.record"
     /\ \/ ~Okay(c) /\ Fails(c)
        \/ Okay(c) /\ Preview(Val(c).u) /\ Succeeds(c, "token")
        \/ Okay(c) /\ ~Preview(Val(c).u) /\ Call(c, "renew.live", "getLock", m)
  \/ /\ at[c] = "renew.live"
     /\ \/ Live(c, m.gen) /\ Call(c, "renew.renew", "renew", WithGen(c))
        \/ NotLive(c, m.gen) /\ Fails(c)
  \/ /\ at[c] = "renew.renew"
     /\ IF Okay(c) THEN Answer(c, {Ack("token", WithGen(c))}) ELSE Fails(c)

cancelUpdate(c) ==
  LET m == [loc[c] EXCEPT !.status = "cancelled"]
      own == Okay(c) /\ Val(c).id = m.id
      known == Err(c) \in {"nil", "ErrNoLock"}
  IN
  \/ /\ at[c] = "cancel.record"
     /\ \/ ~Okay(c) /\ Fails(c)
        \/ /\ Okay(c) /\ Val(c).u.status \notin {"not-started", "in-progress", "cancelled"}
           /\ Fails(c)
        \/ /\ Okay(c) /\ Val(c).u.status = "cancelled"
           /\ \/ Preview(Val(c).u) /\ Succeeds(c, "ended")
              \/ ~Preview(Val(c).u) /\ Call(c, "cancel.again", "getLock", m)
        \/ /\ Okay(c) /\ Val(c).u.status \in {"not-started", "in-progress"}
           /\ \/ Preview(Val(c).u) /\ Call(c, "cancel.only", "complete", m)
              \/ ~Preview(Val(c).u) /\ Call(c, "cancel.lock", "getLock", m)
  \/ /\ at[c] = "cancel.again"
     /\ \/ own /\ Call(c, "release", "release", [m EXCEPT !.gen = Val(c).gen])
        \/ known /\ ~own /\ Succeeds(c, "ended")
        \/ ~known /\ Fails(c)
  \/ /\ at[c] = "cancel.lock"
     /\ \/ own /\ Call(c, "cancel.cancel", "complete", [m EXCEPT !.gen = Val(c).gen])
        \/ known /\ ~own /\ Call(c, "cancel.only", "complete", m)
        \/ ~known /\ Fails(c)
  \/ /\ at[c] = "cancel.cancel"
     /\ IF Okay(c) THEN Call(c, "release", "release", m) ELSE Fails(c)
  \/ /\ at[c] = "cancel.only"
     /\ IF Okay(c) THEN Succeeds(c, "ended") ELSE Fails(c)

------------------------------------------------------------------------------
(* stacks.go *)

createStack(c) ==
  LET m == loc[c] IN
  \/ /\ at[c] = "stack.create"
     /\ \/ ~Okay(c) /\ Fails(c)
        \/ Okay(c) /\ ~flag[c] /\ Answer(c, {})
        \/ /\ Okay(c) /\ flag[c]
           /\ Issue(c, "stack.seed",
                    [m EXCEPT !.op = "save", !.inc = Val(c).inc, !.id = NoID],
                    [m EXCEPT !.inc = Val(c).inc])
           /\ UNCHANGED <<flag, acks>>
  \/ /\ at[c] = "stack.seed"
     /\ \/ Okay(c) /\ Answer(c, {})
        \/ ~Okay(c) /\ Call(c, "rollback.lock", "acquire", m)

rollbackFailedStackCreation(c) ==
  LET m == loc[c]
      same == Okay(c) /\ Val(c).inc = m.inc
  IN
  \/ /\ at[c] = "rollback.lock"
     /\ IF Okay(c) THEN Call(c, "rollback.stack", "getStack", WithGen(c)) ELSE Fails(c)
  \/ /\ at[c] = "rollback.stack"
     /\ IF same THEN Call(c, "rollback.delete", "deleteStack", m) ELSE ReleaseOnExit(c, m)
  \/ at[c] = "rollback.delete" /\ Fails(c)

\* Deleted, releasing the fence of a deletion that failed.
DeletedOrReleased(c) == IF Okay(c) THEN Succeeds(c, "deleted") ELSE ReleaseOnExit(c, loc[c])

\* DeleteStack returned; if it failed, its fence stays.
Deleted(c) == IF Okay(c) THEN Succeeds(c, "deleted") ELSE Fails(c)

\* A deletion that found its owner's fence in place goes on under it.
deleteStack(c) ==
  LET m == loc[c]
      Proceed(l) == IF flag[c] THEN Call(c, "delete.delete", "deleteStack", l)
                               ELSE Call(c, "delete.checkpoint", "getCheckpoint", l)
      mine == Err(c) = "LockHeld" /\ Val(c).owner = m.owner /\ DeletionFence(Val(c))
      blank == \/ Okay(c) /\ Val(c).val \in Empty
               \/ Err(c) = "ErrCheckpointNotFound"
  IN
  \/ /\ at[c] = "delete.stack"
     /\ IF Okay(c) THEN Call(c, "delete.lock", "acquire", [m EXCEPT !.inc = Val(c).inc])
                   ELSE Fails(c)
  \/ /\ at[c] = "delete.lock"
     /\ \/ Okay(c) /\ Proceed(WithGen(c))
        \/ /\ mine /\ FALSE \in CopyExpired(Val(c))
           /\ Call(c, "delete.renew", "renew", [m EXCEPT !.id = Val(c).id, !.gen = Val(c).gen])
        \/ ~Okay(c) /\ (mine => TRUE \in CopyExpired(Val(c))) /\ Fails(c)
  \/ /\ at[c] = "delete.renew"
     /\ IF Okay(c) THEN Proceed(WithGen(c)) ELSE Fails(c)
  \/ /\ at[c] = "delete.checkpoint"
     /\ IF blank THEN Call(c, "delete.delete", "deleteStack", m) ELSE ReleaseOnExit(c, m)
  \/ at[c] = "delete.delete" /\ Deleted(c)

\* One store call after the other; the lock is released whatever happens.
importStack(c) ==
  LET m == loc[c] IN
  \/ /\ at[c] = "import.stack"
     /\ IF Okay(c) THEN Call(c, "import.lock", "acquire", [m EXCEPT !.inc = Val(c).inc])
                   ELSE Fails(c)
  \/ /\ at[c] = "import.lock"
     /\ IF Okay(c) THEN Call(c, "import.create", "createUpdate", WithGen(c)) ELSE Fails(c)
  \/ /\ at[c] = "import.create"
     /\ IF Okay(c) THEN Call(c, "import.start", "start",
                             [m EXCEPT !.inc = Val(c).inc, !.version = Val(c).u.version])
                   ELSE ReleaseOnExit(c, m)
  \/ /\ at[c] = "import.start"
     /\ IF Okay(c) THEN Call(c, "import.save", "save", m) ELSE ReleaseOnExit(c, m)
  \/ /\ at[c] = "import.save"
     /\ IF Okay(c) THEN Call(c, "import.complete", "complete", m) ELSE ReleaseOnExit(c, m)
  \/ /\ at[c] = "import.complete"
     /\ IF Okay(c) THEN Call(c, "import.release", "release", m) ELSE ReleaseOnExit(c, m)
  \/ at[c] = "import.release" /\ Succeeds(c, "ended")

getStack(c) ==
  \/ /\ at[c] = "get.stack"
     /\ IF Okay(c) THEN Call(c, "get.lock", "getLock", loc[c]) ELSE Fails(c)
  \/ at[c] = "get.lock" /\ Answer(c, {})

\* The checkpoint, or an empty deployment if there is none, or an error.
exportStack(c) == at[c] = "export" /\ Answer(c, {})

getUpdateStatus(c) == at[c] = "status" /\ Answer(c, {})

\* The answer after releaseLockOnExit.
Exit(c) == at[c] = "exit" /\ Fails(c)

Handle(c) ==
  \/ createUpdate(c) \/ startUpdate(c) \/ saveCheckpointForUpdate(c)
  \/ releaseUpdateLock(c) \/ completeUpdate(c) \/ renewLease(c) \/ cancelUpdate(c)
  \/ createStack(c) \/ rollbackFailedStackCreation(c) \/ deleteStack(c)
  \/ importStack(c) \/ getStack(c) \/ exportStack(c) \/ getUpdateStatus(c) \/ Exit(c)

------------------------------------------------------------------------------
(* Requests arrive, calls run, processes die. *)

\* A handler's first store call and the label it waits at.
FirstCall ==
  [createUpdate |-> <<"getStack", "createUpdate.stack">>,
   start        |-> <<"getUpdate", "start.record">>,
   patch        |-> <<"getUpdate", "patch.record">>,
   complete     |-> <<"getUpdate", "complete.record">>,
   renew        |-> <<"getUpdate", "renew.record">>,
   cancel       |-> <<"getUpdate", "cancel.record">>,
   createStack  |-> <<"createStack", "stack.create">>,
   deleteStack  |-> <<"getStack", "delete.stack">>,
   import       |-> <<"getStack", "import.stack">>,
   getStack     |-> <<"getStack", "get.stack">>,
   export       |-> <<"getCheckpoint", "export">>,
   exportVersion |-> <<"getCheckpointVersion", "export">>,
   status       |-> <<"getUpdate", "status">>]

\* The update in a request's path and the generation in its claims.  Handlers
\* that draw an ID find it in the request.
Targets(r) ==
  CASE r.route \in {"patch", "complete", "renew"} ->
         {[id |-> a.id, gen |-> IF setting.noAuth THEN 0 ELSE a.gen] : a \in Acked("token")}
    [] r.route \in {"start", "status"} ->
         {[id |-> a.id, gen |-> 0] : a \in Acked("created")}
    [] r.route = "cancel" ->
         {[id |-> id, gen |-> 0] : id \in {a.id : a \in Acked("created")} \cup
            (IF stack # NoStack /\ stack.lock # NoLock THEN {stack.lock.id} ELSE {})}
    [] OTHER -> {[id |-> r.id, gen |-> 0]}

Arrive(c, r) ==
  /\ r \in todo
  /\ at[c] = "none"
  /\ \E t \in Targets(r) :
       LET m == [op |-> FirstCall[r.route][1], inc |-> 0, id |-> t.id, owner |-> r.owner,
                 gen |-> t.gen, kind |-> r.kind, version |-> r.version, data |-> r.data,
                 status |-> r.status]
       IN  Issue(c, FirstCall[r.route][2], m, m)
  /\ flag' = [flag EXCEPT ![c] = r.flag]
  /\ todo' = todo \ {r}
  /\ UNCHANGED <<acks, faults, setting>>

\* Calls made with context.WithoutCancel outlive the client's connection.
Detached(c) ==
  at[c] \in {"exit", "import.release", "rollback.lock", "rollback.stack", "rollback.delete"}

\* What goes wrong in a step of the call: S3 does not answer; a write took
\* effect and is reported as refused; a GET or DELETE fails whose failure the
\* call does not tell apart from a refusal; the process dies.
Began(c, errs) == ret[c].err = "none" /\ ret'[c].err \in errs
Unanswered(c) ==
  /\ Began(c, {"error"})
  /\ pc[c] \in PutLabels \cup {"existing.stack"} => stack # NoStack
  /\ pc[c] = "existing.record" => At(snap[c].inc, UpdateKey(arg[c].id)) # {}
Misreported(c) ==
  /\ <<etag, objects>>' # <<etag, objects>>
  /\ \/ tries'[c] < tries[c] \/ pc'[c] = "existing.stack"
     \/ Began(c, {"ErrConcurrentMutation", "ErrStackExists"})
Unchecked(c) ==
  \/ /\ pc[c] \in {"delete.validate", "delete.revalidate"}
     /\ Validated(c, expired) /\ pc'[c] = "idle"
  \/ /\ pc[c] = "update.rollback" /\ ret[c].err # "error"
     /\ RecordOf(upd[c].inc, upd[c].u) \in objects /\ UNCHANGED objects
Died(c) == ret'[c].err = "crashed"

\* A step of the running store call.
CallStep(c) ==
  /\ Request(c)
  /\ UNCHANGED <<clientVars, todo, acks, setting>>
  /\ Unanswered(c) => S3Faults \/ ~Detached(c)
  /\ Misreported(c) \/ Unchecked(c) => S3Faults
  /\ Died(c) => Crashes
  /\ IF Died(c)
     THEN /\ at' = [at EXCEPT ![c] = "none"]
          /\ loc' = [loc EXCEPT ![c] = NoCall]
          /\ flag' = [flag EXCEPT ![c] = FALSE]
     ELSE UNCHANGED handlerVars
  /\ IF Unanswered(c) \/ Misreported(c) \/ Unchecked(c) \/ Died(c)
     THEN faults < setting.maxFaults /\ faults' = faults + 1
     ELSE UNCHANGED faults

BackendInit ==
  /\ Init
  /\ \E s \in Situations :
       /\ s.first = [stack |-> stack, lockfile |-> lockfile, objects |-> objects]
       /\ todo = s.requests
       /\ acks = s.acks
       /\ setting = [noAuth |-> s.noAuth, maxFaults |-> s.maxFaults]
  /\ at = [c \in Callers |-> "none"]
  /\ loc = [c \in Callers |-> NoCall]
  /\ flag = [c \in Callers |-> FALSE]
  /\ faults = 0

Progress(c) ==
  \/ pc[c] = "idle" /\ Handle(c) /\ UNCHANGED <<todo, faults, setting>>
  \/ CallStep(c)

Quiet == \A c \in Callers : at[c] = "none"

BackendNext ==
  \/ \E c \in Callers, r \in Requests : Arrive(c, r)
  \/ \E c \in Callers : Progress(c)
  \/ Environment /\ UNCHANGED <<clientVars, todo, handlerVars, acks, faults, setting>>
  \/ Quiet /\ UNCHANGED backendVars

BackendSpec == BackendInit /\ [][BackendNext]_backendVars

\* A running handler goes on: S3 requests are answered or time out, and what
\* they return is looked at.  Clients need not make requests.
FairBackendSpec == BackendSpec /\ \A c \in Callers : WF_backendVars(Progress(c))

------------------------------------------------------------------------------
(* Properties *)

\* The variables have their types, and a store call runs only for a handler.
HandlersOK ==
  /\ todo \subseteq Requests
  /\ at \in [Callers -> STRING]
  /\ \A c \in Callers : IF at[c] = "none" THEN loc[c] = NoCall /\ pc[c] = "idle"
                                          ELSE [loc[c] EXCEPT !.op = "getStack"] \in AllCalls
  /\ flag \in [Callers -> BOOLEAN]
  /\ faults \in 0..setting.maxFaults

Holds(id) == stack # NoStack /\ stack.lock # NoLock /\ stack.lock.id = id
RecordsOf(id) == IF stack = NoStack THEN {} ELSE At(stack.inc, UpdateKey(id))
Open(id) == \E o \in RecordsOf(id) : o.val.status \in {"not-started", "in-progress"}

\* Once a client was told that an update is complete or cancelled, the update
\* does not hold the stack's lock, however the requests that renew, checkpoint,
\* complete and cancel it interleave (completeUpdate, cancelUpdate, renewLease).
EndIsFinal == \A a \in Acked("ended") : ~Holds(a.id)

\* When all handlers have ended and nothing has failed, the lock is held only by
\* an update that its client knows of and that is still open: every other path of
\* every handler released it (releaseLockOnExit, releaseUpdateLock).
NoLockLeftBehind ==
  faults = 0 /\ Quiet /\ late = {} /\ stack # NoStack /\ stack.lock # NoLock =>
    \/ DeletionFence(stack.lock)
    \/ Open(stack.lock.id) /\ \E a \in Acked("created") : a.id = stack.lock.id

\* No two updates that were started carry the same version, even if the first
\* one's creation died between writing its record and taking the version
\* (createUpdate, startUpdate).
StartedVersionsDistinct ==
  \A o, p \in {x \in objects : x.val \in Updates} :
    /\ o.inc = p.inc /\ o.val.version = p.val.version
    /\ {o.val.kind, p.val.kind} \cap {"preview"} = {}
    /\ {o.val.status, p.val.status} \subseteq {"in-progress", "succeeded", "failed"}
    => o.key = p.key

\* An update that a client was told of keeps its record while its stack is
\* there and not being deleted (createUpdate's rollback, deleteStack).
AcknowledgedKept ==
  \A a \in Acked("created") \cup Acked("ended") :
    stack # NoStack /\ stack.inc = a.inc /\ ~DeletionFence(stack.lock) =>
      RecordsOf(a.id) # {}

\* An export finds the latest checkpoint's object missing, and answers with an
\* empty deployment, only if its stack is being deleted or gone: a stack that has
\* resources never looks like a new one (exportStack, deleteStack).
ExportNotBlank ==
  [][\A c \in Callers :
       /\ pc[c] = "read.object" /\ arg[c].op = "getCheckpoint"
       /\ ret'[c].err = "ErrCheckpointNotFound" /\ snap[c].latest # NoData
       => stack = NoStack \/ stack.inc # snap[c].inc \/ DeletionFence(stack.lock)]_backendVars

\* The rollback of a failed creation sets out to delete no stack that another
\* client's update or import was acknowledged in (rollbackFailedStackCreation).
RollbackSparesOthers ==
  [][\A c \in Callers :
       at[c] = "rollback.stack" /\ at'[c] = "rollback.delete" =>
         \A a \in acks : a.inc # loc[c].inc]_backendVars

\* What clients of one stack see is the service of UpdateService: an update
\* whose record exists never gets the lock back, and only a started update that
\* has the lock changes the deployment (startUpdate, saveCheckpointForUpdate).
Phase(status) == IF status \in {"not-started", "in-progress"} THEN status ELSE "ended"
Service ==
  INSTANCE UpdateService WITH
    IDs <- UpdateIDs,
    Deletions <- DeletionIDs,
    Contents <- CheckpointKeys,
    None <- NoData,
    exists <- stack # NoStack,
    holder <- IF stack = NoStack \/ stack.lock = NoLock THEN NoData ELSE stack.lock.id,
    phase <- [id \in UpdateIDs |->
                IF RecordsOf(id) = {} THEN "none"
                ELSE Phase((CHOOSE o \in RecordsOf(id) : TRUE).val.status)],
    version <- IF stack = NoStack THEN 0 ELSE stack.version,
    deployment <- IF stack = NoStack THEN NoData ELSE stack.latest
ServiceSpec == Service!Spec

\* Every request is answered, or its process dies: no handler waits forever.
RequestsEnd == \A c \in Callers : at[c] # "none" ~> at[c] = "none"
==============================================================================
