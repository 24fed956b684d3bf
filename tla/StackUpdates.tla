---------------------------- MODULE StackUpdates -----------------------------
(***************************************************************************)
(* Update records: S3Store.CreateUpdate, GetUpdate, StartUpdate and        *)
(* CompleteUpdate.                                                         *)
(*                                                                         *)
(* CreateUpdate writes the record of an update and then advances the       *)
(* stack's version (commitUpdateVersion), or, for a preview, rewrites      *)
(* stack.json unchanged as a barrier against a concurrent deletion; when   *)
(* that fails it deletes the record again.  StartUpdate and CompleteUpdate *)
(* move a record through its states.                                       *)
(***************************************************************************)
EXTENDS StackLock

CONSTANTS
  Kinds,      \* update kinds; "preview" is the one that takes no lock
  NoUpdate    \* nil *Update

VARIABLES
  objects,   \* everything under the stack's data prefixes
  upd        \* per caller: the update its call works on

dataVars == <<objects, upd>>

Statuses == {"not-started", "in-progress", "succeeded", "failed", "cancelled"}

\* type Update
Updates == [id : LockIDs, kind : Kinds, status : Statuses, version : Nat]

\* An object is its incarnation's prefix, a name under it, and its contents.
UpdateKey(id) == <<"update", id>>
Object(inc, key, val) == [inc |-> inc, key |-> key, val |-> val]

At(inc, key)  == {o \in objects : o.inc = inc /\ o.key = key}
Put(o)        == (objects \ At(o.inc, o.key)) \cup {o}
RecordOf(inc, u) == Object(inc, UpdateKey(u.id), u)

\* What a call knows of its update: the record, where it is, the lock
\* generation it was created under, and whether this call wrote it.
Working == [inc : Nat, u : Updates, gen : Nat, fresh : BOOLEAN]

Finish(c, err, val) ==
  Return(c, err, val) /\ upd' = [upd EXCEPT ![c] = NoUpdate]

------------------------------------------------------------------------------
(* CreateUpdate *)

CreateUpdateGet(c) ==
  LET preview == arg[c].kind = "preview"
      own == stack.lock # NoLock /\ stack.lock.id = arg[c].id
      u == [id |-> arg[c].id, kind |-> arg[c].kind, status |-> "not-started",
            version |-> IF preview THEN stack.version ELSE stack.version + 1]
      Go == /\ upd' = [upd EXCEPT ![c] =
                         [inc |-> stack.inc, u |-> u, fresh |-> FALSE,
                          gen |-> IF preview THEN 0 ELSE stack.lock.gen]]
            /\ Step(c, "update.put")
  IN  /\ pc[c] = "update.get"
      /\ \/ stack = NoStack /\ Finish(c, "ErrStackNotFound", NoLock)
         \/ /\ stack # NoStack /\ preview
            /\ \/ DeletionFence(stack.lock) /\ Finish(c, "LockHeld", stack.lock)
               \/ ~DeletionFence(stack.lock) /\ Go
         \/ /\ stack # NoStack /\ ~preview
            /\ \E exp \in Judgements(expired) :
                 \/ (~own \/ exp) /\ Finish(c, "ErrNoLock", NoLock)
                 \/ own /\ ~exp /\ Go
         \/ Finish(c, "error", NoLock)
      /\ UNCHANGED <<objectVars, lockfileVars, objects>>

\* PUT of the record with If-None-Match.
CreateUpdatePut(c) ==
  LET w == upd[c]
      taken == At(w.inc, UpdateKey(w.u.id)) # {}
      Written == objects' = objects \cup {RecordOf(w.inc, w.u)}
      Proceed(label, fresh) ==
        Step(c, label) /\ upd' = [upd EXCEPT ![c].fresh = fresh]
  IN  /\ pc[c] = "update.put"
      /\ \/ /\ ~taken /\ Written
            /\ Proceed(IF w.u.kind = "preview" THEN "preview.get" ELSE "commit.get", TRUE)
         \/ \* 412: the record exists, or it does now and the SDK repeated the PUT
            /\ IF taken THEN UNCHANGED objects ELSE Written
            /\ Proceed("existing.stack", FALSE)
         \/ /\ UNCHANGED objects \/ (~taken /\ Written)
            /\ Finish(c, "error", NoLock)
      /\ UNCHANGED <<objectVars, lockfileVars>>

\* The record was already there: GetUpdate reads the incarnation ...
ExistingStack(c) ==
  /\ pc[c] = "existing.stack"
  /\ \/ /\ stack # NoStack
        /\ Read(c, "existing.record")
        /\ UNCHANGED upd
     \/ Finish(c, "error", NoLock)
  /\ UNCHANGED <<objectVars, lockfileVars, objects>>

\* ... and the record; its version is committed under the generation read first.
ExistingRecord(c) ==
  /\ pc[c] = "existing.record"
  /\ \/ \E o \in At(snap[c].inc, UpdateKey(arg[c].id)) :
          \/ /\ o.val.kind # arg[c].kind
             /\ Finish(c, "ErrConcurrentMutation", NoLock)
          \/ /\ o.val.kind = arg[c].kind
             /\ o.val.kind = "preview"
             /\ Finish(c, "nil", [upd[c] EXCEPT !.inc = o.inc, !.u = o.val])
          \/ /\ o.val.kind = arg[c].kind
             /\ o.val.kind # "preview"
             /\ upd' = [upd EXCEPT ![c].u = o.val]
             /\ Step(c, "commit.get")
     \/ Finish(c, "error", NoLock)
  /\ UNCHANGED <<objectVars, lockfileVars, objects>>

\* CreateUpdate fails: a record this call wrote is rolled back first.
Fail(c, err, val) ==
  \/ ~upd[c].fresh /\ Finish(c, err, val)
  \/ /\ upd[c].fresh
     /\ Goto(c, "update.rollback")
     /\ ret' = [ret EXCEPT ![c] = Result(err, val)]
     /\ snap' = [snap EXCEPT ![c] = NoStack]
     /\ write' = [write EXCEPT ![c] = NoWrite]
     /\ UNCHANGED <<arg, tries, upd>>

\* OwnsVersion, checking no more than the incarnation.
OwnsIncarnation(c, exp) == stack.inc = upd[c].inc

\* The lock under which the update was created, still live.
OwnsVersion(c, exp) ==
  /\ stack.inc = upd[c].inc
  /\ stack.lock # NoLock
  /\ stack.lock.id = arg[c].id
  /\ stack.lock.gen = upd[c].gen
  /\ ~exp

\* commitUpdateVersion, one round.
CommitGet(c) ==
  LET w == upd[c]
  IN  /\ pc[c] = "commit.get"
      /\ \/ stack = NoStack /\ Fail(c, "ErrStackNotFound", NoLock)
         \/ /\ stack # NoStack
            /\ \E exp \in Judgements(expired) :
                 \/ /\ OwnsVersion(c, exp) /\ stack.version = w.u.version
                    /\ Finish(c, "nil", w)
                 \/ /\ OwnsVersion(c, exp) /\ stack.version = w.u.version - 1
                    /\ Prepare(c, "commit.put", etag,
                               [stack EXCEPT !.version = w.u.version], FALSE)
                    /\ UNCHANGED upd
                 \/ /\ \/ ~OwnsVersion(c, exp)
                       \/ stack.version \notin {w.u.version - 1, w.u.version}
                    /\ Fail(c, "ErrConcurrentMutation", NoLock)
         \/ Fail(c, "error", NoLock)
      /\ UNCHANGED <<objectVars, lockfileVars, objects>>

CommitPut(c) ==
  /\ pc[c] = "commit.put"
  /\ \/ Lands(write[c]) /\ Finish(c, "nil", upd[c])
     \/ /\ Refused(write[c])
        /\ \/ NextRound(c, "commit.get") /\ UNCHANGED upd
           \/ LastRound(c) /\ Fail(c, "ErrConcurrentMutation", NoLock)
     \/ Abandoned(write[c]) /\ Fail(c, "error", NoLock)
  /\ UNCHANGED <<lockfileVars, objects>>

\* PreviewGet without a second look for a deletion fence.
PreviewGetBlind(c) ==
  /\ pc[c] = "preview.get"
  /\ \/ stack = NoStack /\ Fail(c, "ErrStackNotFound", NoLock)
     \/ /\ stack # NoStack
        /\ \/ stack.inc # upd[c].inc /\ Fail(c, "ErrConcurrentMutation", NoLock)
           \/ /\ stack.inc = upd[c].inc
              /\ Prepare(c, "preview.put", etag, stack, FALSE)
              /\ UNCHANGED upd
  /\ UNCHANGED <<objectVars, lockfileVars, objects>>

\* The preview's barrier: stack.json is written back as it was read.
PreviewGet(c) ==
  /\ pc[c] = "preview.get"
  /\ \/ stack = NoStack /\ Fail(c, "ErrStackNotFound", NoLock)
     \/ /\ stack # NoStack
        /\ \/ stack.inc # upd[c].inc /\ Fail(c, "ErrConcurrentMutation", NoLock)
           \/ /\ stack.inc = upd[c].inc /\ DeletionFence(stack.lock)
              /\ Fail(c, "LockHeld", stack.lock)
           \/ /\ stack.inc = upd[c].inc /\ ~DeletionFence(stack.lock)
              /\ Prepare(c, "preview.put", etag, stack, FALSE)
              /\ UNCHANGED upd
     \/ Fail(c, "error", NoLock)
  /\ UNCHANGED <<objectVars, lockfileVars, objects>>

PreviewPut(c) ==
  /\ pc[c] = "preview.put"
  /\ \/ Lands(write[c]) /\ Finish(c, "nil", upd[c])
     \/ /\ Refused(write[c])
        /\ \/ NextRound(c, "preview.get") /\ UNCHANGED upd
           \/ LastRound(c) /\ Fail(c, "ErrConcurrentMutation", NoLock)
     \/ Abandoned(write[c]) /\ Fail(c, "error", NoLock)
  /\ UNCHANGED <<lockfileVars, objects>>

\* rollbackUpdate: DELETE with the ETag of the record as this call wrote it.
RollbackUpdate(c) ==
  /\ pc[c] = "update.rollback"
  /\ objects' \in {objects, objects \ {RecordOf(upd[c].inc, upd[c].u)}}
  /\ Finish(c, ret[c].err, ret[c].val)
  /\ UNCHANGED <<objectVars, lockfileVars>>

CreateUpdateStep(c) ==
  \/ CreateUpdateGet(c) \/ CreateUpdatePut(c)
  \/ ExistingStack(c) \/ ExistingRecord(c)
  \/ CommitGet(c) \/ CommitPut(c)
  \/ PreviewGet(c) \/ PreviewPut(c)
  \/ RollbackUpdate(c)

------------------------------------------------------------------------------
(* GetUpdate, StartUpdate and CompleteUpdate: two GETs, then a PUT of the  *)
(* record with the ETag it was read under.                                 *)

RecordStack(c) ==
  /\ pc[c] = "record.stack"
  /\ \/ stack = NoStack /\ Finish(c, "ErrStackNotFound", NoLock)
     \/ stack # NoStack /\ Read(c, "record.get") /\ UNCHANGED upd
     \/ Finish(c, "error", NoLock)
  /\ UNCHANGED <<objectVars, lockfileVars, objects>>

\* The status a call moves its record to.
Target(c) == IF arg[c].op = "start" THEN "in-progress" ELSE arg[c].status

MayMove(from, to) ==
  \/ from = "not-started" /\ to \in {"in-progress", "cancelled"}
  \/ from = "in-progress" /\ to \in {"succeeded", "failed", "cancelled"}

\* What a caller knows from a record.  Start and complete return no more than
\* success, which tells their callers this much.
Told(o) == [inc |-> o.inc, u |-> o.val, gen |-> 0, fresh |-> FALSE]

RecordGet(c) ==
  LET found == At(snap[c].inc, UpdateKey(arg[c].id))
  IN  /\ pc[c] = "record.get"
      /\ \/ found = {} /\ Finish(c, "ErrUpdateNotFound", NoLock)
         \/ \E o \in found :
              \/ /\ arg[c].op = "getUpdate"
                 /\ Finish(c, "nil", Told(o))
              \/ /\ arg[c].op # "getUpdate" /\ o.val.status = Target(c)
                 /\ Finish(c, "nil", Told(o))
              \/ /\ arg[c].op # "getUpdate" /\ o.val.status # Target(c)
                 /\ \/ /\ ~MayMove(o.val.status, Target(c))
                       /\ Finish(c, "ErrInvalidUpdateState", NoLock)
                    \/ /\ MayMove(o.val.status, Target(c))
                       /\ upd' = [upd EXCEPT ![c] = Told(o)]
                       /\ Step(c, "record.put")
         \/ Finish(c, "error", NoLock)
      /\ UNCHANGED <<objectVars, lockfileVars, objects>>

\* RecordPut without If-Match.
RecordPutUnconditional(c) ==
  LET new == [RecordOf(upd[c].inc, upd[c].u) EXCEPT !.val.status = Target(c)]
  IN  /\ pc[c] = "record.put"
      /\ objects' = Put(new)
      /\ Finish(c, "nil", Told(new))
      /\ UNCHANGED <<objectVars, lockfileVars>>

\* Every state of a record is written once, so its contents stand for its ETag.
RecordPut(c) ==
  LET old == RecordOf(upd[c].inc, upd[c].u)
      new == [old EXCEPT !.val.status = Target(c)]
      Moved == objects' = Put(new)
  IN  /\ pc[c] = "record.put"
      /\ \/ old \in objects /\ Moved /\ Finish(c, "nil", Told(new))
         \/ /\ IF old \in objects THEN Moved ELSE UNCHANGED objects
            /\ Finish(c, "ErrConcurrentMutation", NoLock)
         \/ /\ UNCHANGED objects \/ (old \in objects /\ Moved)
            /\ Finish(c, "error", NoLock)
      /\ UNCHANGED <<objectVars, lockfileVars>>

RecordStep(c) == RecordStack(c) \/ RecordGet(c) \/ RecordPut(c)
==============================================================================
