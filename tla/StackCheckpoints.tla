-------------------------- MODULE StackCheckpoints ---------------------------
(***************************************************************************)
(* Checkpoints: S3Store.SaveCheckpoint, GetCheckpoint and                  *)
(* GetCheckpointVersion.                                                   *)
(*                                                                         *)
(* SaveCheckpoint writes the deployment under its content hash, points     *)
(* stack.json at it under the caller's lock, and then leaves copies under  *)
(* the two keys that older builds read.  A reader follows the pointer in   *)
(* stack.json and falls back to those keys where there is none.            *)
(***************************************************************************)
EXTENDS StackUpdates

CheckpointKey(d) == <<"checkpoint", d>>
HistoryKey(v)    == <<"history", v>>
LatestKey        == <<"latest", 0>>

SaveStack(c) ==
  /\ pc[c] = "save.stack"
  /\ \/ stack = NoStack /\ Return(c, "ErrStackNotFound", NoLock)
     \/ /\ stack # NoStack
        /\ \/ stack.inc # arg[c].inc /\ Return(c, "ErrConcurrentMutation", NoLock)
           \/ stack.inc = arg[c].inc /\ Step(c, "save.object")
     \/ Return(c, "error", NoLock)
  /\ UNCHANGED <<objectVars, lockfileVars, dataVars>>

\* PUT of the deployment with If-None-Match; 412 means it is already there.
SaveObject(c) ==
  LET Written == objects' = Put(Object(arg[c].inc, CheckpointKey(arg[c].data), arg[c].data))
  IN  /\ pc[c] = "save.object"
      /\ \/ Written /\ Step(c, "save.get")
         \/ (Written \/ UNCHANGED objects) /\ Return(c, "error", NoLock)
      /\ UNCHANGED <<objectVars, lockfileVars, upd>>

\* Pointed, keeping the latest checkpoint if there is one.
PointedOnce(st, version, key) ==
  [st EXCEPT !.latest = IF @ = NoData THEN key ELSE @,
             !.checkpoints = {p \in @ : p[1] # version} \cup {<<version, key>>}]

\* The pointers SaveCheckpoint sets.
Pointed(st, version, key) ==
  [st EXCEPT !.latest = key,
             !.checkpoints = {p \in @ : p[1] # version} \cup {<<version, key>>}]

\* Untouched, whoever has the lock.
UntouchedVersion(c) == arg[c].gen = 0 /\ arg[c].version = 0 /\ stack.version = 0

\* A seed (no update ID) needs an untouched stack; any other checkpoint needs
\* the caller's lock, live, and its version.
Untouched(c) ==
  arg[c].gen = 0 /\ arg[c].version = 0 /\ stack.version = 0 /\ stack.lock = NoLock

\* OwnsCheckpoint, accepting any generation of the lock.
OwnsAnyGeneration(c, exp) ==
  /\ stack.lock # NoLock
  /\ stack.lock.id = arg[c].id
  /\ ~exp
  /\ stack.version = arg[c].version

OwnsCheckpoint(c, exp) ==
  /\ stack.lock # NoLock
  /\ stack.lock.id = arg[c].id
  /\ stack.lock.gen = arg[c].gen
  /\ ~exp
  /\ stack.version = arg[c].version

SaveGet(c) ==
  LET seed == arg[c].id = NoID
  IN  /\ pc[c] = "save.get"
      /\ \/ stack = NoStack /\ Return(c, "ErrStackNotFound", NoLock)
         \/ /\ stack # NoStack
            /\ \/ /\ stack.inc # arg[c].inc
                  /\ Return(c, "ErrConcurrentMutation", NoLock)
               \/ /\ stack.inc = arg[c].inc
                  /\ \E exp \in Judgements(expired) :
                       \/ seed /\ ~Untouched(c) /\ Return(c, "ErrInvalidUpdateState", NoLock)
                       \/ ~seed /\ ~OwnsCheckpoint(c, exp) /\ Return(c, "ErrConcurrentMutation", NoLock)
                       \/ /\ IF seed THEN Untouched(c) ELSE OwnsCheckpoint(c, exp)
                          /\ Prepare(c, "save.put", etag,
                                     Pointed(stack, arg[c].version, <<arg[c].inc, arg[c].data>>),
                                     FALSE)
         \/ Return(c, "error", NoLock)
      /\ UNCHANGED <<objectVars, lockfileVars, dataVars>>

SavePut(c) ==
  /\ pc[c] = "save.put"
  /\ \/ /\ Lands(write[c])
        /\ Goto(c, "save.history")
        /\ write' = [write EXCEPT ![c] = NoWrite]
        /\ UNCHANGED <<arg, tries, snap, ret>>
     \/ /\ Refused(write[c])
        /\ \/ NextRound(c, "save.get")
           \/ LastRound(c) /\ Return(c, "ErrConcurrentMutation", NoLock)
     \/ Abandoned(write[c]) /\ Return(c, "error", NoLock)
  /\ UNCHANGED <<lockfileVars, dataVars>>

\* The copies for older builds: unconditional PUTs whose failure is only logged.
SaveHistory(c) ==
  /\ pc[c] = "save.history"
  /\ \/ objects' = Put(Object(arg[c].inc, HistoryKey(arg[c].version), arg[c].data))
     \/ UNCHANGED objects
  /\ Step(c, "save.latest")
  /\ UNCHANGED <<objectVars, lockfileVars, upd>>

SaveLatest(c) ==
  /\ pc[c] = "save.latest"
  /\ \/ objects' = Put(Object(arg[c].inc, LatestKey, arg[c].data))
     \/ UNCHANGED objects
  /\ Return(c, "nil", NoLock)
  /\ UNCHANGED <<objectVars, lockfileVars, upd>>

SaveCheckpointStep(c) ==
  \/ SaveStack(c) \/ SaveObject(c) \/ SaveGet(c) \/ SavePut(c)
  \/ SaveHistory(c) \/ SaveLatest(c)

------------------------------------------------------------------------------
(* GetCheckpoint and GetCheckpointVersion *)

\* CheckpointOf, ignoring the pointers in stack.json.
CheckpointCopyOf(st, op, version) ==
  <<st.inc, IF op = "getCheckpoint" THEN LatestKey ELSE HistoryKey(version)>>

\* The object a reader of st follows: its incarnation and its key.
CheckpointOf(st, op, version) ==
  LET named == IF op = "getCheckpoint"
               THEN {st.latest} \ {NoData}
               ELSE {p[2] : p \in {q \in st.checkpoints : q[1] = version}}
      old == IF op = "getCheckpoint" THEN LatestKey ELSE HistoryKey(version)
  IN  IF named = {} THEN <<st.inc, old>>
      ELSE LET k == CHOOSE k \in named : TRUE IN <<k[1], CheckpointKey(k[2])>>

\* GetStack is the first request alone.
ReadStack(c) ==
  /\ pc[c] = "read.stack"
  /\ \/ stack = NoStack /\ Return(c, "ErrStackNotFound", NoLock)
     \/ /\ stack # NoStack
        /\ \/ arg[c].op = "getStack" /\ Return(c, "nil", stack)
           \/ arg[c].op # "getStack" /\ Read(c, "read.object")
     \/ Return(c, "error", NoLock)
  /\ UNCHANGED <<objectVars, lockfileVars, dataVars>>

ReadObject(c) ==
  LET from == CheckpointOf(snap[c], arg[c].op, arg[c].version)
      found == At(from[1], from[2])
  IN  /\ pc[c] = "read.object"
      /\ \/ found = {} /\ Return(c, "ErrCheckpointNotFound", NoLock)
         \/ \E o \in found : Return(c, "nil", o)
         \/ Return(c, "error", NoLock)
      /\ UNCHANGED <<objectVars, lockfileVars, dataVars>>

GetCheckpointStep(c) == ReadStack(c) \/ ReadObject(c)
==============================================================================
