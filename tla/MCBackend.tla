----------------------------- MODULE MCBackend ------------------------------
(***************************************************************************)
(* Instances of Backend for TLC: the situations of each run.               *)
(***************************************************************************)
EXTENDS Backend, TLC

CONSTANTS u1, u2, u3, u4, d1, d2, alice, bob, x0, x1, c1, c2, c3,
          MaxInc, MaxGen, MaxVersion   \* bounds on incarnations, generations, versions

\* Every call a handler can make within the bounds.
BoundedCalls ==
  {a \in [op : Ops, inc : 0..MaxInc, id : LockIDs \cup {NoID}, owner : Owners,
          gen : 0..MaxGen, kind : Kinds, version : 0..MaxVersion,
          data : Deployments, status : Statuses] :
     /\ a.id = NoID => a.op = "save"
     /\ a.op \in {"createUpdate", "save"} => a.id \notin DeletionIDs}

\* A request with the fields its route does not use left at a default.  The
\* field `no` tells repeated requests apart.
Req(route, owner, id) ==
  [route |-> route, owner |-> owner, id |-> id, kind |-> "update", version |-> 0,
   data |-> x1, status |-> "succeeded", flag |-> FALSE, no |-> 1]

First(st, objs) == [stack |-> st, lockfile |-> NoLock, objects |-> objs]
Lock(id, owner, gen) == [id |-> id, owner |-> owner, gen |-> gen]
Locked(st, lock) == [st EXCEPT !.lock = lock, !.fence = lock.gen]
Record(id, kind, status, version) ==
  RecordOf(1, [id |-> id, kind |-> kind, status |-> status, version |-> version])

Forced(id) == [Req("deleteStack", alice, id) EXCEPT !.flag = TRUE]

CallerSymmetry == Permutations(Callers)

Knows(what, id, gen) == [what |-> what, id |-> id, inc |-> 1, gen |-> gen]

\* The situations that share their requests, with up to max failures.
From(firsts, requests, known, max) ==
  {[first |-> f, requests |-> requests, acks |-> known, noAuth |-> FALSE,
    maxFaults |-> max] : f \in firsts}
FirstOfSituations == {s.first : s \in Situations}

NewFirst == {First(NewStack(1), {})}

\* A stack with one update.
UsedFirst ==
  {First([NewStack(1) EXCEPT !.version = 1, !.fence = 1, !.latest = <<1, x>>,
                             !.checkpoints = {<<1, <<1, x>>>>}],
         {Record(u1, "update", "succeeded", 1), Object(1, CheckpointKey(x), x)}) :
     x \in Deployments}
UsedAcks == {Knows("created", u1, 1)}

------------------------------------------------------------------------------
(* Creation.  A client repeats the creation of an update while the first   *)
(* request still runs, and starts it.  Two clients create updates, and     *)
(* both may be started.                                                    *)
RepeatedRequests ==
  {Req("createUpdate", alice, u1), Req("createUpdate", alice, u2),
   Req("start", alice, u1)}
TakeoverRequests ==
  {Req("createUpdate", alice, u1), Req("createUpdate", bob, u2),
   Req("start", alice, u1), [Req("start", bob, u2) EXCEPT !.no = 2]}
Creation ==
  From(NewFirst, RepeatedRequests, {}, 1) \cup From(NewFirst, TakeoverRequests, {}, 1)

------------------------------------------------------------------------------
(* Running.  u1, created or under way, is checkpointed, renewed and        *)
(* completed by its client while another client cancels it.  The same      *)
(* without authentication, with a preview, and with updates whose end was  *)
(* recorded by a handler that then died.                                   *)
RunningStack == [Locked(NewStack(1), Lock(u1, alice, 1)) EXCEPT !.version = 1]
RunningFirst ==
  {First(RunningStack, {Record(u1, "update", status, 1)}) :
     status \in {"not-started", "in-progress"}}
RunningAcks == {Knows("created", u1, 1), Knows("token", u1, 1)}
RunningRequests ==
  {Req("patch", alice, u1), Req("complete", alice, u1), Req("renew", alice, u1),
   Req("cancel", bob, u1)}
NoAuthFirst ==
  {First(RunningStack, {Record(u1, "update", status, 1), Record(u2, "preview", status, 0)}) :
     status \in {"not-started", "in-progress", "succeeded", "cancelled"}}
NoAuthAcks == RunningAcks \cup {Knows("created", u2, 0), Knows("token", u2, 0)}
NoAuthRequests ==
  {Req("complete", alice, u1), Req("cancel", bob, u1)}
NoAuth ==
  {[s EXCEPT !.noAuth = TRUE] :
     s \in From(NoAuthFirst, NoAuthRequests \cup {Req("start", alice, u1)}, NoAuthAcks, 1) \cup
           From(NoAuthFirst, NoAuthRequests \cup {Req("renew", alice, u1)}, NoAuthAcks, 1)}
Running == From(RunningFirst, RunningRequests, RunningAcks, 1) \cup NoAuth

------------------------------------------------------------------------------
(* Stacks.  A stack with resources is deleted twice by one owner, with     *)
(* force, while an update is created, or once while it is exported.  A     *)
(* stack is created with a state while another client imports into it and  *)
(* a third creates it again or reads it.  Updates, an import, a preview    *)
(* and a deletion that is not forced meet on a stack.                      *)
FullFirst == {f \in UsedFirst : f.stack.latest[2] \notin Empty}
Exports ==
  {Req("export", bob, u1), [Req("exportVersion", bob, u1) EXCEPT !.version = 1]}
NoFirst == {First(NoStack, {})}
SeedRequests ==
  {[Req("createStack", alice, d1) EXCEPT !.flag = TRUE], Req("import", bob, u1)}
ReleaseRequests == {Req("import", bob, u3), Req("deleteStack", alice, d1)}
PreviewRequest == [Req("createUpdate", bob, u4) EXCEPT !.kind = "preview"]
StackChanges ==
  From(FullFirst, {Forced(d1), Forced(d2), Req("createUpdate", bob, u2)}, UsedAcks, 1)
    \cup From(FullFirst, {Forced(d1)} \cup Exports, UsedAcks, 1)
    \cup From(NoFirst, SeedRequests \cup {Req("createStack", bob, d2)}, {}, 1)
    \cup From(NoFirst, SeedRequests \cup {Req("getStack", alice, u1)}, {}, 0)
    \cup From(UsedFirst, ReleaseRequests \cup {Req("createUpdate", alice, u2)}, UsedAcks, 0)
    \cup From(UsedFirst, ReleaseRequests \cup {PreviewRequest}, UsedAcks, 0)

------------------------------------------------------------------------------
(* Answers: one request of each sort of handler. *)
Answers ==
  From({f \in RunningFirst : Record(u1, "update", "in-progress", 1) \in f.objects},
       {Req("createUpdate", alice, u2), Req("complete", alice, u1), Forced(d1)},
       RunningAcks, 1)

------------------------------------------------------------------------------
(* Rollback: only the creation with a state and the import. *)
Rollback == From(NoFirst, SeedRequests, {}, 0)
=============================================================================
