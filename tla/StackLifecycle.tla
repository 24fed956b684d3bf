--------------------------- MODULE StackLifecycle ----------------------------
(***************************************************************************)
(* S3Store.CreateStack and DeleteStack.                                    *)
(*                                                                         *)
(* CreateStack writes stack.json with If-None-Match under a fresh          *)
(* incarnation.  DeleteStack runs under a deletion fence: it lists the     *)
(* incarnation's objects, deletes them in batches, checks before each      *)
(* batch that stack.json still is as it read it, lists again, and deletes  *)
(* stack.json with If-Match last.                                          *)
(***************************************************************************)
EXTENDS StackCheckpoints, FiniteSets

CONSTANT BatchSize   \* keys in one DeleteObjects request (1000 in the code)

ASSUME BatchAssumption == BatchSize \in Nat \ {0}

VARIABLES
  incs,     \* the number of incarnations drawn so far
  listed    \* per caller: the listed keys still to delete

lifeVars == <<incs, listed>>

\* What CreateStack writes.
NewStack(inc) ==
  [inc |-> inc, version |-> 0, fence |-> 0, canonical |-> TRUE, lock |-> NoLock,
   latest |-> NoData, checkpoints |-> {}]

CreateStack(c) ==
  LET Created == /\ stack' = NewStack(incs + 1)
                 /\ etag' = etag + 1
                 /\ expired' = FALSE
                 /\ late' = {}
  IN  /\ pc[c] = "create.put"
      /\ incs' = incs + 1
      /\ \/ stack = NoStack /\ Created /\ Return(c, "nil", NewStack(incs + 1))
         \/ /\ IF stack = NoStack THEN Created ELSE UNCHANGED objectVars
            /\ Return(c, "ErrStackExists", NoLock)
         \/ /\ UNCHANGED objectVars \/ (stack = NoStack /\ Created)
            /\ Return(c, "error", NoLock)
      /\ UNCHANGED <<lockfileVars, dataVars, listed>>

------------------------------------------------------------------------------
(* DeleteStack *)

LockfileKey == <<"lock", 0>>

\* listStackIncarnationObjects: an incarnation's prefix, or, for a stack of an
\* older build, the stack's own prefix, where lock.json is.
KeysOf(inc) ==
  {o.key : o \in {x \in objects : x.inc = inc}}
    \cup (IF inc = 0 /\ lockfile # NoLock THEN {LockfileKey} ELSE {})

Quit(c, err) ==
  Return(c, err, NoLock) /\ listed' = [listed EXCEPT ![c] = {}]

\* The call's deletion fence, read just now.
OwnFence(c) ==
  /\ DeletionFence(stack.lock)
  /\ stack.lock.id = arg[c].id
  /\ stack.lock.gen = arg[c].gen

DeleteGet(c) ==
  /\ pc[c] = "delete.get"
  /\ \/ stack = NoStack /\ Quit(c, "ErrStackNotFound")
     \/ /\ stack # NoStack
        /\ \E exp \in Judgements(expired) :
             \/ stack.inc # arg[c].inc /\ Quit(c, "ErrConcurrentMutation")
             \/ /\ stack.inc = arg[c].inc
                /\ \/ (stack.lock = NoLock \/ exp) /\ Quit(c, "ErrNoLock")
                   \/ /\ stack.lock # NoLock /\ ~exp
                      /\ \/ ~DeletionFence(stack.lock) /\ Quit(c, "LockHeld")
                         \/ /\ DeletionFence(stack.lock) /\ ~OwnFence(c)
                            /\ Quit(c, "ErrConcurrentMutation")
                         \/ /\ OwnFence(c) /\ Read(c, "delete.list")
                            /\ UNCHANGED listed
     \/ Quit(c, "error")
  /\ UNCHANGED <<objectVars, lockfileVars, dataVars, incs>>

\* The first listing; with nothing to delete the loop over batches is empty.
DeleteList(c) ==
  /\ pc[c] = "delete.list"
  /\ \/ /\ listed' = [listed EXCEPT ![c] = KeysOf(arg[c].inc)]
        /\ Step(c, IF KeysOf(arg[c].inc) = {} THEN "delete.relist" ELSE "delete.validate")
     \/ Quit(c, "error")
  /\ UNCHANGED <<objectVars, lockfileVars, dataVars, incs>>

\* validateDeletionFence: stack.json must still have the ETag first read.
Validated(c, exp) ==
  stack # NoStack /\ write[c].etag = etag /\ OwnFence(c) /\ ~exp

DeleteValidate(c) ==
  /\ pc[c] \in {"delete.validate", "delete.revalidate"}
  /\ \/ \E exp \in Judgements(expired) :
          /\ Validated(c, exp)
          /\ Step(c, IF pc[c] = "delete.validate" THEN "delete.batch" ELSE "delete.stack")
          /\ UNCHANGED listed
     \/ \* not so, or the GET failed
        Quit(c, "ErrConcurrentMutation")
  /\ UNCHANGED <<objectVars, lockfileVars, dataVars, incs>>

\* DeleteObjects by key; some of the batch may fail.
DeleteBatch(c) ==
  LET Deleted(keys) ==
        /\ objects' = {o \in objects : o.inc # arg[c].inc \/ o.key \notin keys}
        /\ lockfile' = IF LockfileKey \in keys THEN NoLock ELSE lockfile
  IN  /\ pc[c] = "delete.batch"
      /\ \E batch \in SUBSET listed[c] :
           /\ \/ Cardinality(batch) = BatchSize
              \/ Cardinality(batch) < BatchSize /\ batch = listed[c]
           /\ \/ /\ Deleted(batch)
                 /\ listed' = [listed EXCEPT ![c] = @ \ batch]
                 /\ Step(c, IF batch = listed[c] THEN "delete.relist" ELSE "delete.validate")
              \/ /\ \E done \in SUBSET batch : Deleted(done)
                 /\ Quit(c, "error")
      /\ UNCHANGED <<objectVars, lockfileExpired, upd, incs>>

DeleteRelist(c) ==
  /\ pc[c] = "delete.relist"
  /\ \/ /\ KeysOf(arg[c].inc) = {}
        /\ Step(c, "delete.revalidate") /\ UNCHANGED listed
     \/ KeysOf(arg[c].inc) # {} /\ Quit(c, "ErrConcurrentMutation")
     \/ Quit(c, "error")
  /\ UNCHANGED <<objectVars, lockfileVars, dataVars, incs>>

\* DeleteStackObject without If-Match.
DeleteAnyStackObject(c) ==
  /\ pc[c] = "delete.stack"
  /\ stack' = NoStack
  /\ etag' = etag + 1
  /\ expired' = FALSE
  /\ late' = {}
  /\ Quit(c, "nil")
  /\ UNCHANGED <<lockfileVars, dataVars, incs>>

\* deleteIfMatch on stack.json.
DeleteStackObject(c) ==
  LET current == stack # NoStack /\ write[c].etag = etag
      Removed == /\ stack' = NoStack
                 /\ etag' = etag + 1
                 /\ expired' = FALSE
                 /\ late' = {}
  IN  /\ pc[c] = "delete.stack"
      /\ \/ current /\ Removed /\ Quit(c, "nil")
         \/ \* 412, also when the SDK repeats a DELETE that took effect
            /\ IF current THEN Removed ELSE UNCHANGED objectVars
            /\ Quit(c, "ErrConcurrentMutation")
         \/ /\ UNCHANGED objectVars \/ (current /\ Removed)
            /\ Quit(c, "error")
      /\ UNCHANGED <<lockfileVars, dataVars, incs>>

DeleteStep(c) ==
  \/ DeleteGet(c) \/ DeleteList(c) \/ DeleteValidate(c) \/ DeleteBatch(c)
  \/ DeleteRelist(c) \/ DeleteStackObject(c)
==============================================================================
