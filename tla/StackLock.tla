------------------------------ MODULE StackLock ------------------------------
(***************************************************************************)
(* The stack lock: S3Store.AcquireLock, RenewLock, ReleaseLock and GetLock.*)
(*                                                                         *)
(* Each call is a loop of at most MaxTries rounds of GET stack.json, then, *)
(* on a stack that has never held a lock in stack.json, GET lock.json (the *)
(* lock of older builds), then PUT stack.json with If-Match.  A call that  *)
(* took its lock from lock.json deletes that object once the PUT landed.   *)
(* Nothing here creates lock.json.                                         *)
(***************************************************************************)
EXTENDS StackObject

VARIABLES
  lockfile,         \* the body of the legacy lock.json, or NoLock
  lockfileExpired   \* whether its lease has run out

lockfileVars == <<lockfile, lockfileExpired>>

\* UsesCanonicalLock without the protocol marker.
UsesUnmarkedLock(st) == st.inc # 0 \/ st.fence # 0 \/ st.lock # NoLock

UsesCanonicalLock(st) ==
  st.canonical \/ st.inc # 0 \/ st.fence # 0 \/ st.lock # NoLock

MaxOf(a, b) == IF a >= b THEN a ELSE b

\* The generation of a lock, where nil and locks of older builds count as 0.
Gen(lock) == IF lock = NoLock THEN 0 ELSE lock.gen

\* st with the given lock, as AcquireLock and RenewLock write it.
WithLock(st, lock) ==
  [st EXCEPT !.lock = lock, !.fence = MaxOf(@, lock.gen), !.canonical = TRUE]

\* Numbered, forgetting that a lock may lack a generation.
Unnumbered(st, lock) == lock

\* A lock that is kept gets a generation if it never had one.
Numbered(st, lock) == IF lock.gen = 0 THEN [lock EXCEPT !.gen = st.fence + 1] ELSE lock

\* NewLock with a generation that was already given out.
ReissuedLock(st, cur, id, owner) ==
  [id |-> id, owner |-> owner, gen |-> MaxOf(st.fence, Gen(cur))]

\* A lock that did not exist before or replaces an expired one.
NewLock(st, cur, id, owner) ==
  [id |-> id, owner |-> owner, gen |-> MaxOf(st.fence, Gen(cur)) + 1]

------------------------------------------------------------------------------
(* What each operation does once it knows the current lock: cur, from      *)
(* stack.json or lock.json, expired or not.  st was read under ETag e.     *)

\* Held, treating an expired deletion fence like any expired lock.
HeldWhileLive(c, cur, exp) ==
  cur # NoLock /\ ~exp /\ (cur.id # arg[c].id \/ cur.owner # arg[c].owner)

\* Whether cur keeps the lock from the caller.  An expired lock is free, except
\* that a deletion fence yields only to another deletion.
Held(c, cur, exp) ==
  \/ DeletionFence(cur) /\ arg[c].id \notin DeletionIDs
  \/ cur # NoLock /\ ~exp /\ (cur.id # arg[c].id \/ cur.owner # arg[c].owner)

\* The caller's own live lock is renewed.
AcquireLock(c, st, e, cur, exp) ==
  LET lock == IF cur # NoLock /\ ~exp THEN Numbered(st, cur)
                                      ELSE NewLock(st, cur, arg[c].id, arg[c].owner)
  IN  /\ arg[c].op = "acquire"
      /\ \/ Held(c, cur, exp) /\ Return(c, "LockHeld", cur)
         \/ ~Held(c, cur, exp) /\ Prepare(c, "lock.put", e, WithLock(st, lock), TRUE)

\* Generation 0 in the arguments stands for any generation.
NamesOther(c, cur) ==
  cur.id # arg[c].id \/ (arg[c].gen # 0 /\ cur.gen # arg[c].gen)

RenewLock(c, st, e, cur, exp) ==
  /\ arg[c].op = "renew"
  /\ \/ cur = NoLock /\ Return(c, "ErrNoLock", NoLock)
     \/ cur # NoLock /\ NamesOther(c, cur) /\ Return(c, "LockHeld", cur)
     \/ cur # NoLock /\ ~NamesOther(c, cur) /\ exp /\ Return(c, "ErrNoLock", NoLock)
     \/ /\ cur # NoLock /\ ~NamesOther(c, cur) /\ ~exp
        /\ Prepare(c, "lock.put", e, WithLock(st, Numbered(st, cur)), TRUE)

\* An expired lock is released like a live one.
ReleaseLock(c, st, e, cur) ==
  LET freed == [st EXCEPT !.lock = NoLock, !.fence = MaxOf(@, cur.gen),
                          !.canonical = TRUE]
  IN  /\ arg[c].op = "release"
      /\ \/ cur = NoLock /\ Return(c, "nil", NoLock)
         \/ cur # NoLock /\ NamesOther(c, cur) /\ Return(c, "LockHeld", cur)
         \/ cur # NoLock /\ ~NamesOther(c, cur) /\ Prepare(c, "lock.put", e, freed, FALSE)

GetLock(c, cur) ==
  /\ arg[c].op = "getLock"
  /\ Return(c, IF cur = NoLock THEN "ErrNoLock" ELSE "nil", cur)

Decide(c, st, e, cur, exp) ==
  \/ AcquireLock(c, st, e, cur, exp)
  \/ RenewLock(c, st, e, cur, exp)
  \/ ReleaseLock(c, st, e, cur)
  \/ GetLock(c, cur)

------------------------------------------------------------------------------
(* The S3 requests of a lock call. *)

LockGet(c) ==
  /\ pc[c] = "lock.get"
  /\ \/ /\ stack = NoStack
        /\ Return(c, IF arg[c].op = "release" THEN "nil" ELSE "ErrStackNotFound", NoLock)
     \/ /\ stack # NoStack
        /\ arg[c].op = "acquire" /\ stack.inc # arg[c].inc
        /\ Return(c, "ErrConcurrentMutation", NoLock)
     \/ /\ stack # NoStack
        /\ arg[c].op = "acquire" => stack.inc = arg[c].inc
        /\ \/ /\ UsesCanonicalLock(stack)
              /\ \E exp \in Judgements(expired) : Decide(c, stack, etag, stack.lock, exp)
           \/ ~UsesCanonicalLock(stack) /\ Read(c, "lock.legacy")
     \/ Return(c, "error", NoLock)
  /\ UNCHANGED <<objectVars, lockfileVars>>

\* getLegacyLock
LegacyGet(c) ==
  /\ pc[c] = "lock.legacy"
  /\ \/ \E exp \in Judgements(lockfileExpired) :
          Decide(c, snap[c], write[c].etag, lockfile, exp)
     \/ Return(c, "error", NoLock)
  /\ UNCHANGED <<objectVars, lockfileVars>>

\* A call that read lock.json deletes it before it returns.
LockPut(c) ==
  /\ pc[c] = "lock.put"
  /\ \/ /\ Lands(write[c])
        /\ \/ /\ snap[c] # NoStack
              /\ Goto(c, "lock.delete")
              /\ ret' = [ret EXCEPT ![c] = Result("nil", write[c].body.lock)]
              /\ snap' = [snap EXCEPT ![c] = NoStack]
              /\ write' = [write EXCEPT ![c] = NoWrite]
              /\ UNCHANGED <<arg, tries>>
           \/ snap[c] = NoStack /\ Return(c, "nil", write[c].body.lock)
     \/ /\ Refused(write[c])
        /\ \/ NextRound(c, "lock.get")
           \/ LastRound(c) /\ Return(c, "ErrConcurrentMutation", NoLock)
     \/ Abandoned(write[c]) /\ Return(c, "error", NoLock)
  /\ UNCHANGED lockfileVars

\* deleteLegacyLock: a failure is only logged.
LegacyDelete(c) ==
  /\ pc[c] = "lock.delete"
  /\ lockfile' \in {lockfile, NoLock}
  /\ Return(c, ret[c].err, ret[c].val)
  /\ UNCHANGED <<objectVars, lockfileExpired>>

LegacyLeaseExpires ==
  /\ lockfile # NoLock
  /\ ~lockfileExpired
  /\ lockfileExpired' = TRUE
  /\ UNCHANGED <<objectVars, callVars, lockfile>>

LockStep(c) == LockGet(c) \/ LegacyGet(c) \/ LockPut(c) \/ LegacyDelete(c)
==============================================================================
