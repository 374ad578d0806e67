--------------------------- MODULE SessionManager ---------------------------
(***************************************************************************)
(* The life of a session in code_executor_api/sessions.py, and of the      *)
(* requests that use one: SessionManager.create, locked, delete, the       *)
(* background sweep, and the project ids that carry the XFS quota.         *)
(*                                                                         *)
(* The server is one asyncio event loop, so a step of this module is what  *)
(* the code does between two awaits.  A request handler is a task t; pc[t] *)
(* says which await it is suspended at.                                    *)
(*                                                                         *)
(*   idle     no request                                                   *)
(*   quota    create(): the xfs_quota calls of _apply_quota                *)
(*   undo     create(): _remove_tree after a failed quota setup            *)
(*   seed     POST /sessions: reading and writing the seed files           *)
(*   waitUse  locked(): queued for the lock, to use the session            *)
(*   body     inside `async with locked(...)`                              *)
(*   waitDel  delete(): queued for the lock                                *)
(*   remove   delete(): _remove_tree in a worker thread, lock held         *)
(*                                                                         *)
(* Time is abstracted to one fact per session: whether it has been idle    *)
(* longer than SESSION_INACTIVITY_TIMEOUT_SECONDS (overdue), and whether   *)
(* the running sweep pass, whose clock is read once, sees it as overdue    *)
(* (swSeen).                                                               *)
(***************************************************************************)
EXTENDS Naturals, Sequences, FiniteSets, SequencesExt

CONSTANTS
  Tasks,            \* request handlers that can run at the same time
  Sessions,         \* Session objects; each is created at most once (a bound)
  None,             \* no session, no owner
  Sweeper,          \* the sweep task, as the owner of a lock
  MAX_SESSIONS,
  QuotaConfigured,  \* SESSION_QUOTA_MOUNTPOINT is set
  PROJECT_ID_BASE, PROJECT_ID_MAX,
  SlowSetup         \* quota setup may outlast SESSION_INACTIVITY_TIMEOUT_SECONDS

ASSUME ActorsAssumption ==
  /\ None \notin Tasks \cup Sessions \cup {Sweeper}
  /\ Sweeper \notin Tasks

ASSUME LimitsAssumption ==
  /\ MAX_SESSIONS \in Nat \ {0}
  /\ PROJECT_ID_BASE \in Nat \ {0}
  /\ PROJECT_ID_MAX \in Nat
  /\ QuotaConfigured \in BOOLEAN
  /\ SlowSetup \in BOOLEAN

VARIABLES
  pc, op, sess, reply,            \* per request handler
  sessions, handed, overdue,      \* _sessions; ids callers hold; idle too long
  disk, used,                     \* the session directories; those written to
  pid, freeIds, nextId,           \* Session.project_id, _free_project_ids, _next_project_id
  owner, waiters,                 \* Session.lock: holder and FIFO of waiters
  swPc, swTodo, swAt, swSeen      \* the sweep task

reqVars   == <<pc, op, sess, reply>>
regVars   == <<sessions, handed, overdue>>
diskVars  == <<disk, used>>
idVars    == <<pid, freeIds, nextId>>
lockVars  == <<owner, waiters>>
sweepVars == <<swPc, swTodo, swAt, swSeen>>
vars      == <<reqVars, regVars, diskVars, idVars, lockVars, sweepVars>>

NoProject == 0

PCs     == {"idle", "quota", "undo", "seed", "waitUse", "body", "waitDel", "remove"}
Ops     == {"none", "create", "ephemeral", "use", "delete"}
Replies == {"none", "ok", "error"}   \* no answer yet; a 2xx; any error status
Disks   == {"unborn", "present", "left", "gone"}

ReqTypes ==
  /\ pc \in [Tasks -> PCs]
  /\ op \in [Tasks -> Ops]
  /\ sess \in [Tasks -> Sessions \cup {None}]
  /\ reply \in [Tasks -> Replies]
  /\ \A t \in Tasks : pc[t] = "idle" \/ sess[t] \in Sessions

RegTypes ==
  /\ sessions \subseteq Sessions
  /\ handed \subseteq Sessions
  /\ overdue \subseteq Sessions
  /\ used \subseteq Sessions
  /\ disk \in [Sessions -> Disks]

IdTypes ==
  /\ pid \in [Sessions -> Nat]
  /\ freeIds \in Seq(Nat)
  /\ nextId \in Nat

LockTypes ==
  /\ owner \in [Sessions -> Tasks \cup {None, Sweeper}]
  /\ waiters \in [Sessions -> Seq(Tasks)]

SweepTypes ==
  /\ swPc \in {"sleep", "pass", "remove"}
  /\ swTodo \subseteq Sessions
  /\ swAt \in Sessions \cup {None}
  /\ swPc = "remove" => swAt \in Sessions
  /\ swSeen \subseteq Sessions

TypeOK == ReqTypes /\ RegTypes /\ IdTypes /\ LockTypes /\ SweepTypes

Init ==
  /\ pc = [t \in Tasks |-> "idle"]
  /\ op = [t \in Tasks |-> "none"]
  /\ sess = [t \in Tasks |-> None]
  /\ reply = [t \in Tasks |-> "none"]
  /\ sessions = {}
  /\ handed = {}
  /\ overdue = {}
  /\ disk = [s \in Sessions |-> "unborn"]
  /\ used = {}
  /\ pid = [s \in Sessions |-> NoProject]
  /\ freeIds = <<>>
  /\ nextId = PROJECT_ID_BASE
  /\ owner = [s \in Sessions |-> None]
  /\ waiters = [s \in Sessions |-> <<>>]
  /\ swPc = "sleep"
  /\ swTodo = {}
  /\ swAt = None
  /\ swSeen = {}

-----------------------------------------------------------------------------
(* Requests: moving to an await, and answering.                            *)

Move(t, o, s, p, r) ==
  /\ pc' = [pc EXCEPT ![t] = p]
  /\ op' = [op EXCEPT ![t] = o]
  /\ sess' = [sess EXCEPT ![t] = s]
  /\ reply' = [reply EXCEPT ![t] = r]

Finish(t, r) == Move(t, "none", None, "idle", r)

-----------------------------------------------------------------------------
(* Project ids: a stack of released ids, then a counter.                   *)

IdsExhausted == freeIds = <<>> /\ nextId > PROJECT_ID_MAX

\* Seeded fault: the reused id is read but not popped.
BugPeekId(s) ==
  \/ /\ freeIds # <<>>
     /\ pid' = [pid EXCEPT ![s] = Last(freeIds)]
     /\ UNCHANGED <<freeIds, nextId>>
  \/ /\ freeIds = <<>> /\ ~IdsExhausted
     /\ pid' = [pid EXCEPT ![s] = nextId]
     /\ nextId' = nextId + 1
     /\ UNCHANGED freeIds

\* Seeded fault: with every id taken, None is returned instead of an error.
BugNoneId(s) ==
  /\ pid' = [pid EXCEPT ![s] = IF freeIds # <<>> THEN Last(freeIds)
                               ELSE IF IdsExhausted THEN None ELSE nextId]
  /\ freeIds' = IF freeIds # <<>> THEN Front(freeIds) ELSE freeIds
  /\ nextId' = IF freeIds # <<>> \/ IdsExhausted THEN nextId ELSE nextId + 1

AllocateId(s) ==
  \/ /\ freeIds # <<>>
     /\ pid' = [pid EXCEPT ![s] = Last(freeIds)]
     /\ freeIds' = Front(freeIds)
     /\ UNCHANGED nextId
  \/ /\ freeIds = <<>> /\ ~IdsExhausted
     /\ pid' = [pid EXCEPT ![s] = nextId]
     /\ nextId' = nextId + 1
     /\ UNCHANGED freeIds

\* Seeded fault: a released id is never recycled.
BugForgetId(s) == UNCHANGED freeIds

ReleaseId(s) ==
  freeIds' = IF pid[s] = NoProject THEN freeIds ELSE Append(freeIds, pid[s])

-----------------------------------------------------------------------------
(* The session lock.  asyncio.Lock is FIFO without barging: it is taken at *)
(* once only when it is free and nobody queues; a release wakes the first  *)
(* waiter, which takes the lock in a later step (Grant).                   *)

\* Seeded fault: the lock is taken from under its holder.
BugBarge(s) == waiters[s] = <<>>

FreeNow(s) == owner[s] = None /\ waiters[s] = <<>>

\* Seeded fault: an exit path keeps the lock.
BugNoRelease(s) == UNCHANGED <<owner, waiters>>

Release(s) == owner' = [owner EXCEPT ![s] = None] /\ UNCHANGED waiters

\* Seeded fault: locked() does not refresh last_used.
BugNoTouch(s) == UNCHANGED <<overdue, swSeen>>

\* session.last_used = time.monotonic()
Touch(s) ==
  /\ overdue' = overdue \ {s}
  /\ swSeen' = swSeen \ {s}

\* Seeded fault: no second look at the registry after waiting for the lock.
BugNoRecheck(s) == TRUE

\* self.get(session_id) is session
StillRegistered(s) == s \in sessions

\* The body of `async with locked(...)` starts: p is "body" or "remove".
Hold(t, o, s, p, r) ==
  /\ Move(t, o, s, p, r)
  /\ owner' = [owner EXCEPT ![s] = t]
  /\ Touch(s)
  /\ used' = IF p = "body" THEN used \cup {s} ELSE used

\* Called with no other await in front of it: locked(session_id) by task t,
\* to use the session (p = "body") or to delete it (p = "remove").
Locked(t, o, s, p, r) ==
  /\ \/ /\ s \notin sessions
        /\ Finish(t, "error")
        /\ UNCHANGED <<lockVars, overdue, swSeen, used>>
     \/ /\ s \in sessions /\ FreeNow(s)
        /\ Hold(t, o, s, p, r)
        /\ UNCHANGED waiters
     \/ /\ s \in sessions /\ ~FreeNow(s)
        /\ Move(t, o, s, IF p = "body" THEN "waitUse" ELSE "waitDel", r)
        /\ waiters' = [waiters EXCEPT ![s] = Append(@, t)]
        /\ UNCHANGED <<owner, overdue, swSeen, used>>
  /\ UNCHANGED <<sessions, handed, disk, idVars, swPc, swTodo, swAt>>

Waiting(t) == pc[t] \in {"waitUse", "waitDel"}

\* The lock is free and t is first in the queue: the acquire() returns, and
\* locked() looks the session up again.
Grant(t) ==
  LET s == sess[t] IN
  /\ Waiting(t)
  /\ owner[s] = None
  /\ waiters[s] # <<>> /\ Head(waiters[s]) = t
  /\ waiters' = [waiters EXCEPT ![s] = Tail(@)]
  /\ \/ /\ StillRegistered(s)
        /\ Hold(t, op[t], s, IF pc[t] = "waitUse" THEN "body" ELSE "remove", reply[t])
     \/ /\ ~StillRegistered(s)
        /\ Finish(t, "error")
        /\ UNCHANGED <<owner, overdue, swSeen, used>>
  /\ UNCHANGED <<sessions, handed, disk, idVars, swPc, swTodo, swAt>>

\* Seeded fault: a deletion waits for the lock without a timeout.
BugNoTimeout(t) ==
  LET s == sess[t] IN
  /\ pc[t] = "waitUse" /\ op[t] # "ephemeral"
  /\ \E i \in 1..Len(waiters[s]) :
       waiters[s][i] = t /\ waiters' = [waiters EXCEPT ![s] = RemoveAt(@, i)]
  /\ Finish(t, "error")
  /\ UNCHANGED <<owner, regVars, diskVars, idVars, sweepVars>>

\* Seeded fault: a request that gives up stays in the queue.
BugStaysQueued(t) ==
  /\ Waiting(t)
  /\ Finish(t, "error")
  /\ UNCHANGED <<lockVars, regVars, diskVars, idVars, sweepVars>>

\* SESSION_LOCK_WAIT_TIMEOUT_SECONDS passed.  A throwaway execution that cannot
\* get its own session (the sweep is removing it) still runs its `finally`,
\* and queues again to delete it; a delete() that times out there is a 500.
LockTimeout(t) ==
  LET s == sess[t] IN
  /\ Waiting(t)
  /\ \E i \in 1..Len(waiters[s]) :
       /\ waiters[s][i] = t
       /\ \/ /\ op[t] = "ephemeral" /\ pc[t] = "waitUse" /\ s \in sessions
             /\ Move(t, op[t], s, "waitDel", "error")
             /\ waiters' = [waiters EXCEPT ![s] = Append(RemoveAt(@, i), t)]
          \/ /\ ~(op[t] = "ephemeral" /\ pc[t] = "waitUse" /\ s \in sessions)
             /\ Finish(t, "error")
             /\ waiters' = [waiters EXCEPT ![s] = RemoveAt(@, i)]
  /\ UNCHANGED <<owner, regVars, diskVars, idVars, sweepVars>>

-----------------------------------------------------------------------------
(* SessionManager.create                                                   *)

CapacityLeft == Cardinality(sessions) < MAX_SESSIONS

\* SessionLimitReached: a 503.  A throwaway execution has no session to delete.
CreateRefused(t) ==
  /\ pc[t] = "idle"
  /\ ~CapacityLeft
  /\ Finish(t, "error")
  /\ UNCHANGED <<regVars, diskVars, idVars, lockVars, sweepVars>>

\* mkdtemp fails, or it succeeds and no project id is left: the session is not
\* registered yet and nothing undoes the directory.
CreateFails(t, s) ==
  /\ pc[t] = "idle"
  /\ CapacityLeft
  /\ disk[s] = "unborn"
  /\ \/ UNCHANGED disk
     \/ /\ QuotaConfigured /\ IdsExhausted
        /\ disk' = [disk EXCEPT ![s] = "present"]
  /\ Finish(t, "error")
  /\ UNCHANGED <<regVars, used, idVars, lockVars, sweepVars>>

\* Slot, directory and id are taken before the first await.
CreateReserve(t, o, s) ==
  /\ pc[t] = "idle"
  /\ CapacityLeft
  /\ disk[s] = "unborn"
  /\ QuotaConfigured
  /\ AllocateId(s)
  /\ Move(t, o, s, "quota", "none")
  /\ sessions' = sessions \cup {s}
  /\ disk' = [disk EXCEPT ![s] = "present"]
  /\ UNCHANGED <<handed, overdue, used, lockVars, sweepVars>>

\* Without quotas create() never awaits, and its caller carries on: POST
\* /sessions with seed files or without, or a throwaway execution.
CreateAtOnce(t, o, s) ==
  /\ pc[t] = "idle"
  /\ CapacityLeft
  /\ disk[s] = "unborn"
  /\ ~QuotaConfigured
  /\ sessions' = sessions \cup {s}
  /\ disk' = [disk EXCEPT ![s] = "present"]
  /\ \/ /\ o = "create"
        /\ Move(t, o, s, "seed", "none")
        /\ used' = used \cup {s}
        /\ UNCHANGED <<handed, overdue, swSeen, owner>>
     \/ /\ o = "create"
        /\ Finish(t, "ok")
        /\ handed' = handed \cup {s}
        /\ UNCHANGED <<used, overdue, swSeen, owner>>
     \/ /\ o = "ephemeral"
        /\ Hold(t, o, s, "body", "none")
        /\ UNCHANGED handed
  /\ UNCHANGED <<idVars, waiters, swPc, swTodo, swAt>>

\* _apply_quota returned.
QuotaOk(t) ==
  LET s == sess[t] IN
  /\ pc[t] = "quota"
  /\ \/ /\ op[t] = "create"
        /\ Move(t, "create", s, "seed", "none")
        /\ used' = used \cup {s}
        /\ UNCHANGED <<regVars, disk, idVars, lockVars, sweepVars>>
     \/ /\ op[t] = "create"
        /\ Finish(t, "ok")
        /\ handed' = handed \cup {s}
        /\ UNCHANGED <<sessions, overdue, diskVars, idVars, lockVars, sweepVars>>
     \/ /\ op[t] = "ephemeral"
        /\ Locked(t, "ephemeral", s, "body", "none")

\* _apply_quota raised: pop the session, release the id, then await the removal
\* of the directory.
QuotaFail(t) ==
  LET s == sess[t] IN
  /\ pc[t] = "quota"
  /\ sessions' = sessions \ {s}
  /\ overdue' = overdue \ {s}
  /\ ReleaseId(s)
  /\ Move(t, op[t], s, "undo", "none")
  /\ UNCHANGED <<handed, diskVars, pid, nextId, lockVars, sweepVars>>

UndoDone(t) ==
  LET s == sess[t] IN
  /\ pc[t] = "undo"
  /\ \E d \in {"gone", "left"} :
       /\ disk[s] = "gone" => d = "gone"
       /\ disk' = [disk EXCEPT ![s] = d]
  /\ Finish(t, "error")
  /\ UNCHANGED <<regVars, used, idVars, lockVars, sweepVars>>

-----------------------------------------------------------------------------
(* The handlers                                                            *)

\* POST /sessions: the last seed file is written, the id goes to the caller.
SeedDone(t) ==
  /\ pc[t] = "seed"
  /\ Finish(t, "ok")
  /\ handed' = handed \cup {sess[t]}
  /\ UNCHANGED <<sessions, overdue, diskVars, idVars, lockVars, sweepVars>>

\* A seed part is rejected or its write fails: manager.delete(session.id), and
\* an error answer whatever delete() does.
SeedFail(t) ==
  /\ pc[t] = "seed"
  /\ Locked(t, "create", sess[t], "remove", "error")

\* POST .../execute and GET, PUT, DELETE .../files on an id a caller holds.
UseBegin(t, s) ==
  /\ pc[t] = "idle"
  /\ s \in handed
  /\ Locked(t, "use", s, "body", "none")

\* DELETE /sessions/{id}
DeleteBegin(t, s) ==
  /\ pc[t] = "idle"
  /\ s \in handed
  /\ Locked(t, "delete", s, "remove", "none")

\* Seeded fault: a throwaway execution forgets its `finally`.
BugKeepThrowaway(t) ==
  /\ pc[t] = "body"
  /\ \E r \in {"ok", "error"} : Finish(t, r)
  /\ Release(sess[t])
  /\ UNCHANGED <<regVars, swSeen>>

\* The body returns or raises and the lock is released.  A throwaway execution
\* goes straight on to delete its session: nobody else knows the id, so no
\* waiter stands between the release and the next acquire.
LeaveBody(t) ==
  /\ pc[t] = "body"
  /\ \/ /\ op[t] = "use"
        /\ \E r \in {"ok", "error"} : Finish(t, r)
        /\ Release(sess[t])
        /\ UNCHANGED <<regVars, swSeen>>
     \/ /\ op[t] = "ephemeral"
        /\ \E r \in {"ok", "error"} : Move(t, "ephemeral", sess[t], "remove", r)
        /\ Touch(sess[t])
        /\ UNCHANGED <<sessions, handed, lockVars>>

BodyEnd(t) ==
  /\ LeaveBody(t)
  /\ UNCHANGED <<diskVars, idVars, swPc, swTodo, swAt>>

-----------------------------------------------------------------------------
(* SessionManager._delete: the removal ends, under the session's lock      *)

\* Seeded fault: the id is released before the tree is known to be gone.
BugReleaseAnyway(s, ok) == ReleaseId(s)

\* The id is held back while the tree is still on disk.
ReleaseIfRemoved(s, ok) == IF ok THEN ReleaseId(s) ELSE UNCHANGED freeIds

\* _remove_tree succeeded (ok) or raised OSError, and always raises when the
\* tree is already gone; the session leaves the registry either way.
Retire(s, ok) ==
  /\ ok => disk[s] # "gone"
  /\ disk' = [disk EXCEPT ![s] = IF ok \/ @ = "gone" THEN "gone" ELSE "left"]
  /\ ReleaseIfRemoved(s, ok)
  /\ sessions' = sessions \ {s}
  /\ overdue' = overdue \ {s}
  /\ Release(s)
  /\ UNCHANGED <<handed, used, pid, nextId>>

RemoveDone(t) ==
  /\ pc[t] = "remove"
  /\ \E ok \in BOOLEAN : Retire(sess[t], ok)
  /\ Finish(t, IF op[t] = "delete" THEN "ok" ELSE reply[t])
  /\ UNCHANGED sweepVars

-----------------------------------------------------------------------------
(* Time and the sweep                                                      *)

\* now - last_used passes the limit.  Whether that can happen while create()
\* still awaits xfs_quota depends on the configuration.
Overdue(s) ==
  /\ s \in sessions \ overdue
  /\ SlowSetup \/ \A t \in Tasks : ~(pc[t] = "quota" /\ sess[t] = s)
  /\ overdue' = overdue \cup {s}
  /\ UNCHANGED <<reqVars, sessions, handed, diskVars, idVars, lockVars, sweepVars>>

\* A pass reads the clock once and iterates a copy of the registry.
SweepStart ==
  /\ swPc = "sleep"
  /\ swPc' = "pass"
  /\ swTodo' = sessions
  /\ swSeen' = overdue
  /\ UNCHANGED <<swAt, reqVars, regVars, diskVars, idVars, lockVars>>

\* Seeded fault: the sweep removes without taking the lock.
BugSweepUnlocked(s) == s \in sessions /\ s \in swSeen

\* _try_acquire_lock succeeds, and the two checks made under the lock pass.
Sweepable(s) ==
  /\ FreeNow(s)
  /\ StillRegistered(s)
  /\ s \in swSeen

SweepSkip(s) ==
  /\ swPc = "pass"
  /\ s \in swTodo
  /\ ~Sweepable(s)
  /\ swTodo' = swTodo \ {s}
  /\ UNCHANGED <<swPc, swAt, swSeen, reqVars, regVars, diskVars, idVars, lockVars>>

SweepTake(s) ==
  /\ swPc = "pass"
  /\ s \in swTodo
  /\ Sweepable(s)
  /\ swTodo' = swTodo \ {s}
  /\ swPc' = "remove"
  /\ swAt' = s
  /\ owner' = [owner EXCEPT ![s] = Sweeper]
  /\ UNCHANGED <<swSeen, waiters, reqVars, regVars, diskVars, idVars>>

SweepRemoved ==
  /\ swPc = "remove"
  /\ \E ok \in BOOLEAN : Retire(swAt, ok)
  /\ swPc' = "pass"
  /\ swAt' = None
  /\ UNCHANGED <<swTodo, swSeen, reqVars>>

SweepEnd ==
  /\ swPc = "pass"
  /\ swTodo = {}
  /\ swPc' = "sleep"
  /\ swSeen' = {}
  /\ UNCHANGED <<swTodo, swAt, reqVars, regVars, diskVars, idVars, lockVars>>

Sweep == SweepStart \/ SweepRemoved \/ SweepEnd \/ \E s \in Sessions : SweepSkip(s) \/ SweepTake(s)

-----------------------------------------------------------------------------
Create(t) ==
  \/ CreateRefused(t)
  \/ \E s \in Sessions : CreateFails(t, s)
  \/ \E s \in Sessions, o \in {"create", "ephemeral"} : CreateReserve(t, o, s) \/ CreateAtOnce(t, o, s)

Handler(t) ==
  \/ QuotaOk(t) \/ QuotaFail(t) \/ UndoDone(t)
  \/ SeedDone(t) \/ SeedFail(t)
  \/ Grant(t) \/ LockTimeout(t)
  \/ BodyEnd(t) \/ RemoveDone(t)

Next ==
  \/ \E t \in Tasks : Create(t) \/ Handler(t)
  \/ \E t \in Tasks, s \in Sessions : UseBegin(t, s) \/ DeleteBegin(t, s)
  \/ \E s \in Sessions : Overdue(s)
  \/ Sweep

Spec == Init /\ [][Next]_vars

-----------------------------------------------------------------------------
(* Properties                                                              *)

\* Task or sweeper a is inside the lock of s.
Inside(a, s) ==
  \/ a \in Tasks /\ pc[a] \in {"body", "remove"} /\ sess[a] = s
  \/ a = Sweeper /\ swPc = "remove" /\ swAt = s

\* Those running _remove_tree on the directory of s.
Removers(s) ==
  {t \in Tasks : pc[t] \in {"remove", "undo"} /\ sess[t] = s}
    \cup {a \in {Sweeper} : Inside(a, s)}

\* The lock of a session belongs to the one actor inside it, so a request body,
\* a deletion and the sweep never work on one session at the same time.
LockOwnership ==
  \A s \in Sessions, a \in Tasks \cup {Sweeper} : owner[s] = a <=> Inside(a, s)

\* Whoever waits for a lock is in its queue, once, and nobody else is: a lock set free goes to
\* a request that is there to take it, never to one that has given up while others wait.
QueuedOnce ==
  \A s \in Sessions :
    /\ IsInjective(waiters[s])
    /\ ToSet(waiters[s]) = {t \in Tasks : Waiting(t) /\ sess[t] = s}

\* A body granted the lock works on a registered session whose directory is
\* there and which nobody is removing, however long it queued: the re-check of
\* locked() after the wait.
NoUseAfterDelete ==
  \A t \in Tasks : pc[t] = "body" =>
    /\ sess[t] \in sessions
    /\ disk[sess[t]] = "present"
    /\ Removers(sess[t]) = {}

\* Concurrent create() calls never pass MAX_SESSIONS, because the slot is taken
\* before the first await.
SessionCapacity == Cardinality(sessions) <= MAX_SESSIONS

\* No two sessions of the registry share an XFS project, and the ids waiting to
\* be reused are nobody's and listed once.
ProjectIdsUnique ==
  QuotaConfigured =>
    /\ \A s, r \in sessions : pid[s] = pid[r] => s = r
    /\ \A s \in sessions : pid[s] \notin ToSet(freeIds)
    /\ IsInjective(freeIds)

\* While files somebody wrote are still on disk, the project that accounts for
\* them is not given to another session (the comment in _delete).
NoSpentAllowance ==
  \A s \in used : disk[s] \in {"present", "left"} /\ pid[s] # NoProject =>
    /\ pid[s] \notin ToSet(freeIds)
    /\ \A r \in sessions \ {s} : pid[r] # pid[s]

\* No id is lost: each one ever allocated can be reused, or belongs to a
\* registered session, or to a tree that could not be removed.
IdAccounting ==
  \A n \in PROJECT_ID_BASE..(nextId - 1) :
    \/ n \in ToSet(freeIds)
    \/ \E s \in Sessions : pid[s] = n /\ (s \in sessions \/ disk[s] = "left")

\* No two removals of one directory overlap, and none starts on a directory that
\* another one has removed.
OneRemover ==
  \A s \in Sessions : Removers(s) # {} =>
    /\ \E a \in Tasks \cup {Sweeper} : Removers(s) = {a}
    /\ disk[s] = "present"

\* When POST /execute is answered its session has left the registry, or the
\* sweep is in the middle of removing it.
ThrowawayGone ==
  [][\A t \in Tasks :
       op[t] = "ephemeral" /\ pc'[t] = "idle" =>
         sess[t] \notin sessions' \/ owner'[sess[t]] = Sweeper]_vars

-----------------------------------------------------------------------------
(* Fairness: timers fire, worker threads and xfs_quota calls end, the loop   *)
(* runs callbacks that are ready.  Nothing is assumed of a request body or   *)
(* of seed files still being uploaded.                                     *)
Fairness ==
  /\ \A t \in Tasks :
       /\ WF_vars(Grant(t))
       /\ WF_vars(LockTimeout(t))
       /\ WF_vars(RemoveDone(t))
       /\ WF_vars(QuotaOk(t) \/ QuotaFail(t))
       /\ WF_vars(UndoDone(t))
  /\ \A s \in Sessions : WF_vars(Overdue(s))
  /\ WF_vars(Sweep)

FairSpec == Spec /\ Fairness

\* A session no request refers to any more leaves the registry for good: its
\* MAX_SESSIONS slot comes back without anybody calling DELETE.
AbandonedSwept ==
  \A s \in Sessions :
    <>[](\A t \in Tasks : sess[t] # s) => <>[](s \notin sessions)

\* A request queued for a lock gets it or is answered, even when the holder
\* never lets go.
NoEndlessWait == \A t \in Tasks : Waiting(t) ~> ~Waiting(t)

-----------------------------------------------------------------------------
(* Why a granted lock is safe: the inductive invariant of the proofs.        *)

\* What a request is doing fits the operation it serves.
OpFitsPc ==
  \A t \in Tasks :
    /\ pc[t] = "idle" => op[t] = "none" /\ sess[t] = None
    /\ pc[t] \in {"quota", "undo"} => op[t] \in {"create", "ephemeral"}
    /\ pc[t] = "seed" => op[t] = "create"
    /\ pc[t] \in {"waitUse", "body"} => op[t] \in {"use", "ephemeral"}

\* A session that does not exist yet is referred to from nowhere.
UnbornUnknown ==
  \A s \in Sessions : disk[s] = "unborn" =>
    /\ s \notin sessions \cup handed \cup overdue \cup used \cup swSeen
    /\ \A t \in Tasks : sess[t] # s
    /\ swAt # s

\* The id of a session being created, or of a throwaway one, is nobody else's.
CreatedPrivate ==
  \A t \in Tasks : op[t] \in {"create", "ephemeral"} =>
    /\ sess[t] \notin handed
    /\ \A u \in Tasks \ {t} : sess[u] # sess[t]

RegisteredPresent == \A s \in sessions : disk[s] = "present"

InsideRegistered ==
  \A t \in Tasks :
    /\ pc[t] \in {"body", "remove"} => sess[t] \in sessions
    /\ pc[t] = "undo" => sess[t] \notin sessions

SafeInv ==
  /\ OpFitsPc
  /\ UnbornUnknown
  /\ CreatedPrivate
  /\ RegisteredPresent
  /\ InsideRegistered
  /\ LockOwnership

-----------------------------------------------------------------------------
(* Why an id is never shared: the inductive invariant of the id proofs. It   *)
(* holds when quota setup is faster than the inactivity limit (~SlowSetup).  *)

\* A session still in quota setup is registered, cannot look overdue to the
\* sweep, and is empty; one being undone is still empty, on disk or not.
SetupUntouched ==
  \A t \in Tasks :
    /\ pc[t] = "quota" => sess[t] \in sessions \ (overdue \cup swSeen \cup used)
    /\ pc[t] = "undo" => sess[t] \notin used /\ disk[sess[t]] = "present"
    /\ pc[t] \in {"quota", "undo"} => sess[t] # swAt

SweepRegistered == swPc = "remove" => swAt \in sessions

\* Ids are given out in order, and only when there are quotas.
IdBounds ==
  /\ nextId >= PROJECT_ID_BASE
  /\ \A s \in Sessions : pid[s] < nextId
  /\ \A s \in Sessions : disk[s] = "unborn" => pid[s] = NoProject
  /\ ToSet(freeIds) \subseteq 1..(nextId - 1)
  /\ QuotaConfigured => \A s \in sessions : pid[s] # NoProject
  /\ ~QuotaConfigured =>
       /\ freeIds = <<>> /\ nextId = PROJECT_ID_BASE
       /\ \A s \in Sessions : pid[s] = NoProject

IdInv ==
  /\ SetupUntouched
  /\ SweepRegistered
  /\ IdBounds
  /\ ProjectIdsUnique
  /\ NoSpentAllowance
  /\ IdAccounting

=============================================================================
