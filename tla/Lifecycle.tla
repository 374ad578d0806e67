------------------------------ MODULE Lifecycle ------------------------------
(***************************************************************************)
(* The life of the server process: the settings it starts with (config.py, *)
(* app.py), sessions getting their disk quota call by call (_run_xfs_quota,*)
(* _apply_quota, _verify_quota_hard_limit), the shutdown (app_factory.py,  *)
(* stop_sweep, delete_all) among handlers and removals still under way,    *)
(* and crashes, after which directories and quotas are still on the disk.  *)
(*                                                                         *)
(* server: off; starting (the sweep runs, the port is not bound yet); up;  *)
(*   draining (no new requests, handlers may finish); stopping (handlers   *)
(*   cancelled, stop_sweep); deleting (delete_all); stopped ("all sessions *)
(*   deleted" logged); ending (the last tasks cancelled).                  *)
(* pc[h], the await of request handler h: idle; setup, block, inode (in    *)
(*   _apply_quota: the setup, the two reports); undo (create() removing    *)
(*   what it made); body (inside the session's lock); kill, bail (the      *)
(*   finally of run_container, after a timeout or a CancelledError: the    *)
(*   container is being removed and its client awaited, the reader's stop  *)
(*   event is not set yet); remove (_delete, with the lock).               *)
(*                                                                         *)
(* The lock's queue and timeouts, the sweep's clock, and setups that last  *)
(* longer than the inactivity limit are in module SessionManager.          *)
(***************************************************************************)
EXTENDS Integers, Sequences, FiniteSets

CONSTANTS
  Handlers, Sessions,
  None, Unset, Malformed,   \* no value; a variable not set; one that cannot be parsed
  Sizes,                    \* values of MAX_SESSION_SIZE in the environment
  MAX_SESSION_ENTRIES,
  DefaultSize,
  KIB,                      \* bytes in a KiB
  PROJECT_ID_BASE

ASSUME ValuesAssumption ==
  /\ Sizes \subseteq Int /\ DefaultSize \in Nat \ {0} /\ KIB \in Nat \ {0}
  /\ MAX_SESSION_ENTRIES \in Nat \ {0} /\ PROJECT_ID_BASE \in Nat
  /\ {Unset, Malformed, None} \cap Int = {}

\* "sweep" and "cleanup" are actors beside the handlers; "off" and "asleep" are no sessions.
ASSUME NamesAssumption ==
  /\ {"sweep", "cleanup"} \cap Handlers = {}
  /\ {"off", "asleep"} \cap Sessions = {}
  /\ None \notin Handlers \cup Sessions \cup {"sweep", "cleanup", "off", "asleep"}
  /\ IsFiniteSet(Sessions)

VARIABLES
  server, config,
  pc, ses,                \* handlers, and the session each works on
  cancelled,              \* handlers and sweep to which a CancelledError is on its way
  sessions, handed,       \* the registry; those in it that clients know
  amiss,                  \* history: those in it whose limits were not set as asked, or were set again by an orphan
  pid, freeIds, nextId,
  owner,                  \* who holds each session's lock
  sweep,                  \* off, asleep, or the session it removes
  todo,                   \* what delete_all has still to delete
  deleting,               \* the session it removes
  removers,               \* whose worker threads are removing each directory
  disk, ours,             \* each directory; those this process made
  limit,                  \* in the file system: the hard limits of each project
  accounting,             \* whether it keeps project quotas, as mounted, enforcing them or not
  orphans,                \* setups by xfs_quota that nobody waits for any more
  stray,                  \* whether the pty reader of some run was left without its stop event
  failed                  \* directories a removal has failed on, of itself or for a program at work

procVars == <<server, config, stray>>
hVars    == <<pc, ses>>
bookVars == <<sessions, handed, amiss, pid>>
regVars  == <<bookVars, owner>>
idVars   == <<freeIds, nextId>>
swVars   == <<sweep, todo, deleting>>
diskVars == <<disk, ours, failed>>
fsVars   == <<limit, accounting, orphans>>
vars == <<procVars, hVars, cancelled, regVars, idVars, swVars, removers, diskVars, fsVars>>

InQuota == {"setup", "block", "inode"}
InBody  == {"body", "kill", "bail"}
Ids == PROJECT_ID_BASE..(PROJECT_ID_BASE + Cardinality(Sessions))
NoLimit == [block |-> 0, inode |-> 0]
\* The sweep and delete_all, beside the handlers, as holders of locks and threads.
Sweeper == "sweep"
Cleanup == "cleanup"

Volatile ==
  /\ pc' = [h \in Handlers |-> "idle"] /\ ses' = [h \in Handlers |-> None]
  /\ cancelled' = {} /\ sessions' = {} /\ handed' = {}
  /\ pid' = [s \in Sessions |-> None] /\ owner' = [s \in Sessions |-> None]
  /\ freeIds' = <<>> /\ nextId' = PROJECT_ID_BASE
  /\ todo' = {} /\ deleting' = None
  /\ removers' = [s \in Sessions |-> {}] /\ ours' = {} /\ failed' = {}
  /\ amiss' = {} /\ stray' = FALSE

Init ==
  /\ server = "off" /\ config = None
  /\ pc = [h \in Handlers |-> "idle"] /\ ses = [h \in Handlers |-> None]
  /\ cancelled = {} /\ sessions = {} /\ handed = {}
  /\ pid = [s \in Sessions |-> None] /\ owner = [s \in Sessions |-> None]
  /\ freeIds = <<>> /\ nextId = PROJECT_ID_BASE
  /\ sweep = "off" /\ todo = {} /\ deleting = None
  /\ removers = [s \in Sessions |-> {}]
  /\ disk = [s \in Sessions |-> "unborn"] /\ ours = {} /\ failed = {}
  /\ limit = [i \in Ids |-> NoLimit] /\ accounting \in BOOLEAN
  /\ orphans = {} /\ amiss = {} /\ stray = FALSE

-----------------------------------------------------------------------------
(* Settings.  Malformed also stands for the exception a reader raises.       *)

ReadInt(raw, default, min) ==
  CASE raw = Unset -> default
    [] raw \notin {Unset, Malformed} /\ raw >= min -> raw
    [] OTHER -> Malformed

\* Set and blank is an error, not "unset".
ReadOptional(raw) == IF raw = Unset THEN None ELSE raw

ReadArgv(raw, default) == IF raw = Unset THEN default ELSE raw

\* One variable of each kind: an integer, an optional path, a command.
Config(env) ==
  [size  |-> ReadInt(env.size, DefaultSize, 1),
   mount |-> ReadOptional(env.mount),
   quotaCommand |-> ReadArgv(env.command, "xfs_quota")]

Environments ==
  [size : Sizes \cup {Unset, Malformed}, mount : {Unset, Malformed, "/xfs"}, command : {Unset, Malformed}]

\* _parse_args
QuotaChosen(c, noSessionQuota) == c.mount # None \/ noSessionQuota

\* config.py raises at import, the parser refuses, or the application starts up.
Boot ==
  /\ server = "off"
  /\ \E env \in Environments, noSessionQuota \in BOOLEAN :
       LET c == Config(env) IN
       /\ Malformed \notin {c.size, c.mount, c.quotaCommand}
       /\ QuotaChosen(c, noSessionQuota)
       /\ config' = [size |-> c.size, mount |-> c.mount, waived |-> c.mount = None /\ noSessionQuota]
  /\ server' = "starting"
  /\ sweep' = "asleep"
  /\ Volatile
  /\ UNCHANGED <<disk, limit, accounting, orphans>>

Listen ==
  /\ server = "starting" /\ server' = "up"
  /\ UNCHANGED <<config, stray, hVars, cancelled, regVars, idVars, swVars, removers, diskVars, fsVars>>

-----------------------------------------------------------------------------
(* Worker threads that remove directories                                    *)

Starts(r, s) == removers' = [removers EXCEPT ![s] = @ \cup {r}]

\* A removal meets another one, or nothing at all: it fails on what is missing.
Raced(r, s) == disk[s] # "present" \/ removers[s] # {r}

AtWork(s) == \E h \in Handlers : pc[h] \in InBody /\ ses[h] = s

\* The thread of r ends.  Of two removals of one tree the last cannot fail for the
\* other; any may fail of itself, and does when a program keeps adding files.
ThreadEnds(r, s, ok) ==
  /\ r \in removers[s]
  /\ removers' = [removers EXCEPT ![s] = @ \ {r}]
  /\ IF ok THEN disk[s] = "present" /\ disk' = [disk EXCEPT ![s] = "gone"]
           ELSE UNCHANGED disk
  /\ \/ ok /\ UNCHANGED failed
     \/ ~ok /\ Raced(r, s) /\ UNCHANGED failed
     \/ ~ok /\ failed' = failed \cup {s}
  /\ UNCHANGED <<ours, fsVars>>

ReleaseId(s) == freeIds' = IF pid[s] = None THEN freeIds ELSE Append(freeIds, pid[s])

\* The end of _delete: the id is released when the tree is gone.
Retire(s, ok) ==
  /\ sessions' = sessions \ {s} /\ handed' = handed \ {s} /\ amiss' = amiss \ {s}
  /\ IF ok THEN ReleaseId(s) ELSE UNCHANGED freeIds
  /\ UNCHANGED <<pid, nextId>>

Goes(h, p, s) == pc' = [pc EXCEPT ![h] = p] /\ ses' = [ses EXCEPT ![h] = IF p = "idle" THEN None ELSE s]

Locks(h, s)   == owner' = [owner EXCEPT ![s] = h]
Unlocks(s)    == owner' = [owner EXCEPT ![s] = None]
Free(s)       == owner[s] = None

-----------------------------------------------------------------------------
(* create() and its quota calls                                              *)

Serving == server \in {"up", "draining"}
Running(h, p) == Serving /\ h \notin cancelled /\ pc[h] = p

\* Seeded fault: nobody else knows the throwaway session, so its lock is not taken.
BugCreated(h, s, e) ==
  /\ Goes(h, IF e THEN "body" ELSE "idle", s)
  /\ UNCHANGED owner
  /\ handed' = IF e THEN handed ELSE handed \cup {s}

\* create() returns: POST /sessions answers, POST /execute (e) goes into its session,
\* which no client learns of.
Created(h, s, e) ==
  IF e THEN Goes(h, "body", s) /\ Locks(h, s) /\ UNCHANGED handed
       ELSE Goes(h, "idle", s) /\ UNCHANGED owner /\ handed' = handed \cup {s}

Create(h) ==
  /\ server = "up" /\ pc[h] = "idle"
  /\ \E s \in Sessions :
       /\ disk[s] = "unborn"
       /\ disk' = [disk EXCEPT ![s] = "present"] /\ ours' = ours \cup {s}
       /\ sessions' = sessions \cup {s}
       /\ IF config.mount # None
          THEN /\ IF freeIds # <<>>
                  THEN pid' = [pid EXCEPT ![s] = freeIds[Len(freeIds)]]
                       /\ freeIds' = SubSeq(freeIds, 1, Len(freeIds) - 1) /\ UNCHANGED nextId
                  ELSE pid' = [pid EXCEPT ![s] = nextId] /\ nextId' = nextId + 1 /\ UNCHANGED freeIds
               /\ Goes(h, "setup", s) /\ UNCHANGED <<owner, handed>>
          ELSE UNCHANGED <<pid, idVars>> /\ \E e \in BOOLEAN : Created(h, s, e)
  /\ UNCHANGED <<procVars, cancelled, amiss, swVars, removers, failed, fsVars>>

\* -(-MAX_SESSION_SIZE // 1024)
BHard == -((-config.size) \div KIB)

\* `limit` takes effect or not.  What `project -s` did to the directory is left out: nothing
\* in the server ever asks.
Applied(s, limits) ==
  limit' = IF limits /\ accounting
           THEN [limit EXCEPT ![pid[s]] = [block |-> BHard, inode |-> MAX_SESSION_ENTRIES]]
           ELSE limit

\* The process of the setup goes on without the server (one at a time, a bound).
Orphaned(s) ==
  orphans' = IF orphans = {} THEN {[id |-> pid[s], block |-> BHard]} ELSE orphans

\* The except branch of create(): out of the registry, the id back, then the tree.
Undo(h) ==
  LET s == ses[h] IN
  /\ sessions' = sessions \ {s} /\ amiss' = amiss \ {s} /\ ReleaseId(s)
  /\ pc' = [pc EXCEPT ![h] = "undo"] /\ Starts(h, s)
  /\ UNCHANGED <<ses, handed, pid, owner, nextId, diskVars>>

\* `project -s -p` and `limit -p` exit with 0, which says nothing of the limits.
SetUp(h) ==
  LET s == ses[h] IN
  /\ Running(h, "setup")
  /\ \E limits \in BOOLEAN :
       Applied(s, limits) /\ amiss' = IF limits THEN amiss \ {s} ELSE amiss \cup {s}
  /\ Goes(h, "block", s)
  /\ UNCHANGED <<procVars, cancelled, sessions, handed, pid, owner, idVars, swVars, removers,
                 diskVars, accounting, orphans>>

\* The command cannot be run, exits with another code, or is killed after its timeout:
\* under sudo that leaves xfs_quota itself running.
SetUpFails(h) ==
  /\ Running(h, "setup")
  /\ \/ (\E limits \in BOOLEAN : Applied(ses[h], limits)) /\ UNCHANGED orphans
     \/ Orphaned(ses[h]) /\ UNCHANGED limit
  /\ Undo(h)
  /\ UNCHANGED <<procVars, cancelled, swVars, accounting>>

\* An xfs_quota that nobody waits for ends, having set its limits or not.
OrphanEnds(o) ==
  /\ orphans' = orphans \ {o}
  /\ \/ UNCHANGED <<limit, amiss>>
     \/ /\ accounting
        /\ limit' = [limit EXCEPT ![o.id] = [block |-> o.block, inode |-> MAX_SESSION_ENTRIES]]
        /\ amiss' = IF server = "off" \/ o.block = BHard THEN amiss
                    ELSE amiss \cup {s \in sessions : pid[s] = o.id}
  /\ UNCHANGED <<procVars, hVars, cancelled, sessions, handed, pid, owner, idVars, swVars, removers,
                 diskVars, accounting>>

\* Seeded fault: the exit code of the report is trusted.
BugReported(s, kind) == TRUE

\* A line for the project with a positive hard limit.
Reported(s, kind) == accounting /\ limit[pid[s]][kind] > 0

Verified(h) ==
  /\ \/ Running(h, "block") /\ Reported(ses[h], "block")
        /\ Goes(h, "inode", ses[h]) /\ UNCHANGED <<owner, handed>>
     \/ Running(h, "inode") /\ Reported(ses[h], "inode") /\ \E e \in BOOLEAN : Created(h, ses[h], e)
  /\ UNCHANGED <<procVars, cancelled, sessions, pid, amiss, idVars, swVars, removers, diskVars, fsVars>>

\* No such line, no limit in it, or the command fails.
NotVerified(h) ==
  /\ Running(h, "block") \/ Running(h, "inode")
  /\ Undo(h)
  /\ UNCHANGED <<procVars, cancelled, swVars, fsVars>>

Undone(h, ok) ==
  /\ pc[h] = "undo" /\ h \notin cancelled
  /\ ThreadEnds(h, ses[h], ok)
  /\ Goes(h, "idle", None)
  /\ UNCHANGED <<procVars, cancelled, regVars, idVars, swVars>>

-----------------------------------------------------------------------------
(* Other requests, and the end of a body                                     *)

\* A request on a session the client knows gets its lock, to use it or to DELETE it.
Request(h, s, p) ==
  /\ server = "up" /\ pc[h] = "idle" /\ h \notin cancelled
  /\ s \in handed /\ Free(s)
  /\ Locks(h, s) /\ Goes(h, p, s)
  /\ IF p = "remove" THEN Starts(h, s) ELSE UNCHANGED removers
  /\ UNCHANGED <<procVars, cancelled, bookVars, idVars, swVars, diskVars, fsVars>>

\* The lock is released; a throwaway session is locked again, to be deleted, unless
\* it is no longer registered.
LeaveBody(h) ==
  LET s == ses[h] IN
  IF s \in sessions \ handed
  THEN Goes(h, "remove", s) /\ Starts(h, s) /\ UNCHANGED owner
  ELSE Goes(h, "idle", s) /\ Unlocks(s) /\ UNCHANGED removers

BodyEnds(h) ==
  /\ pc[h] = "body" /\ h \notin cancelled
  /\ LeaveBody(h)
  /\ UNCHANGED <<procVars, cancelled, bookVars, idVars, swVars, diskVars, fsVars>>

\* EXECUTION_TIMEOUT passed in a body that runs code: the container is removed.
RunTimesOut(h) ==
  /\ pc[h] = "body" /\ h \notin cancelled
  /\ Goes(h, "kill", ses[h])
  /\ UNCHANGED <<procVars, cancelled, regVars, idVars, swVars, removers, diskVars, fsVars>>

\* The container is removed or not, its client reaped or given up, and the stop event is
\* set; a CancelledError on its way goes on to the end of the body.
Killed(h) ==
  /\ h \notin cancelled
  /\ \/ pc[h] = "kill" /\ Goes(h, "body", ses[h]) /\ UNCHANGED <<owner, removers>>
     \/ pc[h] = "bail" /\ LeaveBody(h)
  /\ UNCHANGED <<procVars, cancelled, bookVars, idVars, swVars, diskVars, fsVars>>

Removed(h, ok) ==
  LET s == ses[h] IN
  /\ pc[h] = "remove" /\ h \notin cancelled
  /\ ThreadEnds(h, s, ok)
  /\ Retire(s, ok) /\ Unlocks(s) /\ Goes(h, "idle", s)
  /\ UNCHANGED <<procVars, cancelled, swVars>>

\* The CancelledError reaches what handler h awaits.  A setup's process goes on, as does a
\* thread that removes a directory.  A run whose client is alive has its container removed
\* first; when it is that removal which is cancelled, the stop event is never set.
Unwind(h) ==
  LET s == ses[h] IN
  /\ h \in cancelled
  /\ cancelled' = cancelled \ {h}
  /\ \/ /\ pc[h] \in InQuota /\ Undo(h)
        /\ IF pc[h] = "setup" THEN Orphaned(s) ELSE UNCHANGED orphans
        /\ UNCHANGED stray
     \/ /\ pc[h] = "body"
        /\ \/ LeaveBody(h)
           \/ Goes(h, "bail", s) /\ UNCHANGED <<owner, removers>>
        /\ UNCHANGED <<bookVars, idVars, diskVars, orphans, stray>>
     \/ /\ pc[h] \in {"kill", "bail"} /\ LeaveBody(h) /\ stray' = TRUE
        /\ UNCHANGED <<bookVars, idVars, diskVars, orphans>>
     \/ /\ pc[h] = "undo" /\ Goes(h, "idle", None)
        /\ UNCHANGED <<regVars, idVars, removers, diskVars, orphans, stray>>
     \/ /\ pc[h] = "remove"
        /\ Retire(s, FALSE) /\ Unlocks(s) /\ Goes(h, "idle", None)
        /\ UNCHANGED <<removers, diskVars, orphans, stray>>
     \/ /\ pc[h] = "idle"
        /\ UNCHANGED <<hVars, regVars, idVars, removers, diskVars, orphans, stray>>
  /\ UNCHANGED <<server, config, swVars, limit, accounting>>

\* A thread whose handler has been cancelled meanwhile.
Abandoned(h, s, ok) ==
  /\ ~(pc[h] \in {"undo", "remove"} /\ ses[h] = s)
  /\ ThreadEnds(h, s, ok)
  /\ UNCHANGED <<procVars, hVars, cancelled, regVars, idVars, swVars>>

-----------------------------------------------------------------------------
(* The sweep                                                                 *)

InCreate(s) == \E h \in Handlers : pc[h] \in InQuota /\ ses[h] = s

\* An overdue session whose lock is free.
SweepTake(s) ==
  /\ sweep = "asleep" /\ Sweeper \notin cancelled
  /\ s \in sessions /\ Free(s) /\ ~InCreate(s)
  /\ sweep' = s /\ Locks(Sweeper, s) /\ Starts(Sweeper, s)
  /\ UNCHANGED <<procVars, hVars, cancelled, bookVars, idVars, todo, deleting, diskVars, fsVars>>

\* The shielded deletion is over; a sweep that was cancelled meanwhile ends here.
SweepRemoved(s, ok) ==
  /\ sweep = s
  /\ ThreadEnds(Sweeper, s, ok)
  /\ Retire(s, ok) /\ Unlocks(s)
  /\ sweep' = IF Sweeper \in cancelled THEN "off" ELSE "asleep"
  /\ cancelled' = cancelled \ {Sweeper}
  /\ UNCHANGED <<procVars, hVars, todo, deleting>>

\* Seeded fault: the deletion is not awaited after the cancellation.
BugSweepGivesUp ==
  /\ sweep # "off"
  /\ sweep' = "off"
  /\ IF sweep = "asleep" THEN UNCHANGED owner ELSE Unlocks(sweep)

\* The cancelled sweep ends at once only in its sleep.
SweepGivesUp ==
  /\ sweep = "asleep"
  /\ sweep' = "off"
  /\ UNCHANGED owner

SweepCancelled ==
  /\ Sweeper \in cancelled
  /\ SweepGivesUp
  /\ cancelled' = cancelled \ {Sweeper}
  /\ UNCHANGED <<procVars, hVars, bookVars, idVars, todo, deleting, removers, diskVars, fsVars>>

SweepEnds == SweepCancelled \/ \E s \in Sessions, ok \in BOOLEAN : SweepRemoved(s, ok)

-----------------------------------------------------------------------------
(* Shutdown.  aiohttp closes the sites, waits for the handlers and cancels   *)
(* the ones that are left without waiting for them, then calls on_cleanup;   *)
(* the tasks that remain are cancelled with the loop, and the interpreter    *)
(* waits for the worker threads, those that read a pty among them.           *)

Active == {h \in Handlers : pc[h] # "idle"}

Stop ==
  /\ server = "up" /\ server' = "draining"
  /\ UNCHANGED <<config, stray, hVars, cancelled, regVars, idVars, swVars, removers, diskVars, fsVars>>

\* Seeded fault: stop_sweep only waits.
BugToCancel == Active

ToCancel == Active \cup {Sweeper}

\* Also when the port cannot be bound.  on_cleanup begins: stop_sweep cancels.
CancelHandlers ==
  /\ server \in {"starting", "draining"}
  /\ server' = "stopping"
  /\ cancelled' = cancelled \cup ToCancel
  /\ UNCHANGED <<config, stray, hVars, regVars, idVars, swVars, removers, diskVars, fsVars>>

\* `await self._sweep_task` has returned.
SweepStopped == sweep = "off"

\* delete_all copies the registry.
StartDeleteAll ==
  /\ server = "stopping" /\ SweepStopped
  /\ server' = "deleting" /\ todo' = sessions
  /\ UNCHANGED <<config, stray, hVars, cancelled, regVars, idVars, sweep, deleting, removers, diskVars, fsVars>>

DeleteNext(s) ==
  /\ server = "deleting" /\ deleting = None /\ s \in todo
  /\ todo' = todo \ {s} /\ deleting' = s
  /\ Starts(Cleanup, s)
  /\ UNCHANGED <<procVars, hVars, cancelled, regVars, idVars, sweep, diskVars, fsVars>>

\* Seeded fault: the first session that cannot be removed ends the loop.
BugRest(ok) == IF ok THEN todo ELSE {}

Rest(ok) == todo

Deleted(s, ok) ==
  /\ deleting = s /\ deleting' = None
  /\ ThreadEnds(Cleanup, s, ok)
  /\ Retire(s, ok)
  /\ todo' = Rest(ok)
  /\ UNCHANGED <<procVars, hVars, cancelled, owner, sweep>>

AllDeleted ==
  /\ server = "deleting" /\ deleting = None /\ todo = {}
  /\ server' = "stopped"
  /\ UNCHANGED <<config, stray, hVars, cancelled, regVars, idVars, swVars, removers, diskVars, fsVars>>

CancelRest ==
  /\ server = "stopped" /\ server' = "ending"
  /\ cancelled' = cancelled \cup Active
  /\ UNCHANGED <<config, stray, hVars, regVars, idVars, swVars, removers, diskVars, fsVars>>

Exit ==
  /\ server = "ending" /\ Active = {} /\ \A s \in Sessions : removers[s] = {}
  /\ ~stray
  /\ server' = "off" /\ config' = None
  /\ UNCHANGED <<stray, hVars, cancelled, regVars, idVars, swVars, removers, diskVars, fsVars>>

\* The process is killed, with its threads; what is on the disk stays, as do setups under
\* way, and the file system may be mounted in another way when it is back.
Crash ==
  /\ server # "off" /\ server' = "off"
  /\ Volatile /\ sweep' = "off" /\ config' = None
  /\ accounting' \in BOOLEAN
  /\ IF \E h \in Handlers : pc[h] = "setup"
     THEN \E h \in Handlers : pc[h] = "setup" /\ Orphaned(ses[h])
     ELSE UNCHANGED orphans
  /\ UNCHANGED <<disk, limit>>

Handler(h) ==
  \/ Create(h)
  \/ SetUp(h) \/ SetUpFails(h) \/ Verified(h) \/ NotVerified(h)
  \/ \E s \in Sessions : Request(h, s, "body") \/ Request(h, s, "remove")
  \/ BodyEnds(h) \/ RunTimesOut(h)

Removals(h) ==
  \E ok \in BOOLEAN : Undone(h, ok) \/ Removed(h, ok) \/ \E s \in Sessions : Abandoned(h, s, ok)

DeleteAll == (\E s \in Sessions : DeleteNext(s) \/ \E ok \in BOOLEAN : Deleted(s, ok)) \/ AllDeleted

Loop ==
  \/ \E h \in Handlers : Removals(h) \/ Unwind(h) \/ Killed(h)
  \/ SweepEnds \/ StartDeleteAll \/ DeleteAll \/ CancelRest \/ Exit

Next ==
  \/ Boot \/ Listen \/ Stop \/ Crash
  \/ \E h \in Handlers : Handler(h)
  \/ \E s \in Sessions : SweepTake(s)
  \/ \E o \in orphans : OrphanEnds(o)
  \/ CancelHandlers \/ Loop

Spec == Init /\ [][Next]_vars

\* The event loop, aiohttp's timer and run_container's go on, and a thread that removes a
\* directory comes to an end.  Nothing is asked of clients, programs or xfs_quota.
Fairness == WF_vars(Loop) /\ WF_vars(CancelHandlers)

FairSpec == Spec /\ Fairness

-----------------------------------------------------------------------------
(* Properties                                                                *)

\* Every session a client or a run gets has both hard limits on its project, on a file system
\* that keeps project quotas; unless the server was started without a mount point, on
\* request.  They are for the size this process was started with (rounded up to a KiB),
\* whatever earlier processes left - except where xfs_quota exited with 0 and did not set
\* them over older ones (only `> 0` is verified), or one left by an earlier process set
\* them again.
\* Whether they are enforced, and whether the directory was attached to the project, is
\* nothing the server can tell or asks.
LimitsSet ==
  \A s \in sessions : ~InCreate(s) =>
    \/ config.mount = None /\ config.waived
    \/ /\ accounting /\ limit[pid[s]].block > 0 /\ limit[pid[s]].inode > 0
       /\ s \notin amiss =>
            /\ limit[pid[s]].block * KIB \in config.size..(config.size + KIB - 1)
            /\ limit[pid[s]].inode = MAX_SESSION_ENTRIES

\* While the sweep removes a directory nobody else uses or removes it, and it keeps
\* the lock: also when it is cancelled in the middle, and delete_all comes next
\* (the comment at sessions.py:482).
SweepRemovesAlone ==
  \A s \in Sessions : Sweeper \in removers[s] =>
    removers[s] = {Sweeper} /\ owner[s] = Sweeper /\ ~AtWork(s)

\* delete_all takes no locks: only then is a directory removed under a request, and
\* every such request has been cancelled; before, nobody works in a directory that
\* is gone or being removed.
RemovedUnderCancelledOnly ==
  \A h \in Handlers : pc[h] \in InBody =>
    \/ disk[ses[h]] = "present" /\ removers[ses[h]] = {}
    \/ (h \in cancelled \/ pc[h] = "bail") /\ server \notin {"up", "draining", "stopping"}

\* When "all sessions deleted" is logged the registry is empty, and a directory of
\* this process is only still there when its removal failed, or is being removed
\* by the thread of a handler that was cancelled, for which the process waits.
ShutdownLeavesNothing ==
  server \in {"stopped", "ending"} =>
    /\ sessions = {}
    /\ \A s \in ours \ failed : disk[s] = "present" => removers[s] # {}

\* Once asked to stop, the server comes to its end, whatever its requests wait for; or all
\* of it does but a pty reader whose stop event a cancelled removal left unset, for which
\* the interpreter waits for ever.
OnlyReaderLeft ==
  server = "ending" /\ stray /\ Active = {} /\ \A s \in Sessions : removers[s] = {}

ShutsDown == server = "draining" ~> server = "off" \/ OnlyReaderLeft
=============================================================================
