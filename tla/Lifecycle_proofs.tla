--------------------------- MODULE Lifecycle_proofs ---------------------------
(***************************************************************************)
(* Lifecycle for any number of handlers, sessions and starts: nobody is    *)
(* disturbed by the removal of a directory before delete_all, what the     *)
(* shutdown leaves, and the limits sessions have.                          *)
(*                                                                         *)
(* As long as delete_all has not begun (Early), whoever removes the        *)
(* directory of a registered session holds its lock; a removal that goes   *)
(* on without its handler has taken the session out of the registry        *)
(* (ThreadInv).  The sweep is over when delete_all begins (SweepInv), and  *)
(* handlers still in a body by then have been cancelled (CancelInv).  Each *)
(* set-up of this process gives a project the same limits, so one session  *)
(* cannot lose them to another one's (LimitInv); that project ids are in   *)
(* the range of the file system's counts directories (IdRange).            *)
(***************************************************************************)
EXTENDS Lifecycle, SequenceTheorems, FiniteSetTheorems, TLAPS

Early == server \in {"starting", "up", "draining", "stopping"}

LifeTypes ==
  /\ server \in {"off", "starting", "up", "draining", "stopping", "deleting", "stopped", "ending"}
  /\ pc \in [Handlers -> {"idle", "setup", "block", "inode", "undo", "body", "kill", "bail", "remove"}]
  /\ ses \in [Handlers -> Sessions \cup {None}]
  /\ owner \in [Sessions -> Handlers \cup {Sweeper, None}]
  /\ removers \in [Sessions -> SUBSET (Handlers \cup {Sweeper, Cleanup})]
  /\ disk \in [Sessions -> {"unborn", "present", "gone"}]
  /\ sessions \subseteq Sessions /\ handed \subseteq sessions
  /\ sweep \in Sessions \cup {"off", "asleep"}

\* What a handler is doing fits its session and the session's lock.
HandlerInv ==
  \A h \in Handlers :
    /\ pc[h] = "idle" <=> ses[h] = None
    /\ pc[h] \in InQuota =>
         /\ owner[ses[h]] = None /\ ses[h] \notin handed
         /\ \A g \in Handlers \ {h} : ses[g] # ses[h]
         /\ Early => ses[h] \in sessions
    /\ pc[h] \in InBody \cup {"remove"} => owner[ses[h]] = h
    /\ pc[h] \in InBody /\ Early => ses[h] \in sessions
    /\ pc[h] = "remove" => h \in removers[ses[h]]
    /\ pc[h] = "undo" => ses[h] \notin sessions

SweepInv ==
  /\ sweep \in Sessions => sweep \in sessions /\ owner[sweep] = Sweeper
  /\ \A s \in Sessions : owner[s] = Sweeper \/ Sweeper \in removers[s] => sweep = s
  /\ sweep # "off" => Early
  /\ server \in {"off", "starting"} => \A h \in Handlers : pc[h] = "idle"

ThreadInv ==
  \A s \in sessions :
    /\ \A r \in removers[s] :
         /\ r \in Handlers => pc[r] = "remove" /\ ses[r] = s
         /\ Early => r = owner[s]
    /\ Early => disk[s] = "present"

UnbornInv ==
  \A s \in Sessions : disk[s] = "unborn" =>
    /\ s \notin sessions \cup handed \cup todo
    /\ owner[s] = None /\ removers[s] = {}
    /\ \A h \in Handlers : ses[h] # s

CancelInv ==
  server \in {"stopping", "deleting", "stopped", "ending"} =>
    \A h \in Handlers : pc[h] \in InQuota \cup {"body", "kill"} => h \in cancelled

LifeInv == LifeTypes /\ HandlerInv /\ SweepInv /\ ThreadInv /\ UnbornInv /\ CancelInv

-----------------------------------------------------------------------------
LEMMA LifeInit == Init => LifeInv
BY NamesAssumption DEF Init, LifeInv, LifeTypes, HandlerInv, SweepInv, ThreadInv, UnbornInv, CancelInv,
   Early, InQuota, InBody, Sweeper

LEMMA LifeStep == LifeInv /\ [Next]_vars => LifeInv'
<1> SUFFICES ASSUME LifeInv, [Next]_vars PROVE LifeInv'
  OBVIOUS
<1> USE DEF LifeInv, LifeTypes, HandlerInv, SweepInv, ThreadInv, UnbornInv, CancelInv,
        Early, InQuota, InBody, Sweeper, Cleanup
<1>1. CASE Boot
  BY <1>1, NamesAssumption DEF Boot, Volatile, procVars, hVars, bookVars, regVars, idVars, swVars,
     diskVars, fsVars
<1>2. CASE Listen
  BY <1>2, NamesAssumption DEF Listen, procVars, hVars, bookVars, regVars, idVars, swVars, diskVars,
     fsVars
<1>3. CASE Stop
  BY <1>3, NamesAssumption DEF Stop, procVars, hVars, bookVars, regVars, idVars, swVars, diskVars,
     fsVars
<1>4. CASE Crash
  BY <1>4, NamesAssumption DEF Crash, Volatile, procVars, hVars, bookVars, regVars, idVars, swVars,
     diskVars, fsVars
<1>5. ASSUME NEW h \in Handlers, Create(h) PROVE LifeInv'
  BY <1>5, NamesAssumption DEF Create, Goes, Locks, Created, procVars, hVars, bookVars, regVars,
     idVars, swVars, diskVars, fsVars
<1>6. ASSUME NEW h \in Handlers, SetUp(h) PROVE LifeInv'
  BY <1>6, NamesAssumption DEF SetUp, Running, Goes, procVars, hVars, bookVars, regVars, idVars,
     swVars, diskVars, fsVars
<1>7. ASSUME NEW h \in Handlers, SetUpFails(h) PROVE LifeInv'
  BY <1>7, NamesAssumption DEF SetUpFails, Running, Undo, Starts, procVars, hVars,
     bookVars, regVars, idVars, swVars, diskVars, fsVars
<1>8. ASSUME NEW h \in Handlers, Verified(h) PROVE LifeInv'
  BY <1>8, NamesAssumption DEF Verified, Running, Goes, Created, Locks, procVars, hVars,
     bookVars, regVars, idVars, swVars, diskVars, fsVars
<1>9. ASSUME NEW h \in Handlers, NotVerified(h) PROVE LifeInv'
  BY <1>9, NamesAssumption DEF NotVerified, Running, Undo, Starts, procVars, hVars,
     bookVars, regVars, idVars, swVars, diskVars, fsVars
<1>10. ASSUME NEW h \in Handlers, NEW s \in Sessions, Request(h, s, "body") PROVE LifeInv'
  BY <1>10, NamesAssumption DEF Request, Locks, Goes, Starts, Free, procVars, hVars,
     bookVars, regVars, idVars, swVars, diskVars, fsVars
<1>11. ASSUME NEW h \in Handlers, NEW s \in Sessions, Request(h, s, "remove") PROVE LifeInv'
  BY <1>11, NamesAssumption DEF Request, Locks, Goes, Starts, Free, procVars, hVars,
     bookVars, regVars, idVars, swVars, diskVars, fsVars
<1>12. ASSUME NEW h \in Handlers, BodyEnds(h) PROVE LifeInv'
  BY <1>12, NamesAssumption DEF BodyEnds, LeaveBody, Goes, Starts, Unlocks, procVars,
     hVars, bookVars, regVars, idVars, swVars, diskVars, fsVars
<1>31. ASSUME NEW h \in Handlers, RunTimesOut(h) PROVE LifeInv'
  BY <1>31, NamesAssumption DEF RunTimesOut, Goes, procVars, hVars, bookVars, regVars,
     idVars, swVars, diskVars, fsVars
<1>32. ASSUME NEW h \in Handlers, Killed(h) PROVE LifeInv'
  BY <1>32, NamesAssumption DEF Killed, LeaveBody, Goes, Starts, Unlocks, procVars,
     hVars, bookVars, regVars, idVars, swVars, diskVars, fsVars
<1>33. ASSUME NEW o \in orphans, OrphanEnds(o) PROVE LifeInv'
  BY <1>33, NamesAssumption DEF OrphanEnds, procVars, hVars, bookVars, regVars, idVars,
     swVars, diskVars, fsVars
<1>13. ASSUME NEW h \in Handlers, NEW ok \in BOOLEAN, Undone(h, ok) PROVE LifeInv'
  BY <1>13, NamesAssumption DEF Undone, ThreadEnds, Goes, procVars, hVars, bookVars, regVars,
     idVars, swVars, diskVars, fsVars
<1>14. ASSUME NEW h \in Handlers, NEW ok \in BOOLEAN, Removed(h, ok) PROVE LifeInv'
  BY <1>14, NamesAssumption DEF Removed, ThreadEnds, Retire, Unlocks, Goes, procVars,
     hVars, bookVars, regVars, idVars, swVars, diskVars, fsVars
<1>15. ASSUME NEW h \in Handlers, NEW s \in Sessions, NEW ok \in BOOLEAN, Abandoned(h, s, ok) PROVE LifeInv'
  BY <1>15, NamesAssumption DEF Abandoned, ThreadEnds, procVars, hVars, bookVars, regVars, idVars,
     swVars, diskVars, fsVars
<1>16. ASSUME NEW h \in Handlers, Unwind(h) PROVE LifeInv'
  BY <1>16, NamesAssumption DEF Unwind, Undo, Starts, LeaveBody, Goes, Unlocks, Retire,
     procVars, hVars, bookVars, regVars, idVars, swVars, diskVars, fsVars
<1>17. ASSUME NEW s \in Sessions, SweepTake(s) PROVE LifeInv'
  BY <1>17, NamesAssumption DEF SweepTake, Locks, Starts, Free, InCreate, procVars, hVars,
     bookVars, regVars, idVars, swVars, diskVars, fsVars
<1>18. CASE SweepCancelled
  BY <1>18, NamesAssumption DEF SweepCancelled, SweepGivesUp, procVars, hVars, bookVars, regVars,
     idVars, swVars, diskVars, fsVars
<1>19. ASSUME NEW s \in Sessions, NEW ok \in BOOLEAN, SweepRemoved(s, ok) PROVE LifeInv'
  BY <1>19, NamesAssumption DEF SweepRemoved, ThreadEnds, Retire, Unlocks, procVars,
     hVars, bookVars, regVars, idVars, swVars, diskVars, fsVars
<1>20. CASE CancelHandlers
  BY <1>20, NamesAssumption DEF CancelHandlers, ToCancel, Active, procVars, hVars,
     bookVars, regVars, idVars, swVars, diskVars, fsVars
<1>21. CASE StartDeleteAll
  BY <1>21, NamesAssumption DEF StartDeleteAll, SweepStopped, procVars, hVars, bookVars, regVars,
     idVars, swVars, diskVars, fsVars
<1>22. ASSUME NEW s \in Sessions, DeleteNext(s) PROVE LifeInv'
  BY <1>22, NamesAssumption DEF DeleteNext, Starts, procVars, hVars, bookVars, regVars, idVars,
     swVars, diskVars, fsVars
<1>23. ASSUME NEW s \in Sessions, NEW ok \in BOOLEAN, Deleted(s, ok) PROVE LifeInv'
  BY <1>23, NamesAssumption DEF Deleted, Rest, ThreadEnds, Retire, procVars, hVars,
     bookVars, regVars, idVars, swVars, diskVars, fsVars
<1>24. CASE AllDeleted
  BY <1>24, NamesAssumption DEF AllDeleted, procVars, hVars, bookVars, regVars, idVars, swVars,
     diskVars, fsVars
<1>25. CASE CancelRest
  BY <1>25, NamesAssumption DEF CancelRest, Active, procVars, hVars, bookVars, regVars, idVars,
     swVars, diskVars, fsVars
<1>26. CASE Exit
  BY <1>26, NamesAssumption DEF Exit, Active, procVars, hVars, bookVars, regVars, idVars, swVars,
     diskVars, fsVars
<1>27. CASE UNCHANGED vars
  BY <1>27, NamesAssumption DEF vars, procVars, hVars, bookVars, regVars, idVars, swVars, diskVars,
     fsVars
<1> HIDE DEF LifeInv
<1>28. ASSUME NEW h \in Handlers, Handler(h) PROVE LifeInv'
  BY <1>5, <1>6, <1>7, <1>8, <1>9, <1>10, <1>11, <1>12, <1>28, <1>31 DEF Handler
<1>29. ASSUME NEW h \in Handlers, Removals(h) PROVE LifeInv'
  BY <1>13, <1>14, <1>15, <1>29 DEF Removals
<1>30. CASE SweepEnds \/ DeleteAll
  BY <1>18, <1>19, <1>22, <1>23, <1>24, <1>30 DEF SweepEnds, DeleteAll
<1> QED
  BY <1>1, <1>2, <1>3, <1>4, <1>16, <1>17, <1>20, <1>21, <1>25, <1>26, <1>27, <1>28, <1>29, <1>30,
     <1>32, <1>33, Zenon DEF Next, Loop

LEMMA SafetyFromLifeInv == LifeInv => SweepRemovesAlone /\ RemovedUnderCancelledOnly
<1> SUFFICES ASSUME LifeInv PROVE SweepRemovesAlone /\ RemovedUnderCancelledOnly
  OBVIOUS
<1> USE DEF LifeInv
<1>1. SweepRemovesAlone
  <2> SUFFICES ASSUME NEW s \in Sessions, Sweeper \in removers[s]
               PROVE  removers[s] = {Sweeper} /\ owner[s] = Sweeper /\ ~AtWork(s)
    BY DEF SweepRemovesAlone
  <2>1. sweep = s /\ s \in sessions /\ owner[s] = Sweeper /\ Early
    BY NamesAssumption DEF SweepInv
  <2>2. removers[s] = {Sweeper}
    BY <2>1 DEF ThreadInv
  <2>3. ~AtWork(s)
    BY <2>1, NamesAssumption DEF AtWork, HandlerInv, Sweeper, InBody
  <2> QED
    BY <2>1, <2>2, <2>3
<1>2. RemovedUnderCancelledOnly
  <2> SUFFICES ASSUME NEW h \in Handlers, pc[h] \in InBody
               PROVE  \/ disk[ses[h]] = "present" /\ removers[ses[h]] = {}
                      \/ (h \in cancelled \/ pc[h] = "bail") /\ server \notin {"up", "draining", "stopping"}
    BY DEF RemovedUnderCancelledOnly
  <2>1. CASE Early
    <3>1. ses[h] \in sessions /\ owner[ses[h]] = h
      BY <2>1 DEF HandlerInv
    <3>2. removers[ses[h]] = {}
      BY <2>1, <3>1 DEF ThreadInv, LifeTypes, InBody
    <3> QED
      BY <2>1, <3>1, <3>2 DEF ThreadInv
  <2>2. CASE ~Early /\ server \in {"deleting", "stopped", "ending"}
    BY <2>2 DEF CancelInv, InBody
  <2>3. server # "off"
    BY DEF SweepInv, InBody
  <2> QED
    BY <2>1, <2>2, <2>3 DEF Early, LifeTypes
<1> QED
  BY <1>1, <1>2

\* The sweep removes a directory alone, also when it is cancelled in the middle
\* (sessions.py, _sweep_once).
THEOREM SweepRemovesAloneCorrect == Spec => []SweepRemovesAlone
BY LifeInit, LifeStep, SafetyFromLifeInv, PTL DEF Spec

\* Nobody works in a directory that is being removed, before delete_all does it to
\* handlers that have been cancelled.
THEOREM RemovedUnderCancelledOnlyCorrect == Spec => []RemovedUnderCancelledOnly
BY LifeInit, LifeStep, SafetyFromLifeInv, PTL DEF Spec

-----------------------------------------------------------------------------
(* What is left                                                              *)

LeftInv ==
  /\ \A s \in ours \ failed : disk[s] = "present" => s \in sessions \/ removers[s] # {}
  /\ server = "deleting" => sessions \subseteq todo \cup {deleting}
  /\ server \in {"off", "stopped", "ending"} => sessions = {}
  /\ ours \subseteq Sessions

LEMMA LeftInit == Init => LeftInv
BY DEF Init, LeftInv

\* A removal that fails for another one leaves the directory to that one.
LEMMA LeftStep == LifeInv /\ LeftInv /\ [Next]_vars => LeftInv'
<1> SUFFICES ASSUME LifeInv, LeftInv, [Next]_vars PROVE LeftInv'
  OBVIOUS
<1> USE DEF LifeInv, LeftInv, LifeTypes, HandlerInv, UnbornInv, SweepInv, Early, InQuota,
        InBody, Sweeper, Cleanup
<1>1. CASE Boot
  BY <1>1, NamesAssumption DEF Boot, Volatile, procVars, hVars, bookVars, regVars, idVars, swVars,
     diskVars, fsVars
<1>2. CASE Listen
  BY <1>2, NamesAssumption DEF Listen, procVars, hVars, bookVars, regVars, idVars, swVars, diskVars,
     fsVars
<1>3. CASE Stop
  BY <1>3, NamesAssumption DEF Stop, procVars, hVars, bookVars, regVars, idVars, swVars, diskVars,
     fsVars
<1>4. CASE Crash
  BY <1>4, NamesAssumption DEF Crash, Volatile, procVars, hVars, bookVars, regVars, idVars, swVars,
     diskVars, fsVars
<1>5. ASSUME NEW h \in Handlers, Create(h) PROVE LeftInv'
  BY <1>5, NamesAssumption DEF Create, Goes, Locks, Created, procVars, hVars, bookVars, regVars,
     idVars, swVars, diskVars, fsVars
<1>6. ASSUME NEW h \in Handlers, SetUp(h) PROVE LeftInv'
  BY <1>6, NamesAssumption DEF SetUp, Running, Goes, procVars, hVars, bookVars, regVars, idVars,
     swVars, diskVars, fsVars
<1>7. ASSUME NEW h \in Handlers, SetUpFails(h) PROVE LeftInv'
  BY <1>7, NamesAssumption DEF SetUpFails, Running, Undo, Starts, procVars, hVars,
     bookVars, regVars, idVars, swVars, diskVars, fsVars
<1>8. ASSUME NEW h \in Handlers, Verified(h) PROVE LeftInv'
  BY <1>8, NamesAssumption DEF Verified, Running, Goes, Created, Locks, procVars, hVars,
     bookVars, regVars, idVars, swVars, diskVars, fsVars
<1>9. ASSUME NEW h \in Handlers, NotVerified(h) PROVE LeftInv'
  BY <1>9, NamesAssumption DEF NotVerified, Running, Undo, Starts, procVars, hVars,
     bookVars, regVars, idVars, swVars, diskVars, fsVars
<1>10. ASSUME NEW h \in Handlers, NEW s \in Sessions, Request(h, s, "body") PROVE LeftInv'
  BY <1>10, NamesAssumption DEF Request, Locks, Goes, Starts, Free, procVars, hVars,
     bookVars, regVars, idVars, swVars, diskVars, fsVars
<1>11. ASSUME NEW h \in Handlers, NEW s \in Sessions, Request(h, s, "remove") PROVE LeftInv'
  BY <1>11, NamesAssumption DEF Request, Locks, Goes, Starts, Free, procVars, hVars,
     bookVars, regVars, idVars, swVars, diskVars, fsVars
<1>12. ASSUME NEW h \in Handlers, BodyEnds(h) PROVE LeftInv'
  BY <1>12, NamesAssumption DEF BodyEnds, LeaveBody, Goes, Starts, Unlocks, procVars,
     hVars, bookVars, regVars, idVars, swVars, diskVars, fsVars
<1>31. ASSUME NEW h \in Handlers, RunTimesOut(h) PROVE LeftInv'
  BY <1>31, NamesAssumption DEF RunTimesOut, Goes, procVars, hVars, bookVars, regVars,
     idVars, swVars, diskVars, fsVars
<1>32. ASSUME NEW h \in Handlers, Killed(h) PROVE LeftInv'
  BY <1>32, NamesAssumption DEF Killed, LeaveBody, Goes, Starts, Unlocks, procVars,
     hVars, bookVars, regVars, idVars, swVars, diskVars, fsVars
<1>33. ASSUME NEW o \in orphans, OrphanEnds(o) PROVE LeftInv'
  BY <1>33, NamesAssumption DEF OrphanEnds, procVars, hVars, bookVars, regVars, idVars,
     swVars, diskVars, fsVars
<1>13. ASSUME NEW h \in Handlers, NEW ok \in BOOLEAN, Undone(h, ok) PROVE LeftInv'
  BY <1>13, NamesAssumption DEF Undone, ThreadEnds, Goes, Raced, procVars, hVars, bookVars, regVars,
     idVars, swVars, diskVars, fsVars
<1>14. ASSUME NEW h \in Handlers, NEW ok \in BOOLEAN, Removed(h, ok) PROVE LeftInv'
  BY <1>14, NamesAssumption DEF Removed, ThreadEnds, Retire, Unlocks, Goes, Raced,
     procVars, hVars, bookVars, regVars, idVars, swVars, diskVars, fsVars
<1>15. ASSUME NEW h \in Handlers, NEW s \in Sessions, NEW ok \in BOOLEAN, Abandoned(h, s, ok) PROVE LeftInv'
  BY <1>15, NamesAssumption DEF Abandoned, ThreadEnds, Raced, procVars, hVars, bookVars, regVars,
     idVars, swVars, diskVars, fsVars
<1>16. ASSUME NEW h \in Handlers, Unwind(h) PROVE LeftInv'
  BY <1>16, NamesAssumption DEF Unwind, Undo, Starts, LeaveBody, Goes, Unlocks, Retire,
     procVars, hVars, bookVars, regVars, idVars, swVars, diskVars, fsVars
<1>17. ASSUME NEW s \in Sessions, SweepTake(s) PROVE LeftInv'
  BY <1>17, NamesAssumption DEF SweepTake, Locks, Starts, Free, InCreate, procVars, hVars,
     bookVars, regVars, idVars, swVars, diskVars, fsVars
<1>18. CASE SweepCancelled
  BY <1>18, NamesAssumption DEF SweepCancelled, SweepGivesUp, procVars, hVars, bookVars, regVars,
     idVars, swVars, diskVars, fsVars
<1>19. ASSUME NEW s \in Sessions, NEW ok \in BOOLEAN, SweepRemoved(s, ok) PROVE LeftInv'
  BY <1>19, NamesAssumption DEF SweepRemoved, ThreadEnds, Retire, Unlocks, Raced,
     procVars, hVars, bookVars, regVars, idVars, swVars, diskVars, fsVars
<1>20. CASE CancelHandlers
  BY <1>20, NamesAssumption DEF CancelHandlers, ToCancel, Active, procVars, hVars,
     bookVars, regVars, idVars, swVars, diskVars, fsVars
<1>21. CASE StartDeleteAll
  BY <1>21, NamesAssumption DEF StartDeleteAll, SweepStopped, procVars, hVars, bookVars, regVars,
     idVars, swVars, diskVars, fsVars
<1>22. ASSUME NEW s \in Sessions, DeleteNext(s) PROVE LeftInv'
  BY <1>22, NamesAssumption DEF DeleteNext, Starts, procVars, hVars, bookVars, regVars, idVars,
     swVars, diskVars, fsVars
<1>23. ASSUME NEW s \in Sessions, NEW ok \in BOOLEAN, Deleted(s, ok) PROVE LeftInv'
  BY <1>23, NamesAssumption DEF Deleted, Rest, ThreadEnds, Retire, Raced, procVars, hVars,
     bookVars, regVars, idVars, swVars, diskVars, fsVars
<1>24. CASE AllDeleted
  BY <1>24, NamesAssumption DEF AllDeleted, procVars, hVars, bookVars, regVars, idVars, swVars,
     diskVars, fsVars
<1>25. CASE CancelRest
  BY <1>25, NamesAssumption DEF CancelRest, Active, procVars, hVars, bookVars, regVars, idVars,
     swVars, diskVars, fsVars
<1>26. CASE Exit
  BY <1>26, NamesAssumption DEF Exit, Active, procVars, hVars, bookVars, regVars, idVars, swVars,
     diskVars, fsVars
<1>27. CASE UNCHANGED vars
  BY <1>27, NamesAssumption DEF vars, procVars, hVars, bookVars, regVars, idVars, swVars, diskVars,
     fsVars
<1> HIDE DEF LifeInv, LeftInv
<1>28. ASSUME NEW h \in Handlers, Handler(h) PROVE LeftInv'
  BY <1>5, <1>6, <1>7, <1>8, <1>9, <1>10, <1>11, <1>12, <1>28, <1>31 DEF Handler
<1>29. ASSUME NEW h \in Handlers, Removals(h) PROVE LeftInv'
  BY <1>13, <1>14, <1>15, <1>29 DEF Removals
<1>30. CASE SweepEnds \/ DeleteAll
  BY <1>18, <1>19, <1>22, <1>23, <1>24, <1>30 DEF SweepEnds, DeleteAll
<1> QED
  BY <1>1, <1>2, <1>3, <1>4, <1>16, <1>17, <1>20, <1>21, <1>25, <1>26, <1>27, <1>28, <1>29, <1>30,
     <1>32, <1>33, Zenon DEF Next, Loop

\* When the shutdown is over the registry is empty, and the directories of this
\* process are gone, failed to go, or are just being removed (delete_all).
THEOREM ShutdownLeavesNothingCorrect == Spec => []ShutdownLeavesNothing
<1>1. LeftInv => ShutdownLeavesNothing
  BY DEF LeftInv, ShutdownLeavesNothing
<1> QED
  BY LifeInit, LifeStep, LeftInit, LeftStep, <1>1, PTL DEF Spec

-----------------------------------------------------------------------------
(* Limits                                                                    *)

Born == {s \in Sessions : disk[s] # "unborn"}

\* No more project ids than directories have ever been made.
IdRange ==
  /\ freeIds \in Seq(Ids)
  /\ nextId \in Nat /\ nextId >= PROJECT_ID_BASE
  /\ nextId <= PROJECT_ID_BASE + Cardinality(Born)
  /\ pid \in [Sessions -> Ids \cup {None}]

LEMMA CreateIds ==
  ASSUME LifeTypes, IdRange, NEW h \in Handlers, Create(h)
  PROVE  /\ IdRange'
         /\ \A s \in Sessions : disk'[s] # disk[s] => config.mount = None \/ pid'[s] \in Ids
<1>1. PICK s \in Sessions :
        /\ disk[s] = "unborn" /\ disk' = [disk EXCEPT ![s] = "present"]
        /\ \/ config.mount = None /\ UNCHANGED <<pid, idVars>>
           \/ /\ freeIds # <<>> /\ pid' = [pid EXCEPT ![s] = freeIds[Len(freeIds)]]
              /\ freeIds' = SubSeq(freeIds, 1, Len(freeIds) - 1) /\ nextId' = nextId
           \/ pid' = [pid EXCEPT ![s] = nextId] /\ nextId' = nextId + 1 /\ freeIds' = freeIds
  BY DEF Create, idVars
<1>3. Born' = Born \cup {s} /\ s \notin Born /\ IsFiniteSet(Born)
  <2>1. IsFiniteSet(Born)
    BY FS_Subset, NamesAssumption DEF Born
  <2> QED
    BY <1>1, <2>1 DEF Born, LifeTypes
<1>4. /\ Cardinality(Born) \in Nat /\ Cardinality(Born') = Cardinality(Born) + 1
      /\ Cardinality(Born') <= Cardinality(Sessions) /\ Cardinality(Sessions) \in Nat
  <2>1. Born' \in SUBSET Sessions
    BY DEF Born
  <2> QED
    BY <1>3, <2>1, FS_AddElement, FS_CardinalityType, FS_Subset, NamesAssumption
<1>5. PROJECT_ID_BASE \in Nat
  BY ValuesAssumption
<1>6. nextId \in Ids
  BY <1>4, <1>5 DEF IdRange, Ids
<1>10. \A x \in Sessions \ {s} : disk'[x] = disk[x]
  BY <1>1 DEF LifeTypes
<1>7. CASE config.mount = None /\ UNCHANGED <<pid, idVars>>
  BY <1>4, <1>5, <1>7 DEF IdRange, idVars
<1>8. CASE /\ freeIds # <<>> /\ pid' = [pid EXCEPT ![s] = freeIds[Len(freeIds)]]
           /\ freeIds' = SubSeq(freeIds, 1, Len(freeIds) - 1) /\ nextId' = nextId
  <2>1. freeIds[Len(freeIds)] \in Ids /\ Len(freeIds) \in Nat
    BY <1>8 DEF IdRange
  <2>2. freeIds' \in Seq(Ids)
    <3>1. \A i \in 1..(Len(freeIds) - 1) : freeIds[i] \in Ids
      BY <2>1 DEF IdRange
    <3> QED
      BY <1>8, <2>1, <3>1, SubSeqProperties
  <2> QED
    BY <1>4, <1>5, <1>8, <1>10, <2>1, <2>2 DEF IdRange
<1>9. CASE pid' = [pid EXCEPT ![s] = nextId] /\ nextId' = nextId + 1 /\ freeIds' = freeIds
  BY <1>4, <1>5, <1>6, <1>9, <1>10 DEF IdRange
<1> QED
  BY <1>1, <1>7, <1>8, <1>9

LEMMA IdStep == LifeInv /\ IdRange /\ [Next]_vars => IdRange'
<1> SUFFICES ASSUME LifeInv, IdRange, [Next]_vars PROVE IdRange'
  OBVIOUS
<1>0. LifeTypes /\ \A h \in Handlers : pc[h] # "idle" => ses[h] \in Sessions
  BY DEF LifeInv, LifeTypes, HandlerInv
<1>1. ASSUME freeIds' \in Seq(Ids), UNCHANGED <<nextId, pid>>, Born' = Born PROVE IdRange'
  BY <1>1 DEF IdRange
<1>2. ASSUME Volatile, disk' = disk PROVE IdRange'
  <2>1. IsFiniteSet(Born) /\ Cardinality(Born) \in Nat /\ Born' = Born
    BY <1>2, FS_Subset, FS_CardinalityType, NamesAssumption DEF Born
  <2>2. freeIds' = <<>> /\ nextId' = PROJECT_ID_BASE /\ pid' = [s \in Sessions |-> None]
    BY <1>2 DEF Volatile
  <2> QED
    BY <2>1, <2>2, ValuesAssumption DEF IdRange
<1>3. ASSUME NEW s \in Sessions, ReleaseId(s) PROVE freeIds' \in Seq(Ids)
  BY <1>3, AppendProperties DEF ReleaseId, IdRange
<1>4. ASSUME NEW r, NEW s \in Sessions, NEW ok \in BOOLEAN, ThreadEnds(r, s, ok)
      PROVE  Born' = Born
  BY <1>0, <1>4 DEF ThreadEnds, Born, LifeTypes
<1>5. ASSUME UNCHANGED <<pid, idVars, disk>> PROVE IdRange'
  BY <1>1, <1>5 DEF idVars, IdRange, Born
<1>6. ASSUME NEW s \in Sessions, NEW ok \in BOOLEAN, Retire(s, ok), Born' = Born PROVE IdRange'
  BY <1>1, <1>3, <1>6 DEF Retire, IdRange
<1>7. ASSUME NEW h \in Handlers, pc[h] # "idle", Undo(h) PROVE IdRange'
  BY <1>0, <1>1, <1>3, <1>7 DEF Undo, diskVars, Born
<1>8. ASSUME NEW h \in Handlers, Handler(h) PROVE IdRange'
  <2>1. CASE Create(h)
    BY <1>0, <2>1, CreateIds
  <2>2. CASE SetUp(h) \/ Verified(h) \/ BodyEnds(h) \/ RunTimesOut(h)
    BY <1>5, <2>2 DEF SetUp, Verified, BodyEnds, RunTimesOut, idVars, bookVars, regVars, diskVars
  <2>3. CASE SetUpFails(h) \/ NotVerified(h)
    BY <1>7, <2>3 DEF SetUpFails, NotVerified, Running
  <2>4. ASSUME NEW s \in Sessions, Request(h, s, "body") \/ Request(h, s, "remove") PROVE IdRange'
    BY <1>5, <2>4 DEF Request, bookVars, diskVars
  <2> QED
    BY <1>8, <2>1, <2>2, <2>3, <2>4 DEF Handler
<1>9. ASSUME NEW h \in Handlers, Removals(h) PROVE IdRange'
  <2>1. PICK ok \in BOOLEAN : Undone(h, ok) \/ Removed(h, ok) \/ \E s \in Sessions : Abandoned(h, s, ok)
    BY <1>9 DEF Removals
  <2>2. CASE Undone(h, ok) \/ \E s \in Sessions : Abandoned(h, s, ok)
    BY <1>0, <1>1, <1>4, <2>2 DEF Undone, Abandoned, bookVars, regVars, idVars, IdRange
  <2>3. CASE Removed(h, ok)
    BY <1>0, <1>4, <1>6, <2>3 DEF Removed
  <2> QED
    BY <2>1, <2>2, <2>3
<1>10. ASSUME NEW h \in Handlers, Unwind(h) PROVE IdRange'
  <2>1. CASE pc[h] \in InQuota /\ Undo(h)
    BY <1>7, <2>1 DEF InQuota
  <2>2. CASE pc[h] = "remove" /\ Retire(ses[h], FALSE) /\ UNCHANGED diskVars
    BY <1>0, <1>6, <2>2 DEF diskVars, Born
  <2> QED
    BY <1>5, <1>10, <2>1, <2>2 DEF Unwind, bookVars, regVars, idVars, diskVars
<1>11. ASSUME NEW s \in Sessions, NEW ok \in BOOLEAN, SweepRemoved(s, ok) \/ Deleted(s, ok) PROVE IdRange'
  BY <1>4, <1>6, <1>11 DEF SweepRemoved, Deleted
<1>12. CASE Boot \/ Crash
  BY <1>2, <1>12 DEF Boot, Crash
<1>13. CASE Listen \/ Stop \/ CancelHandlers \/ StartDeleteAll \/ AllDeleted \/ CancelRest \/ Exit
  BY <1>5, <1>13 DEF Listen, Stop, CancelHandlers, StartDeleteAll, AllDeleted, CancelRest, Exit, bookVars, regVars,
     diskVars
<1>14. ASSUME NEW s \in Sessions, SweepTake(s) \/ DeleteNext(s) PROVE IdRange'
  BY <1>5, <1>14 DEF SweepTake, DeleteNext, bookVars, regVars, diskVars
<1>15. CASE SweepCancelled
  BY <1>5, <1>15 DEF SweepCancelled, bookVars, diskVars
<1>16. CASE UNCHANGED vars
  BY <1>5, <1>16 DEF vars, bookVars, regVars, diskVars
<1>17. ASSUME NEW h \in Handlers, Killed(h) PROVE IdRange'
  BY <1>5, <1>17 DEF Killed, bookVars, diskVars
<1>18. ASSUME NEW o \in orphans, OrphanEnds(o) PROVE IdRange'
  BY <1>5, <1>18 DEF OrphanEnds, diskVars
<1> QED
  BY <1>8, <1>9, <1>10, <1>11, <1>12, <1>13, <1>14, <1>15, <1>16, <1>17, <1>18
  DEF Next, Loop, SweepEnds, DeleteAll

\* What this process asks for.
Full == [block |-> BHard, inode |-> MAX_SESSION_ENTRIES]

Limits == [block : Nat, inode : Nat]

AsAsked(s) == s \notin amiss /\ accounting /\ pid[s] \in Ids => limit[pid[s]] = Full

Limited(s) ==
  \/ config.mount = None /\ config.waived
  \/ /\ accounting /\ pid[s] \in Ids
     /\ limit[pid[s]].block > 0 /\ limit[pid[s]].inode > 0
     /\ AsAsked(s)

LimitInv ==
  /\ server # "off" => config.size \in Nat \ {0} /\ (config.mount = None => config.waived)
  /\ limit \in [Ids -> Limits]
  /\ \A o \in orphans : o.id \in Ids /\ o.block \in Nat \ {0}
  /\ \A s \in sessions : ~InCreate(s) => Limited(s)
  /\ \A h \in Handlers : pc[h] \in InQuota => config.mount # None /\ pid[ses[h]] \in Ids
  /\ \A h \in Handlers : Serving /\ pc[h] \in {"block", "inode"} => AsAsked(ses[h])
  /\ \A h \in Handlers : Serving /\ pc[h] = "inode" => accounting /\ limit[pid[ses[h]]].block > 0

\* Bytes rounded up to whole KiB are less than a KiB more, and some.
LEMMA RoundedUp ==
  ASSUME NEW n \in Nat \ {0}, NEW k \in Nat \ {0}
  PROVE  /\ (-((-n) \div k)) * k \in n..(n + k - 1)
         /\ -((-n) \div k) \in Nat \ {0}
<1>1. (-((-n) \div k)) * k \in n..(n + k - 1)
  OBVIOUS
<1>2. -((-n) \div k) \in Int
  OBVIOUS
<1>3. -((-n) \div k) > 0
  OBVIOUS
<1> QED
  BY <1>1, <1>2, <1>3

LEMMA FullPositive ==
  ASSUME LimitInv, server # "off"
  PROVE  Full \in Limits /\ Full.block = BHard /\ BHard \in Nat \ {0} /\ Full.inode > 0
<1>1. BHard \in Nat \ {0}
  BY RoundedUp, ValuesAssumption DEF LimitInv, BHard
<1> QED
  BY <1>1, ValuesAssumption DEF Full, Limits

\* What a handler in create() knows of its session.
LEMMA CreateFacts ==
  ASSUME LifeInv, LimitInv, NEW h \in Handlers, Serving, pc[h] \in InQuota
  PROVE  /\ ses[h] \in sessions /\ ses[h] \in Sessions /\ pid[ses[h]] \in Ids
         /\ config.mount # None /\ server # "off"
         /\ \A g \in Handlers \ {h} : ses[g] # ses[h]
BY DEF LifeInv, LifeTypes, HandlerInv, LimitInv, Serving, Early

\* A step in which no server starts, after which no session is registered that was not;
\* those that leave create() have their limits.
NothingNew ==
  /\ UNCHANGED <<config, pid, accounting>>
  /\ server' = server \/ (server' # "off" /\ server # "off" /\ (Serving' => Serving))
  /\ sessions' \subseteq sessions
  /\ \A s \in sessions' : s \in amiss => s \in amiss' \/ AsAsked(s)'
  /\ \A s \in sessions' : InCreate(s) => InCreate(s)' \/ Limited(s)

\* Limits change at most to those of this process, or to positive ones of sessions that
\* are amiss from then on.
LimitsMove ==
  /\ limit' \in [Ids -> Limits]
  /\ \A i \in Ids : limit'[i] = limit[i] \/ (limit'[i].block > 0 /\ limit'[i].inode > 0)
  /\ \A s \in sessions' :
       s \notin amiss' /\ pid[s] \in Ids /\ limit'[pid[s]] # limit[pid[s]] => limit'[pid[s]] = Full
  /\ \A o \in orphans' : o.id \in Ids /\ o.block \in Nat \ {0}

\* No setup is over.
SetupsStay ==
  \A h \in Handlers : pc'[h] \in InQuota =>
    /\ pc[h] \in InQuota /\ ses'[h] = ses[h]
    /\ Serving => ses[h] \in sessions'
    /\ Serving /\ pc'[h] \in {"block", "inode"} => pc[h] \in {"block", "inode"} \/ AsAsked(ses[h])'
    /\ Serving /\ pc'[h] = "inode" => accounting /\ limit[pid[ses[h]]].block > 0

LEMMA StepKeepsLimits ==
  ASSUME LifeInv, LimitInv, NothingNew, LimitsMove, SetupsStay
  PROVE  LimitInv'
<1>1. Full' = Full /\ (Serving' => Serving) /\ (server' # "off" => server # "off")
  BY DEF NothingNew, Full, BHard, Serving
<1>2. \A i \in Ids : limit[i] \in Limits /\ limit'[i] \in Limits
  BY DEF LimitInv, LimitsMove
<1>3. \A i \in Ids :
        /\ limit[i].block > 0 => limit'[i].block > 0
        /\ limit[i].inode > 0 => limit'[i].inode > 0
  BY <1>2 DEF Limits, LimitsMove
<1>4. \A s \in sessions' : AsAsked(s) => AsAsked(s)'
  BY <1>1 DEF AsAsked, NothingNew, LimitsMove
<1>5. \A s \in sessions' : Limited(s) => Limited(s)'
  BY <1>3, <1>4 DEF Limited, NothingNew
<1>6. (\A s \in sessions : ~InCreate(s) => Limited(s))'
  BY <1>5 DEF LimitInv, NothingNew
<1>7. (\A h \in Handlers : pc[h] \in InQuota => config.mount # None /\ pid[ses[h]] \in Ids)'
  BY DEF LimitInv, NothingNew, SetupsStay
<1>8. (\A h \in Handlers : Serving /\ pc[h] \in {"block", "inode"} => AsAsked(ses[h]))'
  <2> SUFFICES ASSUME NEW h \in Handlers, Serving, pc'[h] \in {"block", "inode"}
               PROVE  AsAsked(ses[h])'
    BY <1>1
  <2>1. ses'[h] = ses[h] /\ ses[h] \in sessions'
    BY DEF InQuota, SetupsStay
  <2>2. AsAsked(ses[h])'
    BY <1>4, <2>1 DEF InQuota, SetupsStay, LimitInv
  <2> QED
    BY <2>1, <2>2 DEF AsAsked
<1>9. (\A h \in Handlers : Serving /\ pc[h] = "inode" => accounting /\ limit[pid[ses[h]]].block > 0)'
  <2> SUFFICES ASSUME NEW h \in Handlers, Serving, pc'[h] = "inode"
               PROVE  accounting /\ limit'[pid[ses'[h]]].block > 0
    BY <1>1 DEF NothingNew
  <2>1. /\ pc[h] \in InQuota /\ ses'[h] = ses[h]
        /\ accounting /\ limit[pid[ses[h]]].block > 0
    BY DEF InQuota, SetupsStay
  <2>2. pid[ses[h]] \in Ids
    BY <2>1 DEF LimitInv
  <2> QED
    BY <1>3, <2>1, <2>2 DEF NothingNew
<1>10. (server # "off" => config.size \in Nat \ {0} /\ (config.mount = None => config.waived))'
  BY <1>1 DEF LimitInv, NothingNew
<1> QED
  BY <1>6, <1>7, <1>8, <1>9, <1>10 DEF LimitInv, LimitsMove

\* `limit` was set as asked, or xfs_quota said so and the session is amiss.
LEMMA SetUpKeepsLimits ==
  ASSUME LifeInv, LimitInv, NEW h \in Handlers, SetUp(h)
  PROVE  LimitInv'
<1> DEFINE s == ses[h]
<1>1. /\ pc[h] = "setup" /\ pc' = [pc EXCEPT ![h] = "block"] /\ ses' = [ses EXCEPT ![h] = s] /\ Serving
      /\ UNCHANGED <<server, config, pid, sessions, accounting, orphans>>
      /\ \E limits \in BOOLEAN :
           /\ limit' = IF limits /\ accounting THEN [limit EXCEPT ![pid[s]] = Full] ELSE limit
           /\ amiss' = IF limits THEN amiss \ {s} ELSE amiss \cup {s}
  BY DEF SetUp, Running, Goes, Applied, Full, procVars, regVars
<1>2. /\ s \in sessions /\ s \in Sessions /\ pid[s] \in Ids /\ server # "off"
      /\ \A g \in Handlers \ {h} : ses[g] # s
  BY <1>1, CreateFacts DEF InQuota
<1>3. ses' = ses /\ Full' = Full /\ Serving' /\ pc'[h] = "block"
      /\ \A g \in Handlers \ {h} : pc'[g] = pc[g]
  BY <1>1 DEF LifeInv, LifeTypes, Full, BHard, Serving
<1>4. Full \in Limits /\ Full.block > 0 /\ Full.inode > 0
  BY <1>2, FullPositive
<1>5. limit \in [Ids -> Limits]
  BY DEF LimitInv
<1>6. /\ limit' \in [Ids -> Limits]
      /\ \A i \in Ids : limit'[i] = limit[i] \/ limit'[i] = Full
      /\ s \notin amiss' /\ accounting => limit'[pid[s]] = Full
  BY <1>1, <1>2, <1>4, <1>5
<1>7. LimitsMove
  BY <1>1, <1>4, <1>6 DEF LimitsMove, LimitInv
<1>8. AsAsked(s)'
  BY <1>1, <1>3, <1>6 DEF AsAsked
<1>9. \A x \in Sessions : InCreate(x) => InCreate(x)'
  BY <1>1, <1>3 DEF InCreate, InQuota
<1>10. NothingNew
  BY <1>1, <1>8, <1>9 DEF NothingNew, LifeInv, LifeTypes
<1>11. \A g \in Handlers : Serving /\ pc[g] \in InQuota => ses[g] \in sessions
  BY CreateFacts
<1>12. SetupsStay
  BY <1>1, <1>3, <1>8, <1>11 DEF SetupsStay, InQuota, LimitInv
<1> QED
  BY <1>7, <1>10, <1>12, StepKeepsLimits

\* The same of a step that changes no limit and orphans no setup.
LEMMA QuietKeepsLimits ==
  ASSUME LifeInv, LimitInv, UNCHANGED <<config, pid, fsVars>>,
         server' = server \/ (server' # "off" /\ server # "off" /\ (Serving' => Serving)),
         sessions' \subseteq sessions, \A s \in sessions' : s \in amiss => s \in amiss',
         \A h \in Handlers : pc'[h] \in InQuota =>
           pc'[h] = pc[h] /\ ses'[h] = ses[h] /\ (Serving => ses[h] \in sessions'),
         \A h \in Handlers : pc[h] \in InQuota =>
           (pc'[h] = pc[h] /\ ses'[h] = ses[h]) \/ ses[h] \notin sessions'
  PROVE  LimitInv'
<1>1. UNCHANGED <<limit, accounting, orphans>>
  BY DEF fsVars
<1>2. SetupsStay
  BY DEF SetupsStay, LimitInv
<1>3. NothingNew
  BY <1>1 DEF NothingNew, InCreate
<1>4. LimitsMove
  BY <1>1 DEF LimitsMove, LimitInv
<1> QED
  BY <1>2, <1>3, <1>4, StepKeepsLimits

\* An xfs_quota that nobody waits for sets positive limits, and makes the sessions of its
\* project amiss when they are not this process's.
LEMMA OrphanKeepsLimits ==
  ASSUME LifeInv, LeftInv, LimitInv, NEW o \in orphans, OrphanEnds(o)
  PROVE  LimitInv'
<1>1. /\ UNCHANGED <<server, config, pid, sessions, accounting, pc, ses>>
      /\ orphans' \subseteq orphans
      /\ \/ UNCHANGED <<limit, amiss>>
         \/ /\ limit' = [limit EXCEPT ![o.id] = [block |-> o.block, inode |-> MAX_SESSION_ENTRIES]]
            /\ \/ amiss' = amiss /\ (server = "off" \/ o.block = BHard)
               \/ amiss' = amiss \cup {s \in sessions : pid[s] = o.id}
  BY DEF OrphanEnds, procVars, hVars
<1>2. limit \in [Ids -> Limits] /\ o.id \in Ids /\ o.block \in Nat \ {0}
  BY DEF LimitInv
<1>3. /\ [block |-> o.block, inode |-> MAX_SESSION_ENTRIES] \in Limits
      /\ o.block = BHard => [block |-> o.block, inode |-> MAX_SESSION_ENTRIES] = Full
  BY <1>2, ValuesAssumption DEF Limits, Full
<1>4. limit' \in [Ids -> Limits]
  BY <1>1, <1>2, <1>3
<1>5. \A i \in Ids : limit'[i] = limit[i] \/ (limit'[i].block > 0 /\ limit'[i].inode > 0)
  <2> SUFFICES ASSUME NEW i \in Ids, i = o.id, limit'[i] # limit[i]
               PROVE  limit'[i].block > 0 /\ limit'[i].inode > 0
    BY <1>1, <1>2
  <2>1. limit'[i] = [block |-> o.block, inode |-> MAX_SESSION_ENTRIES]
    BY <1>1, <1>2
  <2> QED
    BY <1>2, <2>1, ValuesAssumption
<1>6. \A s \in sessions' :
        s \notin amiss' /\ pid[s] \in Ids /\ limit'[pid[s]] # limit[pid[s]] => limit'[pid[s]] = Full
  <2> SUFFICES ASSUME NEW s \in sessions, s \notin amiss', pid[s] \in Ids, limit'[pid[s]] # limit[pid[s]]
               PROVE  limit'[pid[s]] = Full
    BY <1>1
  <2>1. server # "off"
    BY DEF LeftInv
  <2>2. limit' = [limit EXCEPT ![o.id] = [block |-> o.block, inode |-> MAX_SESSION_ENTRIES]]
    BY <1>1
  <2>3. pid[s] = o.id
    BY <1>2, <2>2
  <2>4. o.block = BHard
    BY <1>1, <2>1, <2>3
  <2> QED
    BY <1>2, <1>3, <2>2, <2>3, <2>4
<1>7. LimitsMove
  <2>1. \A x \in orphans' : x.id \in Ids /\ x.block \in Nat \ {0}
    BY <1>1 DEF LimitInv
  <2> QED
    BY <1>4, <1>5, <1>6, <2>1 DEF LimitsMove
<1>8. NothingNew
  BY <1>1 DEF NothingNew, InCreate
<1>9. SetupsStay
  BY <1>1, CreateFacts DEF SetupsStay, LimitInv
<1> QED
  BY <1>7, <1>8, <1>9, StepKeepsLimits

\* A setup that fails may have set the limits this process asks for, or go on by itself.
LEMMA SetUpFailsKeepsLimits ==
  ASSUME LifeInv, LimitInv, NEW h \in Handlers, SetUpFails(h)
  PROVE  LimitInv'
<1> DEFINE s == ses[h]
<1>1. /\ pc[h] = "setup" /\ pc' = [pc EXCEPT ![h] = "undo"] /\ Serving
      /\ UNCHANGED <<server, config, ses, pid, accounting>>
      /\ sessions' = sessions \ {s} /\ amiss' = amiss \ {s}
      /\ limit' = limit \/ limit' = [limit EXCEPT ![pid[s]] = Full]
      /\ orphans' = orphans \/ orphans' = {[id |-> pid[s], block |-> BHard]}
  BY DEF SetUpFails, Running, Undo, Applied, Orphaned, Full, procVars
<1>2. /\ s \in sessions /\ s \in Sessions /\ pid[s] \in Ids /\ server # "off"
      /\ \A g \in Handlers \ {h} : ses[g] # s
  BY <1>1, CreateFacts DEF InQuota
<1>3. Full \in Limits /\ Full.block > 0 /\ Full.inode > 0 /\ BHard \in Nat \ {0}
  BY <1>2, FullPositive
<1>4. limit \in [Ids -> Limits]
  BY DEF LimitInv
<1>5. limit' \in [Ids -> Limits] /\ \A i \in Ids : limit'[i] = limit[i] \/ limit'[i] = Full
  BY <1>1, <1>2, <1>3, <1>4
<1>7. LimitsMove
  <2>1. \A o \in orphans' : o.id \in Ids /\ o.block \in Nat \ {0}
    BY <1>1, <1>2, <1>3 DEF LimitInv
  <2> QED
    BY <1>1, <1>3, <1>5, <2>1 DEF LimitsMove
<1>8. pc'[h] \notin InQuota /\ \A g \in Handlers \ {h} : pc'[g] = pc[g]
  BY <1>1 DEF LifeInv, LifeTypes, InQuota
<1>9. NothingNew
  BY <1>1, <1>2, <1>8 DEF NothingNew, InCreate
<1>10. SetupsStay
  BY <1>1, <1>2, <1>8, CreateFacts DEF SetupsStay, LimitInv
<1> QED
  BY <1>7, <1>9, <1>10, StepKeepsLimits

\* A handler that is cancelled in its setup orphans it.
LEMMA UnwindKeepsLimits ==
  ASSUME LifeInv, LimitInv, NEW h \in Handlers, Unwind(h)
  PROVE  LimitInv'
<1>1. /\ UNCHANGED <<server, config, pid, limit, accounting>>
      /\ \A g \in Handlers \ {h} : pc'[g] = pc[g] /\ ses'[g] = ses[g]
      /\ pc'[h] \notin InQuota
      /\ sessions' \subseteq sessions /\ amiss \cap sessions' \subseteq amiss'
      /\ pc[h] \in InQuota => ses[h] \notin sessions'
      /\ \A s \in sessions \ sessions' : s = ses[h] /\ pc[h] \in InQuota \cup {"remove"}
      /\ \/ orphans' = orphans
         \/ pc[h] \in InQuota /\ orphans' = {[id |-> pid[ses[h]], block |-> BHard]}
  BY DEF Unwind, Undo, LeaveBody, Goes, Retire, Orphaned, bookVars, regVars, hVars, InQuota, LifeInv,
     LifeTypes
<1>2. pc[h] \in InQuota => server # "off"
  BY DEF LifeInv, SweepInv, InQuota
<1>3. LimitsMove
  BY <1>1, <1>2, FullPositive DEF LimitsMove, LimitInv
<1>4. \A g \in Handlers \ {h} : Serving /\ pc[g] \in InQuota => ses[g] \in sessions'
  <2> SUFFICES ASSUME NEW g \in Handlers \ {h}, Serving, pc[g] \in InQuota, ses[g] \notin sessions'
               PROVE  FALSE
    OBVIOUS
  <2>1. ses[g] \in sessions /\ ses[h] # ses[g]
    BY CreateFacts
  <2> QED
    BY <1>1, <2>1
<1>5. SetupsStay
  BY <1>1, <1>4 DEF SetupsStay, LimitInv
<1>6. NothingNew
  BY <1>1 DEF NothingNew, InCreate
<1> QED
  BY <1>3, <1>5, <1>6, StepKeepsLimits

\* Both reports have a positive limit before the session is handed out.
LEMMA VerifiedKeepsLimits ==
  ASSUME LifeInv, LimitInv, NEW h \in Handlers, Verified(h)
  PROVE  LimitInv'
<1> DEFINE s == ses[h]
<1>1. /\ UNCHANGED <<server, config, sessions, pid, amiss, limit, accounting, orphans>> /\ Serving
      /\ \A g \in Handlers \ {h} : pc'[g] = pc[g] /\ ses'[g] = ses[g]
      /\ \/ pc[h] = "block" /\ accounting /\ limit[pid[s]].block > 0 /\ pc'[h] = "inode" /\ ses'[h] = s
         \/ pc[h] = "inode" /\ accounting /\ limit[pid[s]].inode > 0 /\ pc'[h] \notin InQuota
  BY DEF Verified, Running, Reported, Goes, Created, procVars, fsVars, InQuota, LifeInv, LifeTypes
<1>2. /\ s \in sessions /\ s \in Sessions /\ pid[s] \in Ids
      /\ \A g \in Handlers \ {h} : ses[g] # s
  BY <1>1, CreateFacts DEF InQuota
<1>3. \A x \in sessions' : InCreate(x) => InCreate(x)' \/ Limited(x)
  <2> SUFFICES ASSUME NEW x \in sessions, InCreate(x), ~InCreate(x)' PROVE Limited(x)
    BY <1>1
  <2>1. PICK g \in Handlers : pc[g] \in InQuota /\ ses[g] = x
    BY DEF InCreate
  <2>2. g = h /\ x = s /\ pc[h] = "inode"
    BY <1>1, <2>1 DEF InCreate, InQuota
  <2> QED
    BY <1>1, <1>2, <2>2 DEF Limited, LimitInv
<1>4. LimitsMove
  BY <1>1 DEF LimitsMove, LimitInv
<1>5. NothingNew
  BY <1>1, <1>3 DEF NothingNew
<1>6. SetupsStay
  BY <1>1, CreateFacts DEF SetupsStay, LimitInv, InQuota
<1> QED
  BY <1>4, <1>5, <1>6, StepKeepsLimits

LEMMA CreateKeepsLimits ==
  ASSUME LifeInv, LimitInv, IdRange, NEW h \in Handlers, Create(h)
  PROVE  LimitInv'
<1>1. PICK s \in Sessions :
        /\ disk[s] = "unborn" /\ disk' = [disk EXCEPT ![s] = "present"] /\ sessions' = sessions \cup {s}
        /\ \A x \in Sessions \ {s} : pid'[x] = pid[x]
        /\ \/ config.mount # None /\ Goes(h, "setup", s)
           \/ config.mount = None /\ \E e \in BOOLEAN : Created(h, s, e)
  BY DEF Create, IdRange
<1>2. /\ UNCHANGED <<server, config, limit, accounting, orphans, amiss>> /\ Serving /\ Serving'
      /\ pc[h] = "idle" /\ server # "off"
  BY DEF Create, procVars, fsVars, Serving
<1>3. pid'[s] \in Ids \/ config.mount = None
  BY <1>1, CreateIds DEF LifeInv, LifeTypes
<1>4. s \notin sessions /\ \A g \in Handlers : ses[g] # s
  BY <1>1 DEF LifeInv, UnbornInv
<1>5. \A g \in Handlers \ {h} : pc'[g] = pc[g] /\ ses'[g] = ses[g]
  BY <1>1 DEF Goes, Created, LifeInv, LifeTypes
<1>6. \/ config.mount # None /\ pc'[h] = "setup" /\ ses'[h] = s
      \/ config.mount = None /\ pc'[h] \notin InQuota
  BY <1>1 DEF Goes, Created, LifeInv, LifeTypes, InQuota
<1>7. Full' = Full
  BY <1>2 DEF Full, BHard
<1>8. \A x \in Sessions \ {s} : (Limited(x)' <=> Limited(x)) /\ (AsAsked(x)' <=> AsAsked(x))
  BY <1>1, <1>2, <1>7 DEF Limited, AsAsked
<1>9. \A x \in Sessions \ {s} : InCreate(x)' <=> InCreate(x)
  BY <1>2, <1>5, <1>6 DEF InCreate, InQuota
<1>10. (\A x \in sessions : ~InCreate(x) => Limited(x))'
  <2>1. \A x \in sessions : x \in Sessions \ {s}
    BY <1>4 DEF LifeInv, LifeTypes
  <2>2. ~InCreate(s)' => Limited(s)'
    BY <1>2, <1>6 DEF InCreate, Limited, InQuota, LimitInv
  <2> QED
    BY <1>1, <1>8, <1>9, <2>1, <2>2 DEF LimitInv
<1>11. \A g \in Handlers \ {h} : pc[g] \in InQuota => ses[g] \in Sessions \ {s}
  BY <1>4 DEF LifeInv, LifeTypes, HandlerInv, InQuota
<1>12. (\A g \in Handlers : pc[g] \in InQuota => config.mount # None /\ pid[ses[g]] \in Ids)'
  BY <1>1, <1>2, <1>3, <1>5, <1>6, <1>11 DEF LimitInv, InQuota
<1>13. (\A g \in Handlers : Serving /\ pc[g] \in {"block", "inode"} => AsAsked(ses[g]))'
  <2> SUFFICES ASSUME NEW g \in Handlers, pc'[g] \in {"block", "inode"} PROVE AsAsked(ses[g])'
    OBVIOUS
  <2>1. g # h /\ pc[g] = pc'[g] /\ ses'[g] = ses[g] /\ ses[g] \in Sessions \ {s}
    BY <1>5, <1>6, <1>11 DEF InQuota
  <2>2. AsAsked(ses[g])
    BY <1>2, <2>1 DEF LimitInv
  <2> QED
    BY <1>1, <1>2, <1>7, <2>1, <2>2 DEF AsAsked
<1>14. (\A g \in Handlers : Serving /\ pc[g] = "inode" => accounting /\ limit[pid[ses[g]]].block > 0)'
  BY <1>1, <1>2, <1>5, <1>6, <1>11 DEF LimitInv, InQuota
<1> QED
  BY <1>2, <1>10, <1>12, <1>13, <1>14 DEF LimitInv

LEMMA BootKeepsLimits ==
  ASSUME LimitInv, Boot
  PROVE  LimitInv'
<1>1. PICK env \in Environments, noSessionQuota \in BOOLEAN :
        LET c == Config(env) IN
        /\ Malformed \notin {c.size, c.mount, c.quotaCommand}
        /\ QuotaChosen(c, noSessionQuota)
        /\ config' = [size |-> c.size, mount |-> c.mount, waived |-> c.mount = None /\ noSessionQuota]
  BY Zenon DEF Boot
<1>2. config'.size \in Nat \ {0} /\ (config'.mount = None => config'.waived)
  <2> DEFINE c == Config(env)
  <2>1. /\ c.size = ReadInt(env.size, DefaultSize, 1) /\ c.size # Malformed
        /\ c.mount = None => noSessionQuota
        /\ config'.size = c.size /\ config'.mount = c.mount
        /\ config'.waived <=> (c.mount = None /\ noSessionQuota)
    BY <1>1 DEF Config, QuotaChosen
  <2>2. env.size \in Sizes \cup {Unset, Malformed}
    BY DEF Environments
  <2>3. ReadInt(env.size, DefaultSize, 1) # Malformed => ReadInt(env.size, DefaultSize, 1) \in Nat \ {0}
    BY <2>2, ValuesAssumption DEF ReadInt
  <2> QED
    BY <2>1, <2>3
<1>3. /\ sessions' = {} /\ \A h \in Handlers : pc'[h] = "idle"
      /\ limit' = limit /\ orphans' = orphans
  BY DEF Boot, Volatile
<1> QED
  BY <1>2, <1>3 DEF LimitInv, InQuota

\* Nothing is in create() before the port is bound.
LEMMA StartingKeepsLimits ==
  ASSUME LimitInv, server = "starting", server' # "off",
         \A h \in Handlers : pc[h] \notin InQuota,
         UNCHANGED <<config, sessions, amiss, pid, fsVars, pc, ses>>
  PROVE  LimitInv'
<1>1. UNCHANGED <<limit, accounting, orphans>> /\ Full' = Full
  BY DEF fsVars, Full, BHard
<1>2. \A s \in sessions : (InCreate(s)' <=> InCreate(s)) /\ (Limited(s)' <=> Limited(s))
  BY <1>1 DEF InCreate, Limited, AsAsked
<1> QED
  BY <1>1, <1>2 DEF LimitInv, InQuota

\* The end of a thread: nothing of quotas.
LEMMA EndsKeepLimits ==
  ASSUME LifeInv, LimitInv, NEW ok \in BOOLEAN,
         \/ \E h \in Handlers : Undone(h, ok) \/ Removed(h, ok) \/ \E s \in Sessions : Abandoned(h, s, ok)
         \/ \E s \in Sessions : SweepRemoved(s, ok) \/ Deleted(s, ok)
  PROVE  LimitInv'
<1>1. UNCHANGED <<server, config, pid, fsVars>>
  BY DEF Undone, Removed, Abandoned, SweepRemoved, Deleted, ThreadEnds, Retire, procVars, bookVars, regVars
<1>2. PICK s \in Sessions :
        /\ \E r : ThreadEnds(r, s, ok)
        /\ \/ UNCHANGED <<sessions, amiss>>
           \/ sessions' = sessions \ {s} /\ amiss' = amiss \ {s}
  BY DEF Undone, Removed, Abandoned, SweepRemoved, Deleted, Retire, bookVars, regVars, LifeInv, LifeTypes,
     HandlerInv
<1>3. \A h \in Handlers : \/ pc'[h] = pc[h] /\ ses'[h] = ses[h]
                          \/ pc[h] \notin InQuota /\ pc'[h] \notin InQuota
  BY DEF Undone, Removed, Abandoned, SweepRemoved, Deleted, Goes, hVars, LifeInv, LifeTypes, InQuota
<1>4. ASSUME NEW h \in Handlers, Serving, pc[h] \in InQuota PROVE ses[h] \in sessions \ {s}
  <2>1. ses[h] \in sessions /\ owner[ses[h]] = None /\ Early
    BY <1>4 DEF LifeInv, HandlerInv, Serving, Early
  <2>2. removers[ses[h]] = {}
    BY <2>1, NamesAssumption DEF LifeInv, LifeTypes, ThreadInv, Sweeper, Cleanup
  <2> QED
    BY <1>2, <2>1, <2>2 DEF ThreadEnds
<1> QED
  BY <1>1, <1>2, <1>3, <1>4, QuietKeepsLimits

LEMMA LimitStep == LifeInv /\ LeftInv /\ IdRange /\ LimitInv /\ [Next]_vars => LimitInv'
<1> SUFFICES ASSUME LifeInv, LeftInv, IdRange, LimitInv, [Next]_vars PROVE LimitInv'
  OBVIOUS
<1>1. CASE Boot
  BY <1>1, BootKeepsLimits
<1>2. CASE Crash \/ Exit
  <2>1. /\ server' = "off" /\ sessions' = {} /\ limit' = limit
        /\ \A h \in Handlers : pc'[h] = "idle"
        /\ \A o \in orphans' : o \in orphans \/
             \E h \in Handlers : pc[h] = "setup" /\ server # "off" /\ o = [id |-> pid[ses[h]], block |-> BHard]
    BY <1>2 DEF Crash, Exit, Volatile, Active, Orphaned, LeftInv, bookVars, regVars, hVars, fsVars
  <2>2. \A o \in orphans' : o.id \in Ids /\ o.block \in Nat \ {0}
    BY <2>1, FullPositive DEF LimitInv, InQuota
  <2> QED
    BY <2>1, <2>2 DEF LimitInv, Serving, InQuota
<1>3. ASSUME NEW h \in Handlers, Handler(h) PROVE LimitInv'
  <2>1. CASE Create(h)
    BY <2>1, CreateKeepsLimits
  <2>2. CASE SetUp(h)
    BY <2>2, SetUpKeepsLimits
  <2>3. CASE SetUpFails(h)
    BY <2>3, SetUpFailsKeepsLimits
  <2>4. CASE Verified(h)
    BY <2>4, VerifiedKeepsLimits
  <2>5. CASE NotVerified(h)
    <3>1. /\ pc[h] \in InQuota /\ Serving /\ pc' = [pc EXCEPT ![h] = "undo"]
          /\ sessions' = sessions \ {ses[h]} /\ amiss' = amiss \ {ses[h]}
          /\ UNCHANGED <<server, config, ses, pid, fsVars>>
      BY <2>5 DEF NotVerified, Running, Undo, procVars, InQuota
    <3>2. \A g \in Handlers \ {h} : ses[g] # ses[h]
      BY <3>1, CreateFacts
    <3>3. \A g \in Handlers : Serving /\ pc[g] \in InQuota => ses[g] \in sessions
      BY CreateFacts
    <3>4. pc'[h] \notin InQuota /\ \A g \in Handlers \ {h} : pc'[g] = pc[g]
      BY <3>1 DEF LifeInv, LifeTypes, InQuota
    <3> QED
      BY <3>1, <3>2, <3>3, <3>4, QuietKeepsLimits
  <2>6. CASE (\E s \in Sessions : Request(h, s, "body") \/ Request(h, s, "remove"))
             \/ BodyEnds(h) \/ RunTimesOut(h)
    <3>1. /\ UNCHANGED <<server, config, sessions, amiss, pid, fsVars>>
          /\ pc[h] \in {"idle", "body"}
          /\ \E p \in {"idle", "body", "kill", "remove"} : \E s : Goes(h, p, s)
      BY <2>6 DEF Request, BodyEnds, RunTimesOut, LeaveBody, procVars, bookVars, regVars
    <3>2. /\ pc[h] \notin InQuota /\ pc'[h] \notin InQuota
          /\ \A g \in Handlers \ {h} : pc'[g] = pc[g] /\ ses'[g] = ses[g]
      BY <3>1 DEF Goes, LifeInv, LifeTypes, InQuota
    <3> QED
      BY <3>1, <3>2, CreateFacts, QuietKeepsLimits
  <2> QED
    BY <1>3, <2>1, <2>2, <2>3, <2>4, <2>5, <2>6 DEF Handler
<1>4. ASSUME NEW h \in Handlers, Removals(h) PROVE LimitInv'
  BY <1>4, EndsKeepLimits DEF Removals
<1>5. ASSUME NEW h \in Handlers, Killed(h) PROVE LimitInv'
  <2>1. /\ UNCHANGED <<server, config, sessions, amiss, pid, fsVars>>
        /\ pc[h] \notin InQuota /\ pc'[h] \notin InQuota
        /\ \A g \in Handlers \ {h} : pc'[g] = pc[g] /\ ses'[g] = ses[g]
    BY <1>5 DEF Killed, LeaveBody, Goes, procVars, bookVars, LifeInv, LifeTypes, InQuota
  <2> QED
    BY <2>1, CreateFacts, QuietKeepsLimits
<1>6. ASSUME NEW h \in Handlers, Unwind(h) PROVE LimitInv'
  BY <1>6, UnwindKeepsLimits
<1>7. ASSUME NEW o \in orphans, OrphanEnds(o) PROVE LimitInv'
  BY <1>7, OrphanKeepsLimits
<1>8. ASSUME NEW s \in Sessions, NEW ok \in BOOLEAN, SweepRemoved(s, ok) \/ Deleted(s, ok) PROVE LimitInv'
  BY <1>8, EndsKeepLimits
<1>9. CASE \/ Listen \/ Stop \/ CancelHandlers \/ StartDeleteAll \/ AllDeleted \/ CancelRest \/ SweepCancelled
           \/ (\E s \in Sessions : SweepTake(s) \/ DeleteNext(s)) \/ UNCHANGED vars
  <2>1. /\ UNCHANGED <<config, sessions, amiss, pid, fsVars, pc, ses>>
        /\ \/ server' = server
           \/ server # "off" /\ server' # "off" /\ server \notin {"up", "draining"}
                /\ (server' \in {"up", "draining"} => server = "starting")
           \/ server # "off" /\ server' # "off" /\ server \in {"up", "draining"}
    BY <1>9 DEF Listen, Stop, CancelHandlers, StartDeleteAll, AllDeleted, CancelRest, SweepCancelled, SweepTake,
       DeleteNext, vars, procVars, bookVars, regVars, hVars
  <2>2. CASE server = "starting"
    <3>1. \A h \in Handlers : pc[h] \notin InQuota
      BY <2>2 DEF LifeInv, SweepInv, InQuota
    <3> QED
      BY <2>1, <2>2, <3>1, StartingKeepsLimits
  <2>3. CASE server # "starting"
    <3>1. server' = server \/ (server' # "off" /\ server # "off" /\ (Serving' => Serving))
      BY <2>1, <2>3 DEF Serving
    <3> QED
      BY <2>1, <3>1, CreateFacts, QuietKeepsLimits
  <2> QED
    BY <2>2, <2>3
<1> QED
  BY <1>1, <1>2, <1>3, <1>4, <1>5, <1>6, <1>7, <1>8, <1>9, Zenon DEF Next, Loop, SweepEnds, DeleteAll

LEMMA LimitInit == Init => LimitInv /\ IdRange
<1> SUFFICES ASSUME Init PROVE LimitInv /\ IdRange
  OBVIOUS
<1>1. Born = {} /\ Cardinality({}) = 0
  BY FS_EmptySet DEF Init, Born
<1>2. IdRange
  BY <1>1, ValuesAssumption DEF Init, IdRange
<1>3. limit \in [Ids -> Limits]
  BY DEF Init, NoLimit, Limits
<1>4. LimitInv
  BY <1>3 DEF Init, LimitInv, InQuota
<1> QED
  BY <1>2, <1>4

\* The limits of every session handed out are positive, on a file system that keeps project
\* quotas, and for the size this process was started with (_apply_quota and
\* _verify_quota_hard_limit), unless xfs_quota claimed a setup it did not make, or one of
\* an earlier process came late.
THEOREM LimitsSetCorrect == Spec => []LimitsSet
<1>1. LifeInv /\ LeftInv /\ LimitInv => LimitsSet
  <2> SUFFICES ASSUME LifeInv, LeftInv, LimitInv, NEW s \in sessions, ~InCreate(s),
                      ~(config.mount = None /\ config.waived)
               PROVE  /\ accounting /\ limit[pid[s]].block > 0 /\ limit[pid[s]].inode > 0
                      /\ s \notin amiss =>
                           /\ limit[pid[s]].block * KIB \in config.size..(config.size + KIB - 1)
                           /\ limit[pid[s]].inode = MAX_SESSION_ENTRIES
    BY DEF LimitsSet
  <2>1. Limited(s)
    BY DEF LimitInv
  <2>2. config.size \in Nat \ {0}
    BY DEF LimitInv, LeftInv
  <2>3. BHard * KIB \in config.size..(config.size + KIB - 1)
    BY <2>2, RoundedUp, ValuesAssumption DEF BHard
  <2> QED
    BY <2>1, <2>3 DEF Limited, AsAsked, Full
<1> QED
  BY LifeInit, LifeStep, LeftInit, LeftStep, LimitInit, IdStep, LimitStep, <1>1, PTL DEF Spec

=============================================================================
