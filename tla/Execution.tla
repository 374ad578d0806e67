------------------------------ MODULE Execution ------------------------------
(***************************************************************************)
(* What an /execute request does once its attachments are in place: it     *)
(* takes one of MAX_CONCURRENT_EXECUTIONS slots (execution_slot in         *)
(* sessions.py) and runs a container (run_code_async, run_container and    *)
(* read_max_and_close in executor/podman_executor.py).                     *)
(*                                                                         *)
(* A run r is one such request; it happens once (a bound).  It holds its   *)
(* session's lock all along, so runs share nothing but the slots.  A slot  *)
(* is the run's, not its container's: a container whose removal failed     *)
(* goes on without one.                                                    *)
(*                                                                         *)
(*   new      before execution_slot()                                      *)
(*   wait     queued for a slot                                            *)
(*   stamp    ExecutionEnvironment(...) in a worker thread                 *)
(*   spawn    pty open, reader started, `podman run` being spawned         *)
(*   run      waiting for the `podman run` client, at most EXECUTION_TIMEOUT *)
(*   remove   `podman rm --force` after the timeout                        *)
(*   reap     the client is killed and awaited, at most 2 s                *)
(*   drain    the stop event is set; awaiting the reader thread            *)
(*   diff     collect_changes in a worker thread, then the response        *)
(*   done     answered                                                     *)
(***************************************************************************)
EXTENDS Naturals, Sequences, FiniteSets, SequencesExt

CONSTANTS
  Runs,
  MAX_CONCURRENT_EXECUTIONS

ASSUME SlotsAssumption ==
  /\ IsFiniteSet(Runs)
  /\ MAX_CONCURRENT_EXECUTIONS \in Nat \ {0}

VARIABLES
  phase, result,          \* the request handlers
  value, queue, woken,    \* asyncio.Semaphore: counter, waiters, waiters already handed a slot
  client, container,      \* the `podman run` process and its container
  reader, unread, stopEvt \* read_max_and_close, data in the pty, evt
  \* A reader is "idle" from a select that found nothing until it has read the stop event;
  \* data that comes meanwhile is "late".

reqVars  == <<phase, result>>
slotVars == <<value, queue, woken>>
procVars == <<client, container>>
readVars == <<reader, unread, stopEvt>>
vars     == <<reqVars, slotVars, procVars, readVars>>

Phases     == {"new", "wait", "stamp", "spawn", "run", "remove", "reap", "drain", "diff", "done"}
Results    == {"none", "exited", "timed_out", "error"}
Clients    == {"none", "alive", "killed", "dead"}
Containers == {"none", "up", "gone"}
Readers    == {"none", "reading", "idle", "done"}
Data       == {"none", "some", "late"}

TypeOK ==
  /\ phase \in [Runs -> Phases]
  /\ result \in [Runs -> Results]
  /\ value \in Nat
  /\ queue \in Seq(Runs)
  /\ woken \subseteq Runs
  /\ client \in [Runs -> Clients]
  /\ container \in [Runs -> Containers]
  /\ reader \in [Runs -> Readers]
  /\ unread \in [Runs -> Data]
  /\ stopEvt \in [Runs -> BOOLEAN]

Init ==
  /\ phase = [r \in Runs |-> "new"]
  /\ result = [r \in Runs |-> "none"]
  /\ value = MAX_CONCURRENT_EXECUTIONS
  /\ queue = <<>>
  /\ woken = {}
  /\ client = [r \in Runs |-> "none"]
  /\ container = [r \in Runs |-> "none"]
  /\ reader = [r \in Runs |-> "none"]
  /\ unread = [r \in Runs |-> "none"]
  /\ stopEvt = [r \in Runs |-> FALSE]

Go(r, p) == phase' = [phase EXCEPT ![r] = p] /\ UNCHANGED result

End(r, p, res) ==
  /\ phase' = [phase EXCEPT ![r] = p]
  /\ result' = [result EXCEPT ![r] = res]

-----------------------------------------------------------------------------
(* asyncio.Semaphore.  It is FIFO: a free slot is taken at once only when    *)
(* nobody queues, and a wake-up takes the slot on behalf of the waiter.      *)

SlotFree == value > 0 /\ queue = <<>> /\ woken = {}

\* n waiters of q are handed a slot each, out of v.
Wake(v, q, w, n) ==
  /\ value' = v - n
  /\ queue' = SubSeq(q, n + 1, Len(q))
  /\ woken' = w \cup {q[i] : i \in 1..n}

Least(a, b) == IF a < b THEN a ELSE b

\* release(): at most one waiter is woken.
GiveSlot == Wake(value + 1, queue, woken, Least(1, Len(queue)))

\* The end of an acquire() that waited: as many waiters as there are slots.
PassOn(v, q, w) == Wake(v, q, w, Least(v, Len(q)))

\* Seeded fault: the slot is counted without waiting for one.
BugSlotEnter(r) ==
  /\ phase[r] = "new"
  /\ value' = value - 1
  /\ Go(r, "stamp")
  /\ UNCHANGED <<queue, woken, procVars, readVars>>

SlotEnter(r) ==
  /\ phase[r] = "new"
  /\ \/ /\ SlotFree
        /\ value' = value - 1
        /\ Go(r, "stamp")
        /\ UNCHANGED <<queue, woken>>
     \/ /\ ~SlotFree
        /\ queue' = Append(queue, r)
        /\ Go(r, "wait")
        /\ UNCHANGED <<value, woken>>
  /\ UNCHANGED <<procVars, readVars>>

SlotGranted(r) ==
  /\ phase[r] = "wait"
  /\ r \in woken
  /\ PassOn(value, queue, woken \ {r})
  /\ Go(r, "stamp")
  /\ UNCHANGED <<procVars, readVars>>

\* Seeded fault: a slot that was handed over just before the timeout is lost.
BugLateGrant(r) ==
  /\ phase[r] = "wait"
  /\ \/ r \in woken /\ PassOn(value, queue, woken \ {r})
     \/ \E i \in DOMAIN queue : queue[i] = r /\ PassOn(value, RemoveAt(queue, i), woken)
  /\ End(r, "done", "error")
  /\ UNCHANGED <<procVars, readVars>>

\* Seeded fault: a slot that was handed over just before the timeout is given back without
\* waking the next waiter.
BugQuietTimeout(r) ==
  /\ phase[r] = "wait"
  /\ \/ r \in woken /\ Wake(value + 1, queue, woken \ {r}, 0)
     \/ \E i \in DOMAIN queue : queue[i] = r /\ PassOn(value, RemoveAt(queue, i), woken)
  /\ End(r, "done", "error")
  /\ UNCHANGED <<procVars, readVars>>

\* SESSION_LOCK_WAIT_TIMEOUT_SECONDS passed: a 503.  When the slot had just been
\* handed over it goes to the next waiter.
SlotTimeout(r) ==
  /\ phase[r] = "wait"
  /\ \/ r \in woken /\ PassOn(value + 1, queue, woken \ {r})
     \/ \E i \in DOMAIN queue : queue[i] = r /\ PassOn(value, RemoveAt(queue, i), woken)
  /\ End(r, "done", "error")
  /\ UNCHANGED <<procVars, readVars>>

-----------------------------------------------------------------------------
(* The run                                                                   *)

\* The thread that stamps the session's files is done; the pty cannot be opened.
NoPty(r) ==
  /\ phase[r] = "stamp"
  /\ End(r, "done", "error")
  /\ GiveSlot
  /\ UNCHANGED <<procVars, readVars>>

\* Stamped: open the pty, start the reader, spawn `podman run`.
Spawn(r) ==
  /\ phase[r] = "stamp"
  /\ Go(r, "spawn")
  /\ reader' = [reader EXCEPT ![r] = "reading"]
  /\ UNCHANGED <<slotVars, procVars, unread, stopEvt>>

\* Seeded fault: a failed spawn is answered without stopping the reader.
BugSpawnFails(r) ==
  /\ phase[r] = "spawn"
  /\ End(r, "done", "error")
  /\ GiveSlot
  /\ UNCHANGED <<procVars, readVars>>

SetStop(r, p, res) ==
  /\ End(r, p, res)
  /\ stopEvt' = [stopEvt EXCEPT ![r] = TRUE]

SpawnFails(r) ==
  /\ phase[r] = "spawn"
  /\ SetStop(r, "drain", "error")
  /\ UNCHANGED <<slotVars, procVars, reader, unread>>

Spawned(r) ==
  /\ phase[r] = "spawn"
  /\ Go(r, "run")
  /\ client' = [client EXCEPT ![r] = "alive"]
  /\ UNCHANGED <<slotVars, container, readVars>>

ClientDone(r) ==
  /\ phase[r] = "run"
  /\ client[r] = "dead"
  /\ SetStop(r, "drain", "exited")
  /\ UNCHANGED <<slotVars, procVars, reader, unread>>

\* EXECUTION_TIMEOUT passed.  A client that has exited meanwhile needs no removal.
ExecTimeout(r) ==
  /\ phase[r] = "run"
  /\ \/ client[r] = "dead" /\ SetStop(r, "drain", "timed_out")
     \/ client[r] # "dead" /\ End(r, "remove", "timed_out") /\ UNCHANGED stopEvt
  /\ UNCHANGED <<slotVars, procVars, reader, unread>>

\* _remove_container returned, whether it removed the container or not (it could
\* not be spawned, took longer than PODMAN_CHECK_TIMEOUT_SECONDS, or failed); the
\* client is killed in the same step.
Removed(r) ==
  /\ phase[r] = "remove"
  /\ \/ UNCHANGED container
     \/ container[r] = "up" /\ container' = [container EXCEPT ![r] = "gone"]
  /\ client' = [client EXCEPT ![r] = IF @ = "alive" THEN "killed" ELSE @]
  /\ Go(r, "reap")
  /\ UNCHANGED <<slotVars, readVars>>

\* Seeded fault: the stop event is set only when the client was reaped in time.
BugReapGivesUp(r) ==
  /\ phase[r] = "reap"
  /\ IF client[r] = "dead" THEN SetStop(r, "drain", result[r])
     ELSE Go(r, "drain") /\ UNCHANGED stopEvt
  /\ UNCHANGED <<slotVars, procVars, reader, unread>>

\* The client was reaped, or 2 s passed.
Reaped(r) ==
  /\ phase[r] = "reap"
  /\ SetStop(r, "drain", result[r])
  /\ UNCHANGED <<slotVars, procVars, reader, unread>>

\* `output = await read_task`; the error of a failed spawn goes on to the caller.
Drained(r) ==
  /\ phase[r] = "drain"
  /\ reader[r] = "done"
  /\ \/ result[r] = "error" /\ Go(r, "done") /\ GiveSlot
     \/ result[r] # "error" /\ Go(r, "diff") /\ UNCHANGED slotVars
  /\ UNCHANGED <<procVars, readVars>>

\* The response is built and the slot is given back.
Answer(r) ==
  /\ phase[r] = "diff"
  /\ Go(r, "done")
  /\ GiveSlot
  /\ UNCHANGED <<procVars, readVars>>

-----------------------------------------------------------------------------
(* The reader thread                                                         *)

ReadChunk(r) ==
  /\ reader[r] = "reading"
  /\ unread[r] # "none"
  /\ unread' = [unread EXCEPT ![r] = "none"]
  /\ UNCHANGED <<reqVars, slotVars, procVars, reader, stopEvt>>

ReaderBecomes(r, next) ==
  /\ reader' = [reader EXCEPT ![r] = next]
  /\ UNCHANGED <<reqVars, slotVars, procVars, stopEvt>>

\* select() found nothing to read for 0.1 s.
SelectEmpty(r) ==
  /\ reader[r] = "reading"
  /\ unread[r] = "none"
  /\ ReaderBecomes(r, "idle")
  /\ UNCHANGED unread

\* Seeded fault: the stop event ends the reader whatever is left in the pty.
BugStopAtOnce(r) ==
  /\ reader[r] \in {"reading", "idle"}
  /\ stopEvt[r]
  /\ ReaderBecomes(r, "done")
  /\ UNCHANGED unread

\* After an empty select, and only then, the stop event is read: set, both ends are closed,
\* with what came since the select still in the pty.
ReaderStops(r) ==
  /\ reader[r] = "idle"
  /\ stopEvt[r]
  /\ ReaderBecomes(r, "done")
  /\ UNCHANGED unread

\* Not set: the next select finds what came meanwhile.
ReaderGoesOn(r) ==
  /\ reader[r] = "idle"
  /\ ~stopEvt[r]
  /\ ReaderBecomes(r, "reading")
  /\ unread' = [unread EXCEPT ![r] = IF @ = "late" THEN "some" ELSE @]

-----------------------------------------------------------------------------
(* Podman.  The container belongs to its own monitor process and outlives a  *)
(* killed client; only a live client relays its output to the pty.           *)

ContainerStarts(r) ==
  /\ client[r] = "alive"
  /\ container[r] = "none"
  /\ container' = [container EXCEPT ![r] = "up"]
  /\ UNCHANGED <<reqVars, slotVars, client, readVars>>

ContainerExits(r) ==
  /\ container[r] = "up"
  /\ container' = [container EXCEPT ![r] = "gone"]
  /\ UNCHANGED <<reqVars, slotVars, client, readVars>>

\* Output of the program, or a message of podman itself.
Relay(r) ==
  /\ client[r] = "alive"
  /\ unread' = [unread EXCEPT ![r] =
                 IF @ = "some" THEN @ ELSE IF reader[r] = "idle" THEN "late" ELSE "some"]
  /\ UNCHANGED <<reqVars, slotVars, procVars, reader, stopEvt>>

\* The client exits after its container, or without having started one.
ClientExits(r) ==
  /\ \/ client[r] = "alive" /\ container[r] # "up"
     \/ client[r] = "killed"
  /\ client' = [client EXCEPT ![r] = "dead"]
  /\ container' = [container EXCEPT ![r] = IF @ = "none" THEN "gone" ELSE @]
  /\ UNCHANGED <<reqVars, slotVars, readVars>>

-----------------------------------------------------------------------------
Step(r) ==
  \/ SlotGranted(r) \/ SlotTimeout(r)
  \/ NoPty(r) \/ Spawn(r) \/ SpawnFails(r) \/ Spawned(r)
  \/ ClientDone(r) \/ ExecTimeout(r) \/ Removed(r) \/ Reaped(r)
  \/ Drained(r) \/ Answer(r)

Reader(r) == ReadChunk(r) \/ SelectEmpty(r) \/ ReaderStops(r) \/ ReaderGoesOn(r)

Podman(r) == ContainerStarts(r) \/ ContainerExits(r) \/ Relay(r) \/ ClientExits(r)

Next == \E r \in Runs : SlotEnter(r) \/ Step(r) \/ Reader(r) \/ Podman(r)

Spec == Init /\ [][Next]_vars

\* Timers fire, worker threads run, the event loop resumes what is ready.  Podman
\* owes nothing: a program may run for ever, and a removal may fail.
FairSpec == Spec /\ \A r \in Runs : WF_vars(Step(r)) /\ WF_vars(Reader(r))

-----------------------------------------------------------------------------
(* Properties                                                              *)

\* Runs between the acquire and the release of their slot.
Holding == {r \in Runs : phase[r] \in {"stamp", "spawn", "run", "remove", "reap", "drain", "diff"}}

\* A slot is free, on its way to a waiter, or held by one run, whatever the order
\* of grants, timeouts and failures: execution_slot() neither loses a slot nor
\* lets more than MAX_CONCURRENT_EXECUTIONS runs through.
SlotAccounting ==
  value + Cardinality(woken) + Cardinality(Holding) = MAX_CONCURRENT_EXECUTIONS

\* Nobody is left waiting for a slot that is free: unless one is on its way to a waiter
\* already, a slot given back, or handed to a waiter that gave up, goes to the next.
NoIdleSlot == queue # <<>> /\ value > 0 => woken # {}

\* read_max_and_close leaves nothing of what the client wrote unread but what came after
\* its last empty select, and stops only when the client can write no more.  It is not that
\* nothing is lost: a client can write, exit, be reaped and have the stop event set for it
\* between that select and the test of the event.
OnlyLateOutputLost ==
  \A r \in Runs : reader[r] = "done" => unread[r] # "some" /\ client[r] # "alive"

\* An answered request leaves neither a reader thread nor an open pty behind, also
\* when the pty or the spawn failed.
NoReaderLeft == \A r \in Runs : phase[r] = "done" => reader[r] \in {"none", "done"}

\* Every request is answered, and so gives its slot and its session's lock back,
\* whether podman cooperates or not.
RunEnds == \A r \in Runs : phase[r] # "new" ~> phase[r] = "done"
=============================================================================
