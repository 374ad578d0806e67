-------------------------- MODULE Execution_refines --------------------------
(***************************************************************************)
(* The slots of Execution implement SlotPool: a run waits until it has     *)
(* taken the slot it was woken for, and runs until it gives it back.       *)
(***************************************************************************)
EXTENDS Execution

waitingBar == {r \in Runs : phase[r] = "wait"}

Pool == INSTANCE SlotPool
          WITH Users <- Runs, Slots <- MAX_CONCURRENT_EXECUTIONS,
               waiting <- waitingBar, running <- Holding

\* Whatever the order of wake-ups, timeouts and failures, no more than
\* MAX_CONCURRENT_EXECUTIONS runs hold a slot, each takes one, and a request that has just
\* come overtakes nobody that waits for a slot (sessions.py, execution_slot).
ImplementsSlotPool == Pool!Spec
=============================================================================
