------------------------------ MODULE SlotPool ------------------------------
(***************************************************************************)
(* What execution_slot() promises, without counters, queues or wake-ups:   *)
(* no more users run than there are slots, whoever waits may give up, and  *)
(* nobody new runs while others wait.                                      *)
(***************************************************************************)
EXTENDS Naturals, FiniteSets

CONSTANTS Users, Slots

VARIABLES waiting, running
poolVars == <<waiting, running>>

Init == waiting = {} /\ running = {}

Outsider(u) == u \notin waiting \cup running
Room == Cardinality(running) < Slots

Take(u) ==
  /\ Outsider(u)
  /\ waiting = {} /\ Room
  /\ running' = running \cup {u}
  /\ UNCHANGED waiting

Wait(u) ==
  /\ Outsider(u)
  /\ waiting' = waiting \cup {u}
  /\ UNCHANGED running

Start(u) ==
  /\ u \in waiting
  /\ Room
  /\ waiting' = waiting \ {u}
  /\ running' = running \cup {u}

GiveUp(u) ==
  /\ u \in waiting
  /\ waiting' = waiting \ {u}
  /\ UNCHANGED running

Return(u) ==
  /\ u \in running
  /\ running' = running \ {u}
  /\ UNCHANGED waiting

Next == \E u \in Users : Take(u) \/ Wait(u) \/ Start(u) \/ GiveUp(u) \/ Return(u)

Spec == Init /\ [][Next]_poolVars
=============================================================================
