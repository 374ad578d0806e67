---------------------------- MODULE SessionStore ----------------------------
(***************************************************************************)
(* What sessions.py promises, without locks, queues, timers or quotas: a   *)
(* session is opened once, is used by one request at a time and only while *)
(* it is live, and is retired once, when nobody uses it.                   *)
(***************************************************************************)
EXTENDS Naturals, FiniteSets

CONSTANTS Users, Sessions, None, Capacity

VARIABLES live,     \* sessions that can be used
          retired,  \* sessions that will never be used again
          user      \* who is using a session
storeVars == <<live, retired, user>>

Init ==
  /\ live = {}
  /\ retired = {}
  /\ user = [s \in Sessions |-> None]

Fresh(s) == s \notin live \cup retired
Free(u)  == \A s \in Sessions : user[s] # u

\* A session starts its life, in use already when it serves one execution only.
Open(s, u) ==
  /\ Fresh(s)
  /\ Cardinality(live) < Capacity
  /\ live' = live \cup {s}
  /\ user' = [user EXCEPT ![s] = u]
  /\ UNCHANGED retired

\* Its creation fails before it was ever live.
Discard(s) ==
  /\ Fresh(s)
  /\ retired' = retired \cup {s}
  /\ UNCHANGED <<live, user>>

Enter(s, u) ==
  /\ s \in live
  /\ user[s] = None
  /\ Free(u)
  /\ user' = [user EXCEPT ![s] = u]
  /\ UNCHANGED <<live, retired>>

Leave(s) ==
  /\ user[s] # None
  /\ user' = [user EXCEPT ![s] = None]
  /\ UNCHANGED <<live, retired>>

\* The end of a session, by whoever uses it or by anybody when it is unused.
Retire(s) ==
  /\ s \in live
  /\ live' = live \ {s}
  /\ retired' = retired \cup {s}
  /\ user[s] = None
  /\ UNCHANGED user

Close(s) ==
  /\ s \in live
  /\ user[s] # None
  /\ live' = live \ {s}
  /\ retired' = retired \cup {s}
  /\ user' = [user EXCEPT ![s] = None]

Next ==
  \E s \in Sessions :
    \/ Open(s, None) \/ \E u \in Users : Free(u) /\ Open(s, u)
    \/ Discard(s)
    \/ \E u \in Users : Enter(s, u)
    \/ Leave(s) \/ Retire(s) \/ Close(s)

Spec == Init /\ [][Next]_storeVars

=============================================================================
