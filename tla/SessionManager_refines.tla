------------------------ MODULE SessionManager_refines ------------------------
(***************************************************************************)
(* SessionManager implements SessionStore.  A session is live from its     *)
(* registration until its removal starts; whoever is in a `locked` body    *)
(* uses it.                                                                *)
(***************************************************************************)
EXTENDS SessionManager

BeingRemoved(s) ==
  \/ owner[s] = Sweeper
  \/ owner[s] \in Tasks /\ pc[owner[s]] = "remove"

liveBar    == {s \in sessions : ~BeingRemoved(s)}
retiredBar == {s \in Sessions : disk[s] # "unborn" /\ s \notin liveBar}
userBar    == [s \in Sessions |->
                 IF owner[s] \in Tasks /\ pc[owner[s]] = "body" THEN owner[s] ELSE None]

Store == INSTANCE SessionStore
           WITH Users <- Tasks, Capacity <- MAX_SESSIONS,
                live <- liveBar, retired <- retiredBar, user <- userBar

\* Every step of the server is a step of the abstract store, or changes nothing
\* callers can tell: one user at a time, none after the removal has started, no
\* second life.
ImplementsStore == Store!Spec
=============================================================================
