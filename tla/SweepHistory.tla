---------------------------- MODULE SweepHistory ----------------------------
(***************************************************************************)
(* SessionManager with a history variable, to say what the sweep owes to  *)
(* the callers of a session that is in use.                                *)
(***************************************************************************)
EXTENDS SessionManager

VARIABLE
  touched   \* sessions a request locked since the running sweep pass began

\* Sessions whose lock goes to a request in this step.
Entered == {s \in Sessions : owner'[s] # owner[s] /\ owner'[s] \in Tasks}

HistInit == Init /\ touched = {}

HistNext ==
  /\ Next
  /\ touched' = IF swPc = "sleep" THEN {} ELSE touched \cup Entered

HistSpec == HistInit /\ [][HistNext]_<<vars, touched>>

Swept(s) == swPc = "remove" /\ swAt = s

\* The sweep removes no session that a request entered after the pass had read
\* the clock, although the copy of the registry it iterates is older than that.
SweepSparesTouched == \A s \in touched : ~Swept(s)

\* A session being seeded by POST /sessions is in use: the sweep leaves it alone
\* and its directory stays.
SeedingNotSwept ==
  \A t \in Tasks : pc[t] = "seed" => ~Swept(sess[t]) /\ disk[sess[t]] = "present"

=============================================================================
