------------------------------- MODULE Harness -------------------------------
(***************************************************************************)
(* The runner of harness.py, the acceptance checks of a running server:    *)
(* main and select_checks decide what runs, run and _run_one run one check *)
(* after the other with a time limit, and owned_sessions makes the         *)
(* sessions each check is given and deletes them again.  The server, the   *)
(* network and the checks may fail in any way.                             *)
(*                                                                         *)
(* phase: start (arguments not read); next (between two checks); create    *)
(*   (owned_sessions makes sessions); body (the check); cleanup (it        *)
(*   deletes them); ended.                                                 *)
(***************************************************************************)
EXTENDS Naturals, Sequences, FiniteSets, SequencesExt

CONSTANTS
  CHECKS,         \* the checks, in the order they are declared
  Group,          \* the group of each
  OptIn,          \* the groups that have to be asked for
  Heavy,          \* the checks --skip-heavy leaves out
  Wanted,         \* how many sessions each is given
  Typo,           \* a name that is no check's and no group's
  MaxSessions     \* a bound on the sessions made

Checks == ToSet(CHECKS)
Groups == {Group[c] : c \in Checks}

ASSUME RegistryAssumption ==
  /\ CHECKS \in Seq(Checks) /\ IsInjective(CHECKS)
  /\ DOMAIN Group = Checks /\ OptIn \subseteq Groups /\ Checks \cap Groups = {}
  /\ Heavy \subseteq Checks /\ Wanted \in [Checks -> Nat] /\ Typo \notin Checks \cup Groups
  /\ MaxSessions \in Nat

VARIABLES
  phase,
  toRun, skipped,   \* what select_checks returned; toRun without the checks that have run
  failFast,
  check,            \* the check at hand
  raised,           \* what its run has raised: none, assertion, timeout, other, interrupt
  ids, todo,        \* session_ids; those the loop of the `finally` has not come to
  live,             \* sessions on the server
  made,             \* how many there have been
  results,          \* a function from checks to statuses
  code,             \* the exit code
  due,              \* history: the checks the arguments were about
  trouble,          \* history: a check, its sessions or their deletion raised something
  excused           \* history: sessions whose DELETE failed, or whose id never arrived

runVars == <<toRun, skipped, failFast>>
history == <<due, trouble, excused>>
vars == <<phase, runVars, check, raised, ids, todo, live, made, results, code, history>>

Init ==
  /\ phase = "start"
  /\ toRun = <<>> /\ skipped = {} /\ failFast \in BOOLEAN
  /\ check = Typo /\ raised = "none"
  /\ ids = {} /\ todo = {} /\ live = {} /\ made = 0
  /\ results = <<>> /\ code = "none"
  /\ due = {} /\ trouble = FALSE /\ excused = {}

-----------------------------------------------------------------------------
(* Selection: a holds --only, --skip, the opt-in flags and --skip-heavy.     *)

Arguments ==
  LET Some == {S \in SUBSET (Checks \cup Groups \cup {Typo}) : Cardinality(S) <= 2}
  IN [only : Some, skip : Some, enabled : SUBSET OptIn, skipHeavy : BOOLEAN]

Identifiers(c) == {c, Group[c]}

\* What --only names enables its opt-in group.
Implied(a) == a.enabled \cup (a.only \cap OptIn) \cup {Group[c] : c \in a.only \cap Checks}

Considered(a, c) == a.only = {} \/ Identifiers(c) \cap a.only # {}

LeftOut(a, c) ==
  \/ Identifiers(c) \cap a.skip # {}
  \/ Group[c] \in OptIn \ Implied(a)
  \/ a.skipHeavy /\ c \in Heavy

Selected(a) ==
  LET to_run[i \in 0..Len(CHECKS)] ==
        IF i = 0 THEN <<>>
        ELSE IF Considered(a, CHECKS[i]) /\ ~LeftOut(a, CHECKS[i])
             THEN Append(to_run[i - 1], CHECKS[i])
             ELSE to_run[i - 1]
  IN  to_run[Len(CHECKS)]
Skipped(a)  == {c \in Checks : Considered(a, c) /\ LeftOut(a, c)}

Known(a) == Typo \notin a.only \cup a.skip

\* main, up to asyncio.run.
Start ==
  /\ phase = "start"
  /\ \E a \in Arguments :
       IF ~Known(a) THEN phase' = "ended" /\ code' = "2" /\ UNCHANGED <<toRun, skipped, due>>
       ELSE /\ toRun' = Selected(a) /\ skipped' = Skipped(a)
            /\ due' = {c \in Checks : Considered(a, c)}
            /\ IF Selected(a) = <<>> THEN phase' = "ended" /\ code' = "0"
                                     ELSE phase' = "next" /\ UNCHANGED code
  /\ UNCHANGED <<failFast, check, raised, ids, todo, live, made, results, trouble, excused>>

-----------------------------------------------------------------------------
(* One check                                                                 *)

Begin ==
  /\ phase = "next" /\ toRun # <<>>
  /\ phase' = "create" /\ check' = Head(toRun) /\ toRun' = Tail(toRun)
  /\ raised' = "none" /\ ids' = {}
  /\ UNCHANGED <<skipped, failFast, todo, live, made, results, code, history>>

\* Something is raised: the `finally` of owned_sessions is next.
Raise(e) ==
  /\ phase' = "cleanup" /\ raised' = e /\ todo' = ids
  /\ trouble' = (trouble \/ e # "none")

\* Seeded fault: the sessions are made before the `try`.
BugRaiseEarly(e) == phase' = "cleanup" /\ raised' = e /\ todo' = {} /\ trouble' = TRUE

RaiseEarly(e) == Raise(e)

\* POST /sessions: the id arrives, or the server refuses, or the answer is lost.
NewSession ==
  /\ phase = "create" /\ Cardinality(ids) < Wanted[check]
  /\ \/ /\ made < MaxSessions
        /\ made' = made + 1 /\ live' = live \cup {made'}
        /\ ids' = ids \cup {made'}
        /\ UNCHANGED <<phase, raised, todo, trouble, excused>>
     \/ /\ RaiseEarly("assertion")
        /\ UNCHANGED <<ids, live, made, excused>>
     \/ /\ \E e \in {"timeout", "other", "interrupt"} : RaiseEarly(e)
        /\ \/ UNCHANGED <<live, made, excused>>
           \/ /\ made < MaxSessions
              /\ made' = made + 1 /\ live' = live \cup {made'} /\ excused' = excused \cup {made'}
        /\ UNCHANGED ids
  /\ UNCHANGED <<runVars, check, results, code, due>>

Enter ==
  /\ phase = "create" /\ Cardinality(ids) = Wanted[check]
  /\ phase' = "body"
  /\ UNCHANGED <<runVars, check, raised, ids, todo, live, made, results, code, history>>

\* The check comes to an end, one way or another.
Body ==
  /\ phase = "body"
  /\ \E e \in {"none", "assertion", "timeout", "other", "interrupt"} : Raise(e)
  /\ UNCHANGED <<runVars, check, ids, live, made, results, code, due, excused>>

\* Seeded fault: only heavy checks are timed.
BugTimed == check \in Heavy

Timed == TRUE

\* It hangs: asyncio.timeout.
Overrun ==
  /\ phase = "body" /\ Timed
  /\ Raise("timeout")
  /\ UNCHANGED <<runVars, check, ids, live, made, results, code, due, excused>>

\* DELETE, the last session first: 204 or 404; any other answer, or a ClientError,
\* is only warned about, and the session may or may not be there.
Delete ==
  LET id == Max(todo) IN
  /\ phase = "cleanup" /\ todo # {}
  /\ todo' = todo \ {id}
  /\ \/ live' = live \ {id} /\ UNCHANGED excused
     \/ excused' = excused \cup {id} /\ UNCHANGED live
  /\ UNCHANGED <<phase, runVars, check, raised, ids, made, results, code, due, trouble>>

\* aiohttp's own time limit, or Ctrl-C: the rest is not deleted.
DeleteBreaks ==
  /\ phase = "cleanup" /\ todo # {}
  /\ raised' \in {"timeout", "interrupt"} /\ trouble' = TRUE
  /\ todo' = {} /\ excused' = excused \cup todo
  /\ live' \in {live, live \ {Max(todo)}}
  /\ UNCHANGED <<phase, runVars, check, ids, made, results, code, due>>

-----------------------------------------------------------------------------
(* Results                                                                   *)

Status(e) == CASE e = "none" -> "PASS" [] e = "assertion" -> "FAIL" [] OTHER -> "ERROR"

\* _run_one returns its Result, and `run` goes on, unless it is to stop or the
\* program is interrupted.
Record ==
  /\ phase = "cleanup" /\ todo = {}
  /\ IF raised = "interrupt"
     THEN phase' = "ended" /\ code' = "130" /\ UNCHANGED <<results, toRun>>
     ELSE /\ results' = [c \in DOMAIN results \cup {check} |-> IF c = check THEN Status(raised) ELSE results[c]]
          /\ phase' = "next"
          /\ toRun' = IF failFast /\ raised # "none" THEN <<>> ELSE toRun
          /\ UNCHANGED code
  /\ UNCHANGED <<skipped, failFast, check, raised, ids, todo, live, made, history>>

\* Seeded fault: a check that breaks down has not failed.
BugFailures == {c \in DOMAIN results : results[c] = "FAIL"}

Failures == {c \in DOMAIN results : results[c] \in {"FAIL", "ERROR"}}

Summary ==
  /\ phase = "next" /\ toRun = <<>>
  /\ phase' = "ended"
  /\ results' = [c \in DOMAIN results \cup skipped |-> IF c \in skipped THEN "SKIP" ELSE results[c]]
  /\ code' = IF Failures = {} THEN "0" ELSE "1"
  /\ UNCHANGED <<runVars, check, raised, ids, todo, live, made, history>>

Done == phase = "ended" /\ UNCHANGED vars

Step == Begin \/ NewSession \/ Enter \/ Delete \/ DeleteBreaks \/ Record \/ Summary

Next == Start \/ Body \/ Overrun \/ Step \/ Done

Spec == Init /\ [][Next]_vars

\* Requests end, by aiohttp's time limit if need be, and timers fire; checks may hang.
FairSpec == Spec /\ WF_vars(Step) /\ WF_vars(Overrun)

-----------------------------------------------------------------------------
(* Properties                                                                *)

\* Between two checks no session of an earlier one is left on the server, whatever
\* the check or the making of its sessions ran into, save those whose DELETE failed
\* or was never sent because another DELETE raised a TimeoutError, and those whose
\* id got lost (the docstring of owned_sessions).
SessionsFreed == phase \in {"next", "ended"} => live \subseteq excused

\* The run exits with 0 only when nothing has raised, in a check or around it, and
\* with 1 only when something has; every check the arguments are about has a line
\* in the summary, unless the run stops at the first failure.
ExitTells ==
  phase = "ended" =>
    /\ code = "0" => ~trouble
    /\ code = "1" => trouble
    /\ code \in {"0", "1"} /\ ~(failFast /\ trouble) /\ results # <<>> => DOMAIN results = due

\* A run ends although its checks may hang.
Ends == phase = "next" ~> phase = "ended"
=============================================================================
