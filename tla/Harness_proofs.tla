---------------------------- MODULE Harness_proofs ----------------------------
(***************************************************************************)
(* Harness for any registry of checks and any number of sessions: the      *)
(* sessions of a check are deleted, and the exit code tells the truth.     *)
(* What select_checks returns, for any arguments, is SelectedRight.        *)
(***************************************************************************)
EXTENDS Harness, SequenceLemmas

\* Sessions that are not excused are still to be deleted.
FreedInv ==
  live \subseteq excused \cup CASE phase \in {"create", "body"} -> ids
                                [] phase = "cleanup" -> todo
                                [] OTHER -> {}

LEMMA FreedStep == FreedInv /\ [Next]_vars => FreedInv'
<1> SUFFICES ASSUME FreedInv, [Next]_vars PROVE FreedInv'
  OBVIOUS
<1> USE DEF FreedInv
<1>1. CASE Start
  BY <1>1 DEF Start
<1>2. CASE Begin
  BY <1>2 DEF Begin, history
<1>3. CASE NewSession
  BY <1>3 DEF NewSession, RaiseEarly, Raise
<1>4. CASE Enter
  BY <1>4 DEF Enter, history
<1>5. CASE Body \/ Overrun
  BY <1>5 DEF Body, Overrun, Raise
<1>6. CASE Delete
  BY <1>6 DEF Delete
<1>7. CASE DeleteBreaks
  BY <1>7 DEF DeleteBreaks
<1>8. CASE Record
  BY <1>8 DEF Record, history
<1>9. CASE Summary
  BY <1>9 DEF Summary, history
<1>10. CASE UNCHANGED vars
  BY <1>10 DEF vars, history
<1> QED
  BY <1>1, <1>2, <1>3, <1>4, <1>5, <1>6, <1>7, <1>8, <1>9, <1>10 DEF Next, Step, Done

\* No check's sessions outlive it, unless their DELETE failed or their id never
\* arrived (harness.py, owned_sessions).
THEOREM SessionsFreedCorrect == Spec => []SessionsFreed
<1>1. Init => FreedInv
  BY DEF Init, FreedInv
<1>2. FreedInv => SessionsFreed
  BY DEF FreedInv, SessionsFreed
<1> QED
  BY FreedStep, <1>1, <1>2, PTL DEF Spec

-----------------------------------------------------------------------------
(* Selection                                                                 *)

\* select_checks, from check to check.
LEMMA SelectedSteps ==
  ASSUME NEW a
  PROVE  \E to_run : /\ Picks(to_run, CHECKS, {c \in Checks : Considered(a, c) /\ ~LeftOut(a, c)})
                     /\ Selected(a) = to_run[Len(CHECKS)]
<1> DEFINE n == Len(CHECKS)
<1> DEFINE T == {c \in Checks : Considered(a, c) /\ ~LeftOut(a, c)}
<1> DEFINE Unfold(g) == [i \in 0..n |-> IF i = 0 THEN <<>>
                                        ELSE IF Considered(a, CHECKS[i]) /\ ~LeftOut(a, CHECKS[i])
                                             THEN Append(g[i - 1], CHECKS[i])
                                             ELSE g[i - 1]]
<1> DEFINE to_run == CHOOSE g : g = Unfold(g)
<1>0. CHECKS \in Seq(Checks) /\ n \in Nat /\ \A i \in 1..n : CHECKS[i] \in Checks
  BY RegistryAssumption
<1>1. \A i \in 1..n : Considered(a, CHECKS[i]) /\ ~LeftOut(a, CHECKS[i]) <=> CHECKS[i] \in T
  BY <1>0
<1>2. Selected(a) = to_run[n]
  BY Zenon DEF Selected
<1> HIDE DEF n, T
<1>3. \E g : g = Unfold(g)
  <2> DEFINE step == [x \in Seq(Checks) \X (1..n) |->
                        IF CHECKS[x[2]] \in T THEN Append(x[1], CHECKS[x[2]]) ELSE x[1]]
  <2>1. step \in [Seq(Checks) \X (1..n) -> Seq(Checks)]
    BY <1>0
  <2>2. PICK f \in [0..n -> Seq(Checks)] : Starts(f, n, <<>>, step)
    <3>1. <<>> \in Seq(Checks)
      OBVIOUS
    <3> HIDE DEF step
    <3> QED
      BY <1>0, <2>1, <3>1, RecursionExists
  <2>3. ASSUME NEW i \in 1..n
        PROVE  f[i] = IF CHECKS[i] \in T THEN Append(f[i - 1], CHECKS[i]) ELSE f[i - 1]
    <3>1. f[i - 1] \in Seq(Checks)
      BY <1>0
    <3> QED
      BY <2>2, <3>1 DEF Starts
  <2>4. f[0] = <<>> /\ \A i \in 0..n : i # 0 => i \in 1..n
    BY <1>0, <2>2 DEF Starts
  <2>5. f = Unfold(f)
    BY <1>1, <2>3, <2>4
  <2> QED
    BY <2>5
<1>4. to_run = Unfold(to_run)
  BY <1>3
<1> HIDE DEF to_run
<1>5. to_run[0] = <<>> /\ \A i \in 1..n : i \in 0..n /\ i # 0
  BY <1>0, <1>4
<1>6. \A i \in 1..n : to_run[i] = IF CHECKS[i] \in T THEN Append(to_run[i - 1], CHECKS[i])
                                   ELSE to_run[i - 1]
  BY <1>1, <1>4, <1>5
<1>7. Picks(to_run, CHECKS, T)
  BY <1>5, <1>6 DEF Picks, n
<1> QED
  BY <1>2, <1>7 DEF n, T

\* For any arguments the run consists of the checks they are about and do not leave out, each
\* once, in the order they are declared (harness.py, select_checks).
THEOREM SelectedRight ==
  ASSUME NEW a
  PROVE  LET T == {c \in Checks : Considered(a, c) /\ ~LeftOut(a, c)}
         IN  /\ Selected(a) \in Seq(Checks) /\ IsInjective(Selected(a))
             /\ ToSet(Selected(a)) = T
             /\ PickedFrom(Selected(a), CHECKS, T, Len(CHECKS))
<1> DEFINE T == {c \in Checks : Considered(a, c) /\ ~LeftOut(a, c)}
<1>1. PICK to_run : Picks(to_run, CHECKS, T) /\ Selected(a) = to_run[Len(CHECKS)]
  BY SelectedSteps
<1>2. CHECKS \in Seq(Checks) /\ IsInjective(CHECKS) /\ ToSet(CHECKS) \cap T = T
  BY RegistryAssumption DEF Checks
<1> HIDE DEF T
<1>3. LET p == to_run[Len(CHECKS)]
      IN  /\ p \in Seq(Checks) /\ IsInjective(p) /\ ToSet(p) = ToSet(CHECKS) \cap T
          /\ PickedFrom(p, CHECKS, T, Len(CHECKS))
  BY ONLY <1>1, <1>2, PickedOnce, Zenon
<1>4. /\ Selected(a) \in Seq(Checks) /\ IsInjective(Selected(a)) /\ ToSet(Selected(a)) = T
      /\ PickedFrom(Selected(a), CHECKS, T, Len(CHECKS))
  BY <1>1, <1>2, <1>3
<1> QED
  BY <1>4 DEF T

-----------------------------------------------------------------------------
(* The exit code and the summary                                             *)

Listed == {toRun[i] : i \in DOMAIN toRun}

\* Each check still to run is listed once and has no result yet.
ListInv ==
  /\ toRun \in Seq(Checks)
  /\ \A i, j \in 1..Len(toRun) : toRun[i] = toRun[j] => i = j
  /\ Listed \cap DOMAIN results = {}
  /\ phase \in {"create", "body", "cleanup"} => check \notin DOMAIN results \cup Listed

\* Something has raised exactly when a result says so, or is about to.
TroubleInv ==
  /\ phase = "start" => results = <<>> /\ ~trouble
  /\ phase # "ended" =>
       /\ \A c \in DOMAIN results : results[c] \in {"PASS", "FAIL", "ERROR"}
       /\ trouble <=> Failures # {} \/ (phase = "cleanup" /\ raised # "none")
  /\ phase \in {"create", "body"} => raised = "none"

\* Every check the arguments are about has run, runs, will run or is left out.
Running == IF phase \in {"create", "body", "cleanup"} THEN {check} ELSE {}

DueInv ==
  phase \notin {"start", "ended"} /\ ~(failFast /\ trouble) =>
    due = DOMAIN results \cup Listed \cup Running \cup skipped

ExitInv == ListInv /\ TroubleInv /\ DueInv /\ ExitTells /\ failFast \in BOOLEAN /\ trouble \in BOOLEAN

LEMMA TailListed ==
  ASSUME ListInv, toRun # <<>>, toRun' = Tail(toRun)
  PROVE  /\ toRun' \in Seq(Checks) /\ \A i, j \in 1..Len(toRun)' : toRun'[i] = toRun'[j] => i = j
         /\ Listed' = Listed \ {Head(toRun)} /\ Head(toRun) \in Listed
<1>1. /\ toRun \in Seq(Checks) /\ Len(toRun) \in Nat \ {0} /\ Head(toRun) = toRun[1]
      /\ \A i, j \in 1..Len(toRun) : toRun[i] = toRun[j] => i = j
  BY DEF ListInv
<1>2. /\ toRun' \in Seq(Checks) /\ Len(toRun') = Len(toRun) - 1
      /\ \A i \in 1..Len(toRun') : toRun'[i] = toRun[i + 1]
  BY <1>1
<1>3. \A i \in 2..Len(toRun) : i - 1 \in 1..Len(toRun') /\ toRun'[i - 1] = toRun[i]
  BY <1>1, <1>2
<1>4. Listed = {toRun[i] : i \in 1..Len(toRun)} /\ Listed' = {toRun'[i] : i \in 1..Len(toRun')}
  <2>1. DOMAIN toRun = 1..Len(toRun) /\ DOMAIN toRun' = 1..Len(toRun')
    BY <1>1, <1>2
  <2> QED
    BY <2>1 DEF Listed
<1>5. \A i \in 1..Len(toRun') : toRun'[i] \in Listed \ {Head(toRun)}
  BY <1>1, <1>2, <1>4
<1>6. \A c \in Listed \ {Head(toRun)} : c \in Listed'
  <2> SUFFICES ASSUME NEW i \in 1..Len(toRun), i # 1 PROVE toRun[i] \in Listed'
    BY <1>1, <1>4
  <2> QED
    BY <1>1, <1>3, <1>4
<1> QED
  BY <1>1, <1>2, <1>4, <1>5, <1>6

LEMMA StartStep ==
  ASSUME ExitInv, Start
  PROVE  ExitInv'
<1>1. /\ phase = "start" /\ results = <<>> /\ ~trouble /\ DOMAIN results = {}
      /\ UNCHANGED <<failFast, check, raised, results, trouble>>
  BY DEF ExitInv, TroubleInv, Start
<1>2. PICK a \in Arguments :
        IF ~Known(a) THEN phase' = "ended" /\ code' = "2" /\ UNCHANGED <<toRun, skipped, due>>
        ELSE /\ toRun' = Selected(a) /\ skipped' = Skipped(a)
             /\ due' = {c \in Checks : Considered(a, c)}
             /\ IF Selected(a) = <<>> THEN phase' = "ended" /\ code' = "0"
                                      ELSE phase' = "next" /\ UNCHANGED code
  BY DEF Start
<1>3. Failures' = {}
  BY <1>1 DEF Failures
<1>4. TroubleInv'
  BY <1>1, <1>2, <1>3, Zenon DEF TroubleInv
<1>5. CASE ~Known(a)
  BY <1>1, <1>2, <1>4, <1>5 DEF ExitInv, ListInv, DueInv, ExitTells, Listed
<1>6. CASE Known(a)
  <2>1. /\ toRun' = Selected(a) /\ toRun' \in Seq(Checks) /\ IsInjective(toRun')
        /\ ToSet(toRun') = {c \in Checks : Considered(a, c) /\ ~LeftOut(a, c)}
    BY <1>2, <1>6, SelectedRight
  <2>2. Listed' = ToSet(toRun')
    BY DEF Listed, ToSet
  <2>3. ListInv'
    BY <1>1, <1>2, <1>6, <2>1 DEF ListInv, IsInjective
  <2>4. DueInv'
    BY <1>1, <1>2, <1>6, <2>1, <2>2 DEF DueInv, Running, Skipped
  <2>5. ExitTells'
    BY <1>1, <1>2, <1>6 DEF ExitTells
  <2> QED
    BY <1>1, <1>4, <2>3, <2>4, <2>5 DEF ExitInv
<1> QED
  BY <1>5, <1>6

LEMMA RecordStep ==
  ASSUME ExitInv, Record
  PROVE  ExitInv'
<1>1. phase = "cleanup" /\ check \notin DOMAIN results \cup Listed
  BY DEF ExitInv, ListInv, Record
<1>2. UNCHANGED <<skipped, failFast, check, raised, due, trouble>>
  BY DEF Record, history
<1>3. CASE raised = "interrupt"
  BY <1>1, <1>2, <1>3 DEF Record, ExitInv, ListInv, TroubleInv, DueInv, ExitTells, Listed
<1>4. CASE raised # "interrupt"
  <2>1. /\ results' = [c \in DOMAIN results \cup {check} |-> IF c = check THEN Status(raised) ELSE results[c]]
        /\ phase' = "next" /\ code' = code
        /\ toRun' = IF failFast /\ raised # "none" THEN <<>> ELSE toRun
    BY <1>4 DEF Record
  <2>2. /\ DOMAIN results' = DOMAIN results \cup {check}
        /\ results'[check] = Status(raised)
        /\ \A c \in DOMAIN results : results'[c] = results[c]
    BY <1>1, <2>1
  <2>3. /\ Status(raised) \in {"PASS", "FAIL", "ERROR"}
        /\ Status(raised) \in {"FAIL", "ERROR"} <=> raised # "none"
    BY DEF Status
  <2>4. Failures' # {} <=> Failures # {} \/ raised # "none"
    BY <2>2, <2>3 DEF Failures
  <2>5. TroubleInv'
    BY <1>1, <1>2, <2>1, <2>2, <2>3, <2>4 DEF ExitInv, TroubleInv
  <2>6. ListInv' /\ (toRun' = toRun \/ (failFast /\ raised # "none"))
    BY <1>1, <2>1, <2>2 DEF ExitInv, ListInv, Listed
  <2>7. raised # "none" => trouble
    BY <1>1 DEF ExitInv, TroubleInv
  <2>8. DueInv'
    <3>1. CASE failFast /\ raised # "none"
      BY <1>2, <2>7, <3>1 DEF DueInv
    <3>2. CASE toRun' = toRun
      BY <1>1, <1>2, <2>1, <2>2, <3>2 DEF ExitInv, DueInv, Running, Listed
    <3> QED
      BY <2>6, <3>1, <3>2
  <2> QED
    BY <1>2, <2>1, <2>5, <2>6, <2>8 DEF ExitInv, ExitTells
<1> QED
  BY <1>3, <1>4

LEMMA SummaryStep ==
  ASSUME ExitInv, Summary
  PROVE  ExitInv'
<1>1. /\ phase = "next" /\ toRun = <<>> /\ phase' = "ended" /\ Listed = {}
      /\ results' = [c \in DOMAIN results \cup skipped |-> IF c \in skipped THEN "SKIP" ELSE results[c]]
      /\ code' = IF Failures = {} THEN "0" ELSE "1"
      /\ UNCHANGED <<toRun, skipped, failFast, due, trouble>>
  BY DEF Summary, history, runVars, Listed
<1>2. trouble <=> Failures # {}
  BY <1>1 DEF ExitInv, TroubleInv
<1>3. DOMAIN results' = DOMAIN results \cup skipped
  BY <1>1
<1>4. ~(failFast /\ trouble) => due = DOMAIN results'
  BY <1>1, <1>3 DEF ExitInv, DueInv, Running
<1>5. ExitTells'
  BY <1>1, <1>2, <1>4 DEF ExitTells
<1>6. ListInv'
  BY <1>1 DEF ExitInv, ListInv, Listed
<1> QED
  BY <1>1, <1>5, <1>6 DEF ExitInv, TroubleInv, DueInv

LEMMA ExitStep == ExitInv /\ [Next]_vars => ExitInv'
<1> SUFFICES ASSUME ExitInv, [Next]_vars PROVE ExitInv'
  OBVIOUS
<1>1. CASE Start
  BY <1>1, StartStep
<1>2. CASE Begin
  <2>1. /\ phase = "next" /\ phase' = "create" /\ toRun # <<>> /\ toRun' = Tail(toRun)
        /\ check' = Head(toRun) /\ raised' = "none"
        /\ UNCHANGED <<results, trouble, failFast, due, skipped, code>>
    BY <1>2 DEF Begin, history
  <2>2. /\ toRun' \in Seq(Checks) /\ \A i, j \in 1..Len(toRun)' : toRun'[i] = toRun'[j] => i = j
        /\ Listed' = Listed \ {Head(toRun)} /\ Head(toRun) \in Listed
    BY <2>1, TailListed DEF ExitInv
  <2>3. ListInv'
    BY <2>1, <2>2 DEF ExitInv, ListInv
  <2>4. TroubleInv'
    BY <2>1 DEF ExitInv, TroubleInv, Failures
  <2>5. DueInv'
    BY <2>1, <2>2 DEF ExitInv, DueInv, Running
  <2> QED
    BY <2>1, <2>3, <2>4, <2>5 DEF ExitInv, ExitTells
<1>3. ASSUME UNCHANGED <<toRun, skipped, failFast, check, results, code, due>>,
             phase \in {"create", "body", "cleanup"}, phase' \in {"create", "body", "cleanup"},
             \/ phase # "cleanup" /\ phase' # "cleanup" /\ UNCHANGED <<raised, trouble>>
             \/ phase' = "cleanup" /\ trouble' = (trouble \/ raised' # "none")
                /\ (phase = "cleanup" => raised' # "none" \/ raised' = raised)
      PROVE  ExitInv'
  <2>1. Failures' = Failures /\ Listed' = Listed /\ Running' = Running
    BY <1>3 DEF Failures, Listed, Running
  <2>2. ListInv' /\ ExitTells' /\ failFast' \in BOOLEAN /\ trouble' \in BOOLEAN
    BY <1>3, <2>1 DEF ExitInv, ListInv, ExitTells
  <2>3. trouble => trouble'
    BY <1>3
  <2>4. DueInv'
    BY <1>3, <2>1, <2>3 DEF ExitInv, DueInv
  <2>5. trouble' <=> Failures' # {} \/ (phase' = "cleanup" /\ raised' # "none")
    <3>1. trouble <=> Failures # {} \/ (phase = "cleanup" /\ raised # "none")
      BY <1>3 DEF ExitInv, TroubleInv
    <3> QED
      BY <1>3, <2>1, <3>1
  <2>6. /\ \A c \in DOMAIN results' : results'[c] \in {"PASS", "FAIL", "ERROR"}
        /\ phase' \in {"create", "body"} => raised' = "none"
    <3>1. phase # "ended" /\ phase \in {"create", "body"} => raised = "none"
      BY <1>3 DEF ExitInv, TroubleInv
    <3>2. \A c \in DOMAIN results : results[c] \in {"PASS", "FAIL", "ERROR"}
      BY <1>3 DEF ExitInv, TroubleInv
    <3> QED
      BY <1>3, <3>1, <3>2
  <2>7. TroubleInv'
    BY <1>3, <2>5, <2>6 DEF TroubleInv
  <2> QED
    BY <2>2, <2>4, <2>7 DEF ExitInv
<1>4. CASE NewSession \/ Enter \/ Body \/ Overrun
  BY <1>3, <1>4 DEF NewSession, Enter, Body, Overrun, RaiseEarly, Raise, runVars, history
<1>5. CASE Delete
  BY <1>3, <1>5 DEF Delete, runVars, ExitInv, TroubleInv
<1>6. CASE DeleteBreaks
  BY <1>3, <1>6 DEF DeleteBreaks, runVars
<1>7. CASE Record
  BY <1>7, RecordStep
<1>8. CASE Summary
  BY <1>8, SummaryStep
<1>9. CASE UNCHANGED vars
  <2>1. Failures' = Failures /\ Listed' = Listed /\ Running' = Running
    BY <1>9 DEF vars, runVars, Failures, Listed, Running
  <2> QED
    BY <1>9, <2>1 DEF vars, runVars, history, ExitInv, ListInv, TroubleInv, DueInv, ExitTells
<1> QED
  BY <1>1, <1>2, <1>4, <1>5, <1>6, <1>7, <1>8, <1>9 DEF Next, Step, Done

\* The exit code is 0 only when nothing has raised and 1 only when something has,
\* and the summary has a line for every check asked for (harness.py, run).
THEOREM ExitTellsCorrect == Spec => []ExitTells
<1>1. Init => ExitInv
  <2> SUFFICES ASSUME Init PROVE ExitInv
    OBVIOUS
  <2>1. toRun = <<>> /\ results = <<>> /\ phase = "start" /\ trouble = FALSE /\ failFast \in BOOLEAN
    BY DEF Init
  <2>2. DOMAIN toRun = {} /\ DOMAIN results = {} /\ Len(toRun) = 0 /\ toRun \in Seq(Checks)
    BY <2>1
  <2>3. Listed = {} /\ Failures = {}
    BY <2>2 DEF Listed, Failures
  <2>4. ListInv
    BY <2>1, <2>2, <2>3 DEF ListInv
  <2>5. TroubleInv
    BY <2>1, <2>2, <2>3 DEF TroubleInv
  <2> QED
    BY <2>1, <2>4, <2>5 DEF ExitInv, DueInv, ExitTells
<1>2. ExitInv => ExitTells
  BY DEF ExitInv
<1> QED
  BY ExitStep, <1>1, <1>2, PTL DEF Spec
=============================================================================
