---------------------------- MODULE Upload_proofs ----------------------------
(***************************************************************************)
(* No request leaves a temporary file behind (NoDebris), every upload is   *)
(* in place when the program starts (AllLanded), and what was refused left *)
(* nothing in place (InvalidLeavesNothing), for any tree and any number of *)
(* uploads, provided no program outlives its run.                          *)
(*                                                                         *)
(* While a request is under way its temporary files are exactly those of   *)
(* the entries from `next` on, and of the upload being copied; and the     *)
(* walk to each of them is open, so that a discard finds it.  Commits keep *)
(* the walks open: what a commit replaces is no directory.  What is in     *)
(* place is LandInv's: nothing until the first commit, then the entries    *)
(* before `next`.                                                          *)
(***************************************************************************)
EXTENDS Upload, SequenceTheorems, TLAPS

Clear(p) == \A q \in Above(p) : kind[q] = "dir"

Entry(i, p) == [part |-> i, dir |-> Parent(p)]

Pending == {Entry(i, paths[i]) : i \in next..Len(paths)}

Copied == IF phase = "body" THEN {Entry(Len(paths) + 1, target)} ELSE {}

ProgramInv == alive => phase = "run"

ReceiveInv ==
  /\ phase \in {"parts", "body"} => next = 1
  /\ phase = "body" => Len(paths) < MaxParts /\ target \in Files /\ Clear(target)

TempsInv ==
  IF phase \in {"parts", "body", "commit", "discard"}
  THEN /\ temps = Pending \cup Copied
       /\ \A i \in next..Len(paths) : Clear(paths[i])
  ELSE temps = {}

UpInv == TypeOK /\ ProgramInv /\ ReceiveInv /\ TempsInv

-----------------------------------------------------------------------------
(* The tree                                                                *)

\* The directory a file is in is one the walk to it opens.
LEMMA ParentAbove ==
  ASSUME NEW p \in Files
  PROVE  Parent(p) \in Above(p) /\ Parent(p) \in Places
<1>1. p \in Seq(Names) /\ p # <<>>
  BY PlacesAssumption DEF Files
<1>2. Parent(p) \in Places
  BY <1>1, PlacesAssumption DEF Files, Parent
<1>3. Len(p) \in Nat /\ Len(p) # 0
  BY <1>1
<1>4. Parent(p) = SubSeq(p, 1, Len(p) - 1)
  BY DEF Parent, Front
<1>5. Len(Parent(p)) = Len(p) - 1
  <2>1. \A i \in 1..(Len(p) - 1) : p[i] \in Names
    BY <1>1, <1>3
  <2>2. 1 \in Int /\ Len(p) - 1 \in Int
    BY <1>3
  <2>3. Len(SubSeq(p, 1, Len(p) - 1)) = IF 1 <= Len(p) - 1 THEN Len(p) - 1 - 1 + 1 ELSE 0
    BY ONLY <2>1, <2>2, SubSeqProperties
  <2>4. \A k \in Nat : k # 0 => (IF 1 <= k - 1 THEN k - 1 - 1 + 1 ELSE 0) = k - 1
    OBVIOUS
  <2> QED
    BY ONLY <2>3, <2>4, <1>3, <1>4, Zenon
<1>6. Parent(p) # p
  BY <1>3, <1>5
<1>7. IsPrefix(Parent(p), p)
  <2>1. Parent(p) \in Seq(Names)
    BY <1>2, PlacesAssumption
  <2>2. SubSeq(Parent(p), 1, Len(Parent(p))) = Parent(p)
    BY <2>1, SubSeqFull
  <2> QED
    BY <2>2, <1>3, <1>4, <1>5 DEF IsPrefix
<1>8. IsStrictPrefix(Parent(p), p)
  BY <1>6, <1>7 DEF IsStrictPrefix
<1> QED
  BY <1>2, <1>8 DEF Above

\* An open walk is one without blockers.
LEMMA ClearIff ==
  ASSUME NEW p \in Places
  PROVE  Blockers(p, FALSE) = {} <=> Clear(p)
BY DEF Blockers, Clear

\* The directories on the way to p have been made once the walk has made those down
\* to the last.
LEMMA MadeClear ==
  ASSUME NEW p \in Places, Blockers(p, TRUE) = {}, TypeOK,
         kind' = MkDirs(p, Len(p))
  PROVE  Clear(p)'
<1> SUFFICES ASSUME NEW q \in Above(p) PROVE kind'[q] = "dir"
  BY DEF Clear, Above
<1>1. Len(q) <= Len(p)
  BY DEF Above, IsStrictPrefix, IsPrefix
<1>2. kind[q] = "dir" \/ kind[q] = "absent"
  BY DEF Blockers
<1> QED
  BY <1>1, <1>2 DEF MkDirs, Above

\* Making directories closes no walk, and keeps the types.
LEMMA MkDirsKeeps ==
  ASSUME NEW p \in Places, NEW n \in Nat, TypeOK, kind' = MkDirs(p, n)
  PROVE  /\ kind' \in [Places -> Kinds]
         /\ \A q \in Places : Clear(q) => Clear(q)'
BY DEF MkDirs, TypeOK, Kinds, Clear, Above

-----------------------------------------------------------------------------
(* The invariant                                                           *)

LEMMA UpInit == Init => UpInv
<1> SUFFICES ASSUME Init PROVE UpInv
  OBVIOUS
<1>1. TypeOK
  <2>1. paths \in Seq(Files) /\ Len(paths) = 0
    BY DEF Init
  <2>2. MaxParts \in Nat /\ MaxParts # 0 /\ <<>> \in Places
    BY PlacesAssumption
  <2>3. kind \in [Places -> Kinds] /\ content \in [Places -> 0..MaxParts]
    BY <2>2 DEF Init, Kinds
  <2>4. next \in 1..(MaxParts + 1) /\ Len(paths) <= MaxParts
    BY <2>1, <2>2 DEF Init
  <2>5. text \in [Fields -> {"missing", "good", "bad"}]
    BY DEF Init
  <2> QED
    BY <2>1, <2>2, <2>3, <2>4, <2>5 DEF Init, TypeOK
<1> QED
  BY <1>1 DEF Init, UpInv, ProgramInv, ReceiveInv, TempsInv

\* A step that refuses, with the tree and the staged entries as they are.
LEMMA RefuseKeeps ==
  ASSUME UpInv, NEW code \in {400, 413, 500}, Refuse(code),
         phase \in {"parts", "commit"}, temps' = temps, UNCHANGED <<content, alive>>,
         target' \in Places,
         kind' \in [Places -> Kinds],
         \A q \in Places : Clear(q) => Clear(q)'
  PROVE  UpInv'
<1>1. TypeOK'
  BY DEF UpInv, TypeOK, Refuse
<1>2. ProgramInv' /\ ReceiveInv'
  BY DEF UpInv, ProgramInv, ReceiveInv, Refuse
<1>3. \A i \in next..Len(paths) : paths[i] \in Places
  BY DEF UpInv, TypeOK, Files
<1>4. TempsInv'
  BY <1>3 DEF UpInv, TempsInv, Refuse, Pending, Copied, Entry
<1> QED
  BY <1>1, <1>2, <1>4 DEF UpInv

\* stage_file up to its first byte.
LEMMA OpenKeeps ==
  ASSUME UpInv, NEW p \in Files, Attach(p)
  PROVE  UpInv'
<1>a. phase = "parts" /\ Len(paths) < MaxParts /\ UNCHANGED alive
  BY DEF Attach
<1>b. TypeOK /\ p \in Places /\ Len(p) \in Nat
  BY PlacesAssumption DEF UpInv, Files
<1>1. CASE Blockers(p, TRUE) # {} /\ Refuse(WalkCode(p, TRUE)) /\ UNCHANGED <<target, treeVars>>
  <2>1. WalkCode(p, TRUE) \in {400, 413, 500}
    BY DEF WalkCode
  <2>2. target' \in Places /\ kind' \in [Places -> Kinds]
    BY <1>1, <1>b DEF treeVars, TypeOK
  <2>3. \A q \in Places : Clear(q) => Clear(q)'
    BY <1>1 DEF Clear, Above, treeVars
  <2> QED
    BY <1>1, <1>a, <2>1, <2>2, <2>3, RefuseKeeps DEF treeVars
<1>2. ASSUME NEW n \in 0..Len(p), kind' = MkDirs(p, n), Refuse(413),
             UNCHANGED <<target, content, temps>>
      PROVE  UpInv'
  <2>1. n \in Nat
    BY <1>b
  <2>2. kind' \in [Places -> Kinds] /\ \A q \in Places : Clear(q) => Clear(q)'
    BY <1>2, <1>b, <2>1, MkDirsKeeps
  <2>3. target' \in Places
    BY <1>2, <1>b DEF TypeOK
  <2> QED
    BY <1>2, <1>a, <2>2, <2>3, RefuseKeeps
<1>3. CASE /\ Blockers(p, TRUE) = {}
           /\ kind' = MkDirs(p, Len(p))
           /\ temps' = temps \cup {[part |-> Len(paths) + 1, dir |-> Parent(p)]}
           /\ target' = p
           /\ phase' = "body"
           /\ UNCHANGED <<req, answer, text, paths, next, content>>
  <2>1. kind' \in [Places -> Kinds] /\ \A q \in Places : Clear(q) => Clear(q)'
    BY <1>3, <1>b, MkDirsKeeps
  <2>2. Clear(p)'
    BY <1>3, <1>b, MadeClear
  <2>3. Len(paths) + 1 \in Parts
    BY <1>a, <1>b, PlacesAssumption DEF TypeOK, Parts
  <2>4. TypeOK'
    BY <1>3, <1>a, <1>b, <2>1, <2>3, ParentAbove DEF TypeOK
  <2>5. ProgramInv'
    BY <1>3, <1>a DEF UpInv, ProgramInv
  <2>6. ReceiveInv'
    BY <1>3, <1>a, <2>2 DEF UpInv, ReceiveInv
  <2>7. \A i \in next..Len(paths) : Clear(paths[i])'
    BY <1>3, <1>a, <1>b, <2>1 DEF UpInv, TempsInv, TypeOK, Files
  <2>8. temps' = Pending' \cup Copied'
    BY <1>3, <1>a DEF UpInv, TempsInv, Pending, Copied, Entry
  <2>9. TempsInv'
    BY <1>3, <2>7, <2>8 DEF TempsInv, Clear
  <2> QED
    BY <2>4, <2>5, <2>6, <2>9 DEF UpInv
<1> QED
  BY <1>1, <1>2, <1>3 DEF Attach, Open

-----------------------------------------------------------------------------
(* The steps                                                               *)

LEMMA ReceiveKeeps ==
  ASSUME UpInv,
         \/ BeginExecute \/ BeginPut \/ BadPart \/ BodyFails \/ BodyEnds \/ PartsEnd
         \/ \E f \in Fields : Text(f)
  PROVE  UpInv'
<1>a. TypeOK
  BY DEF UpInv
<1>b. MaxParts \in Nat /\ MaxParts # 0
  BY PlacesAssumption
<1>1. ASSUME NEW r \in {"execute", "put"}, Begin(r), phase' = "parts" PROVE UpInv'
  <2>1. paths' \in Seq(Files) /\ Len(paths') = 0 /\ next' = 1
    BY <1>1 DEF Begin
  <2>2. text' \in [Fields -> {"missing", "good", "bad"}] /\ content' \in [Places -> 0..MaxParts]
    BY <1>1, <1>b DEF Begin
  <2>3. TypeOK'
    BY <1>1, <1>a, <1>b, <2>1, <2>2 DEF Begin, TypeOK
  <2>4. ProgramInv'
    BY <1>1 DEF UpInv, ProgramInv, Begin
  <2>5. TempsInv' /\ ReceiveInv'
    BY <1>1, <2>1 DEF Begin, TempsInv, ReceiveInv, Pending, Copied
  <2> QED
    BY <2>3, <2>4, <2>5 DEF UpInv
<1>2. CASE BadPart
  <2>1. \A q \in Places : Clear(q) => Clear(q)'
    BY <1>2 DEF BadPart, treeVars, Clear, Above
  <2> QED
    BY <1>2, <1>a, <2>1, RefuseKeeps DEF BadPart, treeVars, TypeOK
<1>3. CASE BodyFails
  <2>1. phase = "body" /\ next = 1 /\ target \in Files /\ Clear(target)
    BY <1>3 DEF BodyFails, UpInv, ReceiveInv
  <2>2. Len(paths) \in Nat
    BY <1>a DEF TypeOK
  <2>3. temps = Pending \cup {Entry(Len(paths) + 1, target)}
    BY <2>1 DEF UpInv, TempsInv, Copied
  <2>4. Current = {Entry(Len(paths) + 1, target)}
    BY <2>1, <2>2, <2>3 DEF Current, Entry, Pending
  <2>5. kind[Parent(target)] = "dir"
    BY <2>1, ParentAbove DEF Clear
  <2>6. temps' = Pending /\ UNCHANGED <<kind, content, alive>> /\ target' = <<>>
    BY <1>3, <2>2, <2>3, <2>4, <2>5 DEF BodyFails, Entry, Pending
  <2>7. PICK code \in {400, 413} : Refuse(code)
    BY <1>3, <2>4, <2>5 DEF BodyFails, Entry
  <2>8. TypeOK'
    <3>1. temps' \subseteq temps
      BY <2>3, <2>6
    <3> QED
      BY <1>a, <2>6, <2>7, <3>1, PlacesAssumption DEF TypeOK, Refuse
  <2>9. ProgramInv' /\ ReceiveInv'
    BY <2>1, <2>6, <2>7 DEF UpInv, ProgramInv, ReceiveInv, Refuse
  <2>10. TempsInv'
    BY <2>1, <2>6, <2>7 DEF UpInv, TempsInv, Refuse, Pending, Copied, Entry, Clear
  <2> QED
    BY <2>8, <2>9, <2>10 DEF UpInv
<1>4. CASE BodyEnds
  <2>1. /\ phase = "body" /\ next = 1 /\ target \in Files /\ Clear(target)
        /\ Len(paths) < MaxParts
    BY <1>4 DEF BodyEnds, UpInv, ReceiveInv
  <2>2. paths \in Seq(Files) /\ Len(paths) \in Nat
    BY <1>a DEF TypeOK
  <2>3. /\ paths' \in Seq(Files) /\ Len(paths') = Len(paths) + 1
        /\ \A i \in 1..Len(paths) : paths'[i] = paths[i]
        /\ paths'[Len(paths) + 1] = target
    BY <1>4, <2>1, <2>2 DEF BodyEnds
  <2>4. UNCHANGED <<kind, content, temps, alive, next>> /\ phase' \in {"commit", "parts"}
    BY <1>4 DEF BodyEnds, treeVars
  <2>5. TypeOK'
    BY <1>4, <1>a, <1>b, <2>1, <2>2, <2>3, <2>4, PlacesAssumption DEF TypeOK, BodyEnds
  <2>6. ProgramInv' /\ ReceiveInv'
    BY <2>1, <2>4 DEF UpInv, ProgramInv, ReceiveInv
  <2>7. temps = Pending \cup {Entry(Len(paths) + 1, target)}
    BY <2>1 DEF UpInv, TempsInv, Copied
  <2>8. Pending' = Pending \cup {Entry(Len(paths) + 1, target)}
    BY <2>1, <2>2, <2>3, <2>4 DEF Pending, Entry
  <2>9. Copied' = {}
    BY <2>4 DEF Copied
  <2>10. \A i \in next'..Len(paths') : Clear(paths[i])' 
    BY <2>1, <2>2, <2>3, <2>4 DEF UpInv, TempsInv, Clear
  <2>11. TempsInv'
    BY <2>4, <2>7, <2>8, <2>9, <2>10 DEF TempsInv
  <2> QED
    BY <2>5, <2>6, <2>11 DEF UpInv
<1>5. CASE PartsEnd
  <2>1. \A q \in Places : Clear(q) => Clear(q)'
    BY <1>5 DEF PartsEnd, treeVars, Clear, Above
  <2>2. CASE Refuse(400)
    BY <1>5, <1>a, <2>1, <2>2, RefuseKeeps DEF PartsEnd, treeVars, TypeOK
  <2>3. CASE phase' = "commit" /\ UNCHANGED <<req, answer, text, paths, next>>
    BY <1>5, <2>3
    DEF PartsEnd, treeVars, UpInv, TypeOK, ProgramInv, ReceiveInv, TempsInv, Pending, Copied, Clear
  <2> QED
    BY <1>5, <2>2, <2>3 DEF PartsEnd
<1>6. ASSUME NEW f \in Fields, Text(f) PROVE UpInv'
  <2>1. \A q \in Places : Clear(q) => Clear(q)'
    BY <1>6 DEF Text, treeVars, Clear, Above
  <2>2. CASE \E code \in {400, 413} : Refuse(code)
    BY <1>6, <1>a, <2>1, <2>2, RefuseKeeps DEF Text, treeVars, TypeOK
  <2>3. CASE /\ \E v \in {"good", "bad"} : text' = [text EXCEPT ![f] = v]
             /\ UNCHANGED <<phase, req, answer, paths, next>>
    <3>1. text' \in [Fields -> {"missing", "good", "bad"}]
      BY <2>3, <1>a DEF TypeOK
    <3> QED
      BY <1>6, <2>3, <3>1
      DEF Text, treeVars, UpInv, TypeOK, ProgramInv, ReceiveInv, TempsInv, Pending, Copied, Clear
  <2> QED
    BY <1>6, <2>2, <2>3 DEF Text
<1> QED
  BY <1>1, <1>2, <1>3, <1>4, <1>5, <1>6 DEF BeginExecute, BeginPut

\* A staged entry's file is where its path leads, and is its own.
LEMMA StagedAre ==
  ASSUME UpInv, phase \in {"commit", "discard"}, next <= Len(paths)
  PROVE  /\ next \in 1..Len(paths) /\ paths[next] \in Files
         /\ Blockers(paths[next], FALSE) = {}
         /\ Staged(next) = {Entry(next, paths[next])}
         /\ temps \ Staged(next) = {Entry(i, paths[i]) : i \in (next + 1)..Len(paths)}
<1>1. Len(paths) \in Nat /\ next \in 1..Len(paths) /\ paths[next] \in Files
  BY PlacesAssumption DEF UpInv, TypeOK
<1>2. Clear(paths[next])
  BY <1>1 DEF UpInv, TempsInv
<1>3. Blockers(paths[next], FALSE) = {}
  BY <1>1, <1>2, ClearIff DEF Files
<1>4. temps = {Entry(i, paths[i]) : i \in next..Len(paths)}
  BY DEF UpInv, TempsInv, Pending, Copied
<1>5. Staged(next) = {Entry(next, paths[next])}
  BY <1>1, <1>4 DEF Staged, Entry
<1>6. temps \ Staged(next) = {Entry(i, paths[i]) : i \in (next + 1)..Len(paths)}
  BY <1>1, <1>4, <1>5 DEF Entry
<1> QED
  BY <1>1, <1>3, <1>5, <1>6

LEMMA StagedListKeeps ==
  ASSUME UpInv, StagedList
  PROVE  UpInv'
<1>a. TypeOK /\ Len(paths) \in Nat /\ MaxParts \in Nat
  BY PlacesAssumption DEF UpInv, TypeOK
<1>1. CASE Commit
  <2>1. phase = "commit" /\ next <= Len(paths) /\ UNCHANGED <<target, alive>>
    BY <1>1 DEF Commit
  <2>2. CASE /\ Landing(next) /\ Land(next) /\ next' = next + 1
             /\ UNCHANGED <<phase, req, answer, text, paths>>
    <3>1. next \in 1..Len(paths) /\ paths[next] \in Places
      BY <2>1, StagedAre DEF Files
    <3>2. temps' = {Entry(i, paths[i]) : i \in (next + 1)..Len(paths)}
      BY <2>1, <2>2, StagedAre DEF Land
    <3>3. kind' \in [Places -> Kinds] /\ content' \in [Places -> 0..MaxParts]
      BY <1>a, <2>2, <3>1 DEF Land, TypeOK, Kinds
    <3>4. temps' \subseteq temps
      BY <2>2 DEF Land
    <3>5. TypeOK'
      BY <1>a, <2>1, <2>2, <3>1, <3>3, <3>4 DEF TypeOK
    <3>6. ProgramInv' /\ ReceiveInv'
      BY <2>1, <2>2 DEF UpInv, ProgramInv, ReceiveInv
    <3>7. \A i \in next'..Len(paths') : Clear(paths[i])'
      <4> SUFFICES ASSUME NEW i \in (next + 1)..Len(paths),
                          NEW q \in Above(paths[i])
                   PROVE  kind'[q] = "dir"
        BY <1>a, <2>2 DEF Clear
      <4>1. kind[q] = "dir"
        BY <1>a, <2>1, <3>1 DEF UpInv, TempsInv, Clear
      <4>2. kind[paths[next]] # "dir"
        BY <2>2 DEF Landing
      <4> QED
        BY <1>a, <2>2, <3>1, <4>1, <4>2 DEF Land, TypeOK, Above
    <3>8. TempsInv'
      BY <2>1, <2>2, <3>2, <3>7 DEF TempsInv, Pending, Copied, Entry, Clear
    <3> QED
      BY <3>5, <3>6, <3>8 DEF UpInv
  <2>3. ASSUME NEW code \in CommitCodes(next), Refuse(code), UNCHANGED treeVars PROVE UpInv'
    <3>1. code \in {400, 413, 500}
      BY <2>3 DEF CommitCodes, WalkCode
    <3>2. \A q \in Places : Clear(q) => Clear(q)'
      BY <2>3 DEF treeVars, Clear, Above
    <3> QED
      BY <1>a, <2>1, <2>3, <3>1, <3>2, RefuseKeeps DEF treeVars, TypeOK
  <2> QED
    BY <1>1, <2>2, <2>3 DEF Commit
<1>2. CASE Committed
  <2>1. temps = {}
    BY <1>2, <1>a DEF Committed, UpInv, TypeOK, TempsInv, Pending, Copied
  <2> QED
    BY <1>2, <2>1 DEF Committed, treeVars, UpInv, TypeOK, ProgramInv, ReceiveInv, TempsInv
<1>3. CASE Discard
  <2>1. phase = "discard" /\ next <= Len(paths) /\ next' = next + 1
    BY <1>3 DEF Discard
  <2>2. next \in 1..Len(paths) /\ temps' = {Entry(i, paths[i]) : i \in (next + 1)..Len(paths)}
    BY <1>3, <2>1, StagedAre DEF Discard
  <2>3. temps' \subseteq temps
    BY <1>3 DEF Discard
  <2>a. UNCHANGED <<phase, req, answer, text, paths, target, kind, content, alive>>
    BY <1>3 DEF Discard
  <2>4. TypeOK'
    <3>1. next' \in 1..(MaxParts + 1)
      BY <1>a, <2>1, <2>2 DEF TypeOK
    <3> QED
      BY <1>a, <2>3, <2>a, <3>1 DEF TypeOK
  <2>5. ProgramInv' /\ ReceiveInv'
    BY <2>1, <2>a DEF UpInv, ProgramInv, ReceiveInv
  <2>b. \A i \in next'..Len(paths') : Clear(paths[i])'
    BY <1>a, <2>1, <2>2, <2>a DEF UpInv, TempsInv, Clear, Above
  <2>c. temps' = Pending' /\ Copied' = {}
    BY <2>1, <2>2, <2>a DEF Pending, Copied, Entry
  <2>6. TempsInv'
    BY <2>1, <2>a, <2>b, <2>c DEF TempsInv
  <2> QED
    BY <2>4, <2>5, <2>6 DEF UpInv
<1>4. CASE Discarded
  <2>1. temps = {}
    BY <1>4, <1>a DEF Discarded, UpInv, TypeOK, TempsInv, Pending, Copied
  <2> QED
    BY <1>4, <2>1 DEF Discarded, treeVars, UpInv, TypeOK, ProgramInv, ReceiveInv, TempsInv
<1> QED
  BY <1>1, <1>2, <1>3, <1>4 DEF StagedList

\* Outside a request's own handling of its entries there is no temporary file.
LEMMA RunKeeps ==
  ASSUME UpInv, ~ProgramSurvives,
         NoSlot \/ RunStarts \/ RunFails \/ RunEnds \/ Program \/ \E p \in Files : DeleteFile(p)
  PROVE  UpInv'
<1>a. TypeOK /\ MaxParts \in Nat
  BY PlacesAssumption DEF UpInv
<1>1. CASE NoSlot \/ RunStarts \/ RunFails \/ RunEnds
  <2>1. /\ phase \in {"slot", "run"} /\ phase' \in {"idle", "run"}
        /\ answer' \in {answer, 200, 400, 500, 503}
        /\ UNCHANGED <<req, text, paths, next, target, treeVars>>
    <3>1. CASE RunStarts
      BY <3>1 DEF RunStarts
    <3>2. CASE NoSlot
      BY <3>2 DEF NoSlot, Finish
    <3>3. CASE RunFails
      BY <3>3 DEF RunFails, Finish
    <3>4. CASE RunEnds
      BY <3>4 DEF RunEnds, Finish
    <3> QED
      BY <1>1, <3>1, <3>2, <3>3, <3>4
  <2>a. alive' \in BOOLEAN
    <3>1. alive \in BOOLEAN /\ ProgramSurvives \in BOOLEAN
      BY <1>a, PlacesAssumption DEF TypeOK
    <3> QED
      BY <1>1, <3>1, Zenon DEF NoSlot, RunStarts, RunFails, RunEnds
  <2>2. TypeOK'
    BY <2>1, <2>a, <1>a DEF TypeOK, treeVars
  <2>3. ReceiveInv' /\ TempsInv'
    BY <2>1 DEF UpInv, ReceiveInv, TempsInv, treeVars
  <2>4. ProgramInv'
    BY <1>1 DEF NoSlot, RunStarts, RunFails, RunEnds, Finish, UpInv, ProgramInv
  <2> QED
    BY <2>2, <2>3, <2>4 DEF UpInv
<1>2. ASSUME NEW p \in Files, DeleteFile(p) PROVE UpInv'
  <2>1. kind' = [kind EXCEPT ![p] = "absent"] /\ content' = [content EXCEPT ![p] = 0]
    BY <1>2 DEF DeleteFile
  <2>2. kind' \in [Places -> Kinds] /\ content' \in [Places -> 0..MaxParts]
    <3>1. kind \in [Places -> Kinds] /\ content \in [Places -> 0..MaxParts]
      BY <1>a DEF TypeOK
    <3>2. kind' \in [Places -> Kinds]
      BY <2>1, <3>1 DEF Kinds
    <3>3. content' \in [Places -> 0..MaxParts]
      <4>1. 0 \in 0..MaxParts
        BY <1>a
      <4> QED
        BY <2>1, <3>1, <4>1
    <3> QED
      BY <3>2, <3>3
  <2>3. /\ phase = "idle" /\ req' = "none" /\ answer' = 204
        /\ UNCHANGED <<phase, text, paths, next, target, temps, alive>>
    BY <1>2 DEF DeleteFile
  <2>4. TypeOK'
    BY <2>2, <2>3, <1>a DEF TypeOK
  <2>5. ProgramInv' /\ ReceiveInv' /\ TempsInv'
    BY <2>3 DEF UpInv, ProgramInv, ReceiveInv, TempsInv
  <2> QED
    BY <2>4, <2>5 DEF UpInv
<1>3. CASE Program
  <2>1. alive /\ phase = "run" /\ temps = {}
    BY <1>3
    DEF Program, ProgramChmods, ProgramMakes, ProgramRemoves, ProgramMoves, UpInv, ProgramInv, TempsInv
  <2>2. temps' = {} /\ UNCHANGED <<reqVars, alive>>
    BY <1>3, <2>1 DEF Program, ProgramChmods, ProgramMakes, ProgramRemoves, ProgramMoves
  <2>3. kind' \in [Places -> Kinds]
    <3>a. kind \in [Places -> Kinds]
      BY <1>a DEF TypeOK
    <3>1. ASSUME NEW p \in Places, ProgramChmods(p) PROVE kind' \in [Places -> Kinds]
      BY <3>a, <3>1 DEF ProgramChmods, Kinds
    <3>2. ASSUME NEW p \in Files, ProgramMakes(p) PROVE kind' \in [Places -> Kinds]
      BY <3>a, <3>2 DEF ProgramMakes, Kinds
    <3>3. ASSUME NEW p \in Files, ProgramRemoves(p) PROVE kind' \in [Places -> Kinds]
      BY <3>a, <3>3 DEF ProgramRemoves, Kinds
    <3>4. ASSUME NEW p \in Files, NEW q \in Files, ProgramMoves(p, q)
          PROVE  kind' \in [Places -> Kinds]
      BY <3>a, <3>4 DEF ProgramMoves, Kinds
    <3> QED
      BY <1>3, <3>1, <3>2, <3>3, <3>4 DEF Program
  <2>4. content' \in [Places -> 0..MaxParts]
    BY <1>3, <1>a
    DEF Program, ProgramChmods, ProgramMakes, ProgramRemoves, ProgramMoves, TypeOK
  <2> QED
    BY <2>1, <2>2, <2>3, <2>4 DEF reqVars, UpInv, TypeOK, ProgramInv, ReceiveInv, TempsInv
<1> QED
  BY <1>1, <1>2, <1>3

-----------------------------------------------------------------------------
(* The theorems                                                            *)

THEOREM UpCorrect == ASSUME ~ProgramSurvives PROVE Spec => []UpInv
<1>1. UpInv /\ [Next]_vars => UpInv'
  <2> SUFFICES ASSUME UpInv, [Next]_vars PROVE UpInv'
    OBVIOUS
  <2>1. CASE UNCHANGED vars
    <3>1. UNCHANGED <<phase, req, answer, text, paths, next, target, kind, content, temps, alive>>
      BY <2>1 DEF vars, reqVars, treeVars
    <3>2. TypeOK'
      BY <3>1 DEF UpInv, TypeOK
    <3>3. ProgramInv' /\ ReceiveInv'
      BY <3>1 DEF UpInv, ProgramInv, ReceiveInv, Clear, Above
    <3>4. TempsInv'
      BY <3>1 DEF UpInv, TempsInv, Pending, Copied, Entry, Clear, Above
    <3> QED
      BY <3>2, <3>3, <3>4 DEF UpInv
  <2>2. ASSUME NEW p \in Files, Attach(p) PROVE UpInv'
    BY <2>2, OpenKeeps
  <2>3. CASE Next
    BY <2>2, <2>3, ReceiveKeeps, StagedListKeeps, RunKeeps DEF Next, Execute, Put
  <2> QED
    BY <2>1, <2>3
<1> QED
  BY <1>1, UpInit, PTL DEF Spec

\* Every reachable state of the upload protocol has its types, for any tree of paths.
THEOREM UploadTypeCorrect == ASSUME ~ProgramSurvives PROVE Spec => []TypeOK
<1>1. UpInv => TypeOK
  BY DEF UpInv
<1> QED
  BY <1>1, UpCorrect, PTL

\* However a request ends, no temporary file of it is left, and none is there while a
\* program runs.
THEOREM NoDebrisCorrect == ASSUME ~ProgramSurvives PROVE Spec => []NoDebris
<1>1. UpInv => NoDebris
  BY DEF UpInv, TempsInv, NoDebris
<1> QED
  BY <1>1, UpCorrect, PTL

-----------------------------------------------------------------------------
(* What is in place                                                          *)

Untouched == \A p \in Places : content[p] = 0

\* The uploads before the n-th are in place, of two with one path the later.
LandedUpTo(n) ==
  \A i \in 1..(n - 1) : \E j \in i..(n - 1) : paths[j] = paths[i] /\ content[paths[i]] = j

Valid == \A f \in Fields : text[f] = "good"

ReceivedInv ==
  phase \in {"parts", "body"} =>
    /\ req \in {"execute", "put"} /\ answer = 0 /\ Untouched
    /\ req = "put" => Len(paths) = 0

CommitInv ==
  phase = "commit" =>
    /\ next <= Len(paths) + 1 /\ LandedUpTo(next)
    /\ \/ req = "put" /\ Len(paths) = 1 /\ (next = 1 => Untouched)
       \/ req = "execute" /\ Valid

DiscardInv ==
  phase = "discard" =>
    /\ req \in {"execute", "put"}
    /\ answer \in {400, 413, 500}
    /\ req = "put" \/ ~Valid => Untouched

RunInv ==
  /\ phase \in {"slot", "run"} => req = "execute" /\ Valid
  /\ phase = "slot" => next = Len(paths) + 1 /\ LandedUpTo(next)

LandInv ==
  /\ ReceivedInv
  /\ CommitInv
  /\ DiscardInv
  /\ RunInv
  /\ phase = "idle" => AllLanded /\ InvalidLeavesNothing

LEMMA LandedAll ==
  ASSUME Len(paths) \in Nat, DOMAIN paths = 1..Len(paths), LandedUpTo(Len(paths) + 1)
  PROVE  \A i \in DOMAIN paths :
           \E j \in DOMAIN paths : j >= i /\ paths[j] = paths[i] /\ content[paths[i]] = j
<1>1. Len(paths) + 1 - 1 = Len(paths)
  OBVIOUS
<1>2. ASSUME NEW i \in 1..Len(paths)
      PROVE  \E j \in 1..Len(paths) : j >= i /\ paths[j] = paths[i] /\ content[paths[i]] = j
  <2>1. PICK j \in i..Len(paths) : paths[j] = paths[i] /\ content[paths[i]] = j
    BY <1>1 DEF LandedUpTo
  <2>2. j \in 1..Len(paths) /\ j >= i
    BY <2>1
  <2> QED
    BY <2>1, <2>2
<1> QED
  BY <1>2

\* A refusal while nothing is in place, or of valid fields.
LEMMA LandRefuse ==
  ASSUME UpInv, NEW code \in {400, 413, 500}, Refuse(code), req \in {"execute", "put"},
         content' = content, req = "put" \/ ~Valid => Untouched
  PROVE  LandInv'
<1>1. phase' = "discard" /\ answer' = code /\ UNCHANGED <<req, text, content>>
  BY DEF Refuse
<1>2. (Valid' <=> Valid) /\ (Untouched' <=> Untouched)
  BY <1>1 DEF Valid, Untouched
<1> QED
  BY <1>1, <1>2 DEF LandInv, ReceivedInv, CommitInv, DiscardInv, RunInv

LEMMA LandReceive ==
  ASSUME UpInv, LandInv,
         \/ BeginExecute \/ BeginPut \/ BadPart \/ BodyFails \/ BodyEnds \/ PartsEnd
         \/ (\E f \in Fields : Text(f)) \/ \E p \in Files : Attach(p)
  PROVE  LandInv'
<1>0. TypeOK /\ Len(paths) \in Nat
  BY DEF UpInv, TypeOK
<1>1. CASE BeginExecute \/ BeginPut
  <2>1. phase' = "parts" /\ req' \in {"execute", "put"} /\ answer' = 0 /\ Len(paths') = 0 /\ Untouched'
    BY <1>1 DEF BeginExecute, BeginPut, Begin, Untouched
  <2> QED
    BY <2>1 DEF LandInv, ReceivedInv, CommitInv, DiscardInv, RunInv
<1>2. ASSUME phase \in {"parts", "body"}, phase' \in {"parts", "body"}, UNCHANGED <<req, answer, content>>,
             paths' = paths \/ req = "execute"
      PROVE  LandInv'
  <2>1. Untouched'
    BY <1>2 DEF LandInv, ReceivedInv, Untouched
  <2> QED
    BY <1>2, <2>1 DEF LandInv, ReceivedInv, CommitInv, DiscardInv, RunInv
<1>3. ASSUME phase \in {"parts", "body"}, NEW code \in {400, 413, 500}, Refuse(code), content' = content
      PROVE  LandInv'
  BY <1>3, LandRefuse DEF LandInv, ReceivedInv
<1>4. CASE BadPart
  BY <1>3, <1>4 DEF BadPart, treeVars
<1>5. CASE BodyFails
  BY <1>3, <1>5 DEF BodyFails
<1>6. CASE BodyEnds
  <2>1. /\ phase = "body" /\ UNCHANGED <<req, answer, content, text>> /\ next = 1 /\ next' = next
        /\ paths' = Append(paths, target) /\ phase' = IF req = "put" THEN "commit" ELSE "parts"
    BY <1>6 DEF BodyEnds, treeVars, UpInv, ReceiveInv
  <2>2. CASE req = "put"
    <3>1. Len(paths) = 0 /\ Untouched
      BY <2>1, <2>2 DEF LandInv, ReceivedInv
    <3>2. Len(paths') = 1
      BY <1>0, <2>1, <3>1 DEF TypeOK
    <3>3. LandedUpTo(next)'
      BY <2>1 DEF LandedUpTo
    <3>4. Untouched'
      BY <2>1, <3>1 DEF Untouched
    <3>5. next' <= Len(paths') + 1
      BY <2>1, <3>2
    <3> QED
      BY <2>1, <2>2, <3>2, <3>3, <3>4, <3>5 DEF LandInv, ReceivedInv, CommitInv, DiscardInv, RunInv
  <2>3. CASE req # "put"
    BY <1>2, <2>1, <2>3 DEF LandInv, ReceivedInv
  <2> QED
    BY <2>2, <2>3
<1>7. CASE PartsEnd
  <2>1. phase = "parts" /\ req = "execute" /\ content' = content
    BY <1>7 DEF PartsEnd, treeVars
  <2>2. CASE Valid /\ phase' = "commit" /\ UNCHANGED <<req, text, paths, next>>
    <3>1. next' = 1 /\ Valid'
      BY <2>1, <2>2 DEF UpInv, ReceiveInv, Valid
    <3>2. LandedUpTo(next)'
      BY <3>1 DEF LandedUpTo
    <3>3. next' <= Len(paths') + 1
      BY <1>0, <2>2, <3>1
    <3> QED
      BY <2>1, <2>2, <3>1, <3>2, <3>3 DEF LandInv, ReceivedInv, CommitInv, DiscardInv, RunInv
  <2>3. CASE Refuse(400)
    BY <1>3, <2>1, <2>3
  <2> QED
    BY <1>7, <2>2, <2>3 DEF PartsEnd, Valid
<1>8. ASSUME NEW f \in Fields, Text(f) PROVE LandInv'
  BY <1>2, <1>3, <1>8 DEF Text, treeVars
<1>9. ASSUME NEW p \in Files, Attach(p) PROVE LandInv'
  <2>1. phase = "parts" /\ Open(p)
    BY <1>9 DEF Attach
  <2>2. WalkCode(p, TRUE) \in {400, 500}
    BY DEF WalkCode
  <2>3. CASE Refuse(WalkCode(p, TRUE)) /\ UNCHANGED <<target, treeVars>>
    <3>1. PICK code \in {400, 500} : code = WalkCode(p, TRUE)
      BY <2>2
    <3>2. code \in {400, 413, 500} /\ Refuse(code) /\ content' = content
      BY <2>3, <3>1 DEF treeVars
    <3> QED
      BY <1>3, <2>1, <3>2
  <2>4. CASE Refuse(413) /\ UNCHANGED <<target, content, temps>>
    BY <1>3, <2>1, <2>4
  <2>5. CASE phase' = "body" /\ UNCHANGED <<req, answer, text, paths, next, content>>
    BY <1>2, <2>1, <2>5
  <2> QED
    BY ONLY <2>1, <2>3, <2>4, <2>5 DEF Open
<1> QED
  BY <1>1, <1>4, <1>5, <1>6, <1>7, <1>8, <1>9

LEMMA LandCommit ==
  ASSUME UpInv, LandInv, StagedList
  PROVE  LandInv'
<1>0. TypeOK /\ Len(paths) \in Nat /\ next \in Nat /\ next >= 1 /\ DOMAIN paths = 1..Len(paths)
  BY PlacesAssumption DEF UpInv, TypeOK
<1>1. CASE Commit
  <2>1. /\ phase = "commit" /\ next <= Len(paths) /\ LandedUpTo(next)
        /\ \/ req = "put" /\ Len(paths) = 1 /\ (next = 1 => Untouched)
           \/ req = "execute" /\ Valid
    BY <1>1 DEF Commit, LandInv, CommitInv
  <2>2. CASE Landing(next) /\ Land(next) /\ next' = next + 1 /\ UNCHANGED <<phase, req, answer, text, paths>>
    <3>0. next \in 1..Len(paths) /\ paths[next] \in Places
      BY <1>0, <2>1 DEF TypeOK, Files
    <3>1. /\ content'[paths[next]] = next
          /\ \A p \in Places \ {paths[next]} : content'[p] = content[p]
      BY <1>0, <2>2, <3>0 DEF Land, TypeOK
    <3>2. LandedUpTo(next)'
      <4>1. next + 1 - 1 = next
        BY <1>0
      <4>2. ASSUME NEW i \in 1..next
            PROVE  \E j \in i..next : paths[j] = paths[i] /\ content'[paths[i]] = j
        <5>1. i \in 1..Len(paths) /\ paths[i] \in Places
          BY <1>0, <2>1 DEF TypeOK, Files
        <5>2. CASE paths[i] = paths[next]
          BY <1>0, <3>1, <5>2
        <5>3. CASE paths[i] # paths[next]
          <6>1. i \in 1..(next - 1)
            BY <1>0, <5>3
          <6>2. PICK j \in i..(next - 1) : paths[j] = paths[i] /\ content[paths[i]] = j
            BY <2>1, <6>1 DEF LandedUpTo
          <6>3. j \in i..next /\ content'[paths[i]] = j
            BY <1>0, <3>1, <5>1, <5>3, <6>2
          <6> QED
            BY <6>2, <6>3
        <5> QED
          BY <5>2, <5>3
      <4> QED
        <5>1. next' - 1 = next /\ paths' = paths
          BY <1>0, <2>2
        <5> QED
          BY <4>2, <5>1 DEF LandedUpTo
    <3>3. next' # 1 /\ next' <= Len(paths') + 1
      BY <1>0, <2>1, <2>2
    <3>4. Valid' <=> Valid
      BY <2>2 DEF Valid
    <3> QED
      BY <2>1, <2>2, <3>2, <3>3, <3>4 DEF LandInv, ReceivedInv, CommitInv, DiscardInv, RunInv
  <2>3. ASSUME NEW code \in CommitCodes(next), Refuse(code), UNCHANGED treeVars PROVE LandInv'
    <3>1. code \in {400, 413, 500}
      BY <2>3 DEF CommitCodes, WalkCode
    <3>2. req = "put" \/ ~Valid => Untouched
      BY <1>0, <2>1
    <3> QED
      BY <2>1, <2>3, <3>1, <3>2, LandRefuse DEF treeVars
  <2> QED
    BY <1>1, <2>2, <2>3 DEF Commit
<1>2. CASE Committed
  <2>1. /\ phase = "commit" /\ next > Len(paths) /\ UNCHANGED <<req, text, paths, next, content>>
        /\ \/ req = "put" /\ phase' = "idle" /\ answer' = 204
           \/ req = "execute" /\ phase' = "slot"
    BY <1>2 DEF Committed, treeVars
  <2>2. next = Len(paths) + 1 /\ LandedUpTo(next) /\ (req = "execute" => Valid)
    BY <1>0, <2>1 DEF LandInv, CommitInv
  <2>3. CASE phase' = "idle"
    <3>1. AllLanded'
      BY <1>0, <2>1, <2>2, LandedAll DEF AllLanded
    <3>2. InvalidLeavesNothing'
      BY <2>1, <2>3 DEF InvalidLeavesNothing, Refused
    <3> QED
      BY <2>3, <3>1, <3>2 DEF LandInv, ReceivedInv, CommitInv, DiscardInv, RunInv
  <2>4. CASE phase' = "slot"
    <3>1. LandedUpTo(next)' /\ next' = Len(paths') + 1
      BY <2>1, <2>2 DEF LandedUpTo
    <3>2. req' = "execute" /\ Valid'
      BY <2>1, <2>2, <2>4 DEF Valid
    <3> QED
      BY <2>4, <3>1, <3>2 DEF LandInv, ReceivedInv, CommitInv, DiscardInv, RunInv
  <2> QED
    BY <2>1, <2>3, <2>4
<1>3. CASE Discard \/ Discarded
  <2>1. phase = "discard" /\ phase' \in {"discard", "idle"} /\ UNCHANGED <<req, answer, text, content>>
    BY <1>3 DEF Discard, Discarded, treeVars
  <2>2. /\ req \in {"execute", "put"} /\ answer \in {400, 413, 500}
        /\ req = "put" \/ ~Valid => Untouched
    BY <2>1 DEF LandInv, DiscardInv
  <2>3. (Valid' <=> Valid) /\ (Untouched' <=> Untouched)
    BY <2>1 DEF Valid, Untouched
  <2>4. phase' = "idle" => AllLanded'
    BY <2>1, <2>2 DEF AllLanded
  <2>5. InvalidLeavesNothing'
    BY <2>1, <2>2, <2>3 DEF InvalidLeavesNothing, Valid, Untouched
  <2> QED
    BY <2>1, <2>2, <2>3, <2>4, <2>5 DEF LandInv, ReceivedInv, CommitInv, DiscardInv, RunInv
<1> QED
  BY <1>1, <1>2, <1>3 DEF StagedList

LEMMA LandRun ==
  ASSUME UpInv, LandInv,
         NoSlot \/ RunStarts \/ RunFails \/ RunEnds \/ Program \/ \E p \in Files : DeleteFile(p)
  PROVE  LandInv'
<1>1. CASE NoSlot \/ RunFails \/ RunEnds
  <2>1. /\ phase \in {"slot", "run"} /\ phase' = "idle" /\ UNCHANGED <<req, text>>
    BY <1>1 DEF NoSlot, RunFails, RunEnds, Finish
  <2>2. req' = "execute" /\ Valid'
    BY <2>1 DEF LandInv, RunInv, Valid
  <2>3. AllLanded' /\ InvalidLeavesNothing'
    BY <2>1, <2>2 DEF AllLanded, InvalidLeavesNothing, Valid
  <2> QED
    BY <2>1, <2>3 DEF LandInv, ReceivedInv, CommitInv, DiscardInv, RunInv
<1>2. CASE RunStarts
  <2>1. phase = "slot" /\ phase' = "run" /\ UNCHANGED <<req, text>>
    BY <1>2 DEF RunStarts
  <2>2. req' = "execute" /\ Valid'
    BY <2>1 DEF LandInv, RunInv, Valid
  <2> QED
    BY <2>1, <2>2 DEF LandInv, ReceivedInv, CommitInv, DiscardInv, RunInv
<1>3. CASE Program
  <2>1. alive /\ UNCHANGED <<phase, req, text>>
    BY <1>3 DEF Program, ProgramChmods, ProgramMakes, ProgramRemoves, ProgramMoves, reqVars
  <2>2. phase' = "run" /\ req' = "execute" /\ Valid'
    BY <2>1 DEF UpInv, ProgramInv, LandInv, RunInv, Valid
  <2> QED
    BY <2>2 DEF LandInv, ReceivedInv, CommitInv, DiscardInv, RunInv
<1>4. ASSUME NEW p \in Files, DeleteFile(p) PROVE LandInv'
  <2>1. phase' = "idle" /\ req' = "none" /\ answer' = 204
    BY <1>4 DEF DeleteFile
  <2>2. AllLanded' /\ InvalidLeavesNothing'
    BY <2>1 DEF AllLanded, InvalidLeavesNothing, Refused
  <2> QED
    BY <2>1, <2>2 DEF LandInv, ReceivedInv, CommitInv, DiscardInv, RunInv
<1> QED
  BY <1>1, <1>2, <1>3, <1>4

\* At each point of a request what is in place is what its commits so far put there.
THEOREM LandCorrect == ASSUME ~ProgramSurvives PROVE Spec => []LandInv
<1>1. Init => LandInv
  BY DEF Init, LandInv, ReceivedInv, CommitInv, DiscardInv, RunInv, AllLanded, InvalidLeavesNothing, Refused
<1>2. UpInv /\ LandInv /\ [Next]_vars => LandInv'
  <2> SUFFICES ASSUME UpInv, LandInv, [Next]_vars PROVE LandInv'
    OBVIOUS
  <2>1. CASE UNCHANGED vars
    BY <2>1
    DEF vars, reqVars, treeVars, LandInv, ReceivedInv, CommitInv, DiscardInv, RunInv, AllLanded,
        InvalidLeavesNothing, Refused, Untouched, LandedUpTo, Valid
  <2>2. CASE Next
    BY <2>2, LandReceive, LandCommit, LandRun DEF Next, Execute, Put
  <2> QED
    BY <2>1, <2>2
<1> QED
  BY <1>1, <1>2, UpCorrect, PTL DEF Spec

\* The program starts, and a PUT is answered 204, only with every upload in its
\* place, the last one staged for a path being what is there.
THEOREM AllLandedCorrect == ASSUME ~ProgramSurvives PROVE Spec => []AllLanded
<1>1. UpInv /\ LandInv => AllLanded
  <2> SUFFICES ASSUME UpInv, LandInv, phase = "slot" PROVE AllLanded
    BY DEF LandInv, AllLanded
  <2> QED
    BY LandedAll DEF LandInv, RunInv, AllLanded, UpInv, TypeOK
<1> QED
  BY <1>1, UpCorrect, LandCorrect, PTL

\* Whatever a refused PUT, or an /execute refused for its fields, had staged when
\* the refusal came, none of it is in place.
THEOREM InvalidLeavesNothingCorrect == ASSUME ~ProgramSurvives PROVE Spec => []InvalidLeavesNothing
<1>1. LandInv => InvalidLeavesNothing
  BY DEF LandInv, InvalidLeavesNothing, Refused
<1> QED
  BY <1>1, LandCorrect, PTL

=============================================================================
