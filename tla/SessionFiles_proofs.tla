------------------------- MODULE SessionFiles_proofs -------------------------
(***************************************************************************)
(* SessionFiles for any tree, any program and any set of paths: what the   *)
(* server holds open, what it leaves, and where it acts.                   *)
(*                                                                         *)
(* How many descriptors are held is a function of the phase, and the       *)
(* temporary file is there only while it is copied, when it is staged, or  *)
(* when a program has closed its directory to the removal.                 *)
(* That the walk stays inside rests on the path it was given: every        *)
(* component opened is a name (PathInv), so the walk only goes down.       *)
(*                                                                         *)
(* That normalisation yields names rests on the levels of the client's     *)
(* path: after each component, what normpath has is the components kept so *)
(* far, one at each level (Within), or it begins with ".." for good        *)
(* (Outward).                                                              *)
(*                                                                         *)
(* What GET answers rests on the way its walk has come: while no program   *)
(* acts, the directory reached is on the one way from the session          *)
(* directory along the path (LedInv), because a place holds one node at    *)
(* most (TreeInv).                                                         *)
(***************************************************************************)
EXTENDS SessionFiles, SequenceLemmas

\* The descriptors held in each phase.
Open(p) == CASE p \in {"idle", "begun"} -> 0 [] p = "copy" -> 2 [] OTHER -> 1

HeldInv == phase \in Phases /\ held = Open(phase)

TempInv == temp # None => phase = "idle" \/ (phase = "copy" /\ temp = fd)

FilesInv == HeldInv /\ TempInv

-----------------------------------------------------------------------------
\* A request ends in idle, so it must have closed what it held.
LEMMA FilesInit == Init => FilesInv
BY DEF Init, FilesInv, HeldInv, TempInv, Open, Phases

LEMMA FilesStep == FilesInv /\ [Next]_vars => FilesInv'
<1> SUFFICES ASSUME FilesInv, [Next]_vars PROVE FilesInv'
  OBVIOUS
<1> USE DEF FilesInv, HeldInv, TempInv, Open, Phases
<1>1. ASSUME NEW o \in {"read", "delete", "stage"}, NEW raw \in RawPaths, Begin(o, raw) PROVE FilesInv'
  BY <1>1 DEF Begin
<1>2. CASE Normalise
  <2>1. /\ phase = "begun" /\ UNCHANGED temp
        /\ \/ phase' = "entries" /\ held' = 1
           \/ phase' = "idle" /\ held' = held
           \/ phase' \in {"last", "mkdir", "walk"} /\ held' = held + 1
    BY <1>2, Zenon DEF Normalise, Ends, Enter, treeVars
  <2> QED
    BY <2>1
<1>3. CASE MkDir
  BY <1>3 DEF MkDir, Ends
<1>4. CASE Walk
  BY <1>4 DEF Walk, Fails, Ends, treeVars
<1>5. CASE ReadFile
  BY <1>5 DEF ReadFile, Fails, Ends, Enter, Closed, treeVars
<1>6. CASE ListDirectory
  BY <1>6 DEF ListDirectory, Fails, Ends, treeVars
<1>7. CASE Listed
  BY <1>7 DEF Listed, Ends, treeVars
<1>8. ASSUME NEW c \in Names, StatEntry(c) PROVE FilesInv'
  BY <1>8 DEF StatEntry, treeVars
<1>9. CASE DeleteStat
  BY <1>9 DEF DeleteStat, Fails, Ends, treeVars
<1>10. CASE Unlink
  BY <1>10 DEF Unlink, Fails, Ends, treeVars
<1>11. CASE OpenTemp
  BY <1>11 DEF OpenTemp, Fails, Ends, treeVars
<1>12. CASE CopyChunk
  BY <1>12 DEF CopyChunk, StageFails, UnlinkTemp, Ends, treeVars
<1>13. CASE CopyFails
  BY <1>13 DEF CopyFails, StageFails, UnlinkTemp, Ends
<1>14. CASE Staged
  BY <1>14 DEF Staged, Ends, treeVars
<1>15. CASE Sent
  BY <1>15 DEF Sent, treeVars
<1>16. CASE Program
  BY <1>16 DEF Program, ProgramPuts, ProgramRemoves, ProgramRemovesTemp, ProgramChmods
<1>17. CASE UNCHANGED vars
  BY <1>17 DEF vars, treeVars, reqVars
<1> QED
  BY <1>1, <1>2, <1>3, <1>4, <1>5, <1>6, <1>7, <1>8, <1>9, <1>10, <1>11, <1>12, <1>13, <1>14,
     <1>15, <1>16, <1>17 DEF Next, Server

\* No request leaves a descriptor open (sessions.py, `finally` of _open_parent,
\* except of read_file).
THEOREM NoDescriptorLeakCorrect == Spec => []NoDescriptorLeak
<1>1. FilesInv => NoDescriptorLeak
  BY DEF FilesInv, HeldInv, Open, NoDescriptorLeak
<1> QED
  BY FilesInit, FilesStep, <1>1, PTL DEF Spec

\* What FailedCopyLeavesNothing says of a step.
LeavesNothing ==
  phase # "idle" /\ phase' = "idle" /\ answer' # "ok" /\ temp' # None =>
    answer' = "error" /\ ~({"w", "x"} \subseteq mode[temp'])

LEMMA LeavesStep ==
  ASSUME FilesInv, Next
  PROVE  LeavesNothing
<1> SUFFICES ASSUME phase # "idle", phase' = "idle", answer' # "ok", temp' # None
             PROVE  answer' = "error" /\ ~({"w", "x"} \subseteq mode[temp'])
  BY DEF LeavesNothing
<1>1. ASSUME NEW a, StageFails(a), phase = "copy"
      PROVE  answer' = "error" /\ ~({"w", "x"} \subseteq mode[temp'])
  <2>1. ~MayUnlink(fd) /\ temp' = temp
    BY <1>1 DEF StageFails, UnlinkTemp
  <2>2. temp = fd
    BY <1>1, <2>1 DEF FilesInv, TempInv
  <2>3. (~May("x", fd) \/ ~May("w", fd)) /\ fd \in Dirs
    BY <2>1 DEF MayUnlink, May
  <2> QED
    BY <1>1, <2>1, <2>2, <2>3 DEF StageFails, Ends, May
<1>2. CASE CopyChunk \/ CopyFails
  BY <1>1, <1>2 DEF CopyChunk, CopyFails
<1>3. CASE Staged
  BY <1>3 DEF Staged, Ends
<1>4. CASE phase # "copy" /\ temp' = temp
  BY <1>4 DEF FilesInv, TempInv
<1>5. CASE Normalise \/ MkDir \/ Walk
  <2>1. temp' = temp /\ phase # "copy"
    BY <1>5, Zenon DEF Normalise, MkDir, Walk, Fails, treeVars
  <2> QED
    BY <1>4, <2>1
<1>6. CASE ReadFile \/ ListDirectory \/ Listed
  <2>1. temp' = temp /\ phase # "copy"
    BY <1>6 DEF ReadFile, ListDirectory, Listed, Fails, treeVars
  <2> QED
    BY <1>4, <2>1
<1>7. CASE DeleteStat \/ Unlink \/ OpenTemp
  <2>1. temp' = temp /\ phase # "copy"
    BY <1>7 DEF DeleteStat, Unlink, OpenTemp, Fails, treeVars
  <2> QED
    BY <1>4, <2>1
<1>8. CASE \/ \E o \in {"read", "delete", "stage"}, raw \in RawPaths : Begin(o, raw)
           \/ (\E c \in Names : StatEntry(c)) \/ Sent \/ Program
  BY <1>8 DEF Begin, StatEntry, Sent, Program
<1> QED
  BY <1>2, <1>3, <1>5, <1>6, <1>7, <1>8 DEF Next, Server

\* An upload that fails leaves no temporary file, but in a directory that was closed
\* meanwhile, and then it is answered with a 500 (file_helpers.py, except of
\* write_file_to_temp).
THEOREM FailedCopyLeavesNothingCorrect == Spec => FailedCopyLeavesNothing
<1>1. FilesInv /\ [Next]_vars => [LeavesNothing]_vars
  BY LeavesStep
<1> QED
  BY FilesInit, FilesStep, <1>1, PTL DEF Spec, FailedCopyLeavesNothing, LeavesNothing
-----------------------------------------------------------------------------
(* Normalisation                                                             *)

\* What a component asks for: nothing, a step up ("..") or a step down.
Skips(c) == c \in {"", Dot}
GoesDown(c) == c \notin {"", Dot, DotDot}

LEMMA ComponentKinds ==
  ASSUME NEW c
  PROVE  /\ Skips(c) \/ c = DotDot \/ GoesDown(c)
         /\ Skips(c) => c # DotDot
         /\ GoesDown(c) => c # DotDot /\ ~Skips(c)
BY DEF Skips, GoesDown, Dot, DotDot

\* One more component, on a path that has some or none.
LEMMA DescendSteps ==
  ASSUME NEW d \in Seq(Components), NEW c \in Components
  PROVE  /\ Descend(d, c) \in Seq(Components)
         /\ \/ Skips(c) /\ Descend(d, c) = d
            \/ /\ c = DotDot /\ d # <<>> /\ d[Len(d)] # DotDot
               /\ Len(d) > 0 /\ Len(Descend(d, c)) = Len(d) - 1
               /\ \A k \in 1..(Len(d) - 1) : Descend(d, c)[k] = d[k]
            \/ /\ GoesDown(c) \/ (c = DotDot /\ (d = <<>> \/ d[Len(d)] = DotDot))
               /\ Len(Descend(d, c)) = Len(d) + 1
               /\ Descend(d, c)[Len(d) + 1] = c
               /\ \A k \in 1..Len(d) : Descend(d, c)[k] = d[k]
<1>0. Len(d) \in Nat /\ \A i \in 1..Len(d) : d[i] \in Components
  OBVIOUS
<1>1. CASE Skips(c)
  BY <1>1 DEF Descend, Skips, Dot, DotDot
<1>2. CASE c = DotDot /\ d # <<>> /\ Last(d) # DotDot
  <2>1. Len(d) > 0 /\ c \notin {"", Dot}
    BY <1>2 DEF Dot, DotDot
  <2>2. Descend(d, c) = SubSeq(d, 1, Len(d) - 1)
    BY <1>2, <2>1 DEF Descend, Front
  <2>3. /\ SubSeq(d, 1, Len(d) - 1) \in Seq(Components)
        /\ Len(SubSeq(d, 1, Len(d) - 1)) = Len(d) - 1
        /\ \A k \in 1..(Len(d) - 1) : SubSeq(d, 1, Len(d) - 1)[k] = d[k]
    <3> DEFINE m == Len(d) - 1
    <3>0. \A k \in Nat : k > 0 => k - 1 \in Int /\ 1 \in Int /\ (1 <= k - 1 \/ k - 1 = 0) /\ k - 1 - 1 + 1 = k - 1
      OBVIOUS
    <3>1. m \in Int /\ 1 \in Int /\ (1 <= m \/ m = 0) /\ m - 1 + 1 = m
      BY <1>0, <2>1, <3>0, Zenon
    <3>2. \A i \in 1..m : d[i] \in Components
      BY <1>0
    <3>3. \A k \in 1..m : k \in Int /\ 1 + k - 1 = k
      OBVIOUS
    <3> HIDE DEF m
    <3>4. /\ SubSeq(d, 1, m) \in Seq(Components)
          /\ Len(SubSeq(d, 1, m)) = IF 1 <= m THEN m - 1 + 1 ELSE 0
          /\ \A k \in 1..(m - 1 + 1) : SubSeq(d, 1, m)[k] = d[1 + k - 1]
      BY <3>1, <3>2, SubSeqProperties
    <3>5. Len(SubSeq(d, 1, m)) = m /\ \A k \in 1..m : SubSeq(d, 1, m)[k] = d[k]
      BY <3>1, <3>3, <3>4
    <3> QED
      BY <3>4, <3>5 DEF m
  <2> QED
    BY <1>2, <2>1, <2>2, <2>3 DEF Last
<1>3. CASE ~Skips(c) /\ (c = DotDot => d = <<>> \/ Last(d) = DotDot)
  <2>1. Descend(d, c) = Append(d, c)
    BY <1>3 DEF Descend, Skips
  <2>2. /\ Append(d, c) \in Seq(Components) /\ Len(Append(d, c)) = Len(d) + 1
        /\ Append(d, c)[Len(d) + 1] = c
        /\ \A k \in 1..Len(d) : Append(d, c)[k] = d[k]
    BY AppendProperties
  <2>3. GoesDown(c) \/ (c = DotDot /\ (d = <<>> \/ d[Len(d)] = DotDot))
    <3>1. Last(d) = d[Len(d)]
      BY DEF Last
    <3> QED
      BY <1>3, <3>1, ComponentKinds, Zenon
  <2> QED
    BY <2>1, <2>2, <2>3
<1> QED
  BY <1>1, <1>2, <1>3

\* Normpath goes from component to component.
LEMMA NormpathSteps ==
  ASSUME NEW raw \in Seq(Components)
  PROVE  \E done \in [0..Len(raw) -> Seq(Components)] :
           /\ done[0] = <<>>
           /\ \A i \in 1..Len(raw) : done[i] = Descend(done[i - 1], raw[i])
           /\ Normpath(raw) = done[Len(raw)]
<1> DEFINE n == Len(raw)
<1> DEFINE Body(g) == [i \in 0..n |-> IF i = 0 THEN <<>> ELSE Descend(g[i - 1], raw[i])]
<1> DEFINE done == CHOOSE g : g = Body(g)
<1>0. n \in Nat /\ \A i \in 1..n : raw[i] \in Components
  OBVIOUS
<1> HIDE DEF n
<1>1. \E g : g = Body(g)
  <2> DEFINE step == [x \in Seq(Components) \X (1..n) |-> Descend(x[1], raw[x[2]])]
  <2>1. step \in [Seq(Components) \X (1..n) -> Seq(Components)]
    BY <1>0, DescendSteps
  <2>2. PICK f \in [0..n -> Seq(Components)] : Starts(f, n, <<>>, step)
    <3>1. <<>> \in Seq(Components)
      OBVIOUS
    <3> HIDE DEF step
    <3> QED
      BY <1>0, <2>1, <3>1, RecursionExists
  <2>3. ASSUME NEW i \in 0..n PROVE f[i] = IF i = 0 THEN <<>> ELSE Descend(f[i - 1], raw[i])
    <3>1. CASE i = 0
      BY <2>2, <3>1 DEF Starts
    <3>2. CASE i # 0
      <4>1. i \in 1..n /\ f[i - 1] \in Seq(Components)
        BY <1>0, <3>2
      <4> QED
        BY <2>2, <3>2, <4>1 DEF Starts
    <3> QED
      BY <3>1, <3>2
  <2>4. f = Body(f)
    BY <2>3
  <2> QED
    BY <2>4
<1>2. done = Body(done)
  BY <1>1
<1>3. Normpath(raw) = done[n]
  BY DEF Normpath, n
<1> HIDE DEF done
<1>4. done[0] = <<>>
  BY <1>0, <1>2
<1>5. \A i \in 1..n : done[i] = Descend(done[i - 1], raw[i])
  <2> TAKE i \in 1..n
  <2>1. i \in 0..n /\ i # 0
    BY <1>0
  <2> QED
    BY <1>2, <2>1
<1>6. \A i \in 0..n : done[i] \in Seq(Components)
  <2> DEFINE T == {i \in 0..n : done[i] \in Seq(Components)}
  <2>1. 0 \in T
    <3>1. 0 \in 0..n /\ <<>> \in Seq(Components)
      BY <1>0
    <3> QED
      BY <1>4, <3>1
  <2>2. ASSUME NEW i \in 1..n, i - 1 \in T PROVE i \in T
    <3>1. done[i - 1] \in Seq(Components) /\ raw[i] \in Components /\ i \in 0..n
      BY <1>0, <2>2
    <3>2. Descend(done[i - 1], raw[i]) \in Seq(Components)
      BY <3>1, DescendSteps
    <3> QED
      BY <1>5, <3>1, <3>2
  <2> HIDE DEF T
  <2>3. 0..n \subseteq T
    BY <1>0, <2>1, <2>2, Induction
  <2> QED
    BY <2>3 DEF T
<1>7. done \in [0..n -> Seq(Components)]
  BY <1>2, <1>6
<1> QED
  BY <1>3, <1>4, <1>5, <1>7 DEF n

\* The level goes up by one with a name, and down by one with "..".
LEMMA LevelSteps ==
  ASSUME NEW raw \in Seq(Components)
  PROVE  /\ \A i \in 0..Len(raw) : Level(raw, i) \in Int
         /\ Level(raw, 0) = 0
         /\ \A i \in 1..Len(raw) :
              /\ Skips(raw[i]) => Level(raw, i) = Level(raw, i - 1)
              /\ raw[i] = DotDot => Level(raw, i) = Level(raw, i - 1) - 1
              /\ GoesDown(raw[i]) => Level(raw, i) = Level(raw, i - 1) + 1
<1> DEFINE n == Len(raw)
<1> DEFINE Downs == {j \in 1..n : raw[j] \notin {"", Dot, DotDot}}
<1> DEFINE Ups == {j \in 1..n : raw[j] = DotDot}
<1> DEFINE D(i) == Cardinality(Downs \cap (1..i))
<1> DEFINE U(i) == Cardinality(Ups \cap (1..i))
<1>0. n \in Nat
  OBVIOUS
<1> HIDE DEF n
<1>1. \A i \in 0..n : Level(raw, i) = D(i) - U(i)
  <2> TAKE i \in 0..n
  <2>1. \A j \in 1..i : j \in 1..n
    BY <1>0
  <2>2. {j \in 1..i : raw[j] \notin {"", Dot, DotDot}} = Downs \cap (1..i)
    BY <2>1
  <2>3. {j \in 1..i : raw[j] = DotDot} = Ups \cap (1..i)
    BY <2>1
  <2> QED
    BY <2>2, <2>3, Zenon DEF Level
<1>2. \A i \in Nat : D(i) \in Nat /\ U(i) \in Nat
  <2> HIDE DEF Downs, Ups
  <2> QED
    BY CountedFinite
<1>3. D(0) = 0 /\ U(0) = 0
  <2>1. 1..0 = {}
    OBVIOUS
  <2>2. Downs \cap (1..0) = {} /\ Ups \cap (1..0) = {}
    BY <2>1
  <2> QED
    BY <2>2, FS_EmptySet
<1>4. ASSUME NEW i \in 1..n
      PROVE  /\ Skips(raw[i]) => D(i) = D(i - 1) /\ U(i) = U(i - 1)
             /\ raw[i] = DotDot => D(i) = D(i - 1) /\ U(i) = U(i - 1) + 1
             /\ GoesDown(raw[i]) => D(i) = D(i - 1) + 1 /\ U(i) = U(i - 1)
  <2>1. /\ i \in Downs <=> GoesDown(raw[i])
        /\ i \in Ups <=> raw[i] = DotDot
    BY DEF GoesDown
  <2>2. i \in Nat \ {0}
    OBVIOUS
  <2> HIDE DEF Downs, Ups
  <2>3. /\ i \in Downs => D(i) = D(i - 1) + 1
        /\ i \notin Downs => D(i) = D(i - 1)
        /\ i \in Ups => U(i) = U(i - 1) + 1
        /\ i \notin Ups => U(i) = U(i - 1)
    BY <2>2, CountNext
  <2> HIDE DEF D, U
  <2> QED
    BY <2>1, <2>3, ComponentKinds
<1> HIDE DEF D, U
<1>5. \A i \in 0..n : D(i) \in Nat /\ U(i) \in Nat
  <2> TAKE i \in 0..n
  <2>1. i \in Nat
    BY <1>0
  <2> QED
    BY <1>2, <2>1
<1>6. \A i \in 0..n : Level(raw, i) \in Int
  BY <1>1, <1>5
<1>7. Level(raw, 0) = 0
  BY <1>0, <1>1, <1>3
<1>8. ASSUME NEW i \in 1..n
      PROVE  /\ Skips(raw[i]) => Level(raw, i) = Level(raw, i - 1)
             /\ raw[i] = DotDot => Level(raw, i) = Level(raw, i - 1) - 1
             /\ GoesDown(raw[i]) => Level(raw, i) = Level(raw, i - 1) + 1
  <2>1. i \in 0..n /\ i - 1 \in 0..n
    BY <1>0
  <2>2. /\ D(i) \in Nat /\ U(i) \in Nat /\ D(i - 1) \in Nat /\ U(i - 1) \in Nat
        /\ Level(raw, i) = D(i) - U(i) /\ Level(raw, i - 1) = D(i - 1) - U(i - 1)
    BY <1>1, <1>5, <2>1
  <2>3. D(i) = D(i - 1) /\ U(i) = U(i - 1) => Level(raw, i) = Level(raw, i - 1)
    BY <2>2
  <2>4. D(i) = D(i - 1) /\ U(i) = U(i - 1) + 1 => Level(raw, i) = Level(raw, i - 1) - 1
    BY <2>2
  <2>5. D(i) = D(i - 1) + 1 /\ U(i) = U(i - 1) => Level(raw, i) = Level(raw, i - 1) + 1
    BY <2>2
  <2> QED
    BY <1>4, <2>3, <2>4, <2>5, Zenon
<1> QED
  BY <1>6, <1>7, <1>8 DEF n

\* The components among the first i that are still there after them.
Kept(raw, i) ==
  {m \in 1..i : GoesDown(raw[m]) /\ \A j \in (m + 1)..i : Level(raw, j) >= Level(raw, m)}

\* The path has stayed inside: d is what has been kept, by level.
Within(raw, i, d) ==
  /\ \A j \in 1..i : Level(raw, j) >= 0
  /\ Level(raw, i) = Len(d)
  /\ \A m \in Kept(raw, i) : Level(raw, m) \in 1..Len(d) /\ d[Level(raw, m)] = raw[m]
  /\ \A k \in 1..Len(d) : \E m \in Kept(raw, i) : Level(raw, m) = k

\* It has climbed out, and never forgets it.
Outward(raw, i, d) ==
  (\E j \in 1..i : Level(raw, j) < 0) /\ Len(d) > 0 /\ d[1] = DotDot

\* Which components are kept, from one to the next.
LEMMA KeptSteps ==
  ASSUME NEW raw \in Seq(Components), NEW i \in 1..Len(raw)
  PROVE  /\ Skips(raw[i]) => Kept(raw, i) = Kept(raw, i - 1)
         /\ raw[i] = DotDot =>
              Kept(raw, i) = {m \in Kept(raw, i - 1) : Level(raw, m) <= Level(raw, i)}
         /\ GoesDown(raw[i]) => Kept(raw, i) = Kept(raw, i - 1) \cup {i}
<1> DEFINE n == Len(raw)
<1> DEFINE L(m) == Level(raw, m)
<1>0. n \in Nat /\ i \in 1..n
  OBVIOUS
<1>1. /\ \A m \in 0..n : L(m) \in Int
      /\ Skips(raw[i]) => L(i) = L(i - 1)
      /\ raw[i] = DotDot => L(i) = L(i - 1) - 1
      /\ GoesDown(raw[i]) => L(i) = L(i - 1) + 1
  BY LevelSteps
<1> HIDE DEF n, L
<1>2. \A m \in 1..(i - 1) :
        /\ m \in 1..i /\ m \in 0..n /\ m # i /\ i \in (m + 1)..i
        /\ \A j : j \in (m + 1)..i <=> j \in (m + 1)..(i - 1) \/ j = i
        /\ m = i - 1 \/ i - 1 \in (m + 1)..(i - 1)
  BY <1>0
<1>3. i \in 0..n /\ i - 1 \in 0..n /\ (i + 1)..i = {} /\ \A m \in 1..i : m # i => m \in 1..(i - 1)
  BY <1>0
<1>4. \A m \in Kept(raw, i - 1) :
        m \in 1..(i - 1) /\ GoesDown(raw[m]) /\ L(m) <= L(i - 1)
  BY <1>1, <1>2, <1>3 DEF Kept, L
<1>5. \A m : m \in Kept(raw, i) <=> \/ m \in Kept(raw, i - 1) /\ L(i) >= L(m)
                                    \/ m = i /\ GoesDown(raw[i])
  <2> DEFINE Stays(m, k) == \A j \in (m + 1)..k : L(j) >= L(m)
  <2>1. \A m, k : m \in Kept(raw, k) <=> m \in 1..k /\ GoesDown(raw[m]) /\ Stays(m, k)
    BY Zenon DEF Kept, L
  <2>2. \A m \in 1..(i - 1) : Stays(m, i) <=> Stays(m, i - 1) /\ L(i) >= L(m)
    BY <1>2
  <2>3. Stays(i, i) /\ i \in 1..i
    BY <1>0, <1>3
  <2> HIDE DEF Stays
  <2>4. \A m : m \in 1..i <=> m \in 1..(i - 1) \/ m = i
    BY <1>0
  <2>5. i \notin 1..(i - 1)
    BY <1>0
  <2> QED
    BY <2>1, <2>2, <2>3, <2>4, <2>5
<1>6. ASSUME NEW m \in Kept(raw, i - 1), Skips(raw[i]) \/ GoesDown(raw[i]) PROVE L(i) >= L(m)
  <2>1. L(m) \in Int /\ L(i) \in Int /\ L(i - 1) \in Int /\ L(m) <= L(i - 1)
    BY <1>1, <1>2, <1>3, <1>4
  <2>2. L(i) = L(i - 1) \/ L(i) = L(i - 1) + 1
    BY <1>1, <1>6
  <2> QED
    BY <2>1, <2>2
<1>7. Skips(raw[i]) => Kept(raw, i) = Kept(raw, i - 1)
  BY <1>5, <1>6, ComponentKinds
<1>8. GoesDown(raw[i]) => Kept(raw, i) = Kept(raw, i - 1) \cup {i}
  BY <1>5, <1>6
<1>9. raw[i] = DotDot => Kept(raw, i) = {m \in Kept(raw, i - 1) : L(m) <= L(i)}
  <2>1. \A m \in Kept(raw, i - 1) : L(i) >= L(m) <=> L(m) <= L(i)
    BY <1>1, <1>2, <1>3, <1>4
  <2> QED
    BY <1>5, <2>1, ComponentKinds
<1> QED
  BY <1>7, <1>8, <1>9 DEF L

\* What Descend makes of the components kept so far.
LEMMA WithinSteps ==
  ASSUME NEW raw \in Seq(Components), NEW i \in 1..Len(raw), NEW d \in Seq(Components),
         Within(raw, i - 1, d)
  PROVE  \/ Within(raw, i, Descend(d, raw[i]))
         \/ Outward(raw, i, Descend(d, raw[i]))
<1> DEFINE n == Len(raw)
<1> DEFINE e == Descend(d, raw[i])
<1> DEFINE L(m) == Level(raw, m)
<1> DEFINE K(k) == Kept(raw, k)
<1>0. n \in Nat /\ i \in 1..n /\ raw[i] \in Components
  OBVIOUS
<1>1. /\ \A m \in 0..n : L(m) \in Int
      /\ Skips(raw[i]) => L(i) = L(i - 1)
      /\ raw[i] = DotDot => L(i) = L(i - 1) - 1
      /\ GoesDown(raw[i]) => L(i) = L(i - 1) + 1
  BY LevelSteps
<1>2. /\ Skips(raw[i]) => K(i) = K(i - 1)
      /\ raw[i] = DotDot => K(i) = {m \in K(i - 1) : L(m) <= L(i)}
      /\ GoesDown(raw[i]) => K(i) = K(i - 1) \cup {i}
  BY KeptSteps
<1>3. /\ \A j \in 1..(i - 1) : L(j) >= 0
      /\ L(i - 1) = Len(d)
      /\ \A m \in K(i - 1) : L(m) \in 1..Len(d) /\ d[L(m)] = raw[m]
      /\ \A k \in 1..Len(d) : \E m \in K(i - 1) : L(m) = k
  BY DEF Within
<1>4. \/ Skips(raw[i]) /\ e = d
      \/ /\ raw[i] = DotDot /\ d # <<>> /\ d[Len(d)] # DotDot
         /\ Len(d) > 0 /\ Len(e) = Len(d) - 1
         /\ \A k \in 1..(Len(d) - 1) : e[k] = d[k]
      \/ /\ GoesDown(raw[i]) \/ (raw[i] = DotDot /\ (d = <<>> \/ d[Len(d)] = DotDot))
         /\ Len(e) = Len(d) + 1
         /\ e[Len(d) + 1] = raw[i]
         /\ \A k \in 1..Len(d) : e[k] = d[k]
  BY <1>0, DescendSteps
<1>5. ASSUME Skips(raw[i]) \/ GoesDown(raw[i]) \/ (raw[i] = DotDot /\ Len(d) > 0)
      PROVE  \A j \in 1..i : L(j) >= 0
  <2>1. Len(d) \in Nat /\ L(i) \in Int /\ L(i - 1) = Len(d)
    BY <1>0, <1>1, <1>3
  <2>2. \/ L(i) = L(i - 1)
        \/ L(i) = L(i - 1) + 1
        \/ L(i) = L(i - 1) - 1 /\ Len(d) > 0
    BY <1>1, <1>5
  <2>3. L(i) >= 0
    BY <2>1, <2>2
  <2>4. \A j \in 1..i : j \in 1..(i - 1) \/ j = i
    BY <1>0
  <2> QED
    BY <1>3, <2>3, <2>4
<1>6. ASSUME \A j \in 1..i : L(j) >= 0, L(i) = Len(e),
             \A m \in K(i) : L(m) \in 1..Len(e) /\ e[L(m)] = raw[m],
             \A k \in 1..Len(e) : \E m \in K(i) : L(m) = k
      PROVE  Within(raw, i, e)
  BY <1>6, Zenon DEF Within
<1> HIDE DEF n, e, L, K
<1>7. CASE Skips(raw[i]) /\ e = d
  <2>1. L(i) = Len(e) /\ K(i) = K(i - 1) /\ \A j \in 1..i : L(j) >= 0
    <3>1. L(i) = L(i - 1) /\ K(i) = K(i - 1)
      BY <1>1, <1>2, <1>7, Zenon
    <3>2. \A j \in 1..i : L(j) >= 0
      BY <1>5, <1>7, Zenon
    <3> QED
      BY <1>3, <1>7, <3>1, <3>2, Zenon
  <2>2. /\ \A m \in K(i) : L(m) \in 1..Len(e) /\ e[L(m)] = raw[m]
        /\ \A k \in 1..Len(e) : \E m \in K(i) : L(m) = k
    BY <1>3, <1>7, <2>1, Zenon
  <2> QED
    BY <1>6, <2>1, <2>2, Zenon DEF e
<1>8. CASE /\ raw[i] = DotDot /\ Len(d) > 0 /\ Len(e) = Len(d) - 1
           /\ \A k \in 1..(Len(d) - 1) : e[k] = d[k]
  <2>1. L(i) = Len(e) /\ K(i) = {m \in K(i - 1) : L(m) <= L(i)} /\ \A j \in 1..i : L(j) >= 0
    BY <1>1, <1>2, <1>3, <1>5, <1>8
  <2>2. Len(d) \in Nat /\ Len(e) \in Nat
    BY <1>8
  <2>3. ASSUME NEW m \in K(i) PROVE L(m) \in 1..Len(e) /\ e[L(m)] = raw[m]
    <3>1. L(m) \in 1..Len(d) /\ L(m) <= Len(e) /\ d[L(m)] = raw[m]
      BY <1>3, <2>1
    <3>2. L(m) \in 1..Len(e) /\ L(m) \in 1..(Len(d) - 1)
      BY <1>8, <2>2, <3>1
    <3> QED
      BY <1>8, <3>1, <3>2
  <2>4. ASSUME NEW k \in 1..Len(e) PROVE \E m \in K(i) : L(m) = k
    <3>1. k \in 1..Len(d) /\ k <= Len(e)
      BY <1>8, <2>2
    <3>2. PICK m \in K(i - 1) : L(m) = k
      BY <1>3, <3>1
    <3> QED
      BY <2>1, <3>1, <3>2
  <2> QED
    BY <1>6, <2>1, <2>3, <2>4, Zenon DEF e
<1>9. CASE /\ GoesDown(raw[i]) /\ Len(e) = Len(d) + 1 /\ e[Len(d) + 1] = raw[i]
           /\ \A k \in 1..Len(d) : e[k] = d[k]
  <2>1. L(i) = Len(e) /\ L(i) = Len(d) + 1 /\ K(i) = K(i - 1) \cup {i} /\ \A j \in 1..i : L(j) >= 0
    BY <1>1, <1>2, <1>3, <1>5, <1>9
  <2>2. Len(d) \in Nat /\ Len(e) \in Nat
    BY <1>9
  <2>3. ASSUME NEW m \in K(i) PROVE L(m) \in 1..Len(e) /\ e[L(m)] = raw[m]
    <3>1. CASE m = i
      BY <1>9, <2>1, <2>2, <3>1
    <3>2. CASE m \in K(i - 1)
      <4>1. L(m) \in 1..Len(d) /\ d[L(m)] = raw[m]
        BY <1>3, <3>2
      <4>2. L(m) \in 1..Len(e)
        BY <1>9, <2>2, <4>1
      <4> QED
        BY <1>9, <4>1, <4>2
    <3> QED
      BY <2>1, <3>1, <3>2
  <2>4. ASSUME NEW k \in 1..Len(e) PROVE \E m \in K(i) : L(m) = k
    <3>1. k \in 1..Len(d) \/ k = Len(d) + 1
      BY <1>9, <2>2
    <3>2. CASE k \in 1..Len(d)
      BY <1>3, <2>1, <3>2
    <3>3. CASE k = Len(d) + 1
      BY <2>1, <3>3
    <3> QED
      BY <3>1, <3>2, <3>3
  <2> QED
    BY <1>6, <2>1, <2>3, <2>4, Zenon DEF e
<1>10. CASE /\ raw[i] = DotDot /\ d = <<>> /\ Len(e) = Len(d) + 1 /\ e[Len(d) + 1] = raw[i]
  <2>1. Len(d) = 0
    BY <1>10
  <2>2. L(i) = 0 - 1 /\ i \in 1..i
    BY <1>0, <1>1, <1>3, <1>10, <2>1
  <2>3. Len(e) = 1 /\ e[1] = DotDot
    BY <1>10, <2>1
  <2>4. Outward(raw, i, e)
    BY <2>2, <2>3 DEF Outward, L
  <2> QED
    BY <2>4 DEF e
<1>11. d = <<>> \/ (Len(d) \in 1..Len(d) /\ d[Len(d)] # DotDot)
  <2>1. d = <<>> \/ Len(d) \in 1..Len(d)
    OBVIOUS
  <2>2. ASSUME Len(d) \in 1..Len(d) PROVE d[Len(d)] # DotDot
    <3>1. PICK m \in K(i - 1) : L(m) = Len(d)
      BY <1>3, <2>2
    <3>2. d[Len(d)] = raw[m] /\ GoesDown(raw[m])
      BY <1>3, <3>1 DEF K, Kept
    <3> QED
      BY <3>2, ComponentKinds
  <2> QED
    BY <2>1, <2>2, Zenon
<1>12. \/ Skips(raw[i]) /\ e = d
       \/ /\ raw[i] = DotDot /\ Len(d) > 0 /\ Len(e) = Len(d) - 1
          /\ \A k \in 1..(Len(d) - 1) : e[k] = d[k]
       \/ /\ GoesDown(raw[i]) /\ Len(e) = Len(d) + 1 /\ e[Len(d) + 1] = raw[i]
          /\ \A k \in 1..Len(d) : e[k] = d[k]
       \/ raw[i] = DotDot /\ d = <<>> /\ Len(e) = Len(d) + 1 /\ e[Len(d) + 1] = raw[i]
  BY <1>4, <1>11, Zenon
<1> QED
  BY <1>7, <1>8, <1>9, <1>10, <1>12, Zenon

LEMMA OutwardSteps ==
  ASSUME NEW raw \in Seq(Components), NEW i \in 1..Len(raw), NEW d \in Seq(Components),
         Outward(raw, i - 1, d)
  PROVE  Outward(raw, i, Descend(d, raw[i]))
<1> DEFINE e == Descend(d, raw[i])
<1>0. raw[i] \in Components /\ i \in Nat
  OBVIOUS
<1>1. (\E j \in 1..(i - 1) : Level(raw, j) < 0) /\ Len(d) > 0 /\ d[1] = DotDot
  BY DEF Outward
<1>2. \E j \in 1..i : Level(raw, j) < 0
  <2>1. \A j \in 1..(i - 1) : j \in 1..i
    BY <1>0
  <2> QED
    BY <1>1, <2>1
<1>3. \/ e = d
      \/ /\ Len(d) > 0 /\ d[Len(d)] # DotDot /\ Len(e) = Len(d) - 1
         /\ \A k \in 1..(Len(d) - 1) : e[k] = d[k]
      \/ Len(e) = Len(d) + 1 /\ \A k \in 1..Len(d) : e[k] = d[k]
  BY <1>0, DescendSteps
<1> HIDE DEF e
<1>4. Len(e) > 0 /\ e[1] = DotDot
  <2>1. Len(d) \in Nat /\ 1 \in 1..Len(d)
    BY <1>1
  <2>2. CASE d[Len(d)] # DotDot /\ Len(e) = Len(d) - 1 /\ \A k \in 1..(Len(d) - 1) : e[k] = d[k]
    <3>1. Len(d) # 1
      BY <1>1, <2>2
    <3>2. 1 \in 1..(Len(d) - 1) /\ Len(d) - 1 > 0
      <4>1. \A k \in Nat : 1 \in 1..k /\ k # 1 => 1 \in 1..(k - 1) /\ k - 1 > 0
        OBVIOUS
      <4> QED
        BY <2>1, <3>1, <4>1, Zenon
    <3> QED
      BY <1>1, <2>2, <3>2
  <2>3. CASE Len(e) = Len(d) + 1 /\ \A k \in 1..Len(d) : e[k] = d[k]
    BY <1>1, <2>1, <2>3
  <2> QED
    BY <1>1, <1>3, <2>2, <2>3
<1> QED
  BY <1>2, <1>4 DEF Outward, e

\* The path of names and levels, or out.
LEMMA NormpathKeeps ==
  ASSUME NEW raw \in Seq(Components)
  PROVE  /\ Normpath(raw) \in Seq(Components)
         /\ Within(raw, Len(raw), Normpath(raw)) \/ Outward(raw, Len(raw), Normpath(raw))
<1> DEFINE n == Len(raw)
<1>0. n \in Nat
  OBVIOUS
<1>1. PICK done \in [0..n -> Seq(Components)] :
        /\ done[0] = <<>>
        /\ \A i \in 1..n : done[i] = Descend(done[i - 1], raw[i])
        /\ Normpath(raw) = done[n]
  BY NormpathSteps
<1> DEFINE T == {i \in 0..n : Within(raw, i, done[i]) \/ Outward(raw, i, done[i])}
<1>2. 0 \in T
  <2>1. 1..0 = {} /\ 0 \in 0..n /\ Len(<<>>) = 0
    BY <1>0
  <2>2. Kept(raw, 0) = {}
    BY <2>1 DEF Kept
  <2>3. Within(raw, 0, <<>>)
    BY <2>1, <2>2, LevelSteps, Zenon DEF Within
  <2> QED
    BY <1>1, <2>1, <2>3
<1>3. ASSUME NEW i \in 1..n, i - 1 \in T PROVE i \in T
  <2>1. i \in 0..n /\ i - 1 \in 0..n /\ done[i - 1] \in Seq(Components)
    <3> HIDE DEF n, T
    <3>1. i \in 0..n /\ i - 1 \in 0..n
      BY <1>0
    <3> QED
      BY <3>1, Zenon
  <2>2. Within(raw, i - 1, done[i - 1]) \/ Outward(raw, i - 1, done[i - 1])
    BY <1>3
  <2>3. Within(raw, i, Descend(done[i - 1], raw[i])) \/ Outward(raw, i, Descend(done[i - 1], raw[i]))
    BY <2>1, <2>2, WithinSteps, OutwardSteps, Zenon
  <2> QED
    BY <1>1, <2>1, <2>3, Zenon
<1> HIDE DEF T
<1>4. 0..n \subseteq T
  BY <1>0, <1>2, <1>3, Induction
<1>5. n \in T /\ n \in 0..n
  BY <1>0, <1>4
<1> QED
  BY <1>1, <1>5 DEF T

\* What normalisation refuses, but for a NUL, is what climbs out or names the session directory.
LEMMA NormpathRefused ==
  ASSUME NEW raw \in Seq(Components)
  PROVE  /\ (Normpath(raw) = <<>> \/ IsPrefix(<<DotDot>>, Normpath(raw)))
              <=> ((\E i \in 1..Len(raw) : Level(raw, i) < 0) \/ Level(raw, Len(raw)) = 0)
         /\ Within(raw, Len(raw), Normpath(raw)) \/ IsPrefix(<<DotDot>>, Normpath(raw))
<1> DEFINE p == Normpath(raw)
<1> DEFINE n == Len(raw)
<1>1. p \in Seq(Components) /\ (Within(raw, n, p) \/ Outward(raw, n, p))
  BY NormpathKeeps
<1>2. IsPrefix(<<DotDot>>, p) <=> Len(p) > 0 /\ p[1] = DotDot
  BY <1>1, PrefixOfOne
<1>3. \A j \in 1..n : Level(raw, j) \in Int
  <2>1. \A j \in 1..n : j \in 0..n
    OBVIOUS
  <2> QED
    BY <2>1, LevelSteps
<1> HIDE DEF p, n
<1>4. p = <<>> <=> Len(p) = 0
  BY <1>1, EmptySeq
<1>5. CASE Within(raw, n, p)
  <2>1. Level(raw, n) = Len(p) /\ \A j \in 1..n : Level(raw, j) >= 0
    BY <1>5 DEF Within
  <2>2. ~\E j \in 1..n : Level(raw, j) < 0
    BY <1>3, <2>1
  <2>3. ~(Len(p) > 0 /\ p[1] = DotDot)
    <3>1. SUFFICES ASSUME 1 \in 1..Len(p), p[1] = DotDot PROVE FALSE
      BY <1>1
    <3>2. PICK m \in Kept(raw, n) : Level(raw, m) = 1
      BY <1>5, <3>1, Zenon DEF Within
    <3>3. p[1] = raw[m] /\ GoesDown(raw[m])
      BY <1>5, <3>2, Zenon DEF Within, Kept
    <3> QED
      BY <3>1, <3>3, ComponentKinds, Zenon
  <2> QED
    BY <1>2, <1>4, <1>5, <2>1, <2>2, <2>3, Zenon DEF p, n
<1>6. CASE Outward(raw, n, p)
  BY <1>2, <1>6, Zenon DEF Outward, p, n
<1> QED
  BY <1>1, <1>5, <1>6

\* What is not refused consists of names.
LEMMA NormpathNames ==
  ASSUME NEW raw \in RawPaths, ~Refused(raw)
  PROVE  Normpath(raw) \in Seq(Names) \ {<<>>}
<1> DEFINE p == Normpath(raw)
<1>1. raw \in Seq(Components)
  BY PathsAssumption
<1>2. /\ Nul \notin ToSet(raw) /\ p # <<>> /\ ~IsPrefix(<<DotDot>>, p)
  BY Zenon DEF Refused
<1>3. Within(raw, Len(raw), p) /\ p \in Seq(Components)
  BY <1>1, <1>2, NormpathRefused, NormpathKeeps, Zenon
<1> HIDE DEF p
<1>4. ASSUME NEW k \in 1..Len(p) PROVE p[k] \in Names
  <2>1. PICK m \in Kept(raw, Len(raw)) : Level(raw, m) = k
    BY <1>3, <1>4, Zenon DEF Within
  <2>2. p[k] = raw[m] /\ GoesDown(raw[m]) /\ m \in 1..Len(raw)
    BY <1>3, <2>1, Zenon DEF Within, Kept
  <2>3. raw[m] \in Components /\ raw[m] \in ToSet(raw)
    BY <1>1, <2>2 DEF ToSet
  <2>4. raw[m] # Nul
    BY <1>2, <2>3, Zenon
  <2> QED
    BY <2>2, <2>3, <2>4 DEF Components, GoesDown, Nul, Dot, DotDot
<1>5. p \in Seq(Names)
  <2>1. Len(p) \in Nat /\ p = [k \in 1..Len(p) |-> p[k]]
    BY <1>3
  <2>2. p \in [1..Len(p) -> Names]
    BY <1>4, <2>1
  <2> QED
    BY <2>1, <2>2, SeqDef
<1> QED
  BY <1>2, <1>5 DEF p

\* Normalisation keeps the names that survive, in their order.
LEMMA NormpathSurvivors ==
  ASSUME NEW raw \in Seq(Components), Within(raw, Len(raw), Normpath(raw))
  PROVE  LET kept == {i \in 1..Len(raw) : Survives(raw, i)}
         IN  Normpath(raw) = [k \in 1..Cardinality(kept) |->
               raw[CHOOSE i \in kept : Cardinality({j \in kept : j <= i}) = k]]
<1> DEFINE p == Normpath(raw)
<1> DEFINE n == Len(raw)
<1> DEFINE L(m) == Level(raw, m)
<1> DEFINE kept == {i \in 1..Len(raw) : Survives(raw, i)}
<1>0. n \in Nat /\ p \in Seq(Components) /\ Len(p) \in Nat /\ p = [k \in 1..Len(p) |-> p[k]]
  <2>1. p \in Seq(Components)
    BY NormpathKeeps
  <2> HIDE DEF p
  <2> QED
    BY <2>1
<1>1. /\ \A m \in 0..n : L(m) \in Int
      /\ \A m \in 1..n : GoesDown(raw[m]) => L(m) = L(m - 1) + 1
  BY LevelSteps
<1>2. kept = Kept(raw, n)
  BY Zenon DEF Kept, Survives, GoesDown
<1>3. /\ \A m \in kept : L(m) \in 1..Len(p) /\ p[L(m)] = raw[m]
      /\ \A k \in 1..Len(p) : \E m \in kept : L(m) = k
  BY <1>2, Zenon DEF Within
<1>4. \A m \in kept : /\ m \in 1..n /\ GoesDown(raw[m])
                      /\ \A j \in (m + 1)..n : L(j) >= L(m)
  BY <1>2, Zenon DEF Kept
<1> HIDE DEF p, n, L, kept
<1>5. ASSUME NEW l \in kept, NEW m \in kept, l < m PROVE L(l) < L(m)
  <2>1. l \in 1..n /\ m \in 1..n /\ l \in 0..n /\ m - 1 \in 0..n /\ m \in 0..n
    BY <1>0, <1>4
  <2>2. l = m - 1 \/ m - 1 \in (l + 1)..n
    BY <1>0, <1>5, <2>1
  <2>3. L(l) \in Int /\ L(m - 1) \in Int /\ L(m) = L(m - 1) + 1
    BY <1>1, <1>4, <2>1
  <2>4. L(m - 1) >= L(l)
    BY <1>4, <2>2, <2>3
  <2> QED
    BY <2>3, <2>4
<1>6. \A l, m \in kept : L(l) = L(m) => l = m
  <2> TAKE l, m \in kept
  <2>1. l \in Nat /\ m \in Nat /\ L(l) \in Int /\ L(m) \in Int
    BY <1>1, <1>3, <1>4
  <2>2. l < m \/ m < l \/ l = m
    BY <2>1
  <2>3. ~(L(l) = L(m) /\ L(l) < L(m)) /\ ~(L(l) = L(m) /\ L(m) < L(l))
    BY <2>1
  <2> QED
    BY <1>5, <2>2, <2>3
<1>7. Cardinality(kept) = Len(p)
  <2> DEFINE f == [m \in kept |-> L(m)]
  <2>1. f \in [kept -> 1..Len(p)]
    BY <1>3
  <2>2. \A l, m \in kept : f[l] = f[m] => l = m
    BY <1>6
  <2>3. \A k \in 1..Len(p) : \E m \in kept : f[m] = k
    BY <1>3
  <2> HIDE DEF f
  <2>4. Len(p) \in Nat
    BY <1>0
  <2> QED
    BY ONLY <2>1, <2>2, <2>3, <2>4, CountNumbered, SMTT(30)
<1>8. ASSUME NEW m \in kept PROVE Cardinality({j \in kept : j <= m}) = L(m)
  <2> DEFINE S == {j \in kept : j <= m}
  <2> DEFINE f == [j \in S |-> L(j)]
  <2>0. L(m) \in 1..Len(p) /\ L(m) \in Nat /\ m \in Nat /\ S \subseteq kept
    BY <1>3, <1>4
  <2>1. ASSUME NEW j \in S PROVE L(j) \in 1..L(m)
    <3>1. j \in kept /\ j \in Nat /\ j <= m /\ L(j) \in 1..Len(p)
      BY <1>3, <1>4
    <3>2. j = m \/ j < m
      BY <2>0, <3>1
    <3>3. L(j) = L(m) \/ L(j) < L(m)
      BY <1>5, <3>1, <3>2
    <3> QED
      BY <2>0, <3>1, <3>3
  <2>2. ASSUME NEW k \in 1..L(m) PROVE \E j \in S : L(j) = k
    <3>1. k \in 1..Len(p) /\ k \in Nat /\ k <= L(m)
      BY <1>0, <2>0
    <3>2. PICK j \in kept : L(j) = k
      BY <1>3, <3>1
    <3>3. ~(m < j)
      <4>1. ~(L(m) < L(j))
        BY <2>0, <3>1, <3>2
      <4> QED
        BY <1>5, <4>1
    <3>4. j <= m
      BY <1>4, <2>0, <3>3
    <3> QED
      BY <3>2, <3>4
  <2>3. f \in [S -> 1..L(m)]
    BY <2>1
  <2>4. \A l, j \in S : f[l] = f[j] => l = j
    BY <1>6
  <2>5. \A k \in 1..L(m) : \E j \in S : f[j] = k
    BY <2>2
  <2> HIDE DEF f, S
  <2>6. L(m) \in Nat
    BY <2>0
  <2>7. Cardinality(S) = L(m)
    BY ONLY <2>3, <2>4, <2>5, <2>6, CountNumbered, SMTT(30)
  <2> QED
    BY <2>7 DEF S
<1>9. ASSUME NEW k \in 1..Len(p)
      PROVE  p[k] = raw[CHOOSE i \in kept : Cardinality({j \in kept : j <= i}) = k]
  <2> DEFINE x == CHOOSE i \in kept : Cardinality({j \in kept : j <= i}) = k
  <2>1. \E i \in kept : Cardinality({j \in kept : j <= i}) = k
    BY <1>3, <1>8, <1>9
  <2>2. x \in kept /\ Cardinality({j \in kept : j <= x}) = k
    BY <2>1, Zenon
  <2> HIDE DEF x
  <2>3. L(x) = k
    BY <1>8, <2>2
  <2>4. p[k] = raw[x]
    BY <1>3, <2>2, <2>3
  <2> QED
    BY <2>4 DEF x
<1>10. p = [k \in 1..Cardinality(kept) |->
              raw[CHOOSE i \in kept : Cardinality({j \in kept : j <= i}) = k]]
  BY <1>0, <1>7, <1>9
<1> QED
  BY <1>10, Zenon DEF p, kept

-----------------------------------------------------------------------------
(* Containment                                                               *)

Inside == Dirs \cup Nodes \cup {None}

PathInv ==
  /\ phase = "begun" => asked \in RawPaths
  /\ phase \in {"mkdir", "walk", "last", "unlink", "copy"} => path \in Seq(Names) \ {<<>>}
  /\ phase \in {"mkdir", "walk"} => depth \in Nat /\ depth + 2 <= Len(path)

InsideInv == fd \in Inside /\ temp \in Inside /\ got \in Files \cup {None}

WalkInv == PathInv /\ InsideInv

\* A name leads down, or nowhere.
LEMMA NamesLeadDown ==
  ASSUME NEW d, NEW c \in Names
  PROVE  OpenDirectory(d, c) \in Inside
<1>1. c # DotDot
  BY NodesAssumption DEF DotDot
<1>2. CASE At(d, c) \cap SubDirs # {}
  <2>1. OpenDirectory(d, c) = CHOOSE n \in At(d, c) : TRUE
    BY <1>1, <1>2 DEF OpenDirectory, Lookup
  <2> QED
    BY <1>2, <2>1 DEF At, Inside
<1>3. CASE At(d, c) \cap SubDirs = {}
  BY <1>1, <1>3 DEF OpenDirectory, Lookup, Inside
<1> QED
  BY <1>2, <1>3

\* Of a path that is not a single name the walk has something to descend.
LEMMA EnoughLeft == \A n \in Nat \ {0} : n = 1 \/ (0 \in Nat /\ 0 + 2 <= n)
OBVIOUS

LEMMA WalkInit == Init => WalkInv
BY DEF Init, WalkInv, PathInv, InsideInv, Inside

LEMMA WalkStep ==
  ASSUME WalkInv, [Next]_vars
  PROVE  WalkInv'
<1> USE DEF WalkInv, PathInv, InsideInv
<1>1. ASSUME NEW o \in {"read", "delete", "stage"}, NEW raw \in RawPaths, Begin(o, raw) PROVE WalkInv'
  BY <1>1 DEF Begin, Inside
<1>2. CASE Normalise
  <2>1. CASE phase' = "entries" /\ fd' = Root /\ UNCHANGED <<temp, got>>
    BY <2>1 DEF Inside, Dirs
  <2>2. CASE phase' = "idle" /\ fd' = None /\ UNCHANGED <<temp, got>>
    BY <2>2 DEF Inside
  <2>3. CASE /\ phase = "begun" /\ ~Refused(asked)
             /\ path' = Normpath(asked) /\ depth' = 0 /\ fd' = Root /\ UNCHANGED <<temp, got>>
             /\ phase' = IF Len(path') = 1 THEN "last" ELSE IF op = "stage" THEN "mkdir" ELSE "walk"
    <3>1. path' \in Seq(Names) \ {<<>>}
      BY <2>3, NormpathNames
    <3>2. Len(path') \in Nat \ {0}
      BY <3>1
    <3>3. Len(path') = 1 \/ (depth' \in Nat /\ depth' + 2 <= Len(path'))
      BY <2>3, <3>2, EnoughLeft, Zenon
    <3>4. phase' \in {"last", "mkdir", "walk"} /\ (Len(path') = 1 => phase' = "last")
      BY <2>3
    <3>5. PathInv'
      BY <3>1, <3>3, <3>4
    <3>6. InsideInv'
      BY <2>3 DEF Inside, Dirs
    <3> QED
      BY <3>5, <3>6
  <2> QED
    BY <1>2, <2>1, <2>2, <2>3, Zenon DEF Normalise, Ends, Enter, treeVars
<1>3. CASE MkDir
  BY <1>3 DEF MkDir, Ends, Inside
<1>4. CASE Walk
  <2>1. NextComponent \in Names
    BY <1>4 DEF Walk, NextComponent
  <2>2. OpenDirectory(fd, NextComponent) \in Inside
    BY <2>1, NamesLeadDown
  <2> QED
    BY <1>4, <2>2 DEF Walk, Fails, Ends, treeVars, Inside
<1>5. CASE ReadFile
  <2>1. Len(path) \in Nat \ {0}
    BY <1>5 DEF ReadFile
  <2>2. CASE Enter("list", path, held + 1 - Closed(FALSE)) /\ UNCHANGED <<treeVars, got>>
    <3>1. Len(path) = 1 \/ (depth' \in Nat /\ depth' + 2 <= Len(path))
      BY <2>1, <2>2, EnoughLeft, Zenon DEF Enter
    <3>2. /\ phase' \in {"last", "walk"} /\ (Len(path) = 1 => phase' = "last")
          /\ path' = path /\ fd' = Root /\ UNCHANGED <<temp, got>>
      BY <2>2 DEF Enter, treeVars
    <3>3. PathInv'
      BY <1>5, <3>1, <3>2 DEF ReadFile
    <3>4. InsideInv'
      BY <3>2 DEF Inside, Dirs
    <3> QED
      BY <3>3, <3>4
  <2>3. CASE phase' = "idle" /\ fd' = None /\ UNCHANGED treeVars /\ got' \in Files \cup {got}
    BY <2>3 DEF treeVars, Inside
  <2> QED
    BY <1>5, <2>2, <2>3 DEF ReadFile, Fails, Ends
<1>6. CASE ListDirectory
  <2>1. Filename \in Names
    BY <1>6 DEF ListDirectory, Filename, Last
  <2>2. OpenDirectory(fd, Filename) \in Inside
    BY <2>1, NamesLeadDown
  <2> QED
    BY <1>6, <2>2 DEF ListDirectory, Fails, Ends, treeVars, Inside
<1>7. CASE Listed
  BY <1>7 DEF Listed, Ends, treeVars, Inside
<1>8. ASSUME NEW c \in Names, StatEntry(c) PROVE WalkInv'
  BY <1>8 DEF StatEntry, treeVars
<1>9. CASE DeleteStat
  BY <1>9 DEF DeleteStat, Fails, Ends, treeVars, Inside
<1>10. CASE Unlink
  BY <1>10 DEF Unlink, Fails, Ends, treeVars, Inside
<1>11. CASE OpenTemp
  BY <1>11 DEF OpenTemp, Fails, Ends, treeVars, Inside
<1>12. CASE CopyChunk
  BY <1>12 DEF CopyChunk, StageFails, UnlinkTemp, Ends, treeVars, Inside
<1>13. CASE CopyFails
  BY <1>13 DEF CopyFails, StageFails, UnlinkTemp, Ends, Inside
<1>14. CASE Staged
  BY <1>14 DEF Staged, Ends, treeVars, Inside
<1>15. CASE Sent
  BY <1>15 DEF Sent, treeVars
<1>16. CASE Program
  BY <1>16 DEF Program, ProgramPuts, ProgramRemoves, ProgramRemovesTemp, ProgramChmods, Inside
<1>17. CASE UNCHANGED vars
  BY <1>17 DEF vars, treeVars, reqVars
<1> QED
  BY <1>1, <1>2, <1>3, <1>4, <1>5, <1>6, <1>7, <1>8, <1>9, <1>10, <1>11, <1>12, <1>13, <1>14,
     <1>15, <1>16, <1>17 DEF Next, Server

\* However a program rearranges the tree under the walk, nothing outside the session is
\* acted in or served (sessions.py, _open_parent).
THEOREM ContainedCorrect == Spec => []Contained
<1>1. WalkInv /\ [Next]_vars => WalkInv'
  BY WalkStep
<1>2. WalkInv => Contained
  <2>1. Outside \notin Inside \cup Files
    BY NodesAssumption DEF Inside, Nodes
  <2> QED
    BY <2>1, NodesAssumption DEF WalkInv, InsideInv, Contained, Inside
<1> QED
  BY WalkInit, <1>1, <1>2, PTL DEF Spec

\* For any paths, normalize_sub_path refuses those that climb out or name the session directory,
\* and leads where the client's path leads (validation.py).
THEOREM NormalisesRightCorrect == Spec => []NormalisesRight
<1>1. WalkInv => NormalisesRight
  <2> SUFFICES ASSUME WalkInv, phase = "begun"
               PROVE  NormalisesRight
    BY DEF NormalisesRight
  <2>1. asked \in Seq(Components)
    BY PathsAssumption DEF WalkInv, PathInv
  <2>2. Refused(asked) <=> \/ Nul \in ToSet(asked)
                           \/ \E i \in 1..Len(asked) : Level(asked, i) < 0
                           \/ Level(asked, Len(asked)) = 0
    BY <2>1, NormpathRefused, Zenon DEF Refused
  <2>3. ~Refused(asked) => Within(asked, Len(asked), Normpath(asked))
    BY <2>1, NormpathRefused, Zenon DEF Refused
  <2> QED
    BY <2>1, <2>2, <2>3, NormpathSurvivors, Zenon DEF NormalisesRight
<1> QED
  BY WalkInit, WalkStep, <1>1, PTL DEF Spec
-----------------------------------------------------------------------------
(* The capped copy                                                           *)

CopyInv ==
  /\ phase \in Phases
  /\ copy.body \in Nat /\ copy.written \in 0..CAP /\ copy.written <= copy.body
  /\ copy \in [body : Nat, written : Nat]

\* What CappedCopy says of a step.
CapHolds ==
  /\ copy'.written <= CAP
  /\ phase = "copy" /\ phase' = "idle" =>
       /\ answer' = "toolarge" => copy.body > CAP
       /\ answer' = "ok" => copy.written = copy.body

LEMMA CopyInit == Init => CopyInv
BY SizesAssumption DEF Init, CopyInv, NoCopy, Phases

\* A step that does not copy.
LEMMA NotCopying ==
  ASSUME CopyInv, copy' = copy \/ copy' = NoCopy, phase # "copy" \/ phase' = "copy", phase' \in Phases
  PROVE  CopyInv' /\ CapHolds
BY SizesAssumption DEF CopyInv, CapHolds, NoCopy

LEMMA CopyStep ==
  ASSUME CopyInv, Next
  PROVE  CopyInv' /\ CapHolds
<1>1. ASSUME NEW o \in {"read", "delete", "stage"}, NEW raw \in RawPaths, Begin(o, raw)
      PROVE  CopyInv' /\ CapHolds
  BY <1>1, NotCopying DEF Begin, Phases
<1>2. CASE Normalise
  <2>1. phase = "begun" /\ phase' \in Phases /\ (copy' = copy \/ copy' = NoCopy)
    <3>1. /\ phase = "begun" /\ (copy' = copy \/ copy' = NoCopy)
          /\ \/ phase' = "entries"
             \/ phase' = "idle"
             \/ phase' \in {"last", "mkdir", "walk"}
      BY <1>2, Zenon DEF Normalise, Ends, Enter
    <3> QED
      BY <3>1 DEF Phases
  <2> QED
    BY <2>1, NotCopying
<1>3. CASE MkDir
  BY <1>3, NotCopying DEF MkDir, Ends, Phases
<1>4. CASE Walk
  BY <1>4, NotCopying DEF Walk, Fails, Ends, treeVars, Phases
<1>5. CASE ReadFile
  BY <1>5, NotCopying DEF ReadFile, Fails, Ends, Enter, treeVars, Phases
<1>6. CASE ListDirectory
  BY <1>6, NotCopying DEF ListDirectory, Fails, Ends, treeVars, Phases
<1>7. CASE Listed
  BY <1>7, NotCopying DEF Listed, Ends, treeVars, Phases
<1>8. ASSUME NEW c \in Names, StatEntry(c) PROVE CopyInv' /\ CapHolds
  BY <1>8, NotCopying DEF StatEntry, treeVars, Phases
<1>9. CASE DeleteStat
  BY <1>9, NotCopying DEF DeleteStat, Fails, Ends, treeVars, Phases
<1>10. CASE Unlink
  BY <1>10, NotCopying DEF Unlink, Fails, Ends, treeVars, Phases
<1>11. CASE OpenTemp
  <2>1. CASE Fails(Refusal(fd))
    BY <1>11, <2>1, NotCopying DEF OpenTemp, Fails, Ends, Phases
  <2>2. CASE \E b \in 0..(CAP + 2) : phase' = "copy" /\ copy' = [body |-> b, written |-> 0]
    BY <1>11, <2>2, SizesAssumption DEF OpenTemp, CopyInv, CapHolds, Phases
  <2> QED
    BY <1>11, <2>1, <2>2 DEF OpenTemp
<1>12. CASE CopyChunk
  <2>1. PICK chunk \in Yields(copy.body - copy.written) :
          /\ copy.written + chunk <= copy.body
          /\ \/ Fits(chunk) /\ copy' = [copy EXCEPT !.written = @ + chunk] /\ phase' = phase
             \/ ~Fits(chunk) /\ StageFails("toolarge")
    BY <1>12 DEF CopyChunk
  <2>2. chunk \in Nat
    BY <2>1, SizesAssumption DEF Yields, CopyInv
  <2>3. CASE Fits(chunk) /\ copy' = [copy EXCEPT !.written = @ + chunk] /\ phase' = phase
    BY <1>12, <2>1, <2>2, <2>3, SizesAssumption DEF CopyChunk, Fits, CopyInv, CapHolds
  <2>4. CASE ~Fits(chunk) /\ StageFails("toolarge")
    BY <1>12, <2>1, <2>2, <2>4, SizesAssumption
       DEF CopyChunk, Fits, StageFails, Ends, NoCopy, CopyInv, CapHolds, Phases
  <2> QED
    BY <2>1, <2>3, <2>4
<1>13. CASE CopyFails
  BY <1>13, SizesAssumption DEF CopyFails, StageFails, Ends, NoCopy, CopyInv, CapHolds, Phases
<1>14. CASE Staged
  BY <1>14, SizesAssumption DEF Staged, Ends, NoCopy, CopyInv, CapHolds, Phases
<1>15. CASE Sent
  BY <1>15, NotCopying DEF Sent, CopyInv, Phases
<1>16. CASE Program
  BY <1>16, NotCopying DEF Program, CopyInv
<1> QED
  BY <1>1, <1>2, <1>3, <1>4, <1>5, <1>6, <1>7, <1>8, <1>9, <1>10, <1>11, <1>12, <1>13, <1>14,
     <1>15, <1>16 DEF Next, Server

\* For any cap and any chunks: nothing past the cap reaches the disk, only what is larger is
\* refused for it, and what is staged is all of the upload (file_helpers.py, _write_content).
THEOREM CappedCopyCorrect == Spec => CappedCopy
<1>1. CopyInv /\ [Next]_vars => CopyInv' /\ (CapHolds \/ UNCHANGED vars)
  <2>1. CASE Next
    BY <2>1, CopyStep
  <2>2. CASE UNCHANGED vars
    BY <2>2 DEF vars, treeVars, reqVars, CopyInv
  <2> QED
    BY <2>1, <2>2
<1>2. CopyInv /\ [Next]_vars => CopyInv' /\ [CapHolds]_vars
  BY <1>1
<1> QED
  BY CopyInit, <1>2, PTL DEF Spec, CappedCopy, CapHolds
-----------------------------------------------------------------------------
(* What GET answers                                                          *)

\* A place holds one node at most.
TreeInv ==
  /\ at \in [Nodes -> Places \cup {None}]
  /\ \A n, m \in Nodes : at[n] = at[m] /\ at[n] # None => n = m

\* Which operation is in which phase, and how far its walk is from its end.
StageInv ==
  /\ phase \in Phases
  /\ phase \in {"idle", "begun"} => path = <<>>
  /\ phase = "begun" => op \in {"read", "delete", "stage"}
  /\ phase \in {"mkdir", "copy"} => op = "stage"
  /\ phase = "unlink" => op = "delete"
  /\ phase = "entries" => op = "list"
  /\ phase = "last" => depth \in Nat /\ depth + 1 = Len(path)

\* f is the way down the first k components of path p.
Way(p, f, k) ==
  /\ f \in [0..k -> Nodes \cup {Root}]
  /\ f[0] = Root
  /\ \A i \in 1..k : f[i] \in Nodes /\ at[f[i]] = <<f[i - 1], p[i]>>

Getting == calm /\ op \in {"read", "list"}

\* The walk of a GET nobody disturbs is on the one way there is to where its path
\* leads, and list_directory is asked about a directory only.
LedInv ==
  Getting =>
    /\ phase \in {"walk", "last"} =>
         /\ fd \in Dirs
         /\ \E f : Way(path, f, depth) /\ f[depth] = fd
         /\ \A f : Way(path, f, Len(path)) => f[depth] = fd
         /\ op = "list" => \E d \in SubDirs : Leads(path, d)
    /\ phase = "entries" => fd \in Dirs /\ Leads(path, fd)

\* What has been looked at has been reported.
ListingInv ==
  calm /\ phase = "entries" =>
    listing.entries = {e \in Entries(fd) : e[1] \notin listing.todo /\ May("x", fd)}

TruthInv == WalkInv /\ StageInv /\ TreeInv /\ LedInv /\ ListingInv

-----------------------------------------------------------------------------
LEMMA TreeStep ==
  ASSUME WalkInv, StageInv, TreeInv, [Next]_vars
  PROVE  TreeInv'
<1> USE DEF TreeInv
<1>1. ASSUME NEW d \in Dirs, NEW c \in Names, NEW n \in Nodes,
             At(d, c) = {}, at' = [at EXCEPT ![n] = <<d, c>>]
      PROVE  TreeInv'
  <2>1. <<d, c>> \in Places /\ \A m \in Nodes : at[m] # <<d, c>>
    BY <1>1 DEF Places, At
  <2> QED
    BY <1>1, <2>1
<1>2. ASSUME NEW n \in Nodes, at' = [at EXCEPT ![n] = None] PROVE TreeInv'
  BY <1>2
<1>3. CASE MkDir
  <2>1. CASE at' = at
    BY <2>1
  <2>2. ASSUME At(fd, NextComponent) = {}, CanCreate(fd), NEW d \in SubDirs,
               at' = [at EXCEPT ![d] = <<fd, NextComponent>>]
        PROVE  TreeInv'
    <3>1. NextComponent \in Names
      BY <1>3 DEF MkDir, NextComponent, WalkInv, PathInv
    <3>2. fd \in Dirs /\ d \in Nodes
      BY <2>2 DEF CanCreate, Linked, Dirs, Nodes
    <3> QED
      BY <1>1, <2>2, <3>1, <3>2
  <2> QED
    BY <1>3, <2>1, <2>2 DEF MkDir
<1>4. CASE Unlink
  BY <1>2, <1>4 DEF Unlink, Fails, treeVars, At
<1>5. CASE Program
  <2>1. ASSUME NEW n \in Nodes, NEW d \in Dirs, NEW c \in Names, ProgramPuts(n, d, c) PROVE TreeInv'
    BY <1>1, <2>1 DEF ProgramPuts
  <2> QED
    BY <1>2, <1>5, <2>1 DEF Program, ProgramRemoves, ProgramRemovesTemp, ProgramChmods
<1>6. CASE \/ \E o \in {"read", "delete", "stage"}, raw \in RawPaths : Begin(o, raw)
           \/ Normalise \/ Walk \/ ReadFile \/ ListDirectory \/ Listed
           \/ (\E c \in Names : StatEntry(c)) \/ DeleteStat
  <2>1. at' = at
    BY <1>6, Zenon
    DEF Begin, Normalise, Walk, ReadFile, ListDirectory, Listed, StatEntry, DeleteStat, Fails, treeVars
  <2> QED
    BY <2>1
<1>7. CASE OpenTemp \/ CopyChunk \/ CopyFails \/ Staged \/ Sent \/ UNCHANGED vars
  <2>1. at' = at
    BY <1>7, Zenon DEF OpenTemp, CopyChunk, CopyFails, StageFails, Staged, Sent, Fails, treeVars, vars
  <2> QED
    BY <2>1
<1> QED
  BY <1>3, <1>4, <1>5, <1>6, <1>7 DEF Next, Server

LEMMA StageStep ==
  ASSUME WalkInv, StageInv, [Next]_vars
  PROVE  StageInv'
<1> USE DEF StageInv
<1>0. ASSUME phase' = "idle", path' = <<>> PROVE StageInv'
  BY <1>0 DEF Phases
<1>1. ASSUME NEW o, NEW p \in Seq(Names) \ {<<>>}, NEW h, Enter(o, p, h) PROVE StageInv'
  <2>1. Len(p) = 1 => 0 \in Nat /\ 0 + 1 = Len(p)
    OBVIOUS
  <2>2. /\ op' = o /\ path' = p /\ depth' = 0
        /\ phase' = IF Len(p) = 1 THEN "last" ELSE IF o = "stage" THEN "mkdir" ELSE "walk"
    BY <1>1 DEF Enter
  <2> QED
    BY <2>1, <2>2 DEF Phases
<1>2. ASSUME UNCHANGED <<phase, op, path, depth>> PROVE StageInv'
  BY <1>2
<1>3. ASSUME NEW o \in {"read", "delete", "stage"}, NEW raw \in RawPaths, Begin(o, raw) PROVE StageInv'
  BY <1>3 DEF Begin, Phases
<1>4. CASE Normalise
  <2>1. CASE phase' = "entries" /\ op' = "list"
    BY <2>1 DEF Phases
  <2>2. CASE phase' = "idle" /\ path' = <<>>
    BY <1>0, <2>2
  <2>3. CASE phase = "begun" /\ ~Refused(asked) /\ Enter(op, Normpath(asked), held)
    <3>1. Normpath(asked) \in Seq(Names) \ {<<>>}
      BY <2>3, NormpathNames DEF WalkInv, PathInv
    <3> QED
      BY <1>1, <2>3, <3>1
  <2> QED
    BY <1>4, <2>1, <2>2, <2>3, Zenon DEF Normalise, Ends
<1>5. CASE MkDir
  BY <1>5 DEF MkDir, Ends, Phases
<1>6. CASE Walk
  <2>1. depth \in Nat /\ Len(path) \in Nat /\ phase = "walk"
    BY <1>6 DEF Walk, WalkInv, PathInv
  <2>2. CASE phase' = "idle" /\ path' = <<>>
    BY <1>0, <2>2
  <2>3. CASE /\ depth' = depth + 1 /\ UNCHANGED <<op, path>>
             /\ phase' = IF depth + 2 = Len(path) THEN "last" ELSE IF op = "stage" THEN "mkdir" ELSE "walk"
    <3>1. depth + 2 = Len(path) => depth' \in Nat /\ depth' + 1 = Len(path)
      BY <2>1, <2>3
    <3>2. /\ phase' \in {"last", "mkdir", "walk"}
          /\ phase' = "last" => depth + 2 = Len(path)
          /\ phase' = "mkdir" => op = "stage"
      BY <2>3
    <3> QED
      BY <2>3, <3>1, <3>2 DEF Phases
  <2> QED
    BY <1>6, <2>2, <2>3 DEF Walk, Fails, Ends
<1>7. CASE ReadFile
  <2>1. path \in Seq(Names) \ {<<>>}
    BY <1>7 DEF ReadFile, WalkInv, PathInv
  <2> QED
    BY <1>0, <1>1, <1>7, <2>1 DEF ReadFile, Fails, Ends
<1>8. CASE ListDirectory
  BY <1>8 DEF ListDirectory, Fails, Ends, Phases
<1>9. CASE Listed
  BY <1>0, <1>9 DEF Listed, Ends
<1>10. ASSUME NEW c \in Names, StatEntry(c) PROVE StageInv'
  BY <1>2, <1>10 DEF StatEntry
<1>11. CASE DeleteStat
  BY <1>11 DEF DeleteStat, Fails, Ends, Phases
<1>12. CASE Unlink
  BY <1>0, <1>12 DEF Unlink, Fails, Ends
<1>13. CASE OpenTemp
  BY <1>13 DEF OpenTemp, Fails, Ends, Phases
<1>14. CASE CopyChunk
  BY <1>0, <1>2, <1>14 DEF CopyChunk, StageFails, Ends
<1>15. CASE CopyFails \/ Staged
  BY <1>0, <1>15 DEF CopyFails, StageFails, Staged, Ends
<1>16. CASE Sent \/ Program
  BY <1>2, <1>16 DEF Sent, Program
<1>17. CASE UNCHANGED vars
  BY <1>2, <1>17 DEF vars, reqVars
<1> QED
  BY <1>3, <1>4, <1>5, <1>6, <1>7, <1>8, <1>9, <1>10, <1>11, <1>12, <1>13, <1>14, <1>15,
     <1>16, <1>17 DEF Next, Server

-----------------------------------------------------------------------------
(* Ways                                                                      *)

LEMMA LeadsWay ==
  ASSUME NEW p, NEW n
  PROVE  Leads(p, n) <=> \E f : Way(p, f, Len(p)) /\ f[Len(p)] = n
BY DEF Leads, Way

LEMMA WayStarts ==
  ASSUME NEW p
  PROVE  \E f : Way(p, f, 0) /\ f[0] = Root
<1> DEFINE f == [i \in 0..0 |-> Root]
<1>1. f \in [0..0 -> Nodes \cup {Root}] /\ f[0] = Root /\ 1..0 = {}
  OBVIOUS
<1> QED
  BY <1>1 DEF Way

LEMMA WayExtends ==
  ASSUME NEW p, NEW k \in Nat, NEW f, Way(p, f, k), NEW n \in Nodes, at[n] = <<f[k], p[k + 1]>>
  PROVE  \E g : Way(p, g, k + 1) /\ g[k + 1] = n
<1> DEFINE g == [i \in 0..(k + 1) |-> IF i = k + 1 THEN n ELSE f[i]]
<1>1. \A i \in 0..(k + 1) : i # k + 1 => i \in 0..k
  OBVIOUS
<1>2. g \in [0..(k + 1) -> Nodes \cup {Root}]
  BY <1>1 DEF Way
<1>3. g[0] = Root /\ g[k + 1] = n
  BY DEF Way
<1>4. ASSUME NEW i \in 1..(k + 1) PROVE g[i] \in Nodes /\ at[g[i]] = <<g[i - 1], p[i]>>
  <2>1. CASE i = k + 1
    <3>1. i - 1 = k /\ k \in 0..(k + 1) /\ k # k + 1
      BY <2>1
    <3> QED
      BY <2>1, <3>1
  <2>2. CASE i # k + 1
    <3>1. i \in 1..k /\ i - 1 \in 0..(k + 1) /\ i - 1 # k + 1 /\ i \in 0..(k + 1)
      BY <2>2
    <3> QED
      BY <2>2, <3>1 DEF Way
  <2> QED
    BY <2>1, <2>2
<1> QED
  BY <1>2, <1>3, <1>4 DEF Way

\* Opening a name: the one directory of that name, or none.
LEMMA OpenName ==
  ASSUME TreeInv, NEW d \in Dirs, NEW c \in Names
  PROVE  IF OpenDirectory(d, c) = None THEN At(d, c) \cap SubDirs = {}
         ELSE /\ OpenDirectory(d, c) \in SubDirs
              /\ at[OpenDirectory(d, c)] = <<d, c>>
<1>1. c # DotDot /\ None \notin Nodes
  BY NodesAssumption DEF DotDot
<1>2. CASE At(d, c) \cap SubDirs # {}
  <2>1. OpenDirectory(d, c) = CHOOSE n \in At(d, c) : TRUE
    BY <1>1, <1>2 DEF OpenDirectory, Lookup
  <2>2. OpenDirectory(d, c) \in At(d, c)
    BY <1>2, <2>1
  <2>3. PICK m \in SubDirs : m \in At(d, c)
    BY <1>2
  <2>4. <<d, c>> # None
    <3>1. <<d, c>> \in (Dirs \cup Nodes) \X Names
      OBVIOUS
    <3> QED
      BY <3>1, NodesAssumption
  <2>5. OpenDirectory(d, c) = m
    BY <2>2, <2>3, <2>4 DEF At, TreeInv
  <2> QED
    BY <1>1, <2>2, <2>3, <2>5 DEF At
<1>3. CASE At(d, c) \cap SubDirs = {}
  BY <1>1, <1>3 DEF OpenDirectory, Lookup
<1> QED
  BY <1>2, <1>3

\* A way that goes on below fd goes through the directory opened next.
LEMMA WayThrough ==
  ASSUME TreeInv, NEW p \in Seq(Names), NEW k \in Nat, k < Len(p), NEW f, Way(p, f, Len(p))
  PROVE  /\ f[k + 1] \in At(f[k], p[k + 1])
         /\ k + 1 < Len(p) => f[k + 1] \in SubDirs
<1>1. \A i \in 1..Len(p) : f[i] \in Nodes /\ at[f[i]] = <<f[i - 1], p[i]>>
  BY Zenon DEF Way
<1>2. k + 1 \in 1..Len(p) /\ k + 1 - 1 = k
  OBVIOUS
<1>3. f[k + 1] \in Nodes /\ at[f[k + 1]] = <<f[k], p[k + 1]>>
  BY <1>1, <1>2
<1>4. ASSUME k + 1 < Len(p) PROVE f[k + 1] \in SubDirs
  <2>1. PICK j \in 1..Len(p) : j = k + 2 /\ j - 1 = k + 1
    BY <1>4
  <2>2. f[k + 2] \in Nodes /\ at[f[k + 2]] = <<f[k + 1], p[k + 2]>>
    <3>1. f[j] \in Nodes /\ at[f[j]] = <<f[j - 1], p[j]>>
      BY <1>1
    <3> QED
      BY <2>1, <3>1, Zenon
  <2>3. <<f[k + 1], p[k + 2]>> \in (Dirs \cup Nodes) \X Names
    <3>1. p[j] \in Names
      OBVIOUS
    <3> QED
      BY <1>3, <2>1, <3>1
  <2>4. <<f[k + 1], p[k + 2]>> \in Places
    <3>1. at[f[k + 2]] \in Places \cup {None}
      BY <2>2 DEF TreeInv
    <3> QED
      BY <2>2, <2>3, <3>1, NodesAssumption
  <2>5. f[k + 1] \in Dirs
    BY <2>4 DEF Places
  <2> QED
    BY <1>3, <2>5, NodesAssumption DEF Dirs
<1> QED
  BY <1>3, <1>4 DEF At

-----------------------------------------------------------------------------
(* The walk of a GET                                                         *)

LEMMA LedElsewhere ==
  ASSUME ~Getting' \/ phase' \notin {"walk", "last", "entries"}
  PROVE  LedInv'
BY DEF LedInv

LEMMA LedKept ==
  ASSUME LedInv, UNCHANGED <<at, phase, op, path, depth, fd, calm>>
  PROVE  LedInv'
BY DEF LedInv, Getting, Leads, Way

LEMMA LedStarts ==
  ASSUME NEW o, NEW p, NEW h, Enter(o, p, h), at' = at,
         o = "list" => \E d \in SubDirs : Leads(p, d)
  PROVE  LedInv'
<1>1. /\ phase' # "entries" /\ op' = o /\ path' = p /\ depth' = 0 /\ fd' = Root
  BY DEF Enter
<1>2. Root \in Dirs
  BY DEF Dirs
<1>3. (\E f : Way(path, f, depth) /\ f[depth] = fd)'
  <2>1. PICK f : Way(p, f, 0) /\ f[0] = Root
    BY WayStarts
  <2> QED
    BY <1>1, <2>1 DEF Way
<1>4. (\A f : Way(path, f, Len(path)) => f[depth] = fd)'
  BY <1>1 DEF Way
<1>5. (op = "list" => \E d \in SubDirs : Leads(path, d))'
  BY <1>1 DEF Leads
<1> QED
  BY <1>1, <1>2, <1>3, <1>4, <1>5 DEF LedInv

LEMMA LedWalk ==
  ASSUME WalkInv, StageInv, TreeInv, LedInv, Walk
  PROVE  LedInv'
<1> DEFINE d == OpenDirectory(fd, NextComponent)
<1>1. CASE phase' = "idle"
  BY <1>1, LedElsewhere
<1>2. CASE /\ d # None /\ fd' = d /\ depth' = depth + 1
           /\ phase' = IF depth + 2 = Len(path) THEN "last" ELSE IF op = "stage" THEN "mkdir" ELSE "walk"
           /\ UNCHANGED <<treeVars, op, path, calm>>
  <2> SUFFICES ASSUME Getting PROVE LedInv'
    BY <1>2, LedElsewhere DEF Getting
  <2>1. /\ phase = "walk" /\ path \in Seq(Names) /\ depth \in Nat /\ depth + 2 <= Len(path)
    BY DEF Walk, WalkInv, PathInv
  <2>2. fd \in Dirs /\ NextComponent \in Names /\ NextComponent = path[depth + 1]
    BY <2>1 DEF LedInv, NextComponent
  <2>3. d \in SubDirs /\ at[d] = <<fd, path[depth + 1]>> /\ d \in Nodes /\ d \in Dirs
    BY <1>2, <2>2, OpenName DEF Nodes, Dirs
  <2>4. \E g : Way(path, g, depth + 1) /\ g[depth + 1] = d
    <3>1. PICK f : Way(path, f, depth) /\ f[depth] = fd
      BY <2>1 DEF LedInv
    <3>2. at[d] = <<f[depth], path[depth + 1]>> /\ d \in Nodes
      BY <2>3, <3>1
    <3> HIDE DEF d
    <3> QED
      BY <2>1, <3>1, <3>2, WayExtends
  <2>5. ASSUME NEW f, Way(path, f, Len(path)) PROVE f[depth + 1] = d
    <3>1. f[depth] = fd
      BY <2>1, <2>5 DEF LedInv
    <3>2. Len(path) \in Nat /\ depth < Len(path)
      BY <2>1
    <3>3. f[depth + 1] \in At(fd, path[depth + 1])
      BY <2>1, <2>5, <3>1, <3>2, WayThrough
    <3>4. at[d] # None
      <4>1. <<fd, path[depth + 1]>> \in (Dirs \cup Nodes) \X Names
        BY <2>2
      <4> QED
        BY <2>3, <4>1, NodesAssumption
    <3> QED
      BY <2>3, <3>3, <3>4 DEF At, TreeInv
  <2>6. phase' \in {"walk", "last"} /\ fd' = d /\ depth' = depth + 1 /\ UNCHANGED <<at, path, op>>
    BY <1>2 DEF Getting, treeVars
  <2>7. (\E f : Way(path, f, depth) /\ f[depth] = fd)'
    BY <2>4, <2>6 DEF Way
  <2>8. (\A f : Way(path, f, Len(path)) => f[depth] = fd)'
    BY <2>5, <2>6 DEF Way
  <2>9. (op = "list" => \E x \in SubDirs : Leads(path, x))'
    BY <2>1, <2>6 DEF LedInv, Leads
  <2> HIDE DEF d
  <2> QED
    BY <2>3, <2>6, <2>7, <2>8, <2>9 DEF LedInv
<1> QED
  BY <1>1, <1>2 DEF Walk, Fails, Ends

\* The last component: what the way leads to next is where the path leads.
LEMMA LastLeads ==
  ASSUME WalkInv, StageInv, TreeInv, LedInv, Getting, phase = "last"
  PROVE  /\ fd \in Dirs /\ Filename \in Names
         /\ \A n \in At(fd, Filename) : Leads(path, n)
         /\ \A n : Leads(path, n) => n \in At(fd, Filename)
<1>1. /\ path \in Seq(Names) /\ depth \in Nat /\ depth + 1 = Len(path) /\ Len(path) \in Nat
      /\ fd \in Dirs
  BY DEF WalkInv, PathInv, StageInv, LedInv
<1>2. Filename = path[depth + 1] /\ Filename \in Names
  BY <1>1 DEF Filename, Last
<1>3. ASSUME NEW n \in At(fd, Filename) PROVE Leads(path, n)
  <2>1. PICK f : Way(path, f, depth) /\ f[depth] = fd
    BY DEF LedInv
  <2>2. n \in Nodes /\ at[n] = <<f[depth], path[depth + 1]>>
    BY <1>2, <2>1 DEF At
  <2>3. \E g : Way(path, g, depth + 1) /\ g[depth + 1] = n
    BY <1>1, <2>1, <2>2, WayExtends
  <2> QED
    BY <1>1, <2>3, LeadsWay
<1>4. ASSUME NEW n, Leads(path, n) PROVE n \in At(fd, Filename)
  <2>1. PICK f : Way(path, f, Len(path)) /\ f[Len(path)] = n
    BY <1>4, LeadsWay
  <2>2. f[depth] = fd
    BY <2>1 DEF LedInv
  <2>3. f[depth + 1] \in At(fd, path[depth + 1])
    BY <1>1, <2>1, <2>2, WayThrough
  <2> QED
    BY <1>1, <1>2, <2>1, <2>3
<1> QED
  BY <1>1, <1>2, <1>3, <1>4

LEMMA LedStep ==
  ASSUME WalkInv, StageInv, TreeInv, LedInv, [Next]_vars
  PROVE  LedInv'
<1>1. CASE \E o \in {"read", "delete", "stage"}, raw \in RawPaths : Begin(o, raw)
  BY <1>1, LedElsewhere DEF Begin
<1>2. CASE Normalise
  <2>1. CASE /\ phase = "begun" /\ phase' = "entries" /\ fd' = Root /\ path' = path
    <3>1. path' = <<>> /\ Len(path') = 0 /\ Root \in Dirs
      BY <2>1 DEF StageInv, Dirs
    <3>2. \E f : Way(<<>>, f, 0)' /\ f[0] = Root
      <4> DEFINE f == [i \in 0..0 |-> Root]
      <4>1. f \in [0..0 -> Nodes \cup {Root}] /\ f[0] = Root /\ 1..0 = {}
        OBVIOUS
      <4> QED
        BY <4>1 DEF Way
    <3>3. Leads(path, Root)'
      BY <3>1, <3>2 DEF Leads, Way
    <3> QED
      BY <2>1, <3>1, <3>3 DEF LedInv
  <2>2. CASE phase' = "idle"
    BY <2>2, LedElsewhere
  <2>3. CASE phase = "begun" /\ Enter(op, Normpath(asked), held) /\ UNCHANGED treeVars
    BY <2>3, LedStarts DEF StageInv, treeVars
  <2> QED
    BY <1>2, <2>1, <2>2, <2>3, Zenon DEF Normalise, Ends
<1>3. CASE MkDir
  <2>1. op = "stage" /\ (op' = "stage" \/ phase' = "idle")
    BY <1>3 DEF MkDir, Ends, StageInv
  <2> QED
    BY <2>1, LedElsewhere DEF Getting
<1>4. CASE Walk
  BY <1>4, LedWalk
<1>5. CASE ReadFile
  <2>1. CASE /\ At(fd, Filename) \cap SubDirs # {}
             /\ Enter("list", path, held + 1 - Closed(FALSE)) /\ UNCHANGED <<treeVars, calm>>
    <3>1. CASE Getting
      <4>1. \E d \in SubDirs : Leads(path, d)
        BY <1>5, <2>1, <3>1, LastLeads DEF ReadFile
      <4> QED
        BY <2>1, <4>1, LedStarts DEF treeVars
    <3>2. CASE ~Getting
      <4>1. ~Getting'
        BY <1>5, <2>1, <3>2 DEF Getting, ReadFile
      <4> QED
        BY <4>1, LedElsewhere
    <3> QED
      BY <3>1, <3>2
  <2>2. CASE phase' = "idle"
    BY <2>2, LedElsewhere
  <2> QED
    BY <1>5, <2>1, <2>2 DEF ReadFile, Fails, Ends
<1>6. CASE ListDirectory
  <2>1. CASE /\ OpenDirectory(fd, Filename) # None /\ fd' = OpenDirectory(fd, Filename)
             /\ phase' = "entries" /\ UNCHANGED <<treeVars, op, path, calm>>
    <3> SUFFICES ASSUME Getting PROVE LedInv'
      BY <2>1, LedElsewhere DEF Getting
    <3>1. /\ fd \in Dirs /\ Filename \in Names
          /\ \A n \in At(fd, Filename) : Leads(path, n)
      BY <1>6, LastLeads DEF ListDirectory
    <3>2. fd' \in SubDirs /\ fd' \in At(fd, Filename)
      BY <2>1, <3>1, OpenName DEF At, Nodes
    <3>3. Leads(path, fd)'
      <4>1. Leads(path, fd') /\ at' = at /\ path' = path
        BY <2>1, <3>1, <3>2 DEF treeVars
      <4> QED
        BY <4>1 DEF Leads
    <3> QED
      BY <2>1, <3>2, <3>3 DEF LedInv, Dirs
  <2>2. CASE phase' = "idle"
    BY <2>2, LedElsewhere
  <2> QED
    BY <1>6, <2>1, <2>2 DEF ListDirectory, Fails, Ends
<1>7. CASE Listed
  BY <1>7, LedElsewhere DEF Listed, Ends
<1>8. ASSUME NEW c \in Names, StatEntry(c) PROVE LedInv'
  BY <1>8, LedKept DEF StatEntry, treeVars
<1>9. CASE DeleteStat \/ Unlink \/ OpenTemp
  <2>1. ~Getting' \/ phase' = "idle"
    BY <1>9 DEF DeleteStat, Unlink, OpenTemp, Fails, Ends, Getting, StageInv
  <2> QED
    BY <2>1, LedElsewhere
<1>10. CASE CopyChunk \/ CopyFails \/ Staged
  <2>1. op = "stage"
    BY <1>10 DEF CopyChunk, CopyFails, Staged, StageInv
  <2>2. ~Getting' \/ phase' = "idle"
    BY <1>10, <2>1 DEF CopyChunk, CopyFails, StageFails, Staged, Ends, Getting
  <2> QED
    BY <2>2, LedElsewhere
<1>11. CASE Sent
  BY <1>11, LedKept DEF Sent, treeVars
<1>12. CASE Program
  <2>1. ~Getting' \/ phase' = "idle"
    BY <1>12 DEF Program, Getting
  <2> QED
    BY <2>1, LedElsewhere
<1>13. CASE UNCHANGED vars
  BY <1>13, LedKept DEF vars, treeVars, reqVars
<1> QED
  BY <1>1, <1>2, <1>3, <1>4, <1>5, <1>6, <1>7, <1>8, <1>9, <1>10, <1>11, <1>12, <1>13 DEF Next, Server

-----------------------------------------------------------------------------
(* The listing                                                               *)

\* Outside the listing, or once a program is about, there is nothing to hold.
LEMMA ListingElsewhere ==
  ASSUME ~calm' \/ phase' # "entries"
  PROVE  ListingInv'
BY DEF ListingInv

LEMMA ListingKept ==
  ASSUME ListingInv, UNCHANGED <<at, mode, phase, fd, listing, calm>>
  PROVE  ListingInv'
BY DEF ListingInv, Entries, At, May

\* The entries of a directory are under its names.
LEMMA EntryNames ==
  ASSUME NEW d, NEW e \in Entries(d)
  PROVE  e[1] \in {c \in Names : At(d, c) # {}}
<1>1. PICK c \in Names : e \in {<<c, Kind(n)>> : n \in At(d, c)}
  BY DEF Entries
<1>2. PICK n \in At(d, c) : e = <<c, Kind(n)>>
  BY <1>1
<1> QED
  BY <1>2

\* A listing that starts with every name has nothing to report yet.
LEMMA ListingStarts ==
  ASSUME at' = at, listing' = [todo |-> {c \in Names : At(fd', c) # {}}, entries |-> {}]
  PROVE  ListingInv'
<1> DEFINE d == fd'
<1>1. \A e \in Entries(d) : e[1] \in listing'.todo
  BY EntryNames
<1>2. listing'.entries = {e \in Entries(d) : e[1] \notin listing'.todo /\ May("x", fd)'}
  BY <1>1
<1>3. Entries(d) = Entries(fd)'
  BY DEF Entries, At
<1> QED
  BY <1>2, <1>3 DEF ListingInv

LEMMA ListingStat ==
  ASSUME ListingInv, NEW c \in Names, StatEntry(c)
  PROVE  ListingInv'
<1> SUFFICES ASSUME calm PROVE ListingInv'
  BY ListingElsewhere DEF StatEntry
<1>1. listing.entries = {e \in Entries(fd) : e[1] \notin listing.todo /\ May("x", fd)}
  BY DEF StatEntry, ListingInv
<1>2. /\ listing' = [todo |-> listing.todo \ {c}, entries |-> listing.entries \cup Stated(fd, c)]
      /\ fd' = fd /\ at' = at /\ mode' = mode
  BY DEF StatEntry, treeVars
<1>3. c \in listing.todo
  BY DEF StatEntry
<1>4. Entries(fd)' = Entries(fd)
  BY <1>2 DEF Entries, At
<1>5. listing'.entries = {e \in Entries(fd) : e[1] \notin listing'.todo /\ May("x", fd)}
  BY <1>1, <1>2, <1>3 DEF Stated
<1> QED
  BY <1>2, <1>4, <1>5 DEF ListingInv, May

LEMMA ListingStep ==
  ASSUME StageInv, ListingInv, [Next]_vars
  PROVE  ListingInv'
<1>1. CASE phase' # "entries" \/ ~calm'
  BY <1>1, ListingElsewhere
<1>2. CASE phase' = "entries" /\ calm'
  <2>1. CASE Normalise
    BY <1>2, <2>1, ListingStarts, Zenon DEF Normalise, Ends, Enter, StageInv, treeVars
  <2>2. CASE ListDirectory
    <3>1. at' = at /\ listing' = [todo |-> {c \in Names : At(fd', c) # {}}, entries |-> {}]
      BY <1>2, <2>2 DEF ListDirectory, Fails, Ends, treeVars
    <3> QED
      BY <3>1, ListingStarts
  <2>3. ASSUME NEW c \in Names, StatEntry(c) PROVE ListingInv'
    BY <2>3, ListingStat
  <2>4. CASE Sent
    BY <2>4, ListingKept DEF Sent, treeVars
  <2>5. CASE Program
    BY <1>2, <2>5 DEF Program, StageInv
  <2>6. CASE UNCHANGED vars
    BY <2>6, ListingKept DEF vars, treeVars, reqVars
  <2>7. ASSUME NEW o \in {"read", "delete", "stage"}, NEW raw \in RawPaths, Begin(o, raw) PROVE FALSE
    BY <1>2, <2>7 DEF Begin
  <2>8. CASE MkDir \/ Walk \/ Listed
    BY <1>2, <2>8 DEF MkDir, Walk, Listed, Fails, Ends
  <2>9. CASE ReadFile
    BY <1>2, <2>9 DEF ReadFile, Enter, Fails, Ends
  <2>10. CASE DeleteStat \/ Unlink \/ OpenTemp
    BY <1>2, <2>10 DEF DeleteStat, Unlink, OpenTemp, Fails, Ends
  <2>11. CASE CopyChunk \/ CopyFails \/ Staged
    BY <1>2, <2>11 DEF CopyChunk, CopyFails, StageFails, Staged, Ends
  <2> QED
    BY <2>1, <2>2, <2>3, <2>4, <2>5, <2>6, <2>7, <2>8, <2>9, <2>10, <2>11 DEF Next, Server
<1> QED
  BY <1>1, <1>2

-----------------------------------------------------------------------------
(* The answers                                                               *)

\* What AnswersTruly says of a step.
Truthful ==
  calm /\ phase # "idle" /\ phase' = "idle" /\ op \in {"read", "list"} =>
    /\ op = "read" /\ answer' = "ok" => got' \in Files /\ Leads(path, got')
    /\ op = "list" /\ answer' = "ok" =>
         \E d \in Dirs : Leads(path, d) /\ listing.entries = IF "x" \in mode[d] THEN Entries(d) ELSE {}
    /\ answer' = "notfound" => ~\E n \in Files \cup SubDirs : Leads(path, n)
    /\ answer' = "error" => \/ \E n \in Files \cup Others : Leads(path, n)
                            \/ \E d \in Dirs : ~({"r", "x"} \subseteq mode[d])

\* Where the server may not search or list, a directory is closed to it.
LEMMA ClosedSomewhere ==
  ASSUME NEW d, ~May("r", d) \/ ~May("x", d)
  PROVE  \E e \in Dirs : ~({"r", "x"} \subseteq mode[e])
BY DEF May

\* A walk that finds no directory is on no way to anything.
LEMMA NoWayOn ==
  ASSUME TruthInv, Getting, phase = "walk", OpenDirectory(fd, NextComponent) = None
  PROVE  ~\E n : Leads(path, n)
<1> USE DEF TruthInv
<1>1. /\ path \in Seq(Names) /\ depth \in Nat /\ depth + 2 <= Len(path) /\ Len(path) \in Nat
      /\ fd \in Dirs
  BY DEF WalkInv, PathInv, LedInv
<1>2. NextComponent = path[depth + 1] /\ NextComponent \in Names
  BY <1>1 DEF NextComponent
<1>3. At(fd, path[depth + 1]) \cap SubDirs = {}
  BY <1>1, <1>2, OpenName
<1>4. ASSUME NEW n, Leads(path, n) PROVE FALSE
  <2>1. PICK f : Way(path, f, Len(path))
    BY <1>4, LeadsWay
  <2>2. f[depth] = fd
    BY <2>1 DEF LedInv
  <2>3. depth < Len(path) /\ depth + 1 < Len(path)
    BY <1>1
  <2>4. f[depth + 1] \in At(fd, path[depth + 1]) /\ f[depth + 1] \in SubDirs
    BY <1>1, <2>1, <2>2, <2>3, WayThrough
  <2> QED
    BY <1>3, <2>4
<1> QED
  BY <1>4

LEMMA ReadTruthful ==
  ASSUME TruthInv, ReadFile
  PROVE  Truthful
<1> USE DEF TruthInv
<1> SUFFICES ASSUME calm, phase' = "idle" PROVE Truthful
  BY DEF Truthful
<1>0. phase = "last" /\ op = "read" /\ Getting
  BY DEF ReadFile, Getting
<1>1. /\ fd \in Dirs /\ Filename \in Names
      /\ \A n \in At(fd, Filename) : Leads(path, n)
      /\ \A n : Leads(path, n) => n \in At(fd, Filename)
  BY <1>0, LastLeads
<1>2. ASSUME NEW n \in At(fd, Filename) \cap Files, answer' \in {"ok", "error"},
             answer' = "ok" => got' = n
      PROVE  Truthful
  BY <1>0, <1>1, <1>2 DEF Truthful
<1>3. ASSUME answer' = "notfound", At(fd, Filename) \cap (Files \cup SubDirs) = {} PROVE Truthful
  BY <1>0, <1>1, <1>3 DEF Truthful
<1>4. At(fd, Filename) \cap Others # {} => At(fd, Filename) \cap (Files \cup SubDirs) = {}
  <2>1. <<fd, Filename>> # None
    <3>1. <<fd, Filename>> \in (Dirs \cup Nodes) \X Names
      BY <1>1
    <3> QED
      BY <3>1, NodesAssumption
  <2>2. \A n, m \in At(fd, Filename) : n = m
    BY <2>1 DEF At, TreeInv
  <2>3. Others \cap (Files \cup SubDirs) = {}
    BY NodesAssumption
  <2> QED
    BY <2>2, <2>3
<1>5. ASSUME NEW d, ~May("r", d) \/ ~May("x", d), answer' = "error" PROVE Truthful
  BY <1>0, <1>5, ClosedSomewhere DEF Truthful
<1>6. ASSUME NEW n \in At(fd, Filename) \cap Others, answer' \in {"notfound", "error"} PROVE Truthful
  <2>1. CASE answer' = "notfound"
    BY <1>3, <1>4, <1>6, <2>1
  <2>2. CASE answer' = "error"
    BY <1>0, <1>1, <1>6, <2>2 DEF Truthful
  <2> QED
    BY <1>6, <2>1, <2>2
<1> QED
  BY <1>2, <1>3, <1>5, <1>6 DEF ReadFile, Fails, Ends, Enter

LEMMA TruthStep ==
  ASSUME TruthInv, Next
  PROVE  Truthful
<1> SUFFICES ASSUME calm, phase # "idle", phase' = "idle", op \in {"read", "list"} PROVE Truthful
  BY DEF Truthful
<1> USE DEF TruthInv
<1>1. ASSUME NEW o \in {"read", "delete", "stage"}, NEW raw \in RawPaths, Begin(o, raw) PROVE FALSE
  BY <1>1 DEF Begin
<1>2. CASE Normalise
  <2>1. answer' = "invalid" \/ (answer' = "error" /\ ~May("r", Root))
    BY <1>2, Zenon DEF Normalise, Ends, Enter
  <2> QED
    BY <2>1, ClosedSomewhere DEF Truthful
<1>3. CASE MkDir \/ CopyChunk \/ CopyFails \/ Staged
  BY <1>3 DEF MkDir, CopyChunk, CopyFails, Staged, StageInv
<1>4. CASE DeleteStat \/ Unlink \/ OpenTemp
  BY <1>4 DEF DeleteStat, Unlink, OpenTemp, StageInv
<1>5. CASE Walk
  <2>1. CASE answer' = "error" /\ Denied(fd, OpenDirectory(fd, NextComponent))
    BY <2>1, ClosedSomewhere DEF Truthful, Denied
  <2>2. CASE phase = "walk" /\ OpenDirectory(fd, NextComponent) = None /\ answer' = "notfound"
    <3>1. ~\E n : Leads(path, n)
      BY <2>2, NoWayOn DEF Getting
    <3> QED
      BY <2>2, <3>1 DEF Truthful
  <2> QED
    BY <1>5, <2>1, <2>2 DEF Walk, Fails, Ends
<1>6. CASE ReadFile
  BY <1>6, ReadTruthful
<1>7. CASE ListDirectory
  <2>0. CASE answer' = "error" /\ Denied(fd, OpenDirectory(fd, Filename))
    BY <2>0, ClosedSomewhere DEF Truthful, Denied
  <2> SUFFICES ASSUME ~(answer' = "error" /\ Denied(fd, OpenDirectory(fd, Filename))) PROVE Truthful
    BY <2>0
  <2>1. /\ phase = "last" /\ op = "list" /\ Getting
        /\ OpenDirectory(fd, Filename) = None
    BY <1>7 DEF ListDirectory, Fails, Ends, Getting
  <2>2. PICK d \in SubDirs : Leads(path, d)
    BY <2>1 DEF LedInv
  <2>3. fd \in Dirs /\ Filename \in Names /\ d \in At(fd, Filename)
    BY <2>1, <2>2, LastLeads
  <2> QED
    BY <2>1, <2>3, OpenName
<1>8. CASE Listed
  <2>1. phase = "entries" /\ op = "list" /\ answer' = "ok" /\ listing.todo = {}
    BY <1>8 DEF Listed, Ends, StageInv
  <2>2. fd \in Dirs /\ Leads(path, fd)
    BY <2>1 DEF LedInv, Getting
  <2>3. listing.entries = IF "x" \in mode[fd] THEN Entries(fd) ELSE {}
    BY <2>1, <2>2 DEF ListingInv, May
  <2> QED
    BY <2>1, <2>2, <2>3 DEF Truthful
<1>9. ASSUME NEW c \in Names, StatEntry(c) PROVE FALSE
  BY <1>9 DEF StatEntry
<1>10. CASE Sent \/ Program
  BY <1>10 DEF Sent, Program
<1> QED
  BY <1>1, <1>2, <1>3, <1>4, <1>5, <1>6, <1>7, <1>8, <1>9, <1>10 DEF Next, Server

LEMMA TruthInit == Init => TruthInv
<1> SUFFICES ASSUME Init PROVE TruthInv
  OBVIOUS
<1>1. WalkInv
  BY WalkInit
<1>2. StageInv /\ LedInv /\ ListingInv
  BY DEF Init, StageInv, LedInv, ListingInv, Getting, Phases
<1>3. TreeInv
  BY DEF Init, TreeInv
<1> QED
  BY <1>1, <1>2, <1>3 DEF TruthInv

\* For any tree and any paths, a GET nobody disturbs answers what the tree holds, as far as the
\* server may see it: its file, the entries of its directory (none, when it may list them but
\* not look them up), 404 when there is neither, and an error only where a directory is closed
\* or the file cannot be sent (sessions.py, read_file and list_directory behind _open_parent).
THEOREM AnswersTrulyCorrect == Spec => AnswersTruly
<1>1. TruthInv /\ [Next]_vars => TruthInv'
  <2> SUFFICES ASSUME TruthInv, [Next]_vars PROVE TruthInv'
    OBVIOUS
  <2>1. WalkInv' /\ StageInv' /\ TreeInv' /\ LedInv'
    BY WalkStep, StageStep, TreeStep, LedStep DEF TruthInv
  <2>2. ListingInv'
    BY ListingStep DEF TruthInv
  <2> QED
    BY <2>1, <2>2 DEF TruthInv
<1>2. TruthInv /\ [Next]_vars => [Truthful]_vars
  BY TruthStep
<1> QED
  BY TruthInit, <1>1, <1>2, PTL DEF Spec, AnswersTruly, Truthful
=============================================================================
