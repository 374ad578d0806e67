--------------------------- MODULE RunResult_proofs ---------------------------
(***************************************************************************)
(* RunResult for any tree, any limits and any program: the files reported  *)
(* as changed, the split, the cut of the output, the answers being sent.   *)
(*                                                                         *)
(* A file that is not disturbed while a walk reads is reached by it: until *)
(* its lstat it is among the names, or a directory on its way is pending   *)
(* (Left), and no link is on its way while one is (WalkInv).  So after the *)
(* first walk the stamps of such files are those of the files there        *)
(* (StampInv).  Every change of an inode from then on gives it a later     *)
(* time than its stamp (RunInv); so a stamp differs from a signature       *)
(* exactly when the inode is another one or was touched.                   *)
(***************************************************************************)
EXTENDS RunResult, FiniteSetTheorems, WellFoundedInduction, TLAPS

Kinds == {"dir", "sealed", "link", "none"}

TreeInv ==
  /\ clock \in Nat
  /\ kind \in [Dirs -> Kinds] /\ kind[<<>>] \in {"dir", "sealed"}
  /\ node \in [Inodes -> [data : Data, mtime : Nat, ctime : Nat]]
  /\ \A i \in Inodes : node[i].ctime <= clock

ResetInv ==
  /\ phase \in {"idle", "stamp", "run", "drain", "collect", "attach", "gone"}
  /\ phase \notin {"stamp", "collect"} => pending = {} /\ names = {}
  /\ phase \in {"idle", "attach", "gone"} => unsteady = {}
  /\ phase \in {"idle", "stamp", "attach", "gone"} => touched = {}
  /\ phase \notin {"collect", "attach"} => changed = {}
  /\ phase = "idle" => stamps = <<>>

Steady == Paths \ unsteady
NotHidden(d) == Prefixes(d) \cap HiddenDirs = {}

\* As the walk left it when it found d: no link up to there.
Reached(d) == kind[d] \in {"dir", "sealed"} /\ \A a \in Prefixes(d) \ {d} : kind[a] = "dir"

WalkInv ==
  /\ \A d \in pending : d \in Dirs /\ NotHidden(d)
  /\ \A p \in names : p \in Paths /\ NotHidden(Dir[p])
  /\ \A p \in Steady : /\ \A d \in pending \cap Prefixes(Dir[p]) : Reached(d)
                       /\ p \in names => Inside(Dir[p])

\* The walk may still come to p.
Left(p) == p \in names \/ pending \cap Prefixes(Dir[p]) # {}

StampInv ==
  phase = "stamp" => \A p \in Steady :
    /\ p \in DOMAIN before <=> Visible(p)
    /\ Visible(p) => before[p] = fs[p]
    /\ p \in DOMAIN stamps => Visible(p) /\ stamps[p] = Signature(fs[p])
    /\ Visible(p) => p \in DOMAIN stamps \/ Left(p)

\* The stamp of inode i, which was taken before the container started.
Stamps(s, i) ==
  /\ i \in Inodes /\ s.ino = i /\ s.ctime \in Nat /\ s.ctime < clock
  /\ i \notin touched => s = Signature(i)
  /\ i \in touched => s.ctime < node[i].ctime

RunInv ==
  phase \in {"run", "drain", "collect"} => \A p \in Steady :
    /\ p \in DOMAIN stamps <=> p \in DOMAIN before
    /\ p \in DOMAIN before => Stamps(stamps[p], before[p])

Differs(p) == p \notin DOMAIN before \/ before[p] # fs[p] \/ fs[p] \in touched

CollectInv ==
  phase = "collect" => \A p \in Steady :
    /\ Visible(p) => /\ p \in changed => Differs(p)
                     /\ Left(p) \/ (p \notin deleted /\ (Differs(p) => p \in changed))
    /\ ~Visible(p) => p \notin changed /\ (p \in deleted <=> p \in DOMAIN before)

ReportInv == TreeInv /\ ResetInv /\ WalkInv /\ StampInv /\ RunInv /\ CollectInv

-----------------------------------------------------------------------------
(* Directories                                                               *)

LEMMA PrefixFacts ==
  ASSUME NEW d \in Dirs
  PROVE  /\ d \in Prefixes(d) /\ <<>> \in Prefixes(d) /\ Prefixes(d) \subseteq Dirs
         /\ \A a \in Prefixes(d) : Prefixes(a) \subseteq Prefixes(d)
<1>1. d \in Seq(STRING) /\ Prefixes(d) \subseteq Dirs
  BY ResultAssumption
<1>2. SubSeq(d, 1, Len(d)) = d /\ SubSeq(d, 1, 0) = <<>> /\ Len(d) \in Nat
  BY <1>1
<1>3. ASSUME NEW m \in 0..Len(d), NEW n \in 0..Len(SubSeq(d, 1, m))
      PROVE  n \in 0..Len(d) /\ SubSeq(SubSeq(d, 1, m), 1, n) = SubSeq(d, 1, n)
  <2>1. m \in Nat /\ m <= Len(d) /\ Len(SubSeq(d, 1, m)) = m /\ n \in 0..m
    BY <1>1, <1>3
  <2>2. SubSeq(d, 1, m) = [i \in 1..m |-> d[i]]
    BY <1>1, <2>1
  <2>3. SubSeq(SubSeq(d, 1, m), 1, n) = [i \in 1..n |-> SubSeq(d, 1, m)[i]]
    BY <1>1, <2>1
  <2>4. \A i \in 1..n : SubSeq(d, 1, m)[i] = d[i]
    BY <2>1, <2>2
  <2>5. SubSeq(d, 1, n) = [i \in 1..n |-> d[i]]
    BY <1>1, <2>1
  <2> QED
    BY <2>1, <2>3, <2>4, <2>5
<1>4. ASSUME NEW a \in Prefixes(d) PROVE Prefixes(a) \subseteq Prefixes(d)
  BY <1>3, <1>4 DEF Prefixes
<1>5. d \in Prefixes(d)
  <2>1. Len(d) \in 0..Len(d)
    BY <1>2
  <2> QED
    BY <1>2, <2>1 DEF Prefixes
<1>6. <<>> \in Prefixes(d)
  <2>1. 0 \in 0..Len(d)
    BY <1>2
  <2> QED
    BY <1>2, <2>1 DEF Prefixes
<1> QED
  BY <1>1, <1>4, <1>5, <1>6

\* Above a directory is what is above its parent, and the parent.
LEMMA ChildFacts ==
  ASSUME NEW c \in Dirs, c # <<>>
  PROVE  /\ Front(c) \in Prefixes(c) /\ Front(c) # c
         /\ Prefixes(c) \ {c} \subseteq Prefixes(Front(c))
<1>1. c \in Seq(STRING) /\ Len(c) \in Nat /\ Len(c) # 0
  BY ResultAssumption
<1>2. Front(c) = SubSeq(c, 1, Len(c) - 1) /\ Len(c) - 1 \in 0..Len(c)
  BY <1>1 DEF Front
<1>3. Len(Front(c)) = Len(c) - 1
  <2>1. \A n \in 0..Len(c) : Len(SubSeq(c, 1, n)) = n
    BY <1>1
  <2> QED
    BY <1>2, <2>1
<1>4. ASSUME NEW n \in 0..Len(c), SubSeq(c, 1, n) # c PROVE SubSeq(c, 1, n) \in Prefixes(Front(c))
  <2>1. n \in 0..(Len(c) - 1)
    BY <1>1, <1>4
  <2>2. SubSeq(Front(c), 1, n) = [i \in 1..n |-> c[i]]
    BY <1>1, <1>2, <1>3, <2>1
  <2>3. SubSeq(c, 1, n) = [i \in 1..n |-> c[i]]
    BY <1>1, <2>1
  <2> QED
    BY <1>3, <2>1, <2>2, <2>3 DEF Prefixes
<1> QED
  BY <1>1, <1>2, <1>3, <1>4 DEF Prefixes

\* The next directory on the way down from a to d.
LEMMA NextOnTheWay ==
  ASSUME NEW d \in Dirs, NEW a \in Prefixes(d), a # d
  PROVE  \E c \in Prefixes(d) : c \in Dirs /\ c # <<>> /\ Front(c) = a
<1>1. d \in Seq(STRING) /\ Len(d) \in Nat
  BY ResultAssumption
<1>2. PICK n \in 0..Len(d) : a = SubSeq(d, 1, n)
  BY DEF Prefixes
<1>3. n # Len(d)
  BY <1>1, <1>2
<1> DEFINE c == SubSeq(d, 1, n + 1)
<1>4. n \in Nat /\ n + 1 \in 0..Len(d) /\ Len(c) = n + 1
  BY <1>1, <1>2, <1>3
<1>5. c \in Prefixes(d)
  BY <1>4 DEF Prefixes
<1>6. Front(c) = a
  <2>1. Front(c) = SubSeq(c, 1, n)
    BY <1>4 DEF Front
  <2>2. c \in Seq(STRING)
    BY <1>1, <1>4
  <2>3. SubSeq(c, 1, n) = [i \in 1..n |-> c[i]]
    BY <1>4, <2>2
  <2>4. \A i \in 1..n : c[i] = d[i]
    BY <1>1, <1>4
  <2>5. a = [i \in 1..n |-> d[i]]
    BY <1>1, <1>2, <1>4
  <2> QED
    BY <2>1, <2>3, <2>4, <2>5
<1>7. c # <<>>
  BY <1>4
<1> QED
  BY <1>5, <1>6, <1>7, PrefixFacts

LEMMA ReachedIsInside ==
  ASSUME NEW d \in Dirs, Reached(d)
  PROVE  ~Outside(d)
<1> SUFFICES ASSUME NEW a \in Prefixes(d), kind[a] = "link" PROVE FALSE
  BY DEF Outside
<1> QED
  BY DEF Reached

-----------------------------------------------------------------------------
(* The walk                                                                  *)

LEMMA ScanStep ==
  ASSUME ReportInv, NEW d \in Dirs, Scan(d)
  PROVE  ReportInv'
<1>1. /\ phase \in {"stamp", "collect"} /\ names = {} /\ d \in pending
      /\ UNCHANGED <<kind, fs, node, clock, phase, stamps, changed, deleted, before, touched, unsteady>>
  BY DEF Scan, treeVars, diffVars, history
<1>2. /\ names' \subseteq {p \in Paths : Dir[p] = d}
      /\ pending' \subseteq pending \cup Children(d)
      /\ pending \ {d} \subseteq pending'
      /\ Inside(d) => /\ names' = {p \in Paths : Dir[p] = d /\ fs[p] # NoFile}
                      /\ pending' = (pending \ {d}) \cup {c \in Children(d) : kind[c] \in {"dir", "sealed"}}
      /\ ~Inside(d) /\ ~Outside(d) => names' = {} /\ pending' = pending \ {d}
  <2>1. Inside(d) => ~Outside(d)
    BY DEF Inside, Outside
  <2> QED
    BY <2>1 DEF Scan
<1>3. TreeInv /\ ResetInv /\ WalkInv /\ StampInv /\ RunInv /\ CollectInv
  BY DEF ReportInv
<1>4. ASSUME NEW c \in Children(d)
      PROVE  /\ c \in Dirs /\ c # <<>> /\ Front(c) = d /\ c \notin HiddenDirs
             /\ d \in Prefixes(c) /\ d # c /\ Prefixes(c) \ {c} \subseteq Prefixes(d)
  BY ChildFacts DEF Children
<1>5. ASSUME NEW e \in pending' PROVE e \in Dirs /\ NotHidden(e)
  BY <1>2, <1>3, <1>1, <1>4 DEF WalkInv, NotHidden
<1>6. ASSUME NEW p \in names' PROVE p \in Paths /\ NotHidden(Dir[p])
  BY <1>1, <1>2, <1>3 DEF WalkInv
<1>7. ASSUME NEW p \in Steady, NEW e \in pending' \cap Prefixes(Dir[p]) PROVE Reached(e)
  <2>1. CASE e \in pending
    BY <1>3, <2>1 DEF WalkInv
  <2>2. CASE e \notin pending
    <3>1. e \in Children(d)
      BY <1>2, <2>2
    <3>2. Dir[p] \in Dirs
      BY ResultAssumption DEF Steady
    <3>3. d \in Prefixes(Dir[p])
      BY <1>4, <3>1, <3>2, PrefixFacts
    <3>4. Reached(d)
      BY <1>1, <1>3, <3>3 DEF WalkInv
    <3>5. ~Outside(d)
      BY <3>4, ReachedIsInside
    <3>6. Inside(d) /\ kind[e] \in {"dir", "sealed"}
      BY <1>2, <2>2, <3>5
    <3> QED
      BY <1>4, <3>1, <3>6 DEF Reached, Inside
  <2> QED
    BY <2>1, <2>2
<1>8. ASSUME NEW p \in Steady, p \in names' PROVE Inside(Dir[p])
  <2>1. Dir[p] = d
    BY <1>2, <1>8
  <2>2. d \in Prefixes(Dir[p])
    BY <2>1, PrefixFacts
  <2>3. Reached(d)
    BY <1>1, <1>3, <2>2 DEF WalkInv
  <2> QED
    BY <1>2, <1>8, <2>1, <2>3, ReachedIsInside
<1>9. ASSUME NEW p \in Steady, Visible(p), Left(p) PROVE Left(p)'
  <2>1. PICK e \in pending : e \in Prefixes(Dir[p])
    BY <1>1, <1>9 DEF Left
  <2>2. CASE e # d
    BY <1>2, <2>1, <2>2 DEF Left
  <2>3. CASE e = d
    <3>1. Dir[p] \in Dirs /\ d \in Prefixes(Dir[p]) /\ Prefixes(d) \subseteq Prefixes(Dir[p])
      BY <2>1, <2>3, PrefixFacts, ResultAssumption DEF Steady
    <3>2. Inside(d)
      BY <1>9, <3>1 DEF Visible, Inside
    <3>3. CASE d = Dir[p]
      <4>1. p \in names'
        BY <1>2, <1>9, <3>2, <3>3, ResultAssumption DEF Visible, Steady
      <4> QED
        BY <4>1 DEF Left
    <3>4. CASE d # Dir[p]
      <4>1. PICK c \in Prefixes(Dir[p]) : c \in Dirs /\ c # <<>> /\ Front(c) = d
        BY <3>1, <3>4, NextOnTheWay
      <4>2. c \notin HiddenDirs /\ kind[c] = "dir"
        BY <1>9, <4>1 DEF Visible, Inside
      <4>3. c \in pending'
        BY <1>2, <3>2, <4>1, <4>2 DEF Children
      <4> QED
        BY <4>1, <4>3 DEF Left
    <3> QED
      BY <3>3, <3>4
  <2> QED
    BY <2>2, <2>3
<1>10. /\ \A e : Inside(e)' = Inside(e) /\ Reached(e)' = Reached(e)
       /\ \A p : Visible(p)' = Visible(p) /\ Differs(p)' = Differs(p)
       /\ \A i : Signature(i)' = Signature(i)
       /\ Steady' = Steady
  BY <1>1 DEF Inside, Reached, Visible, Differs, Signature, Steady
<1>11. TreeInv' /\ ResetInv'
  BY <1>1, <1>3 DEF TreeInv, ResetInv
<1>12. WalkInv'
  BY <1>5, <1>6, <1>7, <1>8, <1>10 DEF WalkInv
<1>13. StampInv'
  BY <1>1, <1>3, <1>9, <1>10 DEF StampInv
<1>14. RunInv'
  BY <1>1, <1>3, <1>10 DEF RunInv, Stamps
<1>15. CollectInv'
  BY <1>1, <1>3, <1>9, <1>10 DEF CollectInv
<1> QED
  BY <1>11, <1>12, <1>13, <1>14, <1>15 DEF ReportInv

\* What the walk finds of an entry that is not disturbed.
LEMMA LstatFacts ==
  ASSUME ReportInv, NEW p \in Steady, p \in names
  PROVE  /\ Visible(p) <=> fs[p] \in Inodes
         /\ Visible(p) => ~Misses(p) /\ Lstat(p) = {Signature(fs[p])}
         /\ ~Visible(p) => Lstat(p) = {}
<1>1. Inside(Dir[p]) /\ NotHidden(Dir[p])
  BY DEF ReportInv, WalkInv
<1> QED
  BY <1>1 DEF Visible, NotHidden, Misses, Lstat

\* An entry is taken off the names, the tree left alone.
LEMMA EntryStep ==
  ASSUME ReportInv, NEW q \in names, names' = names \ {q},
         UNCHANGED <<kind, fs, node, clock, phase, pending, before, touched, unsteady>>,
         phase \in {"stamp", "collect"}
  PROVE  /\ TreeInv' /\ WalkInv' /\ Steady' = Steady
         /\ \A p : Visible(p)' = Visible(p) /\ Differs(p)' = Differs(p)
         /\ \A i : Signature(i)' = Signature(i)
         /\ \A p : p # q => Left(p)' = Left(p)
<1>1. TreeInv /\ WalkInv
  BY DEF ReportInv
<1>2. /\ \A e : Inside(e)' = Inside(e) /\ Reached(e)' = Reached(e)
      /\ \A p : Visible(p)' = Visible(p) /\ Differs(p)' = Differs(p)
      /\ \A i : Signature(i)' = Signature(i)
      /\ Steady' = Steady
  BY DEF Inside, Reached, Visible, Differs, Signature, Steady
<1>3. TreeInv'
  BY <1>1 DEF TreeInv
<1>4. WalkInv'
  BY <1>1, <1>2 DEF WalkInv
<1>5. \A p : p # q => Left(p)' = Left(p)
  BY DEF Left
<1> QED
  BY <1>2, <1>3, <1>4, <1>5

LEMMA StampStep ==
  ASSUME ReportInv, NEW q \in Paths, StampEntry(q)
  PROVE  ReportInv'
<1>1. /\ phase = "stamp" /\ q \in names /\ names' = names \ {q}
      /\ UNCHANGED <<kind, fs, node, clock, phase, pending, changed, deleted, before, touched, unsteady>>
  BY DEF StampEntry, treeVars, history
<1>2. \/ \E s \in Lstat(q) : stamps' = [p \in DOMAIN stamps \cup {q} |-> IF p = q THEN s ELSE stamps[p]]
      \/ Misses(q) /\ stamps' = stamps
  BY DEF StampEntry
<1>3. ResetInv /\ StampInv
  BY DEF ReportInv
<1>4. /\ TreeInv' /\ WalkInv' /\ Steady' = Steady
      /\ \A p : Visible(p)' = Visible(p) /\ Differs(p)' = Differs(p)
      /\ \A i : Signature(i)' = Signature(i)
      /\ \A p : p # q => Left(p)' = Left(p)
  BY <1>1, EntryStep
<1>5. ResetInv'
  BY <1>1, <1>3 DEF ResetInv
<1>6. ASSUME NEW p \in Steady
      PROVE  /\ p \in DOMAIN stamps' => Visible(p) /\ stamps'[p] = Signature(fs[p])
             /\ Visible(p) => p \in DOMAIN stamps' \/ Left(p)'
  <2>0. /\ p \in DOMAIN stamps => Visible(p) /\ stamps[p] = Signature(fs[p])
        /\ Visible(p) => p \in DOMAIN stamps \/ Left(p)
    BY <1>1, <1>3 DEF StampInv
  <2>1. CASE p = q
    <3>1. /\ Visible(p) => ~Misses(q) /\ Lstat(q) = {Signature(fs[p])}
          /\ ~Visible(p) => Lstat(q) = {}
      BY <1>1, <2>1, LstatFacts
    <3>2. CASE Visible(p)
      BY <1>2, <2>1, <3>1, <3>2
    <3>3. CASE ~Visible(p)
      BY <1>2, <2>0, <3>1, <3>3
    <3> QED
      BY <3>2, <3>3
  <2>2. CASE p # q
    <3>1. (p \in DOMAIN stamps' <=> p \in DOMAIN stamps) /\ (p \in DOMAIN stamps => stamps'[p] = stamps[p])
      BY <1>2, <2>2
    <3> QED
      BY <1>4, <2>0, <2>2, <3>1
  <2> QED
    BY <2>1, <2>2
<1>7. StampInv'
  BY <1>1, <1>3, <1>4, <1>6 DEF StampInv
<1> QED
  BY <1>1, <1>4, <1>5, <1>7 DEF ReportInv, RunInv, CollectInv

\* Stamps tell exactly the inodes that differ.
LEMMA StampsTell ==
  ASSUME ReportInv, phase = "collect", NEW p \in Steady, Visible(p)
  PROVE  (p \in DOMAIN stamps /\ stamps[p] = Signature(fs[p])) <=> ~Differs(p)
<1>1. /\ p \in DOMAIN stamps <=> p \in DOMAIN before
      /\ p \in DOMAIN before => Stamps(stamps[p], before[p])
  BY DEF ReportInv, RunInv
<1>2. CASE p \in DOMAIN before
  <2>1. /\ before[p] \in Inodes /\ stamps[p].ino = before[p] /\ stamps[p].ctime \in Nat
        /\ before[p] \notin touched => stamps[p] = Signature(before[p])
        /\ before[p] \in touched => stamps[p].ctime < node[before[p]].ctime
    BY <1>1, <1>2 DEF Stamps
  <2>2. Signature(fs[p]).ino = fs[p] /\ Signature(fs[p]).ctime = node[fs[p]].ctime
    BY DEF Signature
  <2>3. CASE before[p] # fs[p]
    <3>1. stamps[p] # Signature(fs[p])
      BY <2>1, <2>2, <2>3
    <3> QED
      BY <2>3, <3>1 DEF Differs
  <2>4. CASE before[p] = fs[p] /\ fs[p] \in touched
    <3>1. node[fs[p]].ctime \in Nat
      BY <2>1, <2>4 DEF ReportInv, TreeInv
    <3>2. stamps[p].ctime # Signature(fs[p]).ctime
      BY <2>1, <2>2, <2>4, <3>1
    <3> QED
      BY <2>4, <3>2 DEF Differs
  <2>5. CASE before[p] = fs[p] /\ fs[p] \notin touched
    BY <1>1, <1>2, <2>1, <2>5 DEF Differs
  <2> QED
    BY <2>3, <2>4, <2>5
<1>3. CASE p \notin DOMAIN before
  BY <1>1, <1>3 DEF Differs
<1> QED
  BY <1>2, <1>3

LEMMA CollectStep ==
  ASSUME ReportInv, NEW q \in Paths, CollectEntry(q)
  PROVE  ReportInv'
<1>1. /\ phase = "collect" /\ q \in names /\ names' = names \ {q}
      /\ UNCHANGED <<kind, fs, node, clock, phase, pending, stamps, before, touched, unsteady>>
  BY DEF CollectEntry, treeVars, history
<1>2. \/ \E s \in Lstat(q) :
           /\ deleted' = deleted \ {q}
           /\ changed' = IF q \in DOMAIN stamps /\ stamps[q] = s THEN changed ELSE changed \cup {q}
      \/ Misses(q) /\ changed' = changed /\ deleted' = deleted
  BY DEF CollectEntry
<1>3. ResetInv /\ RunInv /\ CollectInv
  BY DEF ReportInv
<1>4. /\ TreeInv' /\ WalkInv' /\ Steady' = Steady
      /\ \A p : Visible(p)' = Visible(p) /\ Differs(p)' = Differs(p)
      /\ \A i : Signature(i)' = Signature(i)
      /\ \A p : p # q => Left(p)' = Left(p)
  BY <1>1, EntryStep
<1>5. ResetInv'
  BY <1>1, <1>3 DEF ResetInv
<1>6. RunInv'
  BY <1>1, <1>3, <1>4 DEF RunInv, Stamps
<1>7. ASSUME NEW p \in Steady
      PROVE  /\ Visible(p) => /\ p \in changed' => Differs(p)
                              /\ Left(p)' \/ (p \notin deleted' /\ (Differs(p) => p \in changed'))
             /\ ~Visible(p) => p \notin changed' /\ (p \in deleted' <=> p \in DOMAIN before)
  <2>0. /\ Visible(p) => /\ p \in changed => Differs(p)
                         /\ Left(p) \/ (p \notin deleted /\ (Differs(p) => p \in changed))
        /\ ~Visible(p) => p \notin changed /\ (p \in deleted <=> p \in DOMAIN before)
    BY <1>1, <1>3 DEF CollectInv
  <2>1. CASE p = q
    <3>1. /\ Visible(p) => ~Misses(q) /\ Lstat(q) = {Signature(fs[p])}
          /\ ~Visible(p) => Lstat(q) = {}
      BY <1>1, <2>1, LstatFacts
    <3>2. CASE Visible(p)
      <4>1. /\ p \notin deleted'
            /\ changed' = IF p \in DOMAIN stamps /\ stamps[p] = Signature(fs[p]) THEN changed ELSE changed \cup {p}
        BY <1>2, <2>1, <3>1, <3>2
      <4>2. (p \in DOMAIN stamps /\ stamps[p] = Signature(fs[p])) <=> ~Differs(p)
        BY <1>1, <3>2, StampsTell
      <4> QED
        BY <2>0, <3>2, <4>1, <4>2
    <3>3. CASE ~Visible(p)
      BY <1>2, <2>0, <3>1, <3>3
    <3> QED
      BY <3>2, <3>3
  <2>2. CASE p # q
    <3>1. (p \in deleted' <=> p \in deleted) /\ (p \in changed' <=> p \in changed)
      BY <1>2, <2>2
    <3> QED
      BY <1>4, <2>0, <2>2, <3>1
  <2> QED
    BY <2>1, <2>2
<1>8. CollectInv'
  BY <1>1, <1>4, <1>7 DEF CollectInv
<1> QED
  BY <1>1, <1>4, <1>5, <1>6, <1>8 DEF ReportInv, StampInv

-----------------------------------------------------------------------------
(* Changes of the tree                                                       *)

Later == clock' \in {clock, clock + 1}

\* The inodes of S get the time of the change, the others stay as they are.
Acts(S) ==
  /\ \A i \in Inodes \ S : node'[i] = node[i]
  /\ \A i \in Inodes \cap S : node'[i].ctime = clock'

LEMMA WritesKeepTree ==
  ASSUME TreeInv, Later, NEW p \in Paths, NEW i \in Inodes, NEW d \in Data, NEW mt \in Nat,
         Writes(p, i, d, mt)
  PROVE  TreeInv' /\ Acts({i, fs[p]})
<1>1. /\ clock \in Nat /\ clock' \in Nat /\ clock <= clock' /\ kind' = kind
      /\ node \in [Inodes -> [data : Data, mtime : Nat, ctime : Nat]]
  BY DEF TreeInv, Later, Writes
<1>2. ASSUME NEW j \in Inodes
      PROVE  /\ node'[j] \in [data : Data, mtime : Nat, ctime : Nat] /\ node'[j].ctime <= clock'
             /\ j \in {i, fs[p]} => node'[j].ctime = clock'
             /\ j \notin {i, fs[p]} => node'[j] = node[j]
  <2>1. node'[j] = CASE j = i     -> [data |-> d, mtime |-> mt, ctime |-> clock']
                     [] j # i /\ j = fs[p] -> [node[j] EXCEPT !.ctime = clock']
                     [] OTHER     -> node[j]
    BY DEF Writes
  <2>2. node[j] \in [data : Data, mtime : Nat, ctime : Nat] /\ node[j].ctime <= clock
    BY <1>1 DEF TreeInv
  <2>3. CASE j = i
    BY <1>1, <2>1, <2>3
  <2>4. CASE j # i /\ j = fs[p]
    BY <1>1, <2>1, <2>2, <2>4
  <2>5. CASE j \notin {i, fs[p]}
    BY <1>1, <2>1, <2>2, <2>5
  <2> QED
    BY <2>3, <2>4, <2>5
<1>3. node' \in [Inodes -> [data : Data, mtime : Nat, ctime : Nat]]
  BY <1>2 DEF Writes
<1> QED
  BY <1>1, <1>2, <1>3 DEF TreeInv, Acts

LEMMA RelinkKeepsTree ==
  ASSUME TreeInv, Later, NEW S, Relinks(S), kind' = kind
  PROVE  TreeInv' /\ Acts(S)
<1>1. clock \in Nat /\ clock' \in Nat /\ clock <= clock'
  BY DEF TreeInv, Later
<1>2. ASSUME NEW j \in Inodes
      PROVE  /\ node'[j] \in [data : Data, mtime : Nat, ctime : Nat] /\ node'[j].ctime <= clock'
             /\ j \in S => node'[j].ctime = clock'
             /\ j \notin S => node'[j] = node[j]
  <2>1. node'[j] = IF j \in S THEN [node[j] EXCEPT !.ctime = clock'] ELSE node[j]
    BY DEF Relinks
  <2>2. node[j] \in [data : Data, mtime : Nat, ctime : Nat] /\ node[j].ctime <= clock
    BY DEF TreeInv
  <2> QED
    BY <1>1, <2>1, <2>2
<1>3. node' \in [Inodes -> [data : Data, mtime : Nat, ctime : Nat]]
  BY <1>2 DEF Relinks
<1> QED
  BY <1>1, <1>2, <1>3 DEF TreeInv, Acts

\* node stays, and the session directory is still there.
LEMMA QuietTree ==
  ASSUME TreeInv, Later, node' = node, kind' \in [Dirs -> Kinds], kind'[<<>>] \in {"dir", "sealed"}
  PROVE  TreeInv' /\ Acts({})
<1>1. clock \in Nat /\ clock' \in Nat /\ clock <= clock'
  BY DEF TreeInv, Later
<1>2. ASSUME NEW i \in Inodes PROVE node'[i].ctime <= clock'
  <2>1. node[i].ctime \in Nat /\ node[i].ctime <= clock
    BY DEF TreeInv
  <2> QED
    BY <1>1, <2>1
<1> QED
  BY <1>1, <1>2 DEF TreeInv, Acts

LEMMA ProgramActs ==
  ASSUME TreeInv, Program
  PROVE  \E S : TreeInv' /\ Acts(S) /\ Noted(S) /\ Later
<1>1. Later
  BY DEF Program, Tick, Later
<1>2. ASSUME NEW p \in Paths, NEW i \in Inodes, ProgramWrites(p, i), Noted({i, fs[p]})
      PROVE  \E S : TreeInv' /\ Acts(S) /\ Noted(S)
  <2>1. PICK d \in Data, mt \in {clock'} \cup {node[j].mtime : j \in {fs[p]} \cap Inodes} : Writes(p, i, d, mt)
    BY <1>2 DEF ProgramWrites
  <2>2. mt \in Nat
    BY <1>1 DEF TreeInv, Later
  <2>3. TreeInv' /\ Acts({i, fs[p]})
    BY <1>1, <2>1, <2>2, WritesKeepTree
  <2> QED
    BY <1>2, <2>3
<1>3. ASSUME NEW p \in Paths, NEW q \in Paths, ProgramRenames(p, q), Noted({fs[p], fs[q]})
      PROVE  \E S : TreeInv' /\ Acts(S) /\ Noted(S)
  <2>1. TreeInv' /\ Acts({fs[p], fs[q]})
    BY <1>1, <1>3, RelinkKeepsTree DEF ProgramRenames
  <2> QED
    BY <1>3, <2>1
<1>4. ASSUME NEW p \in Paths, ProgramRemoves(p), Noted({fs[p]})
      PROVE  \E S : TreeInv' /\ Acts(S) /\ Noted(S)
  <2>1. TreeInv' /\ Acts({fs[p]})
    BY <1>1, <1>4, RelinkKeepsTree DEF ProgramRemoves
  <2> QED
    BY <1>4, <2>1
<1>5. ASSUME NEW p \in Paths, ProgramLinks(p), Noted({fs[p]})
      PROVE  \E S : TreeInv' /\ Acts(S) /\ Noted(S)
  <2>1. TreeInv' /\ Acts({})
    BY <1>1, <1>5, QuietTree DEF ProgramLinks, TreeInv
  <2>2. Acts({fs[p]})
    BY <1>5, <2>1, ResultAssumption DEF Acts, ProgramLinks
  <2> QED
    BY <1>5, <2>1, <2>2
<1>6. ASSUME NEW d \in Dirs \ HiddenDirs, ProgramMoves(d), Noted({})
      PROVE  \E S : TreeInv' /\ Acts(S) /\ Noted(S)
  <2>1. PICK k \in IF d = <<>> THEN {"dir", "sealed"} ELSE {"dir", "sealed", "link", "none"} :
           kind' = [kind EXCEPT ![d] = k]
    BY <1>6 DEF ProgramMoves
  <2>2. kind' \in [Dirs -> Kinds] /\ kind'[<<>>] \in {"dir", "sealed"} /\ node' = node
    BY <1>6, <2>1, ResultAssumption DEF TreeInv, Kinds, ProgramMoves
  <2>3. TreeInv' /\ Acts({})
    BY <1>1, <2>2, QuietTree
  <2> QED
    BY <1>6, <2>3
<1> QED
  BY <1>1, <1>2, <1>3, <1>4, <1>5, <1>6 DEF Program

LEMMA ProgramStep ==
  ASSUME ReportInv, Program
  PROVE  ReportInv'
<1>1. TreeInv /\ ResetInv /\ WalkInv /\ StampInv /\ RunInv /\ CollectInv
  BY DEF ReportInv
<1>2. UNCHANGED <<phase, pending, names, stamps, changed, deleted>>
  BY DEF Program, walkVars, diffVars
<1>3. PICK S : TreeInv' /\ Acts(S) /\ Noted(S) /\ Later
  BY <1>1, ProgramActs
<1>4. /\ before' = before
      /\ touched' = IF phase \in {"run", "collect"} THEN touched \cup S ELSE touched
      /\ unsteady' = IF phase \notin {"stamp", "collect"} THEN unsteady
                     ELSE unsteady \cup {p \in Paths : fs'[p] # fs[p] \/ fs[p] \in S
                                                 \/ \E d \in Prefixes(Dir[p]) : kind'[d] # kind[d]}
  BY <1>3, Zenon DEF Noted
<1>5. Steady' \subseteq Steady
  BY <1>4 DEF Steady
<1>6. ASSUME phase \in {"stamp", "collect"}, NEW p \in Steady'
      PROVE  /\ p \in Steady /\ fs'[p] = fs[p] /\ fs[p] \notin S
             /\ \A d \in Prefixes(Dir[p]) : kind'[d] = kind[d]
  BY <1>4, <1>6 DEF Steady
<1>7. ASSUME phase \in {"stamp", "collect"}, NEW p \in Steady'
      PROVE  /\ Inside(Dir[p])' = Inside(Dir[p]) /\ Visible(p)' = Visible(p)
             /\ \A d \in Prefixes(Dir[p]) : Reached(d)' = Reached(d)
             /\ fs[p] \in Inodes => Signature(fs[p])' = Signature(fs[p])
  <2>1. /\ p \in Steady /\ fs'[p] = fs[p] /\ fs[p] \notin S
        /\ \A d \in Prefixes(Dir[p]) : kind'[d] = kind[d]
    BY <1>6, <1>7
  <2>2. Dir[p] \in Dirs /\ \A d \in Prefixes(Dir[p]) : Prefixes(d) \subseteq Prefixes(Dir[p])
    BY PrefixFacts, ResultAssumption DEF Steady
  <2>3. Inside(Dir[p])' = Inside(Dir[p])
    BY <2>1 DEF Inside
  <2>4. \A d \in Prefixes(Dir[p]) : Reached(d)' = Reached(d)
    BY <2>1, <2>2 DEF Reached
  <2>5. fs[p] \in Inodes => Signature(fs[p])' = Signature(fs[p])
    BY <1>3, <2>1 DEF Signature, Acts
  <2> QED
    BY <2>1, <2>3, <2>4, <2>5 DEF Visible
<1>8. ResetInv'
  BY <1>1, <1>2, <1>4 DEF ResetInv
<1>9. WalkInv'
  <2>1. CASE phase \in {"stamp", "collect"}
    BY <1>1, <1>2, <1>6, <1>7, <2>1 DEF WalkInv
  <2>2. CASE phase \notin {"stamp", "collect"}
    <3>1. pending' = {} /\ names' = {}
      BY <1>1, <1>2, <2>2 DEF ResetInv
    <3> QED
      BY <3>1 DEF WalkInv
  <2> QED
    BY <2>1, <2>2
<1>10. StampInv'
  <2> SUFFICES ASSUME phase = "stamp", NEW p \in Steady'
               PROVE  /\ p \in DOMAIN before' <=> Visible(p)'
                      /\ Visible(p)' => before'[p] = fs'[p]
                      /\ p \in DOMAIN stamps' => Visible(p)' /\ stamps'[p] = Signature(fs[p])'
                      /\ Visible(p)' => p \in DOMAIN stamps' \/ Left(p)'
    BY <1>2 DEF StampInv
  <2>1. /\ p \in DOMAIN before <=> Visible(p)
        /\ Visible(p) => before[p] = fs[p]
        /\ p \in DOMAIN stamps => Visible(p) /\ stamps[p] = Signature(fs[p])
        /\ Visible(p) => p \in DOMAIN stamps \/ Left(p)
    BY <1>1, <1>6 DEF StampInv
  <2>2. Left(p)' = Left(p)
    BY <1>2 DEF Left
  <2>3. Visible(p) => fs[p] \in Inodes
    BY DEF Visible
  <2> QED
    BY <1>2, <1>4, <1>6, <1>7, <2>1, <2>2, <2>3
<1>11. RunInv'
  <2> SUFFICES ASSUME phase \in {"run", "drain", "collect"}, NEW p \in Steady'
               PROVE  /\ p \in DOMAIN stamps' <=> p \in DOMAIN before'
                      /\ p \in DOMAIN before' => Stamps(stamps[p], before[p])'
    BY <1>2 DEF RunInv
  <2>1. /\ p \in DOMAIN stamps <=> p \in DOMAIN before
        /\ p \in DOMAIN before => Stamps(stamps[p], before[p])
    BY <1>1, <1>5 DEF RunInv
  <2>2. ASSUME p \in DOMAIN before PROVE Stamps(stamps[p], before[p])'
    <3> DEFINE s == stamps[p]  i == before[p]
    <3>1. /\ i \in Inodes /\ s.ino = i /\ s.ctime \in Nat /\ s.ctime < clock
          /\ i \notin touched => s = Signature(i)
          /\ i \in touched => s.ctime < node[i].ctime
      BY <2>1, <2>2 DEF Stamps
    <3>2. s' = s /\ i' = i
      BY <1>2, <1>4
    <3> HIDE DEF s, i
    <3>3. phase # "drain"
      BY DEF Program
    <3>4. touched' = touched \cup S
      BY <1>4, <3>3
    <3>5. clock \in Nat /\ clock' \in Nat /\ clock <= clock'
      BY <1>1, <1>3 DEF TreeInv, Later
    <3>6. s.ctime < clock'
      BY <3>1, <3>5
    <3>7. CASE i \in S
      <4>1. node'[i].ctime = clock' /\ i \in touched'
        BY <1>3, <3>1, <3>4, <3>7 DEF Acts
      <4>2. Stamps(s, i)'
        BY <3>1, <3>2, <3>6, <4>1 DEF Stamps
      <4> QED
        BY <4>2 DEF s, i
    <3>8. CASE i \notin S
      <4>1. node'[i] = node[i] /\ (i \in touched' <=> i \in touched)
        BY <1>3, <3>1, <3>4, <3>8 DEF Acts
      <4>2. Stamps(s, i)'
        BY <3>1, <3>2, <3>6, <4>1 DEF Stamps, Signature
      <4> QED
        BY <4>2 DEF s, i
    <3> QED
      BY <3>7, <3>8
  <2> QED
    BY <1>2, <1>4, <2>1, <2>2
<1>12. CollectInv'
  <2> SUFFICES ASSUME phase = "collect", NEW p \in Steady'
               PROVE  /\ Visible(p)' => /\ p \in changed' => Differs(p)'
                                        /\ Left(p)' \/ (p \notin deleted' /\ (Differs(p)' => p \in changed'))
                      /\ ~Visible(p)' => p \notin changed' /\ (p \in deleted' <=> p \in DOMAIN before')
    BY <1>2 DEF CollectInv
  <2>1. /\ Visible(p) => /\ p \in changed => Differs(p)
                         /\ Left(p) \/ (p \notin deleted /\ (Differs(p) => p \in changed))
        /\ ~Visible(p) => p \notin changed /\ (p \in deleted <=> p \in DOMAIN before)
    BY <1>1, <1>6 DEF CollectInv
  <2>2. Left(p)' = Left(p)
    BY <1>2 DEF Left
  <2>3. Differs(p)' = Differs(p)
    BY <1>4, <1>6 DEF Differs
  <2> QED
    BY <1>2, <1>4, <1>7, <2>1, <2>2, <2>3
<1> QED
  BY <1>3, <1>8, <1>9, <1>10, <1>11, <1>12 DEF ReportInv

-----------------------------------------------------------------------------
(* The other steps                                                           *)

\* A walk begins at the session directory, which no link is at.
LEMMA WalkBegins ==
  ASSUME TreeInv, pending' = {<<>>}, names' = {}, kind' = kind
  PROVE  WalkInv' /\ \A p \in Paths : Left(p)'
<1>1. <<>> \in Dirs /\ Prefixes(<<>>) = {<<>>}
  <2>1. <<>> \in Dirs /\ Len(<<>>) = 0 /\ SubSeq(<<>>, 1, 0) = <<>>
    BY ResultAssumption
  <2>2. 0..0 = {0}
    OBVIOUS
  <2> QED
    BY <2>1, <2>2 DEF Prefixes
<1>2. NotHidden(<<>>) /\ Reached(<<>>)'
  BY <1>1, ResultAssumption DEF NotHidden, Reached, TreeInv
<1>3. ASSUME NEW p \in Paths PROVE <<>> \in Prefixes(Dir[p])
  BY PrefixFacts, ResultAssumption
<1> QED
  BY <1>1, <1>2, <1>3 DEF WalkInv, Left

LEMMA ExecuteStep == ReportInv /\ Execute => ReportInv'
<1> SUFFICES ASSUME ReportInv, Execute PROVE ReportInv'
  OBVIOUS
<1>1. /\ phase = "idle" /\ phase' = "stamp" /\ pending' = {<<>>}
      /\ before' = [p \in {q \in Paths : Visible(q)} |-> fs[p]]
      /\ UNCHANGED <<kind, fs, node, clock, names, stamps, changed, touched, unsteady>>
  BY DEF Execute, treeVars, diffVars
<1>2. TreeInv /\ ResetInv
  BY DEF ReportInv
<1>3. names' = {} /\ stamps' = <<>> /\ DOMAIN stamps' = {}
  BY <1>1, <1>2 DEF ResetInv
<1>4. WalkInv' /\ \A p \in Paths : Left(p)'
  BY <1>1, <1>2, <1>3, WalkBegins
<1>5. \A p : Visible(p)' = Visible(p)
  BY <1>1 DEF Visible, Inside
<1>6. StampInv'
  BY <1>1, <1>3, <1>4, <1>5 DEF StampInv, Steady
<1>7. TreeInv' /\ ResetInv'
  BY <1>1, <1>2, <1>3 DEF TreeInv, ResetInv
<1> QED
  BY <1>1, <1>4, <1>6, <1>7 DEF ReportInv, RunInv, CollectInv

LEMMA StampedStep == ReportInv /\ Stamped => ReportInv'
<1> SUFFICES ASSUME ReportInv, Stamped PROVE ReportInv'
  OBVIOUS
<1>1. /\ phase = "stamp" /\ phase' = "run" /\ pending = {} /\ names = {} /\ clock' = clock + 1
      /\ UNCHANGED <<kind, fs, node, pending, names, stamps, changed, before, touched, unsteady>>
  BY DEF Stamped, Walked, walkVars, diffVars, history
<1>2. TreeInv /\ ResetInv /\ WalkInv /\ StampInv
  BY DEF ReportInv
<1>3. TreeInv'
  <2>1. Later
    BY <1>1 DEF Later
  <2> QED
    BY <1>1, <1>2, <2>1, QuietTree DEF TreeInv
<1>4. ResetInv' /\ WalkInv'
  BY <1>1, <1>2 DEF ResetInv, WalkInv
<1>5. ASSUME NEW p \in Steady
      PROVE  /\ p \in DOMAIN stamps <=> p \in DOMAIN before
             /\ p \in DOMAIN before => Stamps(stamps[p], before[p])'
  <2>1. /\ p \in DOMAIN before <=> Visible(p)
        /\ Visible(p) => before[p] = fs[p]
        /\ p \in DOMAIN stamps => Visible(p) /\ stamps[p] = Signature(fs[p])
        /\ Visible(p) => p \in DOMAIN stamps
    BY <1>1, <1>2 DEF StampInv, Left
  <2>2. ASSUME p \in DOMAIN before PROVE Stamps(stamps[p], before[p])'
    <3>1. fs[p] \in Inodes /\ before[p] = fs[p] /\ stamps[p] = Signature(fs[p])
      BY <2>1, <2>2 DEF Visible
    <3>2. Signature(fs[p]).ino = fs[p] /\ Signature(fs[p]).ctime = node[fs[p]].ctime
      BY DEF Signature
    <3>3. node[fs[p]].ctime \in Nat /\ node[fs[p]].ctime <= clock /\ clock \in Nat
      BY <1>2, <3>1 DEF TreeInv
    <3>4. node[fs[p]].ctime < clock'
      BY <1>1, <3>3
    <3>5. touched' = {}
      BY <1>1, <1>2 DEF ResetInv
    <3>6. Signature(fs[p])' = Signature(fs[p])
      BY <1>1 DEF Signature
    <3>7. stamps'[p] = Signature(fs[p])' /\ before'[p] = fs'[p] /\ fs' = fs
      BY <1>1, <3>1, <3>6
    <3> QED
      BY <1>1, <3>1, <3>2, <3>3, <3>4, <3>5, <3>6, <3>7 DEF Stamps
  <2> QED
    BY <2>1, <2>2
<1>6. RunInv'
  BY <1>1, <1>5 DEF RunInv, Steady
<1> QED
  BY <1>1, <1>3, <1>4, <1>6 DEF ReportInv, StampInv, CollectInv

LEMMA DrainedStep == ReportInv /\ Drained => ReportInv'
<1> SUFFICES ASSUME ReportInv, Drained PROVE ReportInv'
  OBVIOUS
<1>1. /\ phase = "drain" /\ phase' = "collect" /\ pending' = {<<>>} /\ deleted' = DOMAIN stamps
      /\ UNCHANGED <<kind, fs, node, clock, names, stamps, changed, before, touched, unsteady>>
  BY DEF Drained, treeVars, history
<1>2. TreeInv /\ ResetInv /\ RunInv
  BY DEF ReportInv
<1>3. names' = {} /\ changed' = {}
  BY <1>1, <1>2 DEF ResetInv
<1>4. WalkInv' /\ \A p \in Paths : Left(p)'
  BY <1>1, <1>2, <1>3, WalkBegins
<1>5. RunInv'
  BY <1>1, <1>2 DEF RunInv, Steady, Stamps, Signature
<1>6. CollectInv'
  <2>1. \A p \in Steady : p \in deleted' <=> p \in DOMAIN before
    BY <1>1, <1>2 DEF RunInv
  <2> QED
    BY <1>1, <1>3, <1>4, <2>1 DEF CollectInv, Steady
<1>7. TreeInv' /\ ResetInv'
  BY <1>1, <1>2 DEF TreeInv, ResetInv
<1> QED
  BY <1>1, <1>4, <1>5, <1>6, <1>7 DEF ReportInv, StampInv

\* Steps at whose end no walk reads and nothing is compared.
LEMMA RestStep ==
  ASSUME ReportInv, TreeInv', phase \in {"collect", "attach", "idle"},
         phase' \in {"idle", "attach", "gone"}, UNCHANGED <<pending, names>>,
         pending = {} /\ names = {}, unsteady' = {}, touched' = {},
         phase' # "attach" => changed' = {},
         phase' = "idle" => stamps' = <<>>
  PROVE  ReportInv'
<1>1. ResetInv'
  BY DEF ResetInv
<1>2. WalkInv'
  BY DEF WalkInv
<1> QED
  BY <1>1, <1>2 DEF ReportInv, StampInv, RunInv, CollectInv

\* Steps that leave all of it alone.
LEMMA QuietStep ==
  ASSUME ReportInv, phase' = phase \/ (phase = "run" /\ phase' = "drain"),
         UNCHANGED <<treeVars, walkVars, diffVars, history>>
  PROVE  ReportInv'
<1>1. UNCHANGED <<kind, fs, node, clock, pending, names, stamps, changed, deleted, before, touched, unsteady>>
  BY DEF treeVars, walkVars, diffVars, history
<1>2. TreeInv /\ ResetInv /\ WalkInv /\ StampInv /\ RunInv /\ CollectInv
  BY DEF ReportInv
<1>3. /\ \A e : Inside(e)' = Inside(e) /\ Reached(e)' = Reached(e)
      /\ \A p : Visible(p)' = Visible(p) /\ Differs(p)' = Differs(p) /\ Left(p)' = Left(p)
      /\ \A i : Signature(i)' = Signature(i)
      /\ \A s, i : Stamps(s, i)' = Stamps(s, i)
      /\ Steady' = Steady
  BY <1>1 DEF Inside, Reached, Visible, Differs, Left, Stamps, Signature, Steady
<1>4. TreeInv' /\ ResetInv'
  BY <1>1, <1>2 DEF TreeInv, ResetInv
<1>5. WalkInv'
  BY <1>1, <1>2, <1>3 DEF WalkInv
<1>6. StampInv'
  BY <1>1, <1>2, <1>3 DEF StampInv
<1>7. RunInv'
  BY <1>1, <1>2, <1>3 DEF RunInv, Stamps, Signature
<1>8. CollectInv'
  BY <1>1, <1>2, <1>3 DEF CollectInv
<1> QED
  BY <1>4, <1>5, <1>6, <1>7, <1>8 DEF ReportInv

LEMMA ReportInit == Init => ReportInv
<1> SUFFICES ASSUME Init PROVE ReportInv
  OBVIOUS
<1>1. /\ phase = "idle" /\ pending = {} /\ names = {} /\ stamps = <<>> /\ changed = {}
      /\ unsteady = {} /\ touched = {} /\ clock = 0 /\ kind = [d \in Dirs |-> "dir"]
      /\ \E d \in Data : node = [i \in Inodes |-> [data |-> d, mtime |-> 0, ctime |-> 0]]
  BY DEF Init
<1>2. TreeInv
  BY <1>1, ResultAssumption DEF TreeInv, Kinds
<1> QED
  BY <1>1, <1>2 DEF ReportInv, ResetInv, WalkInv, StampInv, RunInv, CollectInv

LEMMA ReportNext == ReportInv /\ [Next]_vars => ReportInv'
<1> SUFFICES ASSUME ReportInv, [Next]_vars PROVE ReportInv'
  OBVIOUS
<1>0. TreeInv /\ ResetInv
  BY DEF ReportInv
<1>1. CASE Execute
  BY <1>1, ExecuteStep
<1>2. CASE Stamped
  BY <1>2, StampedStep
<1>3. CASE Drained
  BY <1>3, DrainedStep
<1>4. CASE RunEnds \/ ReadChunk
  BY <1>4, QuietStep DEF RunEnds, ReadChunk
<1>5. CASE OpenNext
  <2>1. phase' = phase /\ UNCHANGED <<treeVars, walkVars, diffVars, history>>
    BY <1>5, Zenon DEF OpenNext
  <2> QED
    BY <2>1, QuietStep
<1>6. ASSUME NEW x \in sending, Sent(x) PROVE ReportInv'
  BY <1>6, QuietStep DEF Sent
<1>7. CASE Collected
  <2>1. /\ phase = "collect" /\ phase' = "attach" /\ pending = {} /\ names = {}
        /\ touched' = {} /\ unsteady' = {} /\ UNCHANGED <<treeVars, pending, names>>
    BY <1>7 DEF Collected, Walked, walkVars
  <2>2. TreeInv'
    BY <1>0, <2>1 DEF treeVars, TreeInv
  <2> QED
    BY <2>1, <2>2, RestStep
<1>8. CASE Answer
  <2>1. /\ phase = "attach" /\ phase' = "idle" /\ stamps' = <<>> /\ changed' = {}
        /\ UNCHANGED <<treeVars, pending, names, touched, unsteady>>
    BY <1>8 DEF Answer, walkVars, history
  <2>2. TreeInv'
    BY <1>0, <2>1 DEF treeVars, TreeInv
  <2> QED
    BY <1>0, <2>1, <2>2, RestStep DEF ResetInv
<1>9. ASSUME TreeInv', phase = "idle", phase' \in {"idle", "gone"},
             UNCHANGED <<walkVars, diffVars, history>>
      PROVE  ReportInv'
  <2>1. UNCHANGED <<pending, names, stamps, changed, touched, unsteady>>
    BY <1>9 DEF walkVars, diffVars, history
  <2> QED
    BY <1>0, <1>9, <2>1, RestStep DEF ResetInv
<1>10. CASE DeleteSession
  <2>1. TreeInv'
    BY <1>0, <1>10 DEF DeleteSession, TreeInv
  <2> QED
    BY <1>9, <1>10, <2>1 DEF DeleteSession
<1>11. ASSUME NEW p \in Paths, Put(p) PROVE ReportInv'
  <2>1. Later /\ phase = "idle" /\ phase' = "idle" /\ UNCHANGED <<walkVars, diffVars, history>>
    BY <1>11 DEF Put, Tick, Later
  <2>2. PICK i \in Inodes, d \in Data : Writes(p, i, d, clock')
    BY <1>11 DEF Put
  <2>3. clock' \in Nat
    BY <1>0, <2>1 DEF Later, TreeInv
  <2>4. TreeInv'
    BY <1>0, <2>1, <2>2, <2>3, WritesKeepTree
  <2> QED
    BY <1>9, <2>1, <2>4
<1>12. ASSUME NEW p \in Paths, DeleteFile(p) PROVE ReportInv'
  <2>1. /\ Later /\ phase = "idle" /\ phase' = "idle" /\ UNCHANGED <<walkVars, diffVars, history>>
        /\ Relinks({fs[p]}) /\ kind' = kind
    BY <1>12 DEF DeleteFile, Tick, Later
  <2>2. TreeInv'
    BY <1>0, <2>1, RelinkKeepsTree
  <2> QED
    BY <1>9, <2>1, <2>2
<1>13. CASE Program
  BY <1>13, ProgramStep
<1>14. ASSUME NEW d \in Dirs, Scan(d) PROVE ReportInv'
  BY <1>14, ScanStep
<1>15. ASSUME NEW p \in Paths, StampEntry(p) \/ CollectEntry(p) PROVE ReportInv'
  BY <1>15, StampStep, CollectStep
<1>16. CASE UNCHANGED vars
  BY <1>16, QuietStep DEF vars
<1> QED
  BY <1>1, <1>2, <1>3, <1>4, <1>5, <1>6, <1>7, <1>8, <1>10, <1>11, <1>12, <1>13, <1>14, <1>15, <1>16
  DEF Next, OtherRequest

\* The two walks and the signatures (podman_executor.py, _iter_session_files,
\* _signature and collect_changes) report each file that is left alone while they
\* read by what became of it during the run, whatever a program does to other files
\* and directories at any time, and to it and its directories between the walks.
THEOREM ChangesReportedCorrect == Spec => []ChangesReported
<1>1. ReportInv => ChangesReported
  <2> SUFFICES ASSUME ReportInv, phase = "collect", Walked, NEW p \in Paths \ unsteady
               PROVE  /\ p \in changed <=>
                           Visible(p) /\ (p \notin DOMAIN before \/ before[p] # fs[p] \/ fs[p] \in touched)
                      /\ p \in deleted <=> p \in DOMAIN before /\ ~Visible(p)
    BY DEF ChangesReported
  <2>1. ~Left(p)
    BY DEF Left, Walked
  <2>2. p \in Steady /\ CollectInv
    BY DEF Steady, ReportInv
  <2> QED
    BY <2>1, <2>2 DEF CollectInv, Differs
<1> QED
  BY ReportInit, ReportNext, <1>1, PTL DEF Spec

-----------------------------------------------------------------------------
(* The split: files are opened in order, so those left out for want of a     *)
(* place come after those attached.                                          *)

Attached == {x.path : x \in payloads}

\* The files already opened or left out, before those still to open.
InOrder ==
  /\ Attached \cup omitted \cup todo = changed
  /\ Attached \cap omitted = {} /\ unread \subseteq omitted
  /\ \A p \in Attached \cup omitted, q \in todo : p < q
  /\ \A p \in Attached, q \in omitted \ unread : p < q

PlacesTaken ==
  /\ Cardinality(payloads) <= MAX_RESULT_ATTACHMENTS
  /\ omitted # unread => Cardinality(payloads) = MAX_RESULT_ATTACHMENTS

SplitInv ==
  /\ changed \subseteq Paths /\ IsFiniteSet(payloads)
  /\ phase = "attach" => InOrder /\ PlacesTaken
  /\ phase # "attach" => payloads = {} /\ omitted = {} /\ unread = {}

LEMMA PathsAreNumbers == \A p \in Paths : p \in Nat
BY ResultAssumption

\* Every set of paths has a first one: of the initial segments 1..n the set
\* avoids, one is largest.
LEMMA FirstPath ==
  ASSUME NEW S \in SUBSET Paths, S # {}
  PROVE  Min(S) \in S /\ \A q \in S : Min(S) <= q
<1> DEFINE Below(n) == {k \in Paths : k < n}
<1> DEFINE T == {Below(n) : n \in S}
<1>1. T \subseteq FiniteSubsetsOf(Paths) /\ T # {}
  <2>1. \A n \in S : Below(n) \in SUBSET Paths
    OBVIOUS
  <2>2. \A n \in S : IsFiniteSet(Below(n))
    BY <2>1, FS_Subset, ResultAssumption
  <2> QED
    BY <2>1, <2>2 DEF FiniteSubsetsOf
<1>2. IsWellFoundedOn(StrictSubsetOrdering(Paths), FiniteSubsetsOf(Paths))
  BY FS_StrictSubsetOrderingWellFounded
<1>3. PICK B \in T : \A C \in T : ~(<<C, B>> \in StrictSubsetOrdering(Paths))
  <2> HIDE DEF T
  <2> QED
    BY <1>1, <1>2, WFMin
<1>4. PICK n \in S : B = Below(n)
  BY <1>3
<1>5. ASSUME NEW q \in S PROVE n <= q
  <2> SUFFICES ASSUME q < n PROVE FALSE
    BY ResultAssumption
  <2>1. q \in Paths /\ q \in Nat /\ n \in Nat /\ \A k \in Paths : k \in Nat
    BY PathsAreNumbers
  <2>2. \A k \in Paths : k < q => k < n
    BY <2>1
  <2>3. q \in Below(n) /\ q \notin Below(q)
    BY <2>1
  <2>4. Below(q) \subseteq Below(n)
    BY <2>2
  <2>5. <<Below(q), B>> \in StrictSubsetOrdering(Paths)
    BY <1>4, <2>3, <2>4 DEF StrictSubsetOrdering
  <2> QED
    BY <1>3, <2>5
<1> QED
  BY <1>5 DEF Min

LEMMA OpenStep ==
  ASSUME SplitInv, OpenNext
  PROVE  SplitInv'
<1> DEFINE p == Min(todo)
<1>1. /\ phase = "attach" /\ phase' = "attach" /\ todo # {} /\ todo' = todo \ {p} /\ changed' = changed
      /\ \/ ~PlaceLeft /\ omitted' = omitted \cup {p} /\ payloads' = payloads /\ unread' = unread
         \/ /\ PlaceLeft /\ omitted' = omitted /\ unread' = unread
            /\ payloads' = payloads \cup {[path |-> p, inode |-> fs[p], data |-> node[fs[p]].data]}
         \/ PlaceLeft /\ omitted' = omitted \cup {p} /\ unread' = unread \cup {p} /\ payloads' = payloads
  BY Zenon DEF OpenNext, diffVars
<1>2. InOrder /\ PlacesTaken /\ changed \subseteq Paths /\ IsFiniteSet(payloads)
  BY <1>1 DEF SplitInv
<1>3. todo \subseteq Paths /\ p \in todo /\ \A q \in todo : p <= q
  BY <1>1, <1>2, FirstPath DEF InOrder
<1>4. \A q \in todo \ {p} : p < q
  <2>1. \A q \in todo : q \in Nat /\ p \in Nat
    BY <1>3, PathsAreNumbers
  <2> QED
    BY <1>3, <2>1
<1>5. Cardinality(payloads) \in Nat
  BY <1>2, FS_CardinalityType
<1>6. p \notin Attached \cup omitted
  <2>1. \A q \in Attached \cup omitted : q < p
    BY <1>2, <1>3 DEF InOrder
  <2>2. p \in Nat
    BY <1>3, PathsAreNumbers
  <2> QED
    BY <2>1, <2>2
<1> HIDE DEF p
<1>7. CASE ~PlaceLeft /\ omitted' = omitted \cup {p} /\ payloads' = payloads /\ unread' = unread
  <2>1. Attached' = Attached
    BY <1>7 DEF Attached
  <2>2. InOrder'
    BY <1>1, <1>2, <1>3, <1>4, <1>6, <1>7, <2>1 DEF InOrder
  <2>3. Cardinality(payloads) = MAX_RESULT_ATTACHMENTS
    BY <1>2, <1>5, <1>7, ResultAssumption DEF PlacesTaken, PlaceLeft
  <2> QED
    BY <1>1, <1>2, <1>5, <1>7, <2>2, <2>3, ResultAssumption DEF SplitInv, PlacesTaken
<1>8. CASE /\ PlaceLeft /\ omitted' = omitted /\ unread' = unread
           /\ payloads' = payloads \cup {[path |-> p, inode |-> fs[p], data |-> node[fs[p]].data]}
  <2> DEFINE x == [path |-> p, inode |-> fs[p], data |-> node[fs[p]].data]
  <2>1. x.path = p
    OBVIOUS
  <2> HIDE DEF x
  <2>2. payloads' = payloads \cup {x}
    BY <1>8 DEF x
  <2>3. Attached' = Attached \cup {p}
    BY <2>1, <2>2 DEF Attached
  <2>4. omitted = unread
    BY <1>2, <1>5, <1>8, ResultAssumption DEF PlacesTaken, PlaceLeft
  <2>5. InOrder'
    BY <1>1, <1>2, <1>3, <1>4, <1>6, <1>8, <2>3, <2>4 DEF InOrder
  <2>6. IsFiniteSet(payloads') /\ Cardinality(payloads') <= Cardinality(payloads) + 1
    BY <1>2, <1>5, <2>2, FS_AddElement
  <2>7. Cardinality(payloads') <= MAX_RESULT_ATTACHMENTS
    <3>1. Cardinality(payloads') \in Nat
      BY <2>6, FS_CardinalityType
    <3> QED
      BY <1>5, <1>8, <2>6, <3>1, ResultAssumption DEF PlaceLeft
  <2> QED
    BY <1>1, <1>2, <1>8, <2>4, <2>5, <2>6, <2>7 DEF SplitInv, PlacesTaken
<1>9. CASE PlaceLeft /\ omitted' = omitted \cup {p} /\ unread' = unread \cup {p} /\ payloads' = payloads
  <2>1. Attached' = Attached
    BY <1>9 DEF Attached
  <2>2. omitted = unread
    BY <1>2, <1>5, <1>9, ResultAssumption DEF PlacesTaken, PlaceLeft
  <2>3. InOrder'
    BY <1>1, <1>2, <1>3, <1>4, <1>6, <1>9, <2>1, <2>2 DEF InOrder
  <2> QED
    BY <1>1, <1>2, <1>9, <2>2, <2>3 DEF SplitInv, PlacesTaken
<1> QED
  BY <1>1, <1>7, <1>8, <1>9

LEMMA SplitNext == SplitInv /\ [Next]_vars => SplitInv'
<1> SUFFICES ASSUME SplitInv, [Next]_vars PROVE SplitInv'
  OBVIOUS
<1>1. CASE OpenNext
  BY <1>1, OpenStep
<1>2. CASE Collected
  <2>1. /\ phase = "collect" /\ phase' = "attach" /\ todo' = changed /\ changed' = changed
        /\ payloads' = {} /\ omitted' = {} /\ unread' = {}
    BY <1>2 DEF Collected, diffVars, SplitInv
  <2>2. Attached' = {} /\ IsFiniteSet({}) /\ Cardinality({}) = 0
    BY <2>1, FS_EmptySet DEF Attached
  <2>3. InOrder'
    BY <2>1, <2>2 DEF InOrder
  <2> QED
    BY <2>1, <2>2, <2>3, ResultAssumption DEF SplitInv, PlacesTaken
<1>3. CASE Answer
  BY <1>3, FS_EmptySet DEF Answer, SplitInv
<1>4. ASSUME NEW p \in Paths, CollectEntry(p) PROVE SplitInv'
  <2>1. /\ phase = "collect" /\ phase' = "collect" /\ UNCHANGED <<payloads, omitted, unread>>
        /\ changed' \subseteq changed \cup {p}
    BY <1>4 DEF CollectEntry, splitVars
  <2> QED
    BY <2>1 DEF SplitInv
<1>5. ASSUME /\ UNCHANGED <<changed, splitVars>>
             /\ (phase = "attach" \/ phase' = "attach") => phase' = phase
      PROVE  SplitInv'
  <2>1. Attached' = Attached
    BY <1>5 DEF Attached, splitVars
  <2> QED
    BY <1>5, <2>1 DEF SplitInv, InOrder, PlacesTaken, splitVars
<1>6. CASE Execute \/ Stamped \/ RunEnds \/ ReadChunk \/ Drained
  BY <1>5, <1>6 DEF Execute, Stamped, RunEnds, ReadChunk, Drained, diffVars
<1>7. CASE (\E d \in Dirs : Scan(d)) \/ \E p \in Paths : StampEntry(p)
  BY <1>5, <1>7 DEF Scan, StampEntry, diffVars, splitVars
<1>8. ASSUME NEW x \in sending, Sent(x) PROVE SplitInv'
  BY <1>5, <1>8 DEF Sent, diffVars
<1>9. CASE OtherRequest
  BY <1>5, <1>9 DEF OtherRequest, DeleteSession, Put, DeleteFile, diffVars
<1>10. CASE Program
  BY <1>5, <1>10 DEF Program, diffVars
<1>11. CASE UNCHANGED vars
  BY <1>5, <1>11 DEF vars, diffVars
<1> QED
  BY <1>1, <1>2, <1>3, <1>4, <1>6, <1>7, <1>8, <1>9, <1>10, <1>11 DEF Next

\* The changed files are attached up to MAX_RESULT_ATTACHMENTS and named as omitted
\* beyond it, in the order of their names (handle_execute).
THEOREM SplitCompleteCorrect == Spec => []SplitComplete
<1>1. Init => SplitInv
  BY FS_EmptySet DEF Init, SplitInv
<1>2. SplitInv => SplitComplete
  BY DEF SplitInv, InOrder, PlacesTaken, SplitComplete, Attached
<1> QED
  BY SplitNext, <1>1, <1>2, PTL DEF Spec

-----------------------------------------------------------------------------
(* The output, and the answers being sent                                    *)

\* What has been read is kept up to the limit.
KeptInv ==
  /\ total \in Nat /\ left \in 0..total /\ kept \in Nat
  /\ kept = IF total - left <= MAX_OUTPUT_SIZE THEN total - left ELSE MAX_OUTPUT_SIZE
  /\ phase # "drain" => total = 0 /\ left = 0

LEMMA SmallerOf ==
  ASSUME NEW a \in Int, NEW b \in Int
  PROVE  Min({a, b}) = IF a <= b THEN a ELSE b
<1>1. (IF a <= b THEN a ELSE b) \in {a, b} /\ \A y \in {a, b} : (IF a <= b THEN a ELSE b) <= y
  OBVIOUS
<1>2. \A x \in {a, b} : (\A y \in {a, b} : x <= y) => x = IF a <= b THEN a ELSE b
  OBVIOUS
<1> QED
  BY <1>1, <1>2 DEF Min

LEMMA ReadStep ==
  ASSUME KeptInv, ReadChunk
  PROVE  KeptInv'
<1>1. /\ total \in Nat /\ left \in Nat /\ left <= total /\ kept \in Nat
      /\ kept = IF total - left <= MAX_OUTPUT_SIZE THEN total - left ELSE MAX_OUTPUT_SIZE
      /\ MAX_OUTPUT_SIZE \in Nat /\ CHUNK \in Nat /\ total' = total
      /\ phase = "drain" /\ phase' = "drain"
  BY ResultAssumption DEF KeptInv, ReadChunk
<1>2. Min({CHUNK, left}) = IF CHUNK <= left THEN CHUNK ELSE left
  BY <1>1, SmallerOf
<1>3. PICK chunk \in 1..Min({CHUNK, left}) : left' = left - chunk /\ kept' = kept + Kept(chunk)
  BY DEF ReadChunk
<1>4. chunk \in Nat /\ chunk <= left
  BY <1>1, <1>2, <1>3
<1>5. Kept(chunk) = IF chunk <= MAX_OUTPUT_SIZE - kept THEN chunk ELSE MAX_OUTPUT_SIZE - kept
  BY <1>1, <1>4, SmallerOf DEF Kept
<1> QED
  BY <1>1, <1>3, <1>4, <1>5 DEF KeptInv

LEMMA KeptNext == KeptInv /\ [Next]_vars => KeptInv'
<1> SUFFICES ASSUME KeptInv, [Next]_vars PROVE KeptInv'
  OBVIOUS
<1>1. CASE ReadChunk
  BY <1>1, ReadStep
<1>2. CASE RunEnds
  <2>1. PICK n \in 0..(MAX_OUTPUT_SIZE + CHUNK) : total' = n /\ left' = n
    BY <1>2 DEF RunEnds
  <2>2. phase = "run" /\ phase' = "drain" /\ kept' = kept
    BY <1>2 DEF RunEnds
  <2>3. kept = 0
    BY <2>2, ResultAssumption DEF KeptInv
  <2> QED
    BY <2>1, <2>2, <2>3, ResultAssumption DEF KeptInv
<1>3. CASE Drained
  BY <1>3, ResultAssumption DEF Drained, KeptInv
<1>4. ASSUME UNCHANGED outVars, phase = "drain" => phase' = "drain" PROVE KeptInv'
  BY <1>4 DEF outVars, KeptInv
<1>5. CASE Execute \/ Stamped \/ Collected \/ OpenNext \/ Answer
  <2>1. UNCHANGED outVars /\ phase # "drain"
    BY <1>5, Zenon DEF Execute, Stamped, Collected, OpenNext, Answer
  <2> QED
    BY <1>4, <2>1
<1>6. CASE (\E d \in Dirs : Scan(d)) \/ \E p \in Paths : StampEntry(p) \/ CollectEntry(p)
  BY <1>4, <1>6 DEF Scan, StampEntry, CollectEntry
<1>7. ASSUME NEW x \in sending, Sent(x) PROVE KeptInv'
  BY <1>4, <1>7 DEF Sent
<1>8. CASE OtherRequest \/ Program
  BY <1>4, <1>8 DEF OtherRequest, DeleteSession, Put, DeleteFile, Program
<1>9. CASE UNCHANGED vars
  BY <1>4, <1>9 DEF vars
<1> QED
  BY <1>1, <1>2, <1>3, <1>5, <1>6, <1>7, <1>8, <1>9 DEF Next

\* The output is cut at MAX_OUTPUT_SIZE, to the byte, however it arrives
\* (read_max_and_close).
THEOREM OutputCutCorrect == Spec => OutputCut
<1>1. Init => KeptInv
  BY ResultAssumption DEF Init, KeptInv
<1>2. KeptInv /\ [Next]_vars =>
        [phase = "drain" /\ phase' # "drain" => kept = Min({total, MAX_OUTPUT_SIZE})]_vars
  <2> SUFFICES ASSUME KeptInv, Next, phase = "drain", phase' # "drain"
               PROVE  kept = Min({total, MAX_OUTPUT_SIZE})
    BY DEF vars
  <2>1. left = 0
    <3>1. CASE Execute \/ Stamped \/ RunEnds \/ ReadChunk \/ Collected \/ Answer
      BY <3>1 DEF Execute, Stamped, RunEnds, ReadChunk, Collected, Answer
    <3>2. ~OpenNext
      BY Zenon DEF OpenNext
    <3>3. CASE Drained
      BY <3>3 DEF Drained
    <3>4. CASE (\E d \in Dirs : Scan(d)) \/ \E p \in Paths : StampEntry(p) \/ CollectEntry(p)
      BY <3>4 DEF Scan, StampEntry, CollectEntry
    <3>5. ASSUME NEW x \in sending, Sent(x) PROVE FALSE
      BY <3>5 DEF Sent
    <3>6. CASE OtherRequest \/ Program
      BY <3>6 DEF OtherRequest, DeleteSession, Put, DeleteFile, Program
    <3> QED
      BY <3>1, <3>2, <3>3, <3>4, <3>5, <3>6 DEF Next
  <2>2. total \in Int /\ MAX_OUTPUT_SIZE \in Int
    BY ResultAssumption DEF KeptInv
  <2> QED
    BY <2>1, <2>2, SmallerOf DEF KeptInv
<1> QED
  BY KeptNext, <1>1, <1>2, PTL DEF Spec, OutputCut

OpenInv == \A x \in sending \cup payloads : x.inode \in Inodes

LEMMA OpenNextStep == OpenInv /\ [Next]_vars => OpenInv'
<1> SUFFICES ASSUME OpenInv, [Next]_vars PROVE OpenInv'
  OBVIOUS
<1>1. CASE OpenNext
  <2>1. /\ sending' = sending
        /\ \/ payloads' = payloads
           \/ /\ fs[Min(todo)] \in Inodes
              /\ payloads' = payloads \cup
                   {[path |-> Min(todo), inode |-> fs[Min(todo)], data |-> node[fs[Min(todo)]].data]}
    BY <1>1, Zenon DEF OpenNext
  <2> QED
    BY <2>1 DEF OpenInv
<1>2. CASE Answer
  BY <1>2 DEF Answer, OpenInv
<1>3. ASSUME NEW x \in sending, Sent(x) PROVE OpenInv'
  BY <1>3 DEF Sent, OpenInv, splitVars
<1>4. ASSUME UNCHANGED <<sending, payloads>> PROVE OpenInv'
  BY <1>4 DEF OpenInv
<1>5. CASE Execute \/ Stamped \/ RunEnds \/ ReadChunk \/ Drained \/ Collected
  <2>1. CASE Collected
    BY <2>1, <1>4 DEF Collected, splitVars
  <2> QED
    BY <1>4, <1>5, <2>1 DEF Execute, Stamped, RunEnds, ReadChunk, Drained, splitVars
<1>6. CASE (\E d \in Dirs : Scan(d)) \/ \E p \in Paths : StampEntry(p) \/ CollectEntry(p)
  BY <1>4, <1>6 DEF Scan, StampEntry, CollectEntry, splitVars
<1>7. CASE OtherRequest \/ Program
  BY <1>4, <1>7 DEF OtherRequest, DeleteSession, Put, DeleteFile, Program, splitVars
<1>8. CASE UNCHANGED vars
  BY <1>4, <1>8 DEF vars, splitVars
<1> QED
  BY <1>1, <1>2, <1>3, <1>5, <1>6, <1>7, <1>8 DEF Next

\* What is still being sent is read from descriptors whose inodes no PUT and no
\* DELETE touches (stage_file and os.replace, sessions.py).
THEOREM AnswerSurvivesRequestsCorrect == Spec => AnswerSurvivesRequests
<1>1. Init => OpenInv
  BY DEF Init, OpenInv
<1>2. ReportInv /\ OpenInv /\ [Next]_vars =>
        [OtherRequest => \A x \in sending : node'[x.inode].data = node[x.inode].data]_vars
  <2> SUFFICES ASSUME ReportInv, OpenInv, OtherRequest, NEW x \in sending
               PROVE  node'[x.inode].data = node[x.inode].data
    OBVIOUS
  <2>1. x.inode \in Inodes
    BY DEF OpenInv
  <2>2. node[x.inode] \in [data : Data, mtime : Nat, ctime : Nat]
    BY <2>1 DEF ReportInv, TreeInv
  <2>3. ASSUME NEW p \in Paths, Put(p) PROVE node'[x.inode].data = node[x.inode].data
    <3>1. PICK i \in Inodes, d \in Data : Unused(i) /\ Writes(p, i, d, clock')
      BY <2>3 DEF Put, PutInode
    <3>2. i # x.inode
      BY <3>1 DEF Unused
    <3>3. node'[x.inode] \in {node[x.inode], [node[x.inode] EXCEPT !.ctime = clock']}
      BY <2>1, <3>1, <3>2 DEF Writes
    <3> QED
      BY <2>2, <3>3
  <2>4. ASSUME NEW p \in Paths, DeleteFile(p) PROVE node'[x.inode].data = node[x.inode].data
    <3>1. node'[x.inode] \in {node[x.inode], [node[x.inode] EXCEPT !.ctime = clock']}
      BY <2>1, <2>4 DEF DeleteFile, Relinks
    <3> QED
      BY <2>2, <3>1
  <2> QED
    BY <2>3, <2>4 DEF OtherRequest, DeleteSession
<1> QED
  BY ReportInit, ReportNext, OpenNextStep, <1>1, <1>2, PTL DEF Spec, AnswerSurvivesRequests

=============================================================================
