-------------------------- MODULE Execution_proofs --------------------------
(***************************************************************************)
(* Execution for any number of runs and slots: types, the account of the   *)
(* slots, that none is idle while a run waits, that they implement         *)
(* SlotPool, and the reader thread of a run.                               *)
(*                                                                         *)
(* Counting alone is not inductive: that a waiter woken is counted once    *)
(* rests on no run queueing twice, or queueing while it holds a slot or    *)
(* one is on its way to it (QueueInv).  That no free slot is idle rests on *)
(* every waiter being queued or woken (AllQueued).  What the reader        *)
(* promises rests on the phases in which the client lives and the stop     *)
(* event is set (RunInv).                                                  *)
(***************************************************************************)
EXTENDS Execution_refines, SequenceLemmas

QueueInv ==
  /\ \A i, j \in 1..Len(queue) : queue[i] = queue[j] => i = j
  /\ \A i \in 1..Len(queue) : queue[i] \notin woken /\ phase[queue[i]] = "wait"
  /\ \A r \in woken : phase[r] = "wait"

SlotTypes ==
  /\ phase \in [Runs -> Phases]
  /\ value \in Nat
  /\ queue \in Seq(Runs)
  /\ woken \subseteq Runs

SlotInv == SlotTypes /\ QueueInv /\ SlotAccounting

-----------------------------------------------------------------------------
(* Counting                                                                *)

\* Any runs can be counted.
LEMMA CountFinite ==
  ASSUME NEW S, S \subseteq Runs
  PROVE  IsFiniteSet(S) /\ Cardinality(S) \in Nat
BY FS_Subset, FS_CardinalityType, SlotsAssumption

\* Waking the first n waiters, with slots for all of them, keeps the account.
LEMMA WakeKeeps ==
  ASSUME NEW v \in Nat, NEW q \in Seq(Runs), NEW w \in SUBSET Runs,
         NEW n \in 0..Len(q), n <= v,
         \A i, j \in 1..Len(q) : q[i] = q[j] => i = j,
         \A i \in 1..Len(q) : q[i] \notin w /\ phase'[q[i]] = "wait",
         \A r \in w : phase'[r] = "wait",
         phase' \in [Runs -> Phases],
         v + Cardinality(w) + Cardinality(Holding') = MAX_CONCURRENT_EXECUTIONS,
         Wake(v, q, w, n)
  PROVE  SlotInv'
<1> DEFINE S == {q[i] : i \in 1..n}
<1>1. Len(q) \in Nat /\ n \in Nat /\ n <= Len(q)
  OBVIOUS
<1>2. S \subseteq Runs /\ IsFiniteSet(S) /\ Cardinality(S) = n
  <2>1. S \subseteq Runs
    BY <1>1
  <2>2. IsFiniteSet(S) /\ Cardinality(S) = n
    <3>1. /\ q \in Seq(Runs) /\ n \in 0..Len(q)
          /\ \A i, j \in 1..Len(q) : q[i] = q[j] => i = j
      OBVIOUS
    <3> QED
      BY ONLY <3>1, CountFirst
  <2> QED
    BY <2>1, <2>2
<1>3. value' = v - n /\ queue' = SubSeq(q, n + 1, Len(q)) /\ woken' = w \cup S
  BY DEF Wake
<1>4. /\ queue' \in Seq(Runs)
      /\ Len(queue') = Len(q) - n
      /\ \A i \in 1..(Len(q) - n) : queue'[i] = q[n + i]
  BY <1>1, <1>3
<1>5. SlotTypes'
  BY <1>1, <1>2, <1>3, <1>4 DEF SlotTypes
<1>6. QueueInv'
  <2>1. ASSUME NEW i \in 1..Len(queue'), NEW j \in 1..Len(queue'), queue'[i] = queue'[j]
        PROVE  i = j
    <3>1. n + i \in 1..Len(q) /\ n + j \in 1..Len(q)
      BY <1>1, <1>4
    <3>2. q[n + i] = q[n + j]
      BY <1>1, <1>4, <2>1
    <3>3. n + i = n + j
      BY <3>1, <3>2, Zenon
    <3> QED
      BY <1>1, <1>4, <3>3
  <2>2. \A i \in 1..Len(queue') : queue'[i] \notin woken' /\ phase'[queue'[i]] = "wait"
    BY <1>1, <1>3, <1>4
  <2>3. \A r \in woken' : phase'[r] = "wait"
    BY <1>1, <1>3
  <2> QED
    BY <2>1, <2>2, <2>3 DEF QueueInv
<1>7. SlotAccounting'
  <2>1. S \cap w = {}
    BY <1>1
  <2>2. IsFiniteSet(w) /\ Cardinality(w) \in Nat
    BY CountFinite
  <2>3. Holding' \subseteq Runs
    BY DEF Holding
  <2>4. Cardinality(Holding') \in Nat
    BY <2>3, CountFinite
  <2> HIDE DEF S
  <2>5. Cardinality(w \cup S) = Cardinality(w) + Cardinality(S) - Cardinality(w \cap S)
    BY <1>2, <2>2, FS_Union
  <2>6. Cardinality(w \cap S) = 0
    BY <2>1, FS_EmptySet
  <2> QED
    BY <1>1, <1>2, <1>3, <2>2, <2>4, <2>5, <2>6 DEF SlotAccounting
<1> QED
  BY <1>5, <1>6, <1>7 DEF SlotInv

\* A run that takes or gives back its slot counts for one.
LEMMA CountHolding ==
  ASSUME SlotTypes, NEW r \in Runs, NEW p \in Phases,
         phase' = [phase EXCEPT ![r] = p]
  PROVE  /\ phase' \in [Runs -> Phases]
         /\ Cardinality(Holding) \in Nat
         /\ r \in Holding /\ r \notin Holding' =>
              Cardinality(Holding') = Cardinality(Holding) - 1
         /\ r \notin Holding /\ r \in Holding' =>
              Cardinality(Holding') = Cardinality(Holding) + 1
         /\ (r \in Holding <=> r \in Holding') =>
              Cardinality(Holding') = Cardinality(Holding)
<1>1. phase' \in [Runs -> Phases]
  BY DEF SlotTypes
<1>2. Holding \subseteq Runs /\ IsFiniteSet(Holding) /\ Cardinality(Holding) \in Nat
  <2>1. Holding \subseteq Runs
    BY DEF Holding
  <2> QED
    BY <2>1, CountFinite
<1>3. \A s \in Runs : s # r => phase'[s] = phase[s]
  BY DEF SlotTypes
<1>4. \A s \in Runs : s # r => (s \in Holding' <=> s \in Holding)
  BY <1>3 DEF Holding
<1>5. Holding' \subseteq Runs
  BY DEF Holding
<1>6. r \in Holding /\ r \notin Holding' => Holding' = Holding \ {r}
  BY <1>2, <1>4, <1>5
<1>7. r \notin Holding /\ r \in Holding' => Holding' = Holding \cup {r}
  BY <1>2, <1>4, <1>5
<1>8. (r \in Holding <=> r \in Holding') => Holding' = Holding
  BY <1>2, <1>4, <1>5
<1> QED
  BY <1>1, <1>2, <1>6, <1>7, <1>8, FS_AddElement, FS_RemoveElement

-----------------------------------------------------------------------------
(* The steps                                                               *)

\* The phases in which a run holds its slot.
HoldingPhases == {"stamp", "spawn", "run", "remove", "reap", "drain", "diff"}

\* What the account says of one run, in numbers.
LEMMA SlotFacts ==
  ASSUME SlotInv
  PROVE  /\ value \in Nat /\ queue \in Seq(Runs) /\ woken \in SUBSET Runs
         /\ Len(queue) \in Nat
         /\ IsFiniteSet(woken) /\ Cardinality(woken) \in Nat
         /\ Cardinality(Holding) \in Nat
         /\ value + Cardinality(woken) + Cardinality(Holding) = MAX_CONCURRENT_EXECUTIONS
         /\ \A i, j \in 1..Len(queue) : queue[i] = queue[j] => i = j
         /\ \A i \in 1..Len(queue) :
              queue[i] \in Runs /\ queue[i] \notin woken /\ phase[queue[i]] = "wait"
         /\ \A r \in woken : r \in Runs /\ phase[r] = "wait"
<1>1. value \in Nat /\ queue \in Seq(Runs) /\ woken \in SUBSET Runs
  BY DEF SlotInv, SlotTypes
<1>2. IsFiniteSet(woken) /\ Cardinality(woken) \in Nat
  BY <1>1, CountFinite
<1>3. Holding \subseteq Runs
  BY DEF Holding
<1>4. Cardinality(Holding) \in Nat
  BY <1>3, CountFinite
<1>5. Len(queue) \in Nat /\ \A i \in 1..Len(queue) : queue[i] \in Runs
  BY <1>1
<1>6. /\ \A i, j \in 1..Len(queue) : queue[i] = queue[j] => i = j
      /\ \A i \in 1..Len(queue) : queue[i] \notin woken /\ phase[queue[i]] = "wait"
      /\ \A r \in woken : phase[r] = "wait"
  BY DEF SlotInv, QueueInv
<1> QED
  BY <1>1, <1>2, <1>4, <1>5, <1>6 DEF SlotInv, SlotAccounting

\* A run that moves on between two phases in which it holds its slot.
LEMMA KeepsSlot ==
  ASSUME SlotInv, NEW r \in Runs, NEW p \in HoldingPhases,
         phase[r] \in HoldingPhases,
         phase' = [phase EXCEPT ![r] = p],
         UNCHANGED slotVars
  PROVE  SlotInv'
<1>1. SlotTypes /\ p \in Phases /\ p # "wait" /\ phase[r] # "wait"
  BY DEF SlotInv, HoldingPhases, Phases
<1>2. value' = value /\ queue' = queue /\ woken' = woken
  BY DEF slotVars
<1>3. phase'[r] = p /\ \A s \in Runs : s # r => phase'[s] = phase[s]
  BY <1>1 DEF SlotTypes
<1>4. r \in Holding /\ r \in Holding'
  BY <1>3 DEF Holding, HoldingPhases
<1>5. phase' \in [Runs -> Phases] /\ Cardinality(Holding') = Cardinality(Holding)
  BY <1>1, <1>4, CountHolding
<1>6. \A s \in Runs : phase[s] = "wait" => phase'[s] = "wait"
  BY <1>1, <1>3
<1>7. QueueInv'
  BY <1>2, <1>6, SlotFacts DEF QueueInv
<1> QED
  BY <1>1, <1>2, <1>5, <1>7, SlotFacts DEF SlotInv, SlotTypes, SlotAccounting

\* release(), by the run that held the slot.
LEMMA GivesBack ==
  ASSUME SlotInv, NEW r \in Runs,
         phase[r] \in HoldingPhases,
         phase' = [phase EXCEPT ![r] = "done"],
         GiveSlot
  PROVE  SlotInv'
<1>1. SlotTypes /\ "done" \in Phases /\ phase[r] # "wait"
  BY DEF SlotInv, HoldingPhases, Phases
<1>2. phase'[r] = "done" /\ \A s \in Runs : s # r => phase'[s] = phase[s]
  BY <1>1 DEF SlotTypes
<1>3. r \in Holding /\ r \notin Holding'
  BY <1>2 DEF Holding, HoldingPhases
<1>4. phase' \in [Runs -> Phases] /\ Cardinality(Holding') = Cardinality(Holding) - 1
  BY <1>1, <1>3, CountHolding
<1>5. \A s \in Runs : phase[s] = "wait" => phase'[s] = "wait"
  BY <1>1, <1>2
<1> DEFINE n == Least(1, Len(queue))
<1>6. n \in 0..Len(queue) /\ n <= value + 1
  BY SlotFacts DEF Least
<1>7. Wake(value + 1, queue, woken, n)
  BY DEF GiveSlot
<1>8. (value + 1) + Cardinality(woken) + Cardinality(Holding') = MAX_CONCURRENT_EXECUTIONS
  BY <1>4, SlotFacts
<1> HIDE DEF n
<1>9. value + 1 \in Nat
  BY SlotFacts
<1>10. /\ \A i \in 1..Len(queue) : queue[i] \notin woken /\ phase'[queue[i]] = "wait"
       /\ \A s \in woken : phase'[s] = "wait"
  BY <1>5, SlotFacts
<1> QED
  BY <1>4, <1>6, <1>7, <1>8, <1>9, <1>10, SlotFacts, WakeKeeps

\* The end of an acquire() that waited, with v slots to hand out to the waiters q
\* left, w of which are woken already.
LEMMA PassOnKeeps ==
  ASSUME NEW v \in Nat, NEW q \in Seq(Runs), NEW w \in SUBSET Runs,
         \A i, j \in 1..Len(q) : q[i] = q[j] => i = j,
         \A i \in 1..Len(q) : q[i] \notin w /\ phase'[q[i]] = "wait",
         \A r \in w : phase'[r] = "wait",
         phase' \in [Runs -> Phases],
         v + Cardinality(w) + Cardinality(Holding') = MAX_CONCURRENT_EXECUTIONS,
         PassOn(v, q, w)
  PROVE  SlotInv'
<1> DEFINE n == Least(v, Len(q))
<1>1. n \in 0..Len(q) /\ n <= v
  BY DEF Least
<1>2. Wake(v, q, w, n)
  BY DEF PassOn
<1> HIDE DEF n
<1> QED
  BY <1>1, <1>2, WakeKeeps

\* A run takes a free slot or joins the end of the queue.
LEMMA EnterKeeps ==
  ASSUME SlotInv, NEW r \in Runs, SlotEnter(r)
  PROVE  SlotInv'
<1>1. SlotTypes /\ phase[r] = "new" /\ r \notin Holding
  BY DEF SlotInv, SlotEnter, Holding
<1>2. r \notin woken /\ \A i \in 1..Len(queue) : queue[i] # r
  BY <1>1, SlotFacts
<1>3. CASE SlotFree /\ value' = value - 1 /\ Go(r, "stamp") /\ UNCHANGED <<queue, woken>>
  <2>1. phase' = [phase EXCEPT ![r] = "stamp"] /\ "stamp" \in Phases
    BY <1>3 DEF Go, Phases
  <2>2. phase'[r] = "stamp" /\ \A s \in Runs : s # r => phase'[s] = phase[s]
    BY <1>1, <2>1 DEF SlotTypes
  <2>3. r \in Holding'
    BY <2>2 DEF Holding
  <2>4. phase' \in [Runs -> Phases] /\ Cardinality(Holding') = Cardinality(Holding) + 1
    BY <1>1, <2>1, <2>3, CountHolding
  <2>5. value' \in Nat /\ value' = value - 1 /\ queue' = <<>> /\ woken' = {}
    BY <1>3, SlotFacts DEF SlotFree
  <2>6. Cardinality(woken') = Cardinality(woken)
    BY <1>3
  <2>7. SlotTypes'
    BY <2>4, <2>5 DEF SlotTypes
  <2>8. QueueInv'
    BY <2>5 DEF QueueInv
  <2>9. SlotAccounting'
    BY <2>4, <2>5, <2>6, SlotFacts DEF SlotAccounting
  <2> QED
    BY <2>7, <2>8, <2>9 DEF SlotInv
<1>4. CASE queue' = Append(queue, r) /\ Go(r, "wait") /\ UNCHANGED <<value, woken>>
  <2>1. phase' = [phase EXCEPT ![r] = "wait"] /\ "wait" \in Phases
    BY <1>4 DEF Go, Phases
  <2>2. phase'[r] = "wait" /\ \A s \in Runs : s # r => phase'[s] = phase[s]
    BY <1>1, <2>1 DEF SlotTypes
  <2>3. r \notin Holding'
    BY <2>2 DEF Holding
  <2>4. phase' \in [Runs -> Phases] /\ Cardinality(Holding') = Cardinality(Holding)
    BY <1>1, <2>1, <2>3, CountHolding
  <2>5. /\ queue' \in Seq(Runs)
        /\ Len(queue') = Len(queue) + 1
        /\ \A i \in 1..Len(queue) : queue'[i] = queue[i]
        /\ queue'[Len(queue) + 1] = r
    BY <1>4, SlotFacts
  <2>6. \A s \in Runs : phase[s] = "wait" => phase'[s] = "wait"
    BY <2>2
  <2>7. QueueInv'
    <3>1. \A i, j \in 1..Len(queue') : queue'[i] = queue'[j] => i = j
      BY <1>2, <2>5, SlotFacts
    <3>2. \A i \in 1..Len(queue') : queue'[i] \notin woken' /\ phase'[queue'[i]] = "wait"
      BY <1>2, <1>4, <2>2, <2>5, <2>6, SlotFacts
    <3>3. \A s \in woken' : phase'[s] = "wait"
      BY <1>4, <2>6, SlotFacts
    <3> QED
      BY <3>1, <3>2, <3>3 DEF QueueInv
  <2> QED
    BY <1>4, <2>4, <2>5, <2>7, SlotFacts DEF SlotInv, SlotTypes, SlotAccounting
<1> QED
  BY <1>3, <1>4 DEF SlotEnter

\* A woken waiter takes the slot handed to it.
LEMMA GrantedKeeps ==
  ASSUME SlotInv, NEW r \in Runs, SlotGranted(r)
  PROVE  SlotInv'
<1>1. /\ SlotTypes /\ phase[r] = "wait" /\ r \in woken /\ "stamp" \in Phases
      /\ phase' = [phase EXCEPT ![r] = "stamp"]
      /\ PassOn(value, queue, woken \ {r})
  BY DEF SlotInv, SlotGranted, Go, Phases
<1>2. phase'[r] = "stamp" /\ \A s \in Runs : s # r => phase'[s] = phase[s]
  BY <1>1 DEF SlotTypes
<1>3. r \notin Holding /\ r \in Holding'
  BY <1>1, <1>2 DEF Holding
<1>4. phase' \in [Runs -> Phases] /\ Cardinality(Holding') = Cardinality(Holding) + 1
  BY <1>1, <1>3, CountHolding
<1>5. Cardinality(woken \ {r}) = Cardinality(woken) - 1
  BY <1>1, SlotFacts, FS_RemoveElement
<1>6. woken \ {r} \in SUBSET Runs
  BY SlotFacts
<1>7. value + Cardinality(woken \ {r}) + Cardinality(Holding') = MAX_CONCURRENT_EXECUTIONS
  BY <1>4, <1>5, SlotFacts
<1>8. /\ \A i \in 1..Len(queue) : queue[i] \notin woken \ {r} /\ phase'[queue[i]] = "wait"
      /\ \A s \in woken \ {r} : phase'[s] = "wait"
  BY <1>1, <1>2, SlotFacts
<1> QED
  BY <1>1, <1>4, <1>6, <1>7, <1>8, SlotFacts, PassOnKeeps

\* A waiter gives up, in the queue or with a slot already on its way to it.
LEMMA TimeoutKeeps ==
  ASSUME SlotInv, NEW r \in Runs, SlotTimeout(r)
  PROVE  SlotInv'
<1>1. /\ SlotTypes /\ phase[r] = "wait" /\ "done" \in Phases
      /\ phase' = [phase EXCEPT ![r] = "done"]
  BY DEF SlotInv, SlotTimeout, End, Phases
<1>2. phase'[r] = "done" /\ \A s \in Runs : s # r => phase'[s] = phase[s]
  BY <1>1 DEF SlotTypes
<1>3. r \notin Holding /\ r \notin Holding'
  BY <1>1, <1>2 DEF Holding
<1>4. phase' \in [Runs -> Phases] /\ Cardinality(Holding') = Cardinality(Holding)
  BY <1>1, <1>3, CountHolding
<1>5. CASE r \in woken /\ PassOn(value + 1, queue, woken \ {r})
  <2>1. Cardinality(woken \ {r}) = Cardinality(woken) - 1
    BY <1>5, SlotFacts, FS_RemoveElement
  <2>2. value + 1 \in Nat /\ woken \ {r} \in SUBSET Runs
    BY SlotFacts
  <2>3. (value + 1) + Cardinality(woken \ {r}) + Cardinality(Holding')
          = MAX_CONCURRENT_EXECUTIONS
    BY <1>4, <2>1, SlotFacts
  <2>4. /\ \A i \in 1..Len(queue) : queue[i] \notin woken \ {r} /\ phase'[queue[i]] = "wait"
        /\ \A s \in woken \ {r} : phase'[s] = "wait"
    BY <1>2, <1>5, SlotFacts
  <2> QED
    BY <1>4, <1>5, <2>2, <2>3, <2>4, SlotFacts, PassOnKeeps
<1>6. ASSUME NEW k \in DOMAIN queue, queue[k] = r, PassOn(value, RemoveAt(queue, k), woken)
      PROVE  SlotInv'
  <2> DEFINE q == RemoveAt(queue, k)
  <2>1. k \in 1..Len(queue)
    BY <1>6, SlotFacts
  <2>2. /\ q \in Seq(Runs)
        /\ \A i \in 1..Len(q) : q[i] # r /\ \E m \in 1..Len(queue) : q[i] = queue[m]
        /\ \A i, j \in 1..Len(q) : q[i] = q[j] => i = j
    <3>1. queue \in Seq(Runs) /\ \A i, j \in 1..Len(queue) : queue[i] = queue[j] => i = j
      BY SlotFacts
    <3> QED
      BY <1>6, <2>1, <3>1, RemoveOne
  <2> HIDE DEF q
  <2>3. \A i \in 1..Len(q) : q[i] \notin woken /\ phase'[q[i]] = "wait"
    <3> TAKE i \in 1..Len(q)
    <3>1. PICK m \in 1..Len(queue) : q[i] = queue[m]
      BY <2>2
    <3>2. queue[m] \in Runs /\ queue[m] \notin woken /\ phase[queue[m]] = "wait"
      BY SlotFacts
    <3>3. q[i] # r
      BY <2>2
    <3> QED
      BY <1>2, <3>1, <3>2, <3>3
  <2>4. r \notin woken
    BY <1>6, <2>1, SlotFacts
  <2>5. \A s \in woken : phase'[s] = "wait"
    BY <1>2, <2>4, SlotFacts
  <2>6. value + Cardinality(woken) + Cardinality(Holding') = MAX_CONCURRENT_EXECUTIONS
    BY <1>4, SlotFacts
  <2>7. PassOn(value, q, woken)
    BY <1>6 DEF q
  <2> QED
    BY <1>4, <2>2, <2>3, <2>5, <2>6, <2>7, SlotFacts, PassOnKeeps
<1> QED
  BY <1>5, <1>6 DEF SlotTimeout

\* The remaining steps of a run.
Running(r) ==
  \/ NoPty(r) \/ Spawn(r) \/ SpawnFails(r) \/ Spawned(r) \/ ClientDone(r)
  \/ ExecTimeout(r) \/ Removed(r) \/ Reaped(r) \/ Drained(r) \/ Answer(r)

\* A run that holds a slot keeps it, or gives it back and is answered.
LEMMA RunStepSlot ==
  ASSUME NEW r \in Runs, Running(r)
  PROVE  /\ phase[r] \in HoldingPhases
         /\ \/ \E p \in HoldingPhases : phase' = [phase EXCEPT ![r] = p] /\ UNCHANGED slotVars
            \/ phase' = [phase EXCEPT ![r] = "done"] /\ GiveSlot
BY DEF Running, NoPty, Spawn, SpawnFails, Spawned, ClientDone, ExecTimeout, Removed, Reaped,
       Drained, Answer, SetStop, Go, End, HoldingPhases

\* What happens in the reader and in podman concerns no slot.
LEMMA OutsideSlot ==
  ASSUME NEW r \in Runs, Reader(r) \/ Podman(r)
  PROVE  UNCHANGED <<phase, slotVars>>
BY DEF Reader, Podman, ReadChunk, ReaderBecomes, SelectEmpty, ReaderStops, ReaderGoesOn,
       ContainerStarts, ContainerExits, Relay, ClientExits, reqVars

\* No step of a run, its reader or its podman process disturbs the account.
LEMMA SlotStep ==
  ASSUME SlotInv, Next
  PROVE  SlotInv'
<1> SUFFICES ASSUME NEW r \in Runs, SlotEnter(r) \/ Step(r) \/ Reader(r) \/ Podman(r)
             PROVE  SlotInv'
  BY DEF Next
<1>1. CASE SlotEnter(r)
  BY <1>1, EnterKeeps
<1>2. CASE SlotGranted(r)
  BY <1>2, GrantedKeeps
<1>3. CASE SlotTimeout(r)
  BY <1>3, TimeoutKeeps
<1>4. CASE Running(r)
  BY <1>4, RunStepSlot, KeepsSlot, GivesBack
<1>5. CASE Reader(r) \/ Podman(r)
  BY <1>5, OutsideSlot DEF SlotInv, SlotTypes, QueueInv, SlotAccounting, Holding, slotVars
<1> QED
  BY <1>1, <1>2, <1>3, <1>4, <1>5 DEF Step, Running

\* At the start every slot is free.
LEMMA SlotInit == Init => SlotInv
<1> SUFFICES ASSUME Init PROVE SlotInv
  OBVIOUS
<1>1. Holding = {}
  BY DEF Init, Holding
<1>2. value \in Nat /\ value = MAX_CONCURRENT_EXECUTIONS
  BY SlotsAssumption DEF Init
<1>3. Cardinality(woken) = 0 /\ Cardinality(Holding) = 0
  BY <1>1, FS_EmptySet DEF Init
<1>4. SlotAccounting
  BY <1>2, <1>3 DEF SlotAccounting
<1>5. SlotTypes
  BY <1>2 DEF Init, SlotTypes, Phases
<1>6. QueueInv
  BY DEF Init, QueueInv
<1> QED
  BY <1>4, <1>5, <1>6 DEF SlotInv

LEMMA SlotInvCorrect == Spec => []SlotInv
<1>1. SlotInv /\ [Next]_vars => SlotInv'
  <2>1. SlotInv /\ UNCHANGED vars => SlotInv'
    BY DEF SlotInv, SlotTypes, QueueInv, SlotAccounting, Holding, vars, reqVars, slotVars
  <2> QED
    BY <2>1, SlotStep
<1> QED
  BY <1>1, SlotInit, PTL DEF Spec

\* Every slot is free, on its way to one waiter, or held by one run: execution_slot()
\* loses none and grants none twice, for any number of runs and slots and any order of
\* grants, timeouts and failures.
THEOREM SlotAccountingCorrect == Spec => []SlotAccounting
<1>1. SlotInv => SlotAccounting
  BY DEF SlotInv
<1> QED
  BY <1>1, SlotInvCorrect, PTL

-----------------------------------------------------------------------------
(* Nobody waits for a free slot                                            *)

\* Whoever waits is in the queue, or a slot is on its way to it.
AllQueued ==
  \A r \in Runs :
    phase[r] = "wait" => r \in woken \/ \E i \in 1..Len(queue) : queue[i] = r

WaitInv == AllQueued /\ NoIdleSlot

\* Waking n waiters leaves none behind, unless the slots ran out or one is woken.
LEMMA WakeLeavesNobody ==
  ASSUME NEW v \in Nat, NEW q \in Seq(Runs), NEW w, NEW n \in 0..Len(q),
         \A s \in Runs : phase'[s] = "wait" => s \in w \/ \E i \in 1..Len(q) : q[i] = s,
         n = v \/ n > 0 \/ n = Len(q),
         Wake(v, q, w, n)
  PROVE  WaitInv'
<1> DEFINE S == {q[i] : i \in 1..n}
<1>1. Len(q) \in Nat /\ n \in Nat /\ n <= Len(q)
  OBVIOUS
<1>2. value' = v - n /\ queue' = SubSeq(q, n + 1, Len(q)) /\ woken' = w \cup S
  BY DEF Wake
<1>3. /\ queue' \in Seq(Runs)
      /\ Len(queue') = Len(q) - n
      /\ \A i \in 1..(Len(q) - n) : queue'[i] = q[n + i]
  BY <1>1, <1>2
<1>4. AllQueued'
  <2> SUFFICES ASSUME NEW s \in Runs, phase'[s] = "wait"
               PROVE  s \in woken' \/ \E i \in 1..Len(queue') : queue'[i] = s
    BY DEF AllQueued
  <2>1. CASE s \in w
    BY <1>2, <2>1
  <2>2. ASSUME NEW i \in 1..Len(q), q[i] = s
        PROVE  s \in woken' \/ \E j \in 1..Len(queue') : queue'[j] = s
    <3>1. CASE i <= n
      <4>1. i \in 1..n
        BY <3>1
      <4> QED
        BY <1>2, <2>2, <4>1
    <3>2. CASE ~(i <= n)
      <4>1. i - n \in 1..Len(queue') /\ i - n \in 1..(Len(q) - n) /\ n + (i - n) = i
        BY <1>1, <1>3, <3>2
      <4> QED
        BY <1>3, <2>2, <4>1
    <3> QED
      BY <3>1, <3>2
  <2> QED
    BY <2>1, <2>2
<1>5. NoIdleSlot'
  <2>1. CASE n = v
    BY <1>2, <2>1 DEF NoIdleSlot
  <2>2. CASE n > 0
    <3>1. q[1] \in S
      BY <1>1, <2>2
    <3> QED
      BY <1>2, <3>1 DEF NoIdleSlot
  <2>3. CASE n = Len(q)
    <3>1. queue' = <<>>
      BY <1>1, <1>3, <2>3
    <3> QED
      BY <3>1 DEF NoIdleSlot
  <2> QED
    BY <2>1, <2>2, <2>3
<1> QED
  BY <1>4, <1>5 DEF WaitInv

\* A run that does not wait goes on to a phase in which it does not wait either, and
\* leaves the queue alone or gives a slot back.
LEMMA LeavesNobody ==
  ASSUME SlotInv, WaitInv, NEW r \in Runs, NEW p \in Phases \ {"wait"},
         phase' = [phase EXCEPT ![r] = p],
         UNCHANGED slotVars \/ GiveSlot
  PROVE  WaitInv'
<1>1. \A s \in Runs : phase'[s] = "wait" => phase[s] = "wait"
  BY DEF SlotInv, SlotTypes
<1>2. \A s \in Runs :
        phase'[s] = "wait" => s \in woken \/ \E i \in 1..Len(queue) : queue[i] = s
  BY <1>1 DEF WaitInv, AllQueued
<1>3. CASE UNCHANGED slotVars
  <2>1. value' = value /\ queue' = queue /\ woken' = woken
    BY <1>3 DEF slotVars
  <2> QED
    BY <1>2, <2>1 DEF WaitInv, AllQueued, NoIdleSlot
<1>4. CASE GiveSlot
  <2> DEFINE n == Least(1, Len(queue))
  <2>1. Wake(value + 1, queue, woken, n)
    BY <1>4 DEF GiveSlot
  <2>2. n \in 0..Len(queue) /\ (n > 0 \/ n = Len(queue)) /\ value + 1 \in Nat
    BY SlotFacts DEF Least
  <2> HIDE DEF n
  <2> QED
    BY <1>2, <2>1, <2>2, SlotFacts, WakeLeavesNobody
<1> QED
  BY <1>3, <1>4

\* The end of an acquire() that waited.
LEMMA PassOnLeavesNobody ==
  ASSUME NEW v \in Nat, NEW q \in Seq(Runs), NEW w,
         \A s \in Runs : phase'[s] = "wait" => s \in w \/ \E i \in 1..Len(q) : q[i] = s,
         PassOn(v, q, w)
  PROVE  WaitInv'
<1> DEFINE n == Least(v, Len(q))
<1>1. n \in 0..Len(q) /\ (n = v \/ n = Len(q))
  BY DEF Least
<1>2. Wake(v, q, w, n)
  BY DEF PassOn
<1> HIDE DEF n
<1> QED
  BY <1>1, <1>2, WakeLeavesNobody

\* Who comes takes a slot only when nobody waits, and queues behind the others.
LEMMA EnterLeavesNobody ==
  ASSUME SlotInv, WaitInv, NEW r \in Runs, SlotEnter(r)
  PROVE  WaitInv'
<1>1. CASE SlotFree /\ value' = value - 1 /\ Go(r, "stamp") /\ UNCHANGED <<queue, woken>>
  <2>1. queue = <<>> /\ woken = {} /\ queue' = queue /\ woken' = woken
    BY <1>1 DEF SlotFree
  <2>2. \A s \in Runs : phase'[s] = "wait" => phase[s] = "wait"
    BY <1>1 DEF SlotInv, SlotTypes, Go
  <2> QED
    BY <2>1, <2>2 DEF WaitInv, AllQueued, NoIdleSlot
<1>2. CASE /\ ~SlotFree /\ queue' = Append(queue, r) /\ Go(r, "wait")
           /\ UNCHANGED <<value, woken>>
  <2>1. \A s \in Runs : phase'[s] = "wait" => s = r \/ phase[s] = "wait"
    BY <1>2 DEF SlotInv, SlotTypes, Go
  <2>2. /\ Len(queue') = Len(queue) + 1
        /\ \A i \in 1..Len(queue) : i \in 1..Len(queue') /\ queue'[i] = queue[i]
        /\ Len(queue) + 1 \in 1..Len(queue') /\ queue'[Len(queue) + 1] = r
    BY <1>2, SlotFacts
  <2>3. AllQueued'
    <3> SUFFICES ASSUME NEW s \in Runs, phase'[s] = "wait"
                 PROVE  s \in woken' \/ \E i \in 1..Len(queue') : queue'[i] = s
      BY DEF AllQueued
    <3>1. CASE s = r
      BY <2>2, <3>1, Zenon
    <3>2. CASE phase[s] = "wait"
      <4>1. s \in woken \/ \E i \in 1..Len(queue) : queue[i] = s
        BY <3>2 DEF WaitInv, AllQueued
      <4> QED
        BY <1>2, <2>2, <4>1, Zenon
    <3> QED
      BY <2>1, <3>1, <3>2
  <2>4. value > 0 => woken # {}
    BY <1>2 DEF WaitInv, NoIdleSlot, SlotFree
  <2> QED
    BY <1>2, <2>3, <2>4 DEF WaitInv, NoIdleSlot
<1> QED
  BY <1>1, <1>2 DEF SlotEnter

\* A waiter takes its slot, or gives up and leaves the queue.
LEMMA WaiterLeavesNobody ==
  ASSUME SlotInv, WaitInv, NEW r \in Runs, SlotGranted(r) \/ SlotTimeout(r)
  PROVE  WaitInv'
<1>1. \A s \in Runs : phase'[s] = "wait" => s # r /\ phase[s] = "wait"
  BY DEF SlotInv, SlotTypes, SlotGranted, SlotTimeout, Go, End
<1>2. \A s \in Runs :
        phase'[s] = "wait" => s \in woken \ {r} \/ \E i \in 1..Len(queue) : queue[i] = s
  BY <1>1 DEF WaitInv, AllQueued
<1>3. CASE PassOn(value, queue, woken \ {r}) \/ PassOn(value + 1, queue, woken \ {r})
  <2>1. value \in Nat /\ value + 1 \in Nat /\ queue \in Seq(Runs)
    BY SlotFacts
  <2> QED
    BY <1>2, <1>3, <2>1, PassOnLeavesNobody
<1>4. ASSUME NEW k \in DOMAIN queue, queue[k] = r, PassOn(value, RemoveAt(queue, k), woken)
      PROVE  WaitInv'
  <2> DEFINE q == RemoveAt(queue, k)
  <2>1. k \in 1..Len(queue)
    BY <1>4, SlotFacts
  <2>2. /\ q \in Seq(Runs)
        /\ \A m \in 1..Len(queue) : queue[m] # r => \E i \in 1..Len(q) : q[i] = queue[m]
    <3>1. queue \in Seq(Runs) /\ \A i, j \in 1..Len(queue) : queue[i] = queue[j] => i = j
      BY SlotFacts
    <3> QED
      BY <1>4, <2>1, <3>1, RemoveOne
  <2>3. PassOn(value, q, woken)
    BY <1>4
  <2> HIDE DEF q
  <2>4. \A s \in Runs :
          phase'[s] = "wait" => s \in woken \/ \E i \in 1..Len(q) : q[i] = s
    <3> SUFFICES ASSUME NEW s \in Runs, phase'[s] = "wait", s \notin woken
                 PROVE  \E i \in 1..Len(q) : q[i] = s
      OBVIOUS
    <3>1. PICK m \in 1..Len(queue) : queue[m] = s
      BY <1>2
    <3> QED
      BY <1>1, <2>2, <3>1
  <2> QED
    BY <2>2, <2>3, <2>4, SlotFacts, PassOnLeavesNobody
<1> QED
  BY <1>3, <1>4 DEF SlotGranted, SlotTimeout

LEMMA WaitStep ==
  ASSUME SlotInv, WaitInv, Next
  PROVE  WaitInv'
<1> SUFFICES ASSUME NEW r \in Runs, SlotEnter(r) \/ Step(r) \/ Reader(r) \/ Podman(r)
             PROVE  WaitInv'
  BY DEF Next
<1>1. CASE SlotEnter(r)
  BY <1>1, EnterLeavesNobody
<1>2. CASE SlotGranted(r) \/ SlotTimeout(r)
  BY <1>2, WaiterLeavesNobody
<1>3. CASE Running(r)
  <2>1. HoldingPhases \subseteq Phases \ {"wait"} /\ "done" \in Phases \ {"wait"}
    BY DEF HoldingPhases, Phases
  <2> QED
    BY <1>3, <2>1, RunStepSlot, LeavesNobody
<1>4. CASE Reader(r) \/ Podman(r)
  BY <1>4, OutsideSlot DEF WaitInv, AllQueued, NoIdleSlot, slotVars
<1> QED
  BY <1>1, <1>2, <1>3, <1>4 DEF Step, Running

LEMMA WaitInvCorrect == Spec => []WaitInv
<1>1. Init => WaitInv
  BY DEF Init, WaitInv, AllQueued, NoIdleSlot
<1>2. SlotInv /\ WaitInv /\ [Next]_vars => WaitInv'
  <2>1. WaitInv /\ UNCHANGED vars => WaitInv'
    BY DEF WaitInv, AllQueued, NoIdleSlot, vars, reqVars, slotVars
  <2> QED
    BY <2>1, WaitStep
<1> QED
  BY <1>1, <1>2, SlotInvCorrect, PTL DEF Spec

\* Nobody waits for a slot that is free with none on its way to a waiter, for any number
\* of runs and slots: a slot given back, or handed to a waiter that had just given up, goes
\* to the next waiter.
THEOREM NoIdleSlotCorrect == Spec => []NoIdleSlot
<1>1. WaitInv => NoIdleSlot
  BY DEF WaitInv
<1> QED
  BY <1>1, WaitInvCorrect, PTL

-----------------------------------------------------------------------------
(* The slots as SlotPool describes them                                    *)

\* A run in its next phase is where SlotPool sees it, and the others stay where they are.
LEMMA PhaseSets ==
  ASSUME SlotTypes, NEW r \in Runs, NEW p,
         phase' = [phase EXCEPT ![r] = p]
  PROVE  /\ p \in HoldingPhases => Holding' = Holding \cup {r}
         /\ p \notin HoldingPhases => Holding' = Holding \ {r}
         /\ p \notin HoldingPhases /\ r \notin Holding => Holding' = Holding
         /\ p = "wait" => waitingBar' = waitingBar \cup {r}
         /\ p # "wait" => waitingBar' = waitingBar \ {r}
         /\ p # "wait" /\ r \notin waitingBar => waitingBar' = waitingBar
<1>1. phase'[r] = p /\ \A s \in Runs : s # r => phase'[s] = phase[s]
  BY DEF SlotTypes
<1>2. Holding = {s \in Runs : phase[s] \in HoldingPhases}
  BY DEF Holding, HoldingPhases
<1>3. Holding' = {s \in Runs : phase'[s] \in HoldingPhases}
  BY DEF Holding, HoldingPhases
<1> QED
  BY <1>1, <1>2, <1>3 DEF waitingBar

PoolStep == Pool!Next \/ UNCHANGED Pool!poolVars

\* Who comes takes a free slot when nobody waits, or waits.
LEMMA PoolEnter ==
  ASSUME SlotInv, WaitInv, NEW r \in Runs, SlotEnter(r)
  PROVE  PoolStep
<1>1. SlotTypes /\ r \notin waitingBar \cup Holding
  BY DEF SlotInv, SlotEnter, waitingBar, Holding
<1>2. CASE SlotFree /\ Go(r, "stamp")
  <2>1. waitingBar = {}
    BY <1>2, SlotFacts DEF SlotFree, WaitInv, AllQueued, waitingBar
  <2>2. Cardinality(Holding) < MAX_CONCURRENT_EXECUTIONS
    BY <1>2, SlotFacts, SlotsAssumption DEF SlotFree
  <2>3. phase' = [phase EXCEPT ![r] = "stamp"]
    BY <1>2 DEF Go
  <2>4. "stamp" \in HoldingPhases /\ "stamp" # "wait"
    BY DEF HoldingPhases
  <2>5. Holding' = Holding \cup {r} /\ waitingBar' = waitingBar
    BY <1>1, <2>3, <2>4, PhaseSets
  <2>6. Pool!Cardinality(Holding) = Cardinality(Holding)
    BY Zenon DEF Pool!Cardinality, Cardinality
  <2>7. Pool!Take(r)
    BY <1>1, <2>1, <2>2, <2>5, <2>6 DEF Pool!Take, Pool!Outsider, Pool!Room
  <2> QED
    BY <2>7 DEF PoolStep, Pool!Next
<1>3. CASE Go(r, "wait")
  <2>1. phase' = [phase EXCEPT ![r] = "wait"]
    BY <1>3 DEF Go
  <2>2. "wait" \notin HoldingPhases
    BY DEF HoldingPhases
  <2>3. Holding' = Holding /\ waitingBar' = waitingBar \cup {r}
    BY <1>1, <2>1, <2>2, PhaseSets
  <2>4. Pool!Wait(r)
    BY <1>1, <2>3 DEF Pool!Wait, Pool!Outsider
  <2> QED
    BY <2>4 DEF PoolStep, Pool!Next
<1> QED
  BY <1>2, <1>3 DEF SlotEnter

\* A waiter that was woken starts: the slot on its way to it is one that nobody holds.
LEMMA PoolGranted ==
  ASSUME SlotInv, NEW r \in Runs, SlotGranted(r)
  PROVE  PoolStep
<1>1. /\ SlotTypes /\ r \in waitingBar /\ r \notin Holding /\ r \in woken
      /\ phase' = [phase EXCEPT ![r] = "stamp"]
  BY DEF SlotInv, SlotGranted, Go, waitingBar, Holding
<1>2. "stamp" \in HoldingPhases /\ "stamp" # "wait"
  BY DEF HoldingPhases
<1>3. Holding' = Holding \cup {r} /\ waitingBar' = waitingBar \ {r}
  BY <1>1, <1>2, PhaseSets
<1>4. Cardinality(Holding) < MAX_CONCURRENT_EXECUTIONS
  <2>1. Cardinality(woken) # 0
    BY <1>1, SlotFacts, FS_EmptySet
  <2> QED
    BY <2>1, SlotFacts, SlotsAssumption
<1>5. Pool!Cardinality(Holding) = Cardinality(Holding)
  BY Zenon DEF Pool!Cardinality, Cardinality
<1>6. Pool!Start(r)
  BY <1>1, <1>3, <1>4, <1>5 DEF Pool!Start, Pool!Room
<1> QED
  BY <1>6 DEF PoolStep, Pool!Next

\* A waiter gives up.
LEMMA PoolTimeout ==
  ASSUME SlotInv, NEW r \in Runs, SlotTimeout(r)
  PROVE  PoolStep
<1>1. /\ SlotTypes /\ r \in waitingBar /\ r \notin Holding
      /\ phase' = [phase EXCEPT ![r] = "done"]
  BY DEF SlotInv, SlotTimeout, End, waitingBar, Holding
<1>2. "done" \notin HoldingPhases /\ "done" # "wait"
  BY DEF HoldingPhases
<1>3. Holding' = Holding /\ waitingBar' = waitingBar \ {r}
  BY <1>1, <1>2, PhaseSets
<1>4. Pool!GiveUp(r)
  BY <1>1, <1>3 DEF Pool!GiveUp
<1> QED
  BY <1>4 DEF PoolStep, Pool!Next

\* A run gives its slot back, or SlotPool sees nothing of its step.
LEMMA PoolRunning ==
  ASSUME SlotInv, NEW r \in Runs, Running(r)
  PROVE  PoolStep
<1>1. SlotTypes /\ phase[r] \in HoldingPhases
  BY RunStepSlot DEF SlotInv
<1>2. r \in Holding /\ r \notin waitingBar
  BY <1>1 DEF Holding, HoldingPhases, waitingBar
<1>3. ASSUME NEW p \in HoldingPhases, phase' = [phase EXCEPT ![r] = p] PROVE PoolStep
  <2>1. p # "wait" /\ Holding \cup {r} = Holding
    BY <1>2 DEF HoldingPhases
  <2>2. Holding' = Holding /\ waitingBar' = waitingBar
    BY <1>1, <1>2, <1>3, <2>1, PhaseSets
  <2> QED
    BY <2>2 DEF PoolStep, Pool!poolVars
<1>4. CASE phase' = [phase EXCEPT ![r] = "done"]
  <2>1. "done" \notin HoldingPhases /\ "done" # "wait"
    BY DEF HoldingPhases
  <2>2. Holding' = Holding \ {r} /\ waitingBar' = waitingBar
    BY <1>1, <1>2, <1>4, <2>1, PhaseSets
  <2>3. Pool!Return(r)
    BY <1>2, <2>2 DEF Pool!Return
  <2> QED
    BY <2>3 DEF PoolStep, Pool!Next
<1> QED
  BY <1>3, <1>4, RunStepSlot

\* The slots implement SlotPool, for any number of runs and slots: no more than
\* MAX_CONCURRENT_EXECUTIONS requests are inside execution_slot(), each of them once, and one
\* that has just come never takes a slot past another that waits for one.
THEOREM ImplementsSlotPoolCorrect == Spec => ImplementsSlotPool
<1>1. Init => Pool!Init
  BY DEF Init, Pool!Init, waitingBar, Holding
<1>2. SlotInv /\ WaitInv /\ [Next]_vars => [Pool!Next]_(Pool!poolVars)
  <2> SUFFICES ASSUME SlotInv, WaitInv, [Next]_vars PROVE PoolStep
    BY DEF PoolStep
  <2>1. ASSUME NEW r \in Runs, SlotEnter(r) \/ Step(r) PROVE PoolStep
    BY <2>1, PoolEnter, PoolGranted, PoolTimeout, PoolRunning DEF Step, Running
  <2>2. ASSUME UNCHANGED phase PROVE PoolStep
    BY <2>2 DEF PoolStep, Pool!poolVars, waitingBar, Holding
  <2>3. ASSUME NEW r \in Runs, Reader(r) \/ Podman(r) PROVE PoolStep
    BY <2>2, <2>3, OutsideSlot
  <2>4. CASE UNCHANGED vars
    BY <2>2, <2>4 DEF vars, reqVars
  <2> QED
    BY <2>1, <2>3, <2>4 DEF Next
<1> QED
  BY <1>1, <1>2, SlotInvCorrect, WaitInvCorrect, PTL
  DEF Spec, ImplementsSlotPool, Pool!Spec

-----------------------------------------------------------------------------
(* The reader and the client of one run                                    *)

\* Where the handler stands, seen from its reader thread and its client: the stop
\* event is set once the client no longer writes, and not before.
RunInv ==
  \A r \in Runs :
    /\ client[r] = "alive" => phase[r] \in {"run", "remove"}
    /\ stopEvt[r] => phase[r] \in {"drain", "diff", "done"}
    /\ reader[r] \in {"reading", "idle"} =>
         phase[r] \in {"spawn", "run", "remove", "reap", "drain"}
    /\ reader[r] = "idle" => unread[r] # "some"
    /\ reader[r] = "done" => stopEvt[r] /\ unread[r] # "some"

IInv == SlotInv /\ TypeOK /\ RunInv

\* The variables other than the slots keep their types.
LEMMA TypeStep ==
  ASSUME TypeOK, SlotInv', Next
  PROVE  TypeOK'
<1>1. PICK r \in Runs : SlotEnter(r) \/ Step(r) \/ Reader(r) \/ Podman(r)
  BY DEF Next
<1>2. SlotTypes'
  BY DEF SlotInv
<1>3. (result \in [Runs -> Results])'
  BY <1>1 DEF TypeOK, SlotEnter, Step, Reader, Podman, SlotGranted, SlotTimeout, NoPty,
     Spawn, SpawnFails, Spawned, ClientDone, ExecTimeout, Removed, Reaped, Drained, Answer,
     ReadChunk, ReaderBecomes, SelectEmpty, ReaderStops, ReaderGoesOn,
     ContainerStarts, ContainerExits, Relay, ClientExits,
     Go, End, SetStop, reqVars, Results
<1>4. (/\ client \in [Runs -> Clients]
       /\ container \in [Runs -> Containers])'
  BY <1>1 DEF TypeOK, SlotEnter, Step, Reader, Podman, SlotGranted, SlotTimeout, NoPty,
     Spawn, SpawnFails, Spawned, ClientDone, ExecTimeout, Removed, Reaped, Drained, Answer,
     ReadChunk, ReaderBecomes, SelectEmpty, ReaderStops, ReaderGoesOn,
     ContainerStarts, ContainerExits, Relay, ClientExits,
     procVars, Clients, Containers
<1>5. (/\ reader \in [Runs -> Readers]
       /\ unread \in [Runs -> Data]
       /\ stopEvt \in [Runs -> BOOLEAN])'
  BY <1>1 DEF TypeOK, SlotEnter, Step, Reader, Podman, SlotGranted, SlotTimeout, NoPty,
     Spawn, SpawnFails, Spawned, ClientDone, ExecTimeout, Removed, Reaped, Drained, Answer,
     ReadChunk, ReaderBecomes, SelectEmpty, ReaderStops, ReaderGoesOn,
     ContainerStarts, ContainerExits, Relay, ClientExits,
     SetStop, readVars, Readers, Data
<1> QED
  BY <1>2, <1>3, <1>4, <1>5 DEF TypeOK, SlotTypes

\* No step breaks what the handler, its reader and its client agree on.
LEMMA RunStep ==
  ASSUME TypeOK, RunInv, Next
  PROVE  RunInv'
<1> SUFFICES ASSUME NEW r \in Runs, SlotEnter(r) \/ Step(r) \/ Reader(r) \/ Podman(r)
             PROVE  RunInv'
  BY DEF Next
<1>1. CASE SlotEnter(r) \/ SlotGranted(r) \/ SlotTimeout(r) \/ NoPty(r)
  BY <1>1 DEF RunInv, TypeOK, SlotEnter, SlotGranted, SlotTimeout, NoPty, Go, End,
              procVars, readVars
<1>2. CASE Spawn(r)
  BY <1>2 DEF RunInv, TypeOK, Spawn, Go, procVars
<1>3. CASE SpawnFails(r)
  BY <1>3 DEF RunInv, TypeOK, SpawnFails, SetStop, End, procVars
<1>4. CASE Spawned(r)
  BY <1>4 DEF RunInv, TypeOK, Spawned, Go, readVars
<1>5. CASE ClientDone(r)
  BY <1>5 DEF RunInv, TypeOK, ClientDone, SetStop, End, procVars
<1>6. CASE ExecTimeout(r)
  BY <1>6 DEF RunInv, TypeOK, ExecTimeout, SetStop, End, procVars
<1>7. CASE Removed(r)
  BY <1>7 DEF RunInv, TypeOK, Removed, Go, readVars
<1>8. CASE Reaped(r)
  BY <1>8 DEF RunInv, TypeOK, Reaped, SetStop, End, procVars
<1>9. CASE Drained(r)
  BY <1>9 DEF RunInv, TypeOK, Drained, Go, procVars, readVars
<1>10. CASE Answer(r)
  BY <1>10 DEF RunInv, TypeOK, Answer, Go, procVars, readVars
<1>11. CASE Reader(r)
  BY <1>11 DEF RunInv, TypeOK, Reader, ReadChunk, ReaderBecomes, SelectEmpty,
              ReaderStops, ReaderGoesOn, reqVars, procVars, Readers, Data
<1>12. CASE Podman(r)
  BY <1>12 DEF RunInv, TypeOK, Podman, ContainerStarts, ContainerExits, Relay, ClientExits,
               reqVars, procVars, readVars
<1> QED
  BY <1>1, <1>2, <1>3, <1>4, <1>5, <1>6, <1>7, <1>8, <1>9, <1>10, <1>11, <1>12 DEF Step

\* The inductive invariant of an execution.
LEMMA IInvCorrect == Spec => []IInv
<1>1. Init => IInv
  <2> SUFFICES ASSUME Init PROVE IInv
    OBVIOUS
  <2>1. TypeOK
    BY SlotInit DEF SlotInv, SlotTypes, Init, TypeOK, Results, Clients, Containers,
                   Readers, Data
  <2>2. RunInv
    BY DEF Init, RunInv
  <2> QED
    BY <2>1, <2>2, SlotInit DEF IInv
<1>2. IInv /\ [Next]_vars => IInv'
  <2>1. CASE UNCHANGED vars
    BY <2>1 DEF IInv, TypeOK, RunInv, SlotInv, SlotTypes, QueueInv, SlotAccounting, Holding,
                vars, reqVars, slotVars, procVars, readVars
  <2>2. ASSUME IInv, Next PROVE IInv'
    BY <2>2, SlotStep, TypeStep, RunStep DEF IInv
  <2> QED
    BY <2>1, <2>2
<1> QED
  BY <1>1, <1>2, PTL DEF Spec

\* Every variable of the execution keeps its type, the semaphore's counter of free
\* slots never going below zero among them.
THEOREM ExecutionTypeCorrect == Spec => []TypeOK
<1>1. IInv => TypeOK
  BY DEF IInv
<1> QED
  BY <1>1, IInvCorrect, PTL

\* read_max_and_close leaves nothing unread but what came after its last empty select, and
\* returns only when the client writes no more, also after a timeout or a failed removal.
THEOREM OnlyLateOutputLostCorrect == Spec => []OnlyLateOutputLost
<1>1. IInv => OnlyLateOutputLost
  BY DEF IInv, RunInv, TypeOK, Readers, OnlyLateOutputLost
<1> QED
  BY <1>1, IInvCorrect, PTL

\* No request is answered while its reader thread still reads, whichever way its run
\* ended or failed.
THEOREM NoReaderLeftCorrect == Spec => []NoReaderLeft
<1>1. IInv => NoReaderLeft
  BY DEF IInv, TypeOK, Readers, RunInv, NoReaderLeft
<1> QED
  BY <1>1, IInvCorrect, PTL
=============================================================================
