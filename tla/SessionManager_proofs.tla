------------------------ MODULE SessionManager_proofs ------------------------
(***************************************************************************)
(* Proofs about SessionManager, for every set of tasks and sessions and    *)
(* every limit: the lock's safety, the capacity, the refinement of         *)
(* SessionStore, what the sweep spares, and the end of throwaway sessions. *)
(***************************************************************************)
EXTENDS SweepHistory, SessionManager_refines, SequenceLemmas

LEMMA TypeInit == Init => TypeOK
  BY LimitsAssumption
  DEF Init, TypeOK, ReqTypes, RegTypes, IdTypes, LockTypes, SweepTypes,
      PCs, Ops, Replies, Disks, NoProject

\* Where a request goes next, and what it answers, keeps the request variables typed.
LEMMA TypeMove ==
  ASSUME ReqTypes, NEW t \in Tasks, NEW o \in Ops, NEW s \in Sessions \cup {None},
         NEW p \in PCs, NEW r \in Replies, Move(t, o, s, p, r),
         p = "idle" \/ s \in Sessions
  PROVE  ReqTypes'
  BY DEF ReqTypes, Move

LEMMA TypeFinish ==
  ASSUME ReqTypes, NEW t \in Tasks, NEW r \in Replies, Finish(t, r)
  PROVE  ReqTypes'
  BY TypeMove DEF Finish, PCs, Ops

\* The three outcomes of locked(), shared by the actions that call it.
LEMMA TypeLocked ==
  ASSUME TypeOK, NEW t \in Tasks, NEW o \in Ops, NEW s \in Sessions,
         NEW p \in {"body", "remove"}, NEW r \in Replies, Locked(t, o, s, p, r)
  PROVE  TypeOK'
<1>1. ReqTypes'
  <2>1. CASE Finish(t, "error")
    BY <2>1, TypeFinish DEF TypeOK, Replies
  <2>2. CASE Move(t, o, s, p, r)
    BY <2>2, TypeMove DEF TypeOK, PCs
  <2>3. CASE Move(t, o, s, IF p = "body" THEN "waitUse" ELSE "waitDel", r)
    BY <2>3, TypeMove DEF TypeOK, PCs
  <2> QED
    BY <2>1, <2>2, <2>3 DEF Locked, Hold
<1>2. RegTypes' /\ SweepTypes'
  BY DEF TypeOK, RegTypes, SweepTypes, Locked, Hold, Touch
<1>3. IdTypes'
  BY DEF TypeOK, IdTypes, Locked, idVars
<1>4. LockTypes'
  <2>1. Append(waiters[s], t) \in Seq(Tasks)
    BY AppendProperties DEF TypeOK, LockTypes
  <2> QED
    BY <2>1 DEF TypeOK, LockTypes, Locked, Hold, lockVars
<1> QED
  BY <1>1, <1>2, <1>3, <1>4 DEF TypeOK

LEMMA TypeReleaseId ==
  ASSUME TypeOK, NEW s \in Sessions, ReleaseId(s)
  PROVE  freeIds' \in Seq(Nat)
  BY AppendProperties DEF ReleaseId, TypeOK, IdTypes

LEMMA TypeRetire ==
  ASSUME TypeOK, NEW s \in Sessions, NEW ok \in BOOLEAN, Retire(s, ok)
  PROVE  RegTypes' /\ IdTypes' /\ LockTypes'
<1>1. RegTypes'
  BY DEF Retire, TypeOK, RegTypes, Disks
<1>2. IdTypes'
  BY TypeReleaseId DEF Retire, ReleaseIfRemoved, TypeOK, IdTypes
<1>3. LockTypes'
  BY DEF Retire, Release, TypeOK, LockTypes
<1> QED
  BY <1>1, <1>2, <1>3

LEMMA TypeCreate ==
  ASSUME TypeOK, NEW t \in Tasks, Create(t)
  PROVE  TypeOK'
<1> USE DEF TypeOK
<1>1. CASE CreateRefused(t)
  <2>1. ReqTypes'
    BY <1>1, TypeFinish DEF CreateRefused, Replies
  <2> QED
    BY <1>1, <2>1
    DEF CreateRefused, RegTypes, IdTypes, LockTypes, SweepTypes,
        regVars, diskVars, idVars, lockVars, sweepVars
<1>2. ASSUME NEW s \in Sessions, CreateFails(t, s) PROVE TypeOK'
  <2>1. ReqTypes'
    BY <1>2, TypeFinish DEF CreateFails, Replies
  <2> QED
    BY <1>2, <2>1
    DEF CreateFails, RegTypes, IdTypes, LockTypes, SweepTypes, Disks,
        regVars, idVars, lockVars, sweepVars
<1>3. ASSUME NEW s \in Sessions, NEW o \in {"create", "ephemeral"}, CreateReserve(t, o, s)
      PROVE  TypeOK'
  <2>1. ReqTypes'
    BY <1>3, TypeMove DEF CreateReserve, Replies, PCs, Ops
  <2>2. IdTypes'
    <3>1. freeIds # <<>> => Last(freeIds) \in Nat /\ Front(freeIds) \in Seq(Nat)
      BY PopType DEF IdTypes
    <3> QED
      BY <1>3, <3>1 DEF CreateReserve, AllocateId, IdTypes
  <2> QED
    BY <1>3, <2>1, <2>2
    DEF CreateReserve, RegTypes, LockTypes, SweepTypes, Disks, lockVars, sweepVars
<1>4. ASSUME NEW s \in Sessions, NEW o \in {"create", "ephemeral"}, CreateAtOnce(t, o, s)
      PROVE  TypeOK'
  <2>1. ReqTypes'
    BY <1>4, TypeMove, TypeFinish DEF CreateAtOnce, Hold, Replies, PCs, Ops
  <2>2. RegTypes' /\ SweepTypes'
    BY <1>4 DEF CreateAtOnce, Hold, Touch, RegTypes, SweepTypes, Disks
  <2>3. IdTypes' /\ LockTypes'
    BY <1>4 DEF CreateAtOnce, Hold, IdTypes, LockTypes, idVars
  <2> QED
    BY <2>1, <2>2, <2>3
<1> QED
  BY <1>1, <1>2, <1>3, <1>4 DEF Create

LEMMA TypeHandler ==
  ASSUME TypeOK, NEW t \in Tasks, Handler(t)
  PROVE  TypeOK'
<1> USE DEF TypeOK
<1> DEFINE s == sess[t]
<1>0. s \in Sessions
  BY DEF Handler, QuotaOk, QuotaFail, UndoDone, SeedDone, SeedFail, Grant, LockTimeout,
         Waiting, BodyEnd, LeaveBody, RemoveDone, ReqTypes
<1>1. CASE QuotaOk(t)
  <2>1. CASE Locked(t, "ephemeral", s, "body", "none")
    BY <1>0, <2>1, TypeLocked DEF Ops, Replies
  <2>2. CASE ~Locked(t, "ephemeral", s, "body", "none")
    <3>1. ReqTypes'
      BY <1>0, <1>1, <2>2, TypeMove, TypeFinish DEF QuotaOk, PCs, Ops, Replies
    <3> QED
      BY <1>0, <1>1, <2>2, <3>1
      DEF QuotaOk, RegTypes, IdTypes, LockTypes, SweepTypes,
          regVars, diskVars, idVars, lockVars, sweepVars
  <2> QED
    BY <2>1, <2>2
<1>2. CASE QuotaFail(t)
  <2>1. ReqTypes'
    BY <1>0, <1>2, TypeMove DEF QuotaFail, ReqTypes, PCs, Replies
  <2>2. IdTypes'
    BY <1>0, <1>2, TypeReleaseId DEF QuotaFail, IdTypes
  <2> QED
    BY <1>0, <1>2, <2>1, <2>2
    DEF QuotaFail, RegTypes, LockTypes, SweepTypes, diskVars, lockVars, sweepVars
<1>3. CASE UndoDone(t)
  <2>1. ReqTypes'
    BY <1>0, <1>3, TypeFinish DEF UndoDone, Replies
  <2> QED
    BY <1>0, <1>3, <2>1
    DEF UndoDone, RegTypes, IdTypes, LockTypes, SweepTypes, Disks,
        regVars, idVars, lockVars, sweepVars
<1>4. CASE SeedDone(t)
  <2>1. ReqTypes'
    BY <1>0, <1>4, TypeFinish DEF SeedDone, Replies
  <2> QED
    BY <1>0, <1>4, <2>1
    DEF SeedDone, RegTypes, IdTypes, LockTypes, SweepTypes,
        diskVars, idVars, lockVars, sweepVars
<1>5. CASE SeedFail(t)
  BY <1>0, <1>5, TypeLocked DEF SeedFail, Ops, Replies
<1>6. CASE Grant(t)
  <2>1. ReqTypes'
    <3>1. op[t] \in Ops /\ reply[t] \in Replies
      BY DEF ReqTypes
    <3> QED
      BY <1>0, <1>6, <3>1, TypeMove, TypeFinish DEF Grant, Hold, PCs, Replies
  <2>2. Tail(waiters[s]) \in Seq(Tasks)
    BY <1>0, <1>6, HeadTailProperties DEF Grant, LockTypes
  <2>3. LockTypes'
    BY <1>0, <1>6, <2>2 DEF Grant, Hold, LockTypes
  <2>4. RegTypes' /\ SweepTypes' /\ IdTypes'
    BY <1>0, <1>6 DEF Grant, Hold, Touch, RegTypes, SweepTypes, IdTypes, idVars
  <2> QED
    BY <2>1, <2>3, <2>4
<1>7. CASE LockTimeout(t)
  <2>1. ReqTypes'
    <3>1. op[t] \in Ops
      BY DEF ReqTypes
    <3> QED
      BY <1>0, <1>7, <3>1, TypeMove, TypeFinish DEF LockTimeout, PCs, Replies
  <2>2. LockTypes'
    <3>1. \A i \in 1..Len(waiters[s]) :
            /\ RemoveAt(waiters[s], i) \in Seq(Tasks)
            /\ Append(RemoveAt(waiters[s], i), t) \in Seq(Tasks)
      BY <1>0, RemoveAtType, AppendProperties DEF LockTypes
    <3> QED
      BY <1>0, <1>7, <3>1 DEF LockTimeout, LockTypes
  <2> QED
    BY <1>0, <1>7, <2>1, <2>2
    DEF LockTimeout, RegTypes, IdTypes, SweepTypes, regVars, diskVars, idVars, sweepVars
<1>8. CASE BodyEnd(t)
  <2>1. ReqTypes'
    BY <1>0, <1>8, TypeMove, TypeFinish DEF BodyEnd, LeaveBody, PCs, Ops, Replies
  <2> QED
    BY <1>0, <1>8, <2>1
    DEF BodyEnd, LeaveBody, Release, Touch, RegTypes, IdTypes, LockTypes, SweepTypes,
        regVars, diskVars, idVars, lockVars
<1>9. CASE RemoveDone(t)
  <2>1. ReqTypes'
    BY <1>0, <1>9, TypeFinish DEF RemoveDone, ReqTypes, Replies
  <2> QED
    BY <1>0, <1>9, <2>1, TypeRetire DEF RemoveDone, SweepTypes, sweepVars
<1> QED
  BY <1>1, <1>2, <1>3, <1>4, <1>5, <1>6, <1>7, <1>8, <1>9 DEF Handler

LEMMA TypeSweep ==
  ASSUME TypeOK, Sweep
  PROVE  TypeOK'
<1> USE DEF TypeOK
<1> USE DEF reqVars, regVars, diskVars, idVars, lockVars
<1>1. CASE SweepStart
  BY <1>1 DEF SweepStart, ReqTypes, RegTypes, IdTypes, LockTypes, SweepTypes
<1>2. CASE SweepRemoved
  <2>1. RegTypes' /\ IdTypes' /\ LockTypes'
    BY <1>2, TypeRetire DEF SweepRemoved, SweepTypes
  <2> QED
    BY <1>2, <2>1 DEF SweepRemoved, ReqTypes, SweepTypes
<1>3. CASE SweepEnd
  BY <1>3 DEF SweepEnd, ReqTypes, RegTypes, IdTypes, LockTypes, SweepTypes
<1>4. ASSUME NEW s \in Sessions, SweepSkip(s) PROVE TypeOK'
  BY <1>4 DEF SweepSkip, ReqTypes, RegTypes, IdTypes, LockTypes, SweepTypes
<1>5. ASSUME NEW s \in Sessions, SweepTake(s) PROVE TypeOK'
  BY <1>5 DEF SweepTake, ReqTypes, RegTypes, IdTypes, LockTypes, SweepTypes
<1> QED
  BY <1>1, <1>2, <1>3, <1>4, <1>5 DEF Sweep

\* Every step keeps the variables typed.
LEMMA TypeNext == TypeOK /\ [Next]_vars => TypeOK'
<1> SUFFICES ASSUME TypeOK, [Next]_vars PROVE TypeOK'
  OBVIOUS
<1>1. ASSUME NEW t \in Tasks, Create(t) \/ Handler(t) PROVE TypeOK'
  BY <1>1, TypeCreate, TypeHandler
<1>2. ASSUME NEW t \in Tasks, NEW s \in Sessions, UseBegin(t, s) \/ DeleteBegin(t, s)
      PROVE  TypeOK'
  BY <1>2, TypeLocked DEF UseBegin, DeleteBegin, Ops, Replies
<1>3. ASSUME NEW s \in Sessions, Overdue(s) PROVE TypeOK'
  BY <1>3
  DEF Overdue, TypeOK, ReqTypes, RegTypes, IdTypes, LockTypes, SweepTypes,
      reqVars, diskVars, idVars, lockVars, sweepVars
<1>4. CASE UNCHANGED vars
  BY <1>4
  DEF vars, TypeOK, ReqTypes, RegTypes, IdTypes, LockTypes, SweepTypes,
      reqVars, regVars, diskVars, idVars, lockVars, sweepVars
<1> QED
  BY <1>1, <1>2, <1>3, <1>4, TypeSweep DEF Next

\* The variables keep their types: in particular a request that waits for
\* anything has a session, and so does a sweep that removes one.
THEOREM TypeCorrect == Spec => []TypeOK
  BY TypeInit, TypeNext, PTL DEF Spec

-----------------------------------------------------------------------------
LEMMA SafeInit == Init => SafeInv
  BY ActorsAssumption
  DEF Init, SafeInv, OpFitsPc, UnbornUnknown, CreatedPrivate, RegisteredPresent,
      InsideRegistered, LockOwnership, Inside

\* locked() keeps the invariant when it is called for a session the caller may
\* know: one it is creating itself, or one whose id was handed out.
LEMMA SafeLocked ==
  ASSUME TypeOK, SafeInv,
         NEW t \in Tasks, NEW o \in Ops, NEW s \in Sessions,
         NEW p \in {"body", "remove"}, NEW r \in Replies,
         Locked(t, o, s, p, r),
         \/ pc[t] = "idle" /\ s \in handed /\ o \in {"use", "delete"}
         \/ pc[t] \in {"quota", "seed"} /\ sess[t] = s /\ o = op[t],
         p = "body" => o \in {"use", "ephemeral"}
  PROVE  SafeInv'
<1> USE DEF TypeOK, ReqTypes, RegTypes, LockTypes, SweepTypes, SafeInv
<1>1. CASE s \notin sessions
  <2>1. /\ Finish(t, "error")
        /\ UNCHANGED <<lockVars, overdue, swSeen, used, sessions, handed, disk, swPc, swAt>>
    BY <1>1 DEF Locked
  <2>2. OpFitsPc' /\ InsideRegistered'
    BY <2>1 DEF Finish, Move, OpFitsPc, InsideRegistered
  <2>3. UnbornUnknown' /\ RegisteredPresent'
    BY <2>1, ActorsAssumption DEF Finish, Move, UnbornUnknown, RegisteredPresent
  <2>4. CreatedPrivate'
    BY <2>1, ActorsAssumption DEF Finish, Move, CreatedPrivate, OpFitsPc
  <2>5. LockOwnership'
    <3>1. \A a \in Tasks \cup {Sweeper}, x \in Sessions : Inside(a, x)' <=> Inside(a, x)
      BY <2>1, ActorsAssumption DEF Finish, Move, Inside
    <3> QED
      BY <2>1, <3>1 DEF LockOwnership, lockVars
  <2> QED
    BY <2>2, <2>3, <2>4, <2>5
<1>2. CASE s \in sessions /\ FreeNow(s)
  <2>1. /\ Hold(t, o, s, p, r)
        /\ UNCHANGED <<waiters, sessions, handed, disk, swPc, swAt>>
    BY <1>2 DEF Locked
  <2>2. OpFitsPc' /\ InsideRegistered'
    BY <1>2, <2>1 DEF Hold, Move, OpFitsPc, InsideRegistered
  <2>3. UnbornUnknown' /\ CreatedPrivate' /\ RegisteredPresent'
    BY <1>2, <2>1 DEF Hold, Move, Touch, UnbornUnknown, CreatedPrivate, RegisteredPresent
  <2>4. LockOwnership'
    BY <1>2, <2>1, ActorsAssumption DEF Hold, Move, LockOwnership, Inside, FreeNow
  <2> QED
    BY <2>2, <2>3, <2>4
<1>3. CASE s \in sessions /\ ~FreeNow(s)
  <2>1. /\ Move(t, o, s, IF p = "body" THEN "waitUse" ELSE "waitDel", r)
        /\ UNCHANGED <<owner, overdue, swSeen, used, sessions, handed, disk, swPc, swAt>>
    BY <1>3 DEF Locked
  <2>2. OpFitsPc' /\ InsideRegistered'
    BY <1>3, <2>1 DEF Move, OpFitsPc, InsideRegistered
  <2>3. UnbornUnknown' /\ CreatedPrivate' /\ RegisteredPresent'
    BY <1>3, <2>1 DEF Move, UnbornUnknown, CreatedPrivate, RegisteredPresent
  <2>4. LockOwnership'
    <3>1. \A a \in Tasks \cup {Sweeper}, x \in Sessions : Inside(a, x)' <=> Inside(a, x)
      BY <2>1, ActorsAssumption DEF Move, Inside
    <3> QED
      BY <2>1, <3>1 DEF LockOwnership
  <2> QED
    BY <2>2, <2>3, <2>4
<1> QED
  BY <1>1, <1>2, <1>3

\* A request that gives up without ever holding the lock, or starts to wait,
\* changes nobody's place inside a lock.
LEMMA SafeOutside ==
  ASSUME NEW t \in Tasks, pc[t] \notin {"body", "remove"},
         pc' \in [Tasks -> PCs], pc'[t] \notin {"body", "remove"},
         \A u \in Tasks \ {t} : pc'[u] = pc[u] /\ sess'[u] = sess[u],
         UNCHANGED <<owner, swPc, swAt>>, LockOwnership
  PROVE  LockOwnership'
<1>1. \A a \in Tasks \cup {Sweeper}, x \in Sessions : Inside(a, x)' <=> Inside(a, x)
  BY ActorsAssumption DEF Inside
<1> QED
  BY <1>1 DEF LockOwnership

LEMMA SafeCreate ==
  ASSUME TypeOK, SafeInv, NEW t \in Tasks, Create(t)
  PROVE  SafeInv'
<1> USE DEF TypeOK, ReqTypes, RegTypes, LockTypes, SweepTypes, SafeInv
<1>1. CASE CreateRefused(t)
  <2>1. OpFitsPc' /\ UnbornUnknown' /\ RegisteredPresent' /\ InsideRegistered'
    BY <1>1, ActorsAssumption
    DEF CreateRefused, Finish, Move, OpFitsPc, UnbornUnknown, RegisteredPresent,
        InsideRegistered, regVars, diskVars, sweepVars
  <2>2. CreatedPrivate'
    BY <1>1, ActorsAssumption DEF CreateRefused, Finish, Move, OpFitsPc, CreatedPrivate, regVars
  <2>3. LockOwnership'
    BY <1>1, SafeOutside DEF CreateRefused, Finish, Move, PCs, lockVars, sweepVars
  <2> QED
    BY <2>1, <2>2, <2>3
<1>2. ASSUME NEW s \in Sessions, CreateFails(t, s) PROVE SafeInv'
  <2>1. OpFitsPc' /\ UnbornUnknown' /\ RegisteredPresent' /\ InsideRegistered'
    BY <1>2, ActorsAssumption
    DEF CreateFails, Finish, Move, OpFitsPc, UnbornUnknown, RegisteredPresent,
        InsideRegistered, regVars, diskVars, sweepVars
  <2>2. CreatedPrivate'
    BY <1>2, ActorsAssumption DEF CreateFails, Finish, Move, OpFitsPc, CreatedPrivate, regVars
  <2>3. LockOwnership'
    BY <1>2, SafeOutside DEF CreateFails, Finish, Move, PCs, lockVars, sweepVars
  <2> QED
    BY <2>1, <2>2, <2>3
<1>3. ASSUME NEW s \in Sessions, NEW o \in {"create", "ephemeral"}, CreateReserve(t, o, s)
      PROVE  SafeInv'
  <2>1. OpFitsPc' /\ UnbornUnknown' /\ RegisteredPresent' /\ InsideRegistered'
    BY <1>3, ActorsAssumption
    DEF CreateReserve, Move, OpFitsPc, UnbornUnknown, RegisteredPresent,
        InsideRegistered, sweepVars
  <2>2. CreatedPrivate'
    BY <1>3 DEF CreateReserve, Move, UnbornUnknown, CreatedPrivate
  <2>3. LockOwnership'
    BY <1>3, SafeOutside DEF CreateReserve, Move, PCs, lockVars, sweepVars
  <2> QED
    BY <2>1, <2>2, <2>3
<1>4. ASSUME NEW s \in Sessions, NEW o \in {"create", "ephemeral"}, CreateAtOnce(t, o, s)
      PROVE  SafeInv'
  <2>0. owner[s] = None
    <3>1. \A a \in Tasks \cup {Sweeper} : ~Inside(a, s)
      BY <1>4 DEF CreateAtOnce, UnbornUnknown, Inside
    <3> QED
      BY <3>1 DEF LockOwnership
  <2>1. CASE Move(t, o, s, "seed", "none") /\ UNCHANGED owner
    <3>1. OpFitsPc' /\ UnbornUnknown' /\ RegisteredPresent' /\ InsideRegistered'
      BY <1>4, <2>1, ActorsAssumption
      DEF CreateAtOnce, Hold, Touch, Move, Finish, OpFitsPc, UnbornUnknown, RegisteredPresent,
          InsideRegistered
    <3>2. CreatedPrivate'
      BY <1>4, <2>1 DEF CreateAtOnce, Hold, Finish, Move, UnbornUnknown, CreatedPrivate
    <3>3. LockOwnership'
      BY <1>4, <2>1, SafeOutside DEF CreateAtOnce, Move, PCs
    <3> QED
      BY <3>1, <3>2, <3>3
  <2>2. CASE Finish(t, "ok") /\ UNCHANGED owner
    <3>1. OpFitsPc' /\ UnbornUnknown' /\ RegisteredPresent' /\ InsideRegistered'
      BY <1>4, <2>2, ActorsAssumption
      DEF CreateAtOnce, Hold, Touch, Move, Finish, OpFitsPc, UnbornUnknown, RegisteredPresent,
          InsideRegistered
    <3>2. CreatedPrivate'
      BY <1>4, <2>2, ActorsAssumption
      DEF CreateAtOnce, Finish, Move, Hold, UnbornUnknown, CreatedPrivate, OpFitsPc
    <3>3. LockOwnership'
      BY <1>4, <2>2, SafeOutside DEF CreateAtOnce, Finish, Move, PCs
    <3> QED
      BY <3>1, <3>2, <3>3
  <2>3. CASE o = "ephemeral" /\ Hold(t, o, s, "body", "none") /\ UNCHANGED handed
    <3>1. OpFitsPc' /\ UnbornUnknown' /\ RegisteredPresent' /\ InsideRegistered'
      BY <1>4, <2>3, ActorsAssumption
      DEF CreateAtOnce, Hold, Touch, Move, OpFitsPc, UnbornUnknown, RegisteredPresent,
          InsideRegistered
    <3>2. CreatedPrivate'
      BY <1>4, <2>3 DEF CreateAtOnce, Hold, Move, UnbornUnknown, CreatedPrivate
    <3>3. LockOwnership'
      BY <1>4, <2>0, <2>3, ActorsAssumption DEF CreateAtOnce, Hold, Move, LockOwnership, Inside
    <3> QED
      BY <3>1, <3>2, <3>3
  <2> QED
    BY <1>4, <2>1, <2>2, <2>3 DEF CreateAtOnce
<1> QED
  BY <1>1, <1>2, <1>3, <1>4 DEF Create

\* The steps of a handler that neither take nor give back a lock.
LEMMA SafeSetup ==
  ASSUME TypeOK, SafeInv, NEW t \in Tasks,
         QuotaOk(t) \/ QuotaFail(t) \/ UndoDone(t) \/ SeedDone(t) \/ SeedFail(t)
  PROVE  SafeInv'
<1> USE DEF TypeOK, ReqTypes, RegTypes, LockTypes, SweepTypes, SafeInv
<1> DEFINE s == sess[t]
<1>0. s \in Sessions
  BY DEF QuotaOk, QuotaFail, UndoDone, SeedDone, SeedFail
<1>1. CASE QuotaOk(t)
  <2>1. CASE op[t] = "ephemeral" /\ Locked(t, "ephemeral", s, "body", "none")
    BY <1>0, <1>1, <2>1, SafeLocked DEF QuotaOk, Ops, Replies
  <2>2. CASE op[t] = "create" /\ Move(t, "create", s, "seed", "none") /\ used' = used \cup {s}
             /\ UNCHANGED <<regVars, disk, idVars, lockVars, sweepVars>>
    <3>1. OpFitsPc' /\ UnbornUnknown' /\ RegisteredPresent' /\ InsideRegistered'
      BY <1>0, <1>1, <2>2, ActorsAssumption
      DEF QuotaOk, Move, OpFitsPc, UnbornUnknown, RegisteredPresent, InsideRegistered,
          regVars, sweepVars
    <3>2. CreatedPrivate'
      BY <1>0, <1>1, <2>2 DEF Move, CreatedPrivate, regVars
    <3>3. LockOwnership'
      BY <1>1, <2>2, SafeOutside DEF QuotaOk, Move, PCs, lockVars, sweepVars
    <3> QED
      BY <3>1, <3>2, <3>3
  <2>3. CASE op[t] = "create" /\ Finish(t, "ok") /\ handed' = handed \cup {s}
             /\ UNCHANGED <<sessions, overdue, diskVars, idVars, lockVars, sweepVars>>
    <3>1. OpFitsPc' /\ UnbornUnknown' /\ RegisteredPresent' /\ InsideRegistered'
      BY <1>0, <1>1, <2>3, ActorsAssumption
      DEF Finish, Move, OpFitsPc, UnbornUnknown, RegisteredPresent, InsideRegistered,
          diskVars, sweepVars
    <3>2. CreatedPrivate'
      BY <1>0, <1>1, <2>3, ActorsAssumption DEF Finish, Move, OpFitsPc, CreatedPrivate
    <3>3. LockOwnership'
      BY <1>1, <2>3, SafeOutside DEF QuotaOk, Finish, Move, PCs, lockVars, sweepVars
    <3> QED
      BY <3>1, <3>2, <3>3
  <2> QED
    BY <1>1, <2>1, <2>2, <2>3 DEF QuotaOk
<1>2. CASE QuotaFail(t)
  <2>1. OpFitsPc' /\ UnbornUnknown' /\ RegisteredPresent'
    BY <1>0, <1>2 DEF QuotaFail, Move, OpFitsPc, UnbornUnknown, RegisteredPresent, diskVars, sweepVars
  <2>2. InsideRegistered'
    BY <1>0, <1>2 DEF QuotaFail, Move, OpFitsPc, CreatedPrivate, InsideRegistered
  <2>3. CreatedPrivate'
    BY <1>0, <1>2 DEF QuotaFail, Move, CreatedPrivate
  <2>4. LockOwnership'
    BY <1>2, SafeOutside DEF QuotaFail, Move, PCs, lockVars, sweepVars
  <2> QED
    BY <2>1, <2>2, <2>3, <2>4
<1>3. CASE UndoDone(t)
  <2>1. OpFitsPc' /\ UnbornUnknown' /\ InsideRegistered'
    BY <1>0, <1>3, ActorsAssumption
    DEF UndoDone, Finish, Move, OpFitsPc, UnbornUnknown, InsideRegistered, regVars, sweepVars
  <2>2. RegisteredPresent'
    BY <1>0, <1>3 DEF UndoDone, InsideRegistered, RegisteredPresent, regVars
  <2>3. CreatedPrivate'
    BY <1>0, <1>3, ActorsAssumption DEF UndoDone, Finish, Move, OpFitsPc, CreatedPrivate, regVars
  <2>4. LockOwnership'
    BY <1>3, SafeOutside DEF UndoDone, Finish, Move, PCs, lockVars, sweepVars
  <2> QED
    BY <2>1, <2>2, <2>3, <2>4
<1>4. CASE SeedDone(t)
  <2>1. OpFitsPc' /\ UnbornUnknown' /\ RegisteredPresent' /\ InsideRegistered'
    BY <1>0, <1>4, ActorsAssumption
    DEF SeedDone, Finish, Move, OpFitsPc, UnbornUnknown, RegisteredPresent, InsideRegistered,
        diskVars, sweepVars
  <2>2. CreatedPrivate'
    BY <1>0, <1>4, ActorsAssumption DEF SeedDone, Finish, Move, OpFitsPc, CreatedPrivate
  <2>3. LockOwnership'
    BY <1>4, SafeOutside DEF SeedDone, Finish, Move, PCs, lockVars, sweepVars
  <2> QED
    BY <2>1, <2>2, <2>3
<1>5. CASE SeedFail(t)
  <2>1. pc[t] = "seed" /\ op[t] = "create" /\ Locked(t, "create", s, "remove", "error")
    BY <1>5 DEF SeedFail, OpFitsPc
  <2> QED
    BY <1>0, <2>1, SafeLocked DEF Ops, Replies
<1> QED
  BY <1>1, <1>2, <1>3, <1>4, <1>5

LEMMA SafeQueue ==
  ASSUME TypeOK, SafeInv, NEW t \in Tasks, Grant(t) \/ LockTimeout(t)
  PROVE  SafeInv'
<1> USE DEF TypeOK, ReqTypes, RegTypes, LockTypes, SweepTypes, SafeInv
<1> DEFINE s == sess[t]
<1>0. s \in Sessions
  BY DEF Grant, LockTimeout, Waiting
<1>1. CASE Grant(t) /\ s \in sessions
  <2> DEFINE p == IF pc[t] = "waitUse" THEN "body" ELSE "remove"
  <2>1. /\ Hold(t, op[t], s, p, reply[t])
        /\ pc[t] \in {"waitUse", "waitDel"} /\ owner[s] = None
        /\ UNCHANGED <<sessions, handed, disk, swPc, swAt>>
    BY <1>1 DEF Grant, StillRegistered, Waiting
  <2>2. OpFitsPc' /\ InsideRegistered'
    BY <1>0, <1>1, <2>1 DEF Hold, Move, OpFitsPc, InsideRegistered
  <2>3. UnbornUnknown' /\ RegisteredPresent'
    BY <1>0, <1>1, <2>1 DEF Hold, Move, Touch, UnbornUnknown, RegisteredPresent
  <2>4. CreatedPrivate'
    BY <1>0, <2>1 DEF Hold, Move, CreatedPrivate
  <2>5. LockOwnership'
    BY <1>0, <2>1, ActorsAssumption DEF Hold, Move, LockOwnership, Inside
  <2> QED
    BY <2>2, <2>3, <2>4, <2>5
<1>2. CASE Grant(t) /\ s \notin sessions
  <2>1. /\ Finish(t, "error")
        /\ pc[t] \in {"waitUse", "waitDel"}
        /\ UNCHANGED <<owner, overdue, swSeen, used, sessions, handed, disk, swPc, swAt>>
    BY <1>2 DEF Grant, StillRegistered, Waiting
  <2>2. OpFitsPc' /\ UnbornUnknown' /\ RegisteredPresent' /\ InsideRegistered'
    BY <1>0, <2>1, ActorsAssumption
    DEF Finish, Move, OpFitsPc, UnbornUnknown, RegisteredPresent, InsideRegistered
  <2>3. CreatedPrivate'
    BY <1>0, <2>1, ActorsAssumption DEF Finish, Move, OpFitsPc, CreatedPrivate
  <2>4. LockOwnership'
    BY <2>1, SafeOutside DEF Finish, Move, PCs
  <2> QED
    BY <2>2, <2>3, <2>4
<1>3. CASE LockTimeout(t)
  <2>1. \/ op[t] = "ephemeral" /\ Move(t, op[t], s, "waitDel", "error")
        \/ Finish(t, "error")
    BY <1>3 DEF LockTimeout
  <2>2. UNCHANGED <<owner, sessions, handed, overdue, disk, used, swPc, swAt, swSeen>>
    BY <1>3 DEF LockTimeout, regVars, diskVars, sweepVars
  <2>3. OpFitsPc' /\ UnbornUnknown' /\ RegisteredPresent' /\ InsideRegistered'
    <3>1. CASE op[t] = "ephemeral" /\ Move(t, op[t], s, "waitDel", "error")
      BY <1>0, <2>2, <3>1
      DEF Move, OpFitsPc, UnbornUnknown, RegisteredPresent, InsideRegistered
    <3>2. CASE Finish(t, "error")
      BY <1>0, <2>2, <3>2, ActorsAssumption
      DEF Finish, Move, OpFitsPc, UnbornUnknown, RegisteredPresent, InsideRegistered
    <3> QED
      BY <2>1, <3>1, <3>2
  <2>4. CreatedPrivate'
    <3>1. CASE Move(t, op[t], s, "waitDel", "error")
      BY <1>0, <3>1, <2>2 DEF Move, CreatedPrivate
    <3>2. CASE Finish(t, "error")
      BY <1>0, <3>2, <2>2, ActorsAssumption DEF Finish, Move, OpFitsPc, CreatedPrivate
    <3> QED
      BY <2>1, <3>1, <3>2
  <2>5. LockOwnership'
    <3>1. CASE Move(t, op[t], s, "waitDel", "error")
      BY <1>3, <3>1, <2>2, SafeOutside DEF LockTimeout, Waiting, Move, PCs
    <3>2. CASE Finish(t, "error")
      BY <1>3, <3>2, <2>2, SafeOutside DEF LockTimeout, Waiting, Finish, Move, PCs
    <3> QED
      BY <2>1, <3>1, <3>2
  <2> QED
    BY <2>3, <2>4, <2>5
<1> QED
  BY <1>1, <1>2, <1>3

LEMMA SafeLeave ==
  ASSUME TypeOK, SafeInv, NEW t \in Tasks, BodyEnd(t) \/ RemoveDone(t)
  PROVE  SafeInv'
<1> USE DEF TypeOK, ReqTypes, RegTypes, LockTypes, SweepTypes, SafeInv
<1> DEFINE s == sess[t]
<1>0. /\ s \in Sessions
      /\ Inside(t, s) /\ owner[s] = t
      /\ \A x \in Sessions \ {s} : ~Inside(t, x)
  <2>1. pc[t] \in {"body", "remove"}
    BY DEF BodyEnd, LeaveBody, RemoveDone
  <2> QED
    BY <2>1, ActorsAssumption DEF Inside, LockOwnership
<1>1. CASE BodyEnd(t) /\ op[t] = "use"
  <2>1. /\ \E r \in {"ok", "error"} : Finish(t, r)
        /\ pc[t] = "body"
        /\ Release(s)
        /\ UNCHANGED <<sessions, handed, overdue, disk, used, swPc, swAt, swSeen>>
    BY <1>1 DEF BodyEnd, LeaveBody, regVars, diskVars
  <2>2. PICK r \in {"ok", "error"} : Finish(t, r)
    BY <2>1
  <2>3. OpFitsPc' /\ UnbornUnknown' /\ RegisteredPresent' /\ InsideRegistered'
    BY <1>0, <2>1, <2>2, ActorsAssumption
    DEF Finish, Move, OpFitsPc, UnbornUnknown, RegisteredPresent, InsideRegistered
  <2>4. CreatedPrivate'
    BY <1>0, <2>1, <2>2, ActorsAssumption DEF Finish, Move, OpFitsPc, CreatedPrivate
  <2>5. LockOwnership'
    BY <1>0, <2>1, <2>2, ActorsAssumption
    DEF Release, Finish, Move, LockOwnership, Inside
  <2> QED
    BY <2>3, <2>4, <2>5
<1>2. CASE BodyEnd(t) /\ op[t] = "ephemeral"
  <2>1. /\ \E r \in {"ok", "error"} : Move(t, "ephemeral", s, "remove", r)
        /\ pc[t] = "body"
        /\ Touch(s)
        /\ UNCHANGED <<sessions, handed, owner, disk, used, swPc, swAt>>
    BY <1>2 DEF BodyEnd, LeaveBody, lockVars, diskVars
  <2>2. PICK r \in {"ok", "error"} : Move(t, "ephemeral", s, "remove", r)
    BY <2>1
  <2>3. OpFitsPc' /\ UnbornUnknown' /\ RegisteredPresent' /\ InsideRegistered'
    BY <1>0, <2>1, <2>2
    DEF Move, Touch, OpFitsPc, UnbornUnknown, RegisteredPresent, InsideRegistered
  <2>4. CreatedPrivate'
    BY <1>0, <1>2, <2>1, <2>2 DEF Move, CreatedPrivate
  <2>5. LockOwnership'
    BY <1>0, <2>1, <2>2, ActorsAssumption DEF Move, LockOwnership, Inside
  <2> QED
    BY <2>3, <2>4, <2>5
<1>3. CASE RemoveDone(t)
  <2>1. OpFitsPc' /\ UnbornUnknown' /\ RegisteredPresent'
    BY <1>0, <1>3, ActorsAssumption
    DEF RemoveDone, Retire, Finish, Move, OpFitsPc, UnbornUnknown, RegisteredPresent, sweepVars
  <2>2. InsideRegistered'
    BY <1>0, <1>3, ActorsAssumption
    DEF RemoveDone, Retire, Finish, Move, InsideRegistered, LockOwnership, Inside
  <2>3. CreatedPrivate'
    BY <1>0, <1>3, ActorsAssumption
    DEF RemoveDone, Retire, Finish, Move, OpFitsPc, CreatedPrivate
  <2>4. LockOwnership'
    BY <1>0, <1>3, ActorsAssumption
    DEF RemoveDone, Retire, Release, Finish, Move, LockOwnership, Inside, sweepVars
  <2> QED
    BY <2>1, <2>2, <2>3, <2>4
<1> QED
  BY <1>1, <1>2, <1>3 DEF BodyEnd, LeaveBody

LEMMA SafeSweep ==
  ASSUME TypeOK, SafeInv, Sweep
  PROVE  SafeInv'
<1> USE DEF TypeOK, ReqTypes, RegTypes, LockTypes, SweepTypes, SafeInv
<1> USE DEF reqVars, regVars, diskVars, idVars, lockVars
<1>1. CASE SweepStart
  BY <1>1
  DEF SweepStart, OpFitsPc, UnbornUnknown, CreatedPrivate, RegisteredPresent,
      InsideRegistered, LockOwnership, Inside
<1>2. CASE SweepRemoved
  <2>0. swAt \in Sessions /\ owner[swAt] = Sweeper
    BY <1>2 DEF SweepRemoved, LockOwnership, Inside
  <2>1. OpFitsPc' /\ UnbornUnknown' /\ CreatedPrivate' /\ RegisteredPresent'
    BY <1>2, <2>0, ActorsAssumption
    DEF SweepRemoved, Retire, OpFitsPc, UnbornUnknown, CreatedPrivate, RegisteredPresent
  <2>2. InsideRegistered'
    BY <1>2, <2>0, ActorsAssumption
    DEF SweepRemoved, Retire, InsideRegistered, LockOwnership, Inside
  <2>3. LockOwnership'
    BY <1>2, <2>0, ActorsAssumption
    DEF SweepRemoved, Retire, Release, LockOwnership, Inside
  <2> QED
    BY <2>1, <2>2, <2>3
<1>3. CASE SweepEnd
  BY <1>3
  DEF SweepEnd, OpFitsPc, UnbornUnknown, CreatedPrivate, RegisteredPresent,
      InsideRegistered, LockOwnership, Inside
<1>4. ASSUME NEW s \in Sessions, SweepSkip(s) PROVE SafeInv'
  BY <1>4
  DEF SweepSkip, OpFitsPc, UnbornUnknown, CreatedPrivate, RegisteredPresent,
      InsideRegistered, LockOwnership, Inside
<1>5. ASSUME NEW s \in Sessions, SweepTake(s) PROVE SafeInv'
  <2>1. OpFitsPc' /\ UnbornUnknown' /\ CreatedPrivate' /\ RegisteredPresent' /\ InsideRegistered'
    BY <1>5
    DEF SweepTake, Sweepable, StillRegistered, OpFitsPc, UnbornUnknown, CreatedPrivate,
        RegisteredPresent, InsideRegistered
  <2>2. LockOwnership'
    BY <1>5, ActorsAssumption DEF SweepTake, Sweepable, FreeNow, LockOwnership, Inside
  <2> QED
    BY <2>1, <2>2
<1> QED
  BY <1>1, <1>2, <1>3, <1>4, <1>5 DEF Sweep

LEMMA SafeNext == TypeOK /\ SafeInv /\ [Next]_vars => SafeInv'
<1> SUFFICES ASSUME TypeOK, SafeInv, [Next]_vars PROVE SafeInv'
  OBVIOUS
<1>1. ASSUME NEW t \in Tasks, Create(t) \/ Handler(t) PROVE SafeInv'
  BY <1>1, SafeCreate, SafeSetup, SafeQueue, SafeLeave DEF Handler
<1>2. ASSUME NEW t \in Tasks, NEW s \in Sessions, UseBegin(t, s) \/ DeleteBegin(t, s)
      PROVE  SafeInv'
  <2>1. CASE UseBegin(t, s)
    BY <2>1, SafeLocked DEF UseBegin, Ops, Replies
  <2>2. CASE DeleteBegin(t, s)
    BY <2>2, SafeLocked DEF DeleteBegin, Ops, Replies
  <2> QED
    BY <1>2, <2>1, <2>2
<1>3. ASSUME NEW s \in Sessions, Overdue(s) PROVE SafeInv'
  BY <1>3
  DEF Overdue, SafeInv, OpFitsPc, UnbornUnknown, CreatedPrivate, RegisteredPresent,
      InsideRegistered, LockOwnership, Inside, reqVars, diskVars, lockVars, sweepVars
<1>4. CASE UNCHANGED vars
  BY <1>4
  DEF vars, SafeInv, OpFitsPc, UnbornUnknown, CreatedPrivate, RegisteredPresent,
      InsideRegistered, LockOwnership, Inside, reqVars, regVars, diskVars, lockVars, sweepVars
<1> QED
  BY <1>1, <1>2, <1>3, <1>4, SafeSweep DEF Next

THEOREM SafeCorrect == Spec => []SafeInv
<1>1. Spec => []TypeOK
  BY TypeCorrect
<1> QED
  BY <1>1, SafeInit, SafeNext, PTL DEF Spec

\* The lock of a session belongs to the one actor inside it.
THEOREM LockOwnershipCorrect == Spec => []LockOwnership
<1>1. SafeInv => LockOwnership
  BY DEF SafeInv
<1> QED
  BY <1>1, SafeCorrect, PTL

\* However a request queued, and whatever the sweep and explicit deletes did
\* meanwhile, the session it finally locks is registered, on disk, and nobody's
\* to remove: the re-check in locked() is enough.
THEOREM NoUseAfterDeleteCorrect == Spec => []NoUseAfterDelete
<1>1. TypeOK /\ SafeInv => NoUseAfterDelete
  <2> SUFFICES ASSUME TypeOK, SafeInv, NEW t \in Tasks, pc[t] = "body"
               PROVE  /\ sess[t] \in sessions
                      /\ disk[sess[t]] = "present"
                      /\ Removers(sess[t]) = {}
    BY DEF NoUseAfterDelete
  <2>1. sess[t] \in sessions /\ sess[t] \in Sessions
    BY DEF SafeInv, InsideRegistered, TypeOK, RegTypes
  <2>2. disk[sess[t]] = "present"
    BY <2>1 DEF SafeInv, RegisteredPresent
  <2>3. owner[sess[t]] = t
    BY <2>1 DEF SafeInv, LockOwnership, Inside
  <2>4. ~Inside(Sweeper, sess[t])
    BY <2>1, <2>3, ActorsAssumption DEF SafeInv, LockOwnership
  <2>5. ASSUME NEW u \in Tasks, pc[u] \in {"remove", "undo"}, sess[u] = sess[t]
        PROVE  FALSE
    <3>1. pc[u] = "remove"
      BY <2>1, <2>5 DEF SafeInv, InsideRegistered
    <3>2. owner[sess[t]] = u
      BY <2>1, <2>5, <3>1 DEF SafeInv, LockOwnership, Inside
    <3> QED
      BY <2>3, <3>1, <3>2
  <2> QED
    BY <2>1, <2>2, <2>4, <2>5 DEF Removers
<1> QED
  BY <1>1, TypeCorrect, SafeCorrect, PTL

-----------------------------------------------------------------------------
\* The slot is taken in the step that checks the capacity.
CapacityInv == IsFiniteSet(sessions) /\ SessionCapacity

LEMMA CapacityDrop ==
  ASSUME CapacityInv, sessions' \subseteq sessions
  PROVE  CapacityInv'
<1>1. IsFiniteSet(sessions') /\ Cardinality(sessions') <= Cardinality(sessions)
  BY FS_Subset DEF CapacityInv
<1>2. Cardinality(sessions') \in Nat /\ Cardinality(sessions) \in Nat
  BY <1>1, FS_CardinalityType DEF CapacityInv
<1> QED
  BY <1>1, <1>2, LimitsAssumption DEF CapacityInv, SessionCapacity

LEMMA CapacityAdd ==
  ASSUME CapacityInv, CapacityLeft, NEW s, sessions' = sessions \cup {s}
  PROVE  CapacityInv'
<1>1. /\ IsFiniteSet(sessions')
      /\ Cardinality(sessions') \in {Cardinality(sessions), Cardinality(sessions) + 1}
  BY FS_AddElement DEF CapacityInv
<1>2. Cardinality(sessions) \in Nat
  BY FS_CardinalityType DEF CapacityInv
<1> QED
  BY <1>1, <1>2, LimitsAssumption DEF CapacityInv, CapacityLeft, SessionCapacity

LEMMA CapacityCorrect == Spec => []CapacityInv
<1>1. Init => CapacityInv
  BY FS_EmptySet, LimitsAssumption DEF Init, CapacityInv, SessionCapacity
<1>2. CapacityInv /\ [Next]_vars => CapacityInv'
  <2> SUFFICES ASSUME CapacityInv, [Next]_vars PROVE CapacityInv'
    OBVIOUS
  <2>1. ASSUME NEW t \in Tasks, Create(t) PROVE CapacityInv'
    <3>1. \/ sessions' = sessions
          \/ CapacityLeft /\ \E s \in Sessions : sessions' = sessions \cup {s}
      BY <2>1 DEF Create, CreateRefused, CreateFails, CreateReserve, CreateAtOnce, regVars
    <3> QED
      BY <3>1, CapacityAdd, CapacityDrop
  <2>2. ASSUME NEW t \in Tasks, Handler(t) PROVE CapacityInv'
    <3>1. sessions' \subseteq sessions
      BY <2>2
      DEF Handler, QuotaOk, QuotaFail, UndoDone, SeedDone, SeedFail, Grant, LockTimeout,
          BodyEnd, LeaveBody, RemoveDone, Retire, Locked, regVars
    <3> QED
      BY <3>1, CapacityDrop
  <2>3. ASSUME NEW t \in Tasks, NEW s \in Sessions, UseBegin(t, s) \/ DeleteBegin(t, s)
        PROVE  CapacityInv'
    BY <2>3, CapacityDrop DEF UseBegin, DeleteBegin, Locked
  <2>4. ASSUME NEW s \in Sessions, Overdue(s) PROVE CapacityInv'
    BY <2>4, CapacityDrop DEF Overdue
  <2>5. CASE Sweep
    <3>1. sessions' \subseteq sessions
      BY <2>5
      DEF Sweep, SweepStart, SweepRemoved, SweepEnd, SweepSkip, SweepTake, Retire, regVars
    <3> QED
      BY <3>1, CapacityDrop
  <2>6. CASE UNCHANGED vars
    BY <2>6, CapacityDrop DEF vars, regVars
  <2> QED
    BY <2>1, <2>2, <2>3, <2>4, <2>5, <2>6 DEF Next
<1> QED
  BY <1>1, <1>2, PTL DEF Spec

\* However many create() calls are suspended in their quota setup, and whatever
\* the sweep frees, the registry never exceeds MAX_SESSIONS.
THEOREM SessionCapacityCorrect == Spec => []SessionCapacity
<1>1. CapacityInv => SessionCapacity
  BY DEF CapacityInv
<1> QED
  BY <1>1, CapacityCorrect, PTL

-----------------------------------------------------------------------------
(* The abstract store                                                        *)

\* As far as callers can tell this step concerns no session but s.
Only(s) ==
  \A x \in Sessions \ {s} :
    /\ x \in liveBar' <=> x \in liveBar
    /\ x \in retiredBar' <=> x \in retiredBar
    /\ userBar'[x] = userBar[x]

LEMMA OnlyOne ==
  ASSUME NEW s,
         \A x \in Sessions \ {s} :
           /\ x \in sessions' <=> x \in sessions
           /\ owner'[x] = owner[x]
           /\ disk'[x] = "unborn" <=> disk[x] = "unborn"
           /\ owner[x] \in Tasks => pc'[owner[x]] = pc[owner[x]]
  PROVE  Only(s)
BY DEF Only, liveBar, retiredBar, userBar, BeingRemoved

\* What the step does to s decides which step of the store it is.
LEMMA StoreQuiet ==
  ASSUME TypeOK, TypeOK', NEW s, Only(s),
         s \in Sessions => /\ s \in liveBar' <=> s \in liveBar
                           /\ s \in retiredBar' <=> s \in retiredBar
                           /\ userBar'[s] = userBar[s]
  PROVE  UNCHANGED Store!storeVars
<1>1. /\ liveBar \subseteq Sessions /\ liveBar' \subseteq Sessions
      /\ retiredBar \subseteq Sessions /\ retiredBar' \subseteq Sessions
  BY DEF liveBar, retiredBar, TypeOK, RegTypes
<1>2. liveBar' = liveBar /\ retiredBar' = retiredBar
  BY <1>1 DEF Only
<1>3. \A x \in Sessions : userBar'[x] = userBar[x]
  BY DEF Only
<1>4. userBar' = userBar
  BY <1>3 DEF userBar
<1> QED
  BY <1>2, <1>4 DEF Store!storeVars

\* userBar changes at s only.
LEMMA UserAt ==
  ASSUME NEW s \in Sessions, Only(s), NEW u, userBar'[s] = u
  PROVE  userBar' = [userBar EXCEPT ![s] = u]
<1>1. \A x \in Sessions : userBar'[x] = IF x = s THEN u ELSE userBar[x]
  BY DEF Only
<1> QED
  BY <1>1 DEF userBar

LEMMA StoreOpens ==
  ASSUME TypeOK, TypeOK', CapacityInv, CapacityLeft, NEW s \in Sessions, Only(s),
         s \notin sessions, disk[s] = "unborn", s \in liveBar', s \notin retiredBar',
         \/ userBar'[s] = None
         \/ userBar'[s] \in Tasks /\ \A x \in Sessions : userBar[x] # userBar'[s]
  PROVE  Store!Next
<1>1. /\ liveBar \subseteq Sessions /\ liveBar' \subseteq Sessions
      /\ retiredBar \subseteq Sessions /\ retiredBar' \subseteq Sessions
      /\ s \notin liveBar \cup retiredBar
  BY DEF liveBar, retiredBar, TypeOK, RegTypes
<1>2. liveBar' = liveBar \cup {s} /\ retiredBar' = retiredBar
  BY <1>1 DEF Only
<1>3. Cardinality(liveBar) < MAX_SESSIONS
  <2>1. liveBar \subseteq sessions
    BY DEF liveBar
  <2>2. IsFiniteSet(liveBar) /\ Cardinality(liveBar) <= Cardinality(sessions)
    BY <2>1, FS_Subset DEF CapacityInv
  <2>3. Cardinality(liveBar) \in Nat /\ Cardinality(sessions) \in Nat
    BY <2>2, FS_CardinalityType DEF CapacityInv
  <2> QED
    BY <2>2, <2>3, LimitsAssumption DEF CapacityLeft
<1>4. ASSUME NEW u, userBar'[s] = u PROVE Store!Open(s, u)
  <2>1. userBar' = [userBar EXCEPT ![s] = u]
    BY <1>4, UserAt
  <2>2. Store!Fresh(s)
    BY <1>1 DEF Store!Fresh
  <2>3. Store!Cardinality(liveBar) = Cardinality(liveBar)
    BY Zenon DEF Store!Cardinality, Cardinality
  <2> QED
    BY <1>2, <1>3, <2>1, <2>2, <2>3, Zenon DEF Store!Open
<1>5. CASE userBar'[s] = None
  BY <1>4, <1>5 DEF Store!Next
<1>6. CASE userBar'[s] \in Tasks /\ \A x \in Sessions : userBar[x] # userBar'[s]
  BY <1>4, <1>6 DEF Store!Next, Store!Free
<1> QED
  BY <1>5, <1>6

LEMMA StoreDiscards ==
  ASSUME TypeOK, TypeOK', NEW s \in Sessions, Only(s),
         s \notin sessions, s \notin sessions', disk[s] = "unborn", disk'[s] # "unborn",
         userBar'[s] = userBar[s]
  PROVE  Store!Next
<1>1. /\ liveBar \subseteq Sessions /\ liveBar' \subseteq Sessions
      /\ retiredBar \subseteq Sessions /\ retiredBar' \subseteq Sessions
      /\ s \notin liveBar \cup retiredBar /\ s \notin liveBar' /\ s \in retiredBar'
  BY DEF liveBar, retiredBar, TypeOK, RegTypes
<1>2. liveBar' = liveBar /\ retiredBar' = retiredBar \cup {s}
  BY <1>1 DEF Only
<1>3. userBar' = userBar
  <2>1. \A x \in Sessions : userBar'[x] = userBar[x]
    BY DEF Only
  <2> QED
    BY <2>1 DEF userBar
<1>4. Store!Discard(s)
  BY <1>1, <1>2, <1>3 DEF Store!Discard, Store!Fresh
<1> QED
  BY <1>4 DEF Store!Next

LEMMA StoreEnters ==
  ASSUME TypeOK, TypeOK', NEW s \in Sessions, Only(s), NEW u \in Tasks,
         s \in liveBar, s \in liveBar', userBar[s] = None, userBar'[s] = u,
         \A x \in Sessions : userBar[x] # u
  PROVE  Store!Next
<1>1. /\ liveBar \subseteq Sessions /\ liveBar' \subseteq Sessions
      /\ retiredBar \subseteq Sessions /\ retiredBar' \subseteq Sessions
      /\ s \notin retiredBar /\ s \notin retiredBar'
  BY DEF liveBar, retiredBar, TypeOK, RegTypes
<1>2. liveBar' = liveBar /\ retiredBar' = retiredBar
  BY <1>1 DEF Only
<1>3. userBar' = [userBar EXCEPT ![s] = u]
  BY UserAt
<1>4. Store!Enter(s, u)
  BY <1>2, <1>3 DEF Store!Enter, Store!Free
<1> QED
  BY <1>4 DEF Store!Next

LEMMA StoreLeaves ==
  ASSUME TypeOK, TypeOK', NEW s \in Sessions, Only(s),
         s \in liveBar, s \in liveBar', userBar[s] # None, userBar'[s] = None
  PROVE  Store!Next
<1>1. /\ liveBar \subseteq Sessions /\ liveBar' \subseteq Sessions
      /\ retiredBar \subseteq Sessions /\ retiredBar' \subseteq Sessions
      /\ s \notin retiredBar /\ s \notin retiredBar'
  BY DEF liveBar, retiredBar, TypeOK, RegTypes
<1>2. liveBar' = liveBar /\ retiredBar' = retiredBar
  BY <1>1 DEF Only
<1>3. userBar' = [userBar EXCEPT ![s] = None]
  BY UserAt
<1>4. Store!Leave(s)
  BY <1>2, <1>3 DEF Store!Leave
<1> QED
  BY <1>4 DEF Store!Next

\* Retire when nobody uses s, Close when its user ends it.
LEMMA StoreEnds ==
  ASSUME TypeOK, TypeOK', NEW s \in Sessions, Only(s),
         s \in liveBar, s \notin liveBar', disk'[s] # "unborn", userBar'[s] = None
  PROVE  Store!Next
<1>1. /\ liveBar \subseteq Sessions /\ liveBar' \subseteq Sessions
      /\ retiredBar \subseteq Sessions /\ retiredBar' \subseteq Sessions
      /\ s \notin retiredBar /\ s \in retiredBar'
  BY DEF liveBar, retiredBar, TypeOK, RegTypes
<1>2. liveBar' = liveBar \ {s} /\ retiredBar' = retiredBar \cup {s}
  BY <1>1 DEF Only
<1>3. userBar' = [userBar EXCEPT ![s] = None]
  BY UserAt
<1>4. CASE userBar[s] = None
  <2>1. userBar' = userBar
    BY <1>3, <1>4 DEF userBar
  <2>2. Store!Retire(s)
    BY <1>2, <1>4, <2>1 DEF Store!Retire
  <2> QED
    BY <2>2 DEF Store!Next
<1>5. CASE userBar[s] # None
  <2>1. Store!Close(s)
    BY <1>2, <1>3, <1>5 DEF Store!Close
  <2> QED
    BY <2>1 DEF Store!Next
<1> QED
  BY <1>4, <1>5

\* Nobody moves into a lock, out of it or inside it, and no session comes or goes.
LEMMA StoreKeeps ==
  ASSUME TypeOK, sessions' = sessions, owner' = owner,
         \A x \in Sessions : /\ disk'[x] = "unborn" <=> disk[x] = "unborn"
                             /\ owner[x] \in Tasks => pc'[owner[x]] = pc[owner[x]]
  PROVE  UNCHANGED Store!storeVars
<1>1. \A x \in Sessions : BeingRemoved(x)' <=> BeingRemoved(x)
  BY DEF BeingRemoved
<1>2. liveBar' = liveBar
  BY <1>1 DEF liveBar, TypeOK, RegTypes
<1>3. retiredBar' = retiredBar
  BY <1>2 DEF retiredBar
<1>4. userBar' = userBar
  BY DEF userBar
<1> QED
  BY <1>2, <1>3, <1>4 DEF Store!storeVars

StoreStep == Store!Next \/ UNCHANGED Store!storeVars

\* A request that is in no lock holds none, and uses nothing.
LEMMA HoldsNothing ==
  ASSUME TypeOK, SafeInv, NEW t \in Tasks, pc[t] \notin {"body", "remove"}
  PROVE  \A x \in Sessions : owner[x] # t /\ userBar[x] # t
<1>1. \A x \in Sessions : owner[x] # t
  BY ActorsAssumption DEF SafeInv, LockOwnership, Inside
<1> QED
  BY <1>1, ActorsAssumption DEF userBar

LEMMA StoreLocked ==
  ASSUME TypeOK, TypeOK', SafeInv,
         NEW t \in Tasks, NEW o \in Ops, NEW s \in Sessions,
         NEW p \in {"body", "remove"}, NEW r \in Replies,
         Locked(t, o, s, p, r), pc[t] \notin {"body", "remove"}
  PROVE  StoreStep
<1>1. /\ \A x \in Sessions : owner[x] # t /\ userBar[x] # t
      /\ \A u \in Tasks \ {t} : pc'[u] = pc[u]
      /\ sessions' = sessions /\ disk' = disk
  BY HoldsNothing DEF Locked, Hold, Finish, Move, TypeOK, ReqTypes
<1>2. CASE owner' = owner
  BY <1>1, <1>2, StoreKeeps DEF StoreStep
<1>3. CASE s \in sessions /\ FreeNow(s) /\ Hold(t, o, s, p, r)
  <2>1. owner[s] = None /\ owner' = [owner EXCEPT ![s] = t] /\ pc'[t] = p /\ disk[s] = "present"
    BY <1>3 DEF FreeNow, Hold, Move, TypeOK, ReqTypes, SafeInv, RegisteredPresent
  <2>2. owner'[s] = t /\ \A x \in Sessions \ {s} : owner'[x] = owner[x]
    BY <2>1 DEF TypeOK, LockTypes
  <2>3. Only(s)
    BY <1>1, <2>2, OnlyOne
  <2>4. s \in liveBar /\ userBar[s] = None
    BY <1>3, <2>1, ActorsAssumption DEF liveBar, BeingRemoved, userBar
  <2>5. CASE p = "body"
    <3>1. s \in liveBar' /\ userBar'[s] = t
      BY <1>1, <1>3, <2>1, <2>2, <2>5, ActorsAssumption DEF liveBar, BeingRemoved, userBar
    <3> QED
      BY <1>1, <2>3, <2>4, <3>1, StoreEnters DEF StoreStep
  <2>6. CASE p = "remove"
    <3>1. s \notin liveBar' /\ userBar'[s] = None /\ disk'[s] # "unborn"
      BY <1>1, <2>1, <2>2, <2>6 DEF liveBar, BeingRemoved, userBar
    <3> QED
      BY <2>3, <2>4, <3>1, StoreEnds DEF StoreStep
  <2> QED
    BY <2>5, <2>6
<1> QED
  BY <1>2, <1>3 DEF Locked, lockVars

LEMMA StoreCreate ==
  ASSUME TypeOK, TypeOK', SafeInv, CapacityInv, NEW t \in Tasks, Create(t)
  PROVE  StoreStep
<1>0. /\ pc[t] = "idle"
      /\ \A x \in Sessions : owner[x] # t /\ userBar[x] # t
      /\ \A u \in Tasks \ {t} : pc'[u] = pc[u]
  <2>1. pc[t] = "idle"
    BY DEF Create, CreateRefused, CreateFails, CreateReserve, CreateAtOnce
  <2>2. \A u \in Tasks \ {t} : pc'[u] = pc[u]
    BY DEF Create, CreateRefused, CreateFails, CreateReserve, CreateAtOnce, Hold, Finish, Move, TypeOK, ReqTypes
  <2> QED
    BY <2>1, <2>2, HoldsNothing
<1>1. CASE CreateRefused(t)
  BY <1>0, <1>1, StoreKeeps DEF CreateRefused, regVars, diskVars, lockVars, StoreStep
<1>2. ASSUME NEW s \in Sessions, disk[s] = "unborn"
      PROVE  s \notin sessions /\ owner[s] = None /\ userBar[s] = None
  <2>1. s \notin sessions /\ \A a \in Tasks \cup {Sweeper} : ~Inside(a, s)
    BY <1>2 DEF SafeInv, UnbornUnknown, Inside
  <2>2. owner[s] = None
    BY <2>1 DEF SafeInv, LockOwnership, TypeOK, LockTypes
  <2> QED
    BY <2>1, <2>2, ActorsAssumption DEF userBar
<1>3. ASSUME NEW s \in Sessions, CreateFails(t, s) PROVE StoreStep
  <2>1. /\ s \notin sessions /\ disk[s] = "unborn" /\ sessions' = sessions /\ owner' = owner
        /\ disk' = disk \/ disk' = [disk EXCEPT ![s] = "present"]
    BY <1>2, <1>3 DEF CreateFails, regVars, lockVars
  <2>2. CASE disk' = disk
    BY <1>0, <2>1, <2>2, StoreKeeps DEF StoreStep
  <2>3. CASE disk' = [disk EXCEPT ![s] = "present"]
    <3>1. disk'[s] = "present" /\ \A x \in Sessions \ {s} : disk'[x] = disk[x]
      BY <2>3 DEF TypeOK, RegTypes
    <3>2. Only(s)
      BY <1>0, <2>1, <3>1, OnlyOne
    <3>3. userBar'[s] = userBar[s]
      BY <1>0, <2>1 DEF userBar
    <3> QED
      BY <2>1, <3>1, <3>2, <3>3, StoreDiscards DEF StoreStep
  <2> QED
    BY <2>1, <2>2, <2>3
<1>4. ASSUME NEW s \in Sessions, NEW o \in {"create", "ephemeral"},
             CreateReserve(t, o, s) \/ CreateAtOnce(t, o, s)
      PROVE  StoreStep
  <2>1. /\ CapacityLeft /\ disk[s] = "unborn" /\ sessions' = sessions \cup {s}
        /\ disk' = [disk EXCEPT ![s] = "present"]
        /\ owner' = owner \/ (owner' = [owner EXCEPT ![s] = t] /\ pc'[t] = "body")
    BY <1>4 DEF CreateReserve, CreateAtOnce, Hold, Move, lockVars, TypeOK, ReqTypes
  <2>2. /\ disk'[s] = "present" /\ \A x \in Sessions \ {s} : disk'[x] = disk[x]
        /\ \A x \in Sessions \ {s} : owner'[x] = owner[x]
        /\ owner'[s] = None \/ (owner'[s] = t /\ pc'[t] = "body")
    BY <1>2, <2>1 DEF TypeOK, RegTypes, LockTypes
  <2>3. Only(s)
    BY <1>0, <2>1, <2>2, OnlyOne
  <2>4. s \in liveBar' /\ s \notin retiredBar'
    BY <2>1, <2>2, ActorsAssumption DEF liveBar, retiredBar, BeingRemoved
  <2>5. userBar'[s] \in {None, t}
    BY <2>2 DEF userBar
  <2> QED
    BY <1>0, <1>2, <2>1, <2>3, <2>4, <2>5, StoreOpens DEF StoreStep
<1> QED
  BY <1>1, <1>3, <1>4 DEF Create

\* The end of a removal: the session has been ended before.
LEMMA StoreRetire ==
  ASSUME TypeOK, TypeOK', NEW s \in Sessions, NEW ok \in BOOLEAN, Retire(s, ok),
         disk[s] # "unborn", BeingRemoved(s),
         \A x \in Sessions \ {s} : owner[x] \in Tasks => pc'[owner[x]] = pc[owner[x]]
  PROVE  StoreStep
<1>1. /\ sessions' = sessions \ {s}
      /\ owner'[s] = None /\ disk'[s] # "unborn"
      /\ \A x \in Sessions \ {s} : owner'[x] = owner[x] /\ disk'[x] = disk[x]
  BY DEF Retire, Release, TypeOK, RegTypes, LockTypes
<1>2. Only(s)
  BY <1>1, OnlyOne
<1>3. /\ s \notin liveBar /\ s \in retiredBar
      /\ s \notin liveBar' /\ s \in retiredBar'
  BY <1>1 DEF liveBar, retiredBar
<1>4. userBar[s] = None /\ userBar'[s] = None
  BY <1>1, ActorsAssumption DEF userBar, BeingRemoved
<1> QED
  BY <1>2, <1>3, <1>4, StoreQuiet DEF StoreStep

LEMMA StoreSetup ==
  ASSUME TypeOK, TypeOK', SafeInv, NEW t \in Tasks,
         QuotaOk(t) \/ QuotaFail(t) \/ UndoDone(t) \/ SeedDone(t) \/ SeedFail(t)
  PROVE  StoreStep
<1> DEFINE s == sess[t]
<1>0. /\ s \in Sessions /\ pc[t] \in {"quota", "undo", "seed"} /\ disk[s] # "unborn"
      /\ \A x \in Sessions : owner[x] # t /\ userBar[x] # t
  <2>1. s \in Sessions /\ pc[t] \in {"quota", "undo", "seed"}
    BY DEF QuotaOk, QuotaFail, UndoDone, SeedDone, SeedFail, TypeOK, ReqTypes
  <2>2. disk[s] # "unborn"
    BY <2>1 DEF SafeInv, UnbornUnknown
  <2> QED
    BY <2>1, <2>2, HoldsNothing
<1>1. CASE QuotaOk(t) /\ op[t] = "ephemeral"
  <2>1. Locked(t, "ephemeral", s, "body", "none")
    BY <1>1 DEF QuotaOk
  <2> QED
    BY <1>0, <2>1, StoreLocked DEF Ops, Replies
<1>2. CASE SeedFail(t)
  <2>1. Locked(t, "create", s, "remove", "error")
    BY <1>2 DEF SeedFail
  <2> QED
    BY <1>0, <2>1, StoreLocked DEF Ops, Replies
<1>3. CASE (QuotaOk(t) /\ op[t] = "create") \/ SeedDone(t)
  <2>1. /\ sessions' = sessions /\ owner' = owner /\ disk' = disk
        /\ \A u \in Tasks \ {t} : pc'[u] = pc[u]
    BY <1>3 DEF QuotaOk, SeedDone, Finish, Move, regVars, diskVars, lockVars, TypeOK, ReqTypes
  <2> QED
    BY <1>0, <2>1, StoreKeeps DEF StoreStep
<1>4. CASE UndoDone(t)
  <2>1. /\ sessions' = sessions /\ owner' = owner
        /\ \A x \in Sessions : disk'[x] = "unborn" <=> disk[x] = "unborn"
        /\ \A u \in Tasks \ {t} : pc'[u] = pc[u]
    BY <1>0, <1>4 DEF UndoDone, Finish, Move, regVars, lockVars, TypeOK, ReqTypes, RegTypes
  <2> QED
    BY <1>0, <2>1, StoreKeeps DEF StoreStep
<1>5. CASE QuotaFail(t)
  <2>1. /\ sessions' = sessions \ {s} /\ owner' = owner /\ disk' = disk
        /\ \A u \in Tasks \ {t} : pc'[u] = pc[u]
    BY <1>5 DEF QuotaFail, Move, diskVars, lockVars, TypeOK, ReqTypes
  <2>2. Only(s)
    BY <1>0, <2>1, OnlyOne
  <2>3. s \notin liveBar' /\ s \in retiredBar'
    BY <1>0, <2>1 DEF liveBar, retiredBar
  <2>4. owner[s] \notin Tasks /\ userBar[s] = None /\ userBar'[s] = None
    <3>1. op[t] \in {"create", "ephemeral"} /\ pc[t] = "quota"
      BY <1>5 DEF QuotaFail, SafeInv, OpFitsPc
    <3>2. ASSUME owner[s] \in Tasks PROVE FALSE
      <4>1. sess[owner[s]] = s
        BY <1>0, <3>2, ActorsAssumption DEF SafeInv, LockOwnership, Inside
      <4> QED
        BY <1>0, <3>1, <3>2, <4>1 DEF SafeInv, CreatedPrivate
    <3> QED
      BY <1>0, <2>1, <3>2 DEF userBar
  <2>5. CASE s \in liveBar
    BY <1>0, <2>1, <2>2, <2>3, <2>4, <2>5, StoreEnds DEF StoreStep
  <2>6. CASE s \notin liveBar
    <3>1. s \in retiredBar
      BY <1>0, <2>6 DEF retiredBar
    <3> QED
      BY <1>0, <2>2, <2>3, <2>4, <2>6, <3>1, StoreQuiet DEF StoreStep
  <2> QED
    BY <2>5, <2>6
<1>6. QuotaOk(t) => op[t] \in {"create", "ephemeral"}
  BY DEF QuotaOk
<1> QED
  BY <1>1, <1>2, <1>3, <1>4, <1>5, <1>6

LEMMA StoreQueue ==
  ASSUME TypeOK, TypeOK', SafeInv, NEW t \in Tasks, Grant(t) \/ LockTimeout(t)
  PROVE  StoreStep
<1> DEFINE s == sess[t]
<1>0. /\ s \in Sessions /\ pc[t] \in {"waitUse", "waitDel"}
      /\ \A x \in Sessions : owner[x] # t /\ userBar[x] # t
  <2>1. s \in Sessions /\ pc[t] \in {"waitUse", "waitDel"}
    BY DEF Grant, LockTimeout, Waiting, TypeOK, ReqTypes
  <2> QED
    BY <2>1, HoldsNothing
<1>1. /\ \A u \in Tasks \ {t} : pc'[u] = pc[u]
      /\ sessions' = sessions /\ disk' = disk
  BY DEF Grant, LockTimeout, Hold, Finish, Move, regVars, diskVars, TypeOK, ReqTypes
<1>2. CASE owner' = owner
  BY <1>0, <1>1, <1>2, StoreKeeps DEF StoreStep
<1>3. CASE Grant(t) /\ s \in sessions
  <2>1. /\ owner[s] = None /\ owner' = [owner EXCEPT ![s] = t] /\ disk[s] = "present"
        /\ pc'[t] = IF pc[t] = "waitUse" THEN "body" ELSE "remove"
    BY <1>3 DEF Grant, StillRegistered, Hold, Move, TypeOK, ReqTypes, SafeInv, RegisteredPresent
  <2>2. owner'[s] = t /\ \A x \in Sessions \ {s} : owner'[x] = owner[x]
    BY <1>0, <2>1 DEF TypeOK, LockTypes
  <2>3. Only(s)
    BY <1>0, <1>1, <2>2, OnlyOne
  <2>4. s \in liveBar /\ userBar[s] = None
    BY <1>0, <1>3, <2>1, ActorsAssumption DEF liveBar, BeingRemoved, userBar
  <2>5. CASE pc'[t] = "body"
    <3>1. s \in liveBar' /\ userBar'[s] = t
      BY <1>0, <1>1, <1>3, <2>2, <2>5, ActorsAssumption DEF liveBar, BeingRemoved, userBar
    <3> QED
      BY <1>0, <2>3, <2>4, <3>1, StoreEnters DEF StoreStep
  <2>6. CASE pc'[t] = "remove"
    <3>1. s \notin liveBar' /\ userBar'[s] = None /\ disk'[s] # "unborn"
      BY <1>0, <1>1, <2>1, <2>2, <2>6 DEF liveBar, BeingRemoved, userBar
    <3> QED
      BY <1>0, <2>3, <2>4, <3>1, StoreEnds DEF StoreStep
  <2> QED
    BY <2>1, <2>5, <2>6
<1> QED
  BY <1>2, <1>3 DEF Grant, LockTimeout, StillRegistered

LEMMA StoreLeave ==
  ASSUME TypeOK, TypeOK', SafeInv, NEW t \in Tasks, BodyEnd(t) \/ RemoveDone(t)
  PROVE  StoreStep
<1> DEFINE s == sess[t]
<1>0. /\ s \in Sessions /\ pc[t] \in {"body", "remove"}
      /\ owner[s] = t /\ \A x \in Sessions \ {s} : owner[x] # t
      /\ s \in sessions /\ disk[s] = "present"
  <2>1. s \in Sessions /\ pc[t] \in {"body", "remove"}
    BY DEF BodyEnd, LeaveBody, RemoveDone, TypeOK, ReqTypes
  <2>2. owner[s] = t /\ \A x \in Sessions \ {s} : owner[x] # t
    BY <2>1, ActorsAssumption DEF SafeInv, LockOwnership, Inside
  <2> QED
    BY <2>1, <2>2 DEF SafeInv, InsideRegistered, RegisteredPresent
<1>1. \A u \in Tasks \ {t} : pc'[u] = pc[u]
  BY DEF BodyEnd, LeaveBody, RemoveDone, Finish, Move, TypeOK, ReqTypes
<1>2. CASE BodyEnd(t)
  <2>1. /\ pc[t] = "body" /\ sessions' = sessions /\ disk' = disk
        /\ \/ owner' = [owner EXCEPT ![s] = None]
           \/ owner' = owner /\ pc'[t] = "remove"
    BY <1>2 DEF BodyEnd, LeaveBody, Release, Move, regVars, diskVars, lockVars, TypeOK, ReqTypes
  <2>2. /\ \A x \in Sessions \ {s} : owner'[x] = owner[x]
        /\ owner'[s] = None \/ (owner'[s] = t /\ pc'[t] = "remove")
    BY <1>0, <2>1 DEF TypeOK, LockTypes
  <2>3. Only(s)
    BY <1>0, <1>1, <2>1, <2>2, OnlyOne
  <2>4. s \in liveBar /\ userBar[s] = t
    BY <1>0, <2>1, ActorsAssumption DEF liveBar, userBar, BeingRemoved
  <2>5. CASE owner'[s] = None
    <3>1. s \in liveBar' /\ userBar'[s] = None
      BY <1>0, <2>1, <2>5, ActorsAssumption DEF liveBar, userBar, BeingRemoved
    <3> QED
      BY <1>0, <2>3, <2>4, <3>1, StoreLeaves, ActorsAssumption DEF StoreStep
  <2>6. CASE owner'[s] = t /\ pc'[t] = "remove"
    <3>1. s \notin liveBar' /\ userBar'[s] = None
      BY <1>0, <2>6 DEF liveBar, userBar, BeingRemoved
    <3> QED
      BY <1>0, <2>1, <2>3, <2>4, <3>1, StoreEnds DEF StoreStep
  <2> QED
    BY <2>2, <2>5, <2>6
<1>3. CASE RemoveDone(t)
  <2>1. PICK ok \in BOOLEAN : Retire(s, ok)
    BY <1>3 DEF RemoveDone
  <2>2. BeingRemoved(s)
    BY <1>0, <1>3 DEF RemoveDone, BeingRemoved
  <2> QED
    BY <1>0, <1>1, <2>1, <2>2, StoreRetire
<1> QED
  BY <1>2, <1>3

LEMMA StoreSweep ==
  ASSUME TypeOK, TypeOK', SafeInv, Sweep
  PROVE  StoreStep
<1>1. pc' = pc
  BY DEF Sweep, SweepStart, SweepRemoved, SweepEnd, SweepSkip, SweepTake, reqVars
<1>2. CASE SweepStart \/ SweepEnd \/ \E s \in Sessions : SweepSkip(s)
  <2>1. UNCHANGED <<sessions, owner, disk>>
    BY <1>2 DEF SweepStart, SweepEnd, SweepSkip, regVars, lockVars, diskVars
  <2> QED
    BY <1>1, <2>1, StoreKeeps DEF StoreStep
<1>3. ASSUME NEW s \in Sessions, SweepTake(s) PROVE StoreStep
  <2>1. /\ s \in sessions /\ owner[s] = None /\ disk[s] = "present"
        /\ sessions' = sessions /\ disk' = disk /\ owner' = [owner EXCEPT ![s] = Sweeper]
    BY <1>3
    DEF SweepTake, Sweepable, FreeNow, StillRegistered, regVars, diskVars, SafeInv, RegisteredPresent
  <2>2. owner'[s] = Sweeper /\ \A x \in Sessions \ {s} : owner'[x] = owner[x]
    BY <2>1 DEF TypeOK, LockTypes
  <2>3. Only(s)
    BY <1>1, <2>1, <2>2, OnlyOne
  <2>4. s \in liveBar /\ s \notin liveBar' /\ userBar'[s] = None
    BY <2>1, <2>2, ActorsAssumption DEF liveBar, BeingRemoved, userBar
  <2> QED
    BY <2>1, <2>3, <2>4, StoreEnds DEF StoreStep
<1>4. CASE SweepRemoved
  <2>1. PICK ok \in BOOLEAN : Retire(swAt, ok)
    BY <1>4 DEF SweepRemoved
  <2>2. swAt \in Sessions /\ owner[swAt] = Sweeper /\ disk[swAt] # "unborn"
    BY <1>4 DEF SweepRemoved, SafeInv, LockOwnership, Inside, UnbornUnknown, TypeOK, SweepTypes
  <2> QED
    BY <1>1, <2>1, <2>2, StoreRetire DEF BeingRemoved
<1> QED
  BY <1>2, <1>3, <1>4 DEF Sweep

\* The server implements the abstract store: every step of it is one of the store or
\* changes nothing callers can tell (sessions.py, SessionManager).
THEOREM ImplementsStoreCorrect == Spec => ImplementsStore
<1>1. Init => Store!Init
  BY ActorsAssumption DEF Init, Store!Init, liveBar, retiredBar, userBar
<1>2. TypeOK /\ TypeOK' /\ SafeInv /\ CapacityInv /\ [Next]_vars => [Store!Next]_(Store!storeVars)
  <2> SUFFICES ASSUME TypeOK, TypeOK', SafeInv, CapacityInv, [Next]_vars PROVE StoreStep
    BY DEF StoreStep
  <2>1. ASSUME NEW t \in Tasks, Create(t) \/ Handler(t) PROVE StoreStep
    BY <2>1, StoreCreate, StoreSetup, StoreQueue, StoreLeave DEF Handler
  <2>2. ASSUME NEW t \in Tasks, NEW s \in Sessions, UseBegin(t, s) \/ DeleteBegin(t, s) PROVE StoreStep
    <3>1. /\ pc[t] = "idle"
          /\ Locked(t, "use", s, "body", "none") \/ Locked(t, "delete", s, "remove", "none")
      BY <2>2 DEF UseBegin, DeleteBegin
    <3> QED
      BY <3>1, StoreLocked DEF Ops, Replies
  <2>3. ASSUME NEW s \in Sessions, Overdue(s) PROVE StoreStep
    BY <2>3, StoreKeeps DEF Overdue, reqVars, diskVars, lockVars, StoreStep
  <2>4. CASE UNCHANGED vars
    BY <2>4, StoreKeeps DEF vars, reqVars, regVars, diskVars, lockVars, StoreStep
  <2> QED
    BY <2>1, <2>2, <2>3, <2>4, StoreSweep DEF Next
<1> QED
  BY <1>1, <1>2, TypeCorrect, SafeCorrect, CapacityCorrect, PTL DEF Spec, ImplementsStore, Store!Spec

-----------------------------------------------------------------------------
(* The sweep and the sessions in use                                         *)

\* What a request entered since the clock was read is no candidate any more, and
\* is not the session being removed.
TouchedInv ==
  /\ touched \subseteq Sessions
  /\ swPc # "sleep" => \A s \in touched : s \notin swSeen /\ ~Swept(s)

\* Whoever gets the lock of a session refreshes it.
LEMMA EnteredTouched ==
  ASSUME TypeOK, [Next]_vars, NEW s \in Sessions, s \in Entered
  PROVE  s \notin swSeen'
<1>0. owner'[s] # owner[s] /\ owner'[s] \in Tasks
  BY DEF Entered
<1>1. ASSUME NEW t, NEW r, NEW o, NEW p, NEW a, r \in Sessions, Hold(t, o, r, p, a)
      PROVE  s \notin swSeen'
  BY <1>0, <1>1 DEF Hold, Touch, TypeOK, LockTypes
<1>2. ASSUME NEW t, NEW o, NEW r, r \in Sessions, NEW p, NEW a, Locked(t, o, r, p, a)
      PROVE  s \notin swSeen'
  BY <1>0, <1>1, <1>2 DEF Locked, lockVars
<1>3. ASSUME NEW r \in Sessions, owner' = [owner EXCEPT ![r] = None] PROVE FALSE
  BY <1>0, <1>3, ActorsAssumption DEF TypeOK, LockTypes
<1>4. ASSUME NEW r \in Sessions, owner' = [owner EXCEPT ![r] = Sweeper] PROVE FALSE
  BY <1>0, <1>4, ActorsAssumption DEF TypeOK, LockTypes
<1>5. ASSUME NEW t \in Tasks, Create(t) PROVE s \notin swSeen'
  <2>1. ASSUME NEW r \in Sessions, NEW o, CreateAtOnce(t, o, r) PROVE s \notin swSeen'
    BY <1>0, <1>1, <2>1 DEF CreateAtOnce
  <2> QED
    BY <1>0, <1>5, <2>1 DEF Create, CreateRefused, CreateFails, CreateReserve, lockVars
<1>6. ASSUME NEW t \in Tasks, Handler(t) PROVE s \notin swSeen'
  <2>1. CASE QuotaOk(t)
    BY <1>0, <1>2, <2>1 DEF QuotaOk, lockVars, TypeOK, ReqTypes
  <2>2. CASE SeedFail(t)
    BY <1>2, <2>2 DEF SeedFail, TypeOK, ReqTypes
  <2>3. CASE Grant(t)
    <3>1. sess[t] \in Sessions
      BY <2>3 DEF Grant, Waiting, TypeOK, ReqTypes
    <3> QED
      BY <1>0, <1>1, <2>3, <3>1 DEF Grant
  <2>4. CASE BodyEnd(t) \/ RemoveDone(t)
    <3>1. sess[t] \in Sessions
      BY <2>4 DEF BodyEnd, LeaveBody, RemoveDone, TypeOK, ReqTypes
    <3> QED
      BY <1>0, <1>3, <2>4, <3>1 DEF BodyEnd, LeaveBody, RemoveDone, Retire, Release, lockVars
  <2> QED
    BY <1>0, <1>6, <2>1, <2>2, <2>3, <2>4
    DEF Handler, QuotaFail, UndoDone, SeedDone, LockTimeout, lockVars
<1>7. ASSUME NEW t \in Tasks, NEW r \in Sessions, UseBegin(t, r) \/ DeleteBegin(t, r)
      PROVE  s \notin swSeen'
  BY <1>2, <1>7 DEF UseBegin, DeleteBegin
<1>8. CASE Sweep
  <2>1. CASE SweepRemoved
    BY <1>3, <2>1 DEF SweepRemoved, Retire, Release, TypeOK, SweepTypes
  <2> QED
    BY <1>0, <1>4, <1>8, <2>1 DEF Sweep, SweepStart, SweepEnd, SweepSkip, SweepTake, lockVars
<1>9. \A r \in Sessions : ~Overdue(r)
  BY <1>0 DEF Overdue, lockVars
<1>10. vars' # vars
  BY <1>0 DEF vars, lockVars
<1> QED
  BY <1>5, <1>6, <1>7, <1>8, <1>9, <1>10 DEF Next

\* During a pass sessions only stop being candidates, and one is picked for
\* removal from among them.
LEMMA PassShrinks ==
  ASSUME TypeOK, [Next]_vars, swPc # "sleep"
  PROVE  /\ swSeen' \subseteq swSeen
         /\ \A s \in Sessions : Swept(s)' => Swept(s) \/ s \in swSeen
<1>1. ASSUME UNCHANGED <<swPc, swAt>>, swSeen' \subseteq swSeen
      PROVE  /\ swSeen' \subseteq swSeen
             /\ \A s \in Sessions : Swept(s)' => Swept(s) \/ s \in swSeen
  BY <1>1 DEF Swept
<1>2. ASSUME NEW t, NEW o, NEW s, NEW p, NEW r, Locked(t, o, s, p, r)
      PROVE  UNCHANGED <<swPc, swAt>> /\ swSeen' \subseteq swSeen
  BY <1>2 DEF Locked, Hold, Touch
<1>3. ASSUME NEW t \in Tasks, Create(t) \/ Handler(t)
      PROVE  UNCHANGED <<swPc, swAt>> /\ swSeen' \subseteq swSeen
  <2>1. CASE Create(t)
    BY <2>1 DEF Create, CreateRefused, CreateFails, CreateReserve, CreateAtOnce, Hold, Touch, sweepVars
  <2>2. CASE QuotaOk(t) \/ SeedFail(t)
    BY <1>2, <2>2 DEF QuotaOk, SeedFail, sweepVars
  <2>3. CASE Grant(t)
    BY <2>3 DEF Grant, Hold, Touch
  <2>4. CASE BodyEnd(t)
    BY <2>4 DEF BodyEnd, LeaveBody, Touch
  <2> QED
    BY <1>3, <2>1, <2>2, <2>3, <2>4
    DEF Handler, QuotaFail, UndoDone, SeedDone, LockTimeout, RemoveDone, sweepVars
<1>4. ASSUME NEW t \in Tasks, NEW s \in Sessions, UseBegin(t, s) \/ DeleteBegin(t, s)
      PROVE  UNCHANGED <<swPc, swAt>> /\ swSeen' \subseteq swSeen
  BY <1>2, <1>4 DEF UseBegin, DeleteBegin
<1>5. ASSUME NEW s \in Sessions, Overdue(s) PROVE UNCHANGED <<swPc, swAt>> /\ swSeen' \subseteq swSeen
  BY <1>5 DEF Overdue, sweepVars
<1>6. CASE Sweep
  BY <1>6 DEF Sweep, SweepStart, SweepRemoved, SweepEnd, SweepSkip, SweepTake, Sweepable, Swept
<1>7. CASE UNCHANGED vars
  BY <1>7 DEF vars, sweepVars, Swept
<1> QED
  BY <1>1, <1>3, <1>4, <1>5, <1>6, <1>7 DEF Next

\* However long a pass takes, whatever it still has to look at, the sweep removes
\* no session a request entered after the pass read the clock.
THEOREM SweepSparesTouchedCorrect == HistSpec => []SweepSparesTouched
<1>1. HistSpec => Spec
  <2>1. HistInit => Init
    BY DEF HistInit
  <2>2. [HistNext]_<<vars, touched>> => [Next]_vars
    BY DEF HistNext
  <2> QED
    BY <2>1, <2>2, PTL DEF HistSpec, Spec
<1>2. HistInit => TouchedInv
  BY DEF HistInit, TouchedInv
<1>3. TypeOK /\ SafeInv' /\ TouchedInv /\ [HistNext]_<<vars, touched>> => TouchedInv'
  <2> SUFFICES ASSUME TypeOK, SafeInv', TouchedInv, [HistNext]_<<vars, touched>>
               PROVE  TouchedInv'
    OBVIOUS
  <2>0. [Next]_vars
    BY DEF HistNext
  <2>1. touched' \subseteq Sessions
    BY DEF HistNext, Entered, TouchedInv
  <2>2. CASE swPc = "sleep"
    <3>1. touched' = {} \/ swPc' = "sleep"
      BY <2>2 DEF HistNext, vars, sweepVars
    <3> QED
      BY <2>1, <3>1 DEF TouchedInv
  <2>3. ASSUME swPc # "sleep", NEW s \in touched' PROVE s \notin swSeen' /\ ~Swept(s)'
    <3>1. CASE s \in touched
      <4>1. s \notin swSeen /\ ~Swept(s) /\ s \in Sessions
        BY <2>3, <3>1 DEF TouchedInv
      <4> QED
        BY <2>0, <2>3, <4>1, PassShrinks
    <3>2. CASE s \notin touched
      <4>1. s \in Entered
        BY <2>3, <3>2 DEF HistNext
      <4>2. s \in Sessions /\ owner'[s] \in Tasks
        BY <4>1 DEF Entered
      <4>3. Swept(s)' => owner'[s] = Sweeper
        BY <4>2 DEF Swept, SafeInv, LockOwnership, Inside
      <4> QED
        BY <2>0, <4>1, <4>2, <4>3, EnteredTouched, ActorsAssumption
    <3> QED
      BY <3>1, <3>2
  <2> QED
    BY <2>1, <2>2, <2>3 DEF TouchedInv
<1>4. TouchedInv => SweepSparesTouched
  BY DEF TouchedInv, SweepSparesTouched, Swept
<1> QED
  BY <1>1, <1>2, <1>3, <1>4, TypeCorrect, SafeCorrect, PTL DEF HistSpec

-----------------------------------------------------------------------------
(* Throwaway executions                                                      *)

\* Nobody queues for a session its creator has not set up yet, so a throwaway
\* execution finds its lock free, unless the sweep is removing the session.
QueueInv ==
  /\ \A s \in Sessions : disk[s] = "unborn" => waiters[s] = <<>>
  /\ \A t \in Tasks : pc[t] = "quota" => waiters[sess[t]] = <<>>
  /\ \A t \in Tasks :
       op[t] = "ephemeral" /\ Waiting(t) /\ sess[t] \in sessions => owner[sess[t]] = Sweeper

LEMMA MoveElse ==
  ASSUME TypeOK, NEW t \in Tasks, NEW o, NEW s, NEW p, NEW r, Move(t, o, s, p, r)
  PROVE  /\ pc'[t] = p /\ op'[t] = o /\ sess'[t] = s
         /\ \A u \in Tasks \ {t} : pc'[u] = pc[u] /\ op'[u] = op[u] /\ sess'[u] = sess[u]
BY DEF Move, TypeOK, ReqTypes

\* What `locked` does to the queues, called by t for s while serving o.
LockedStep(t, o, s) ==
  /\ \A u \in Tasks \ {t} : pc'[u] = pc[u] /\ op'[u] = op[u] /\ sess'[u] = sess[u]
  /\ pc'[t] # "quota"
  /\ \A x \in Sessions \ {s} : waiters'[x] = waiters[x]
  /\ disk' = disk /\ sessions' = sessions
  /\ pc'[t] = "idle" => s \notin sessions
  /\ pc'[t] \in {"waitUse", "waitDel"} =>
       /\ sess'[t] = s /\ owner' = owner /\ op'[t] = o
       /\ owner[s] # None \/ waiters[s] # <<>>

LEMMA LockedElse ==
  ASSUME TypeOK, NEW t \in Tasks, NEW o, NEW s \in Sessions, NEW p, NEW r,
         p = "body" \/ p = "remove", Locked(t, o, s, p, r)
  PROVE  LockedStep(t, o, s)
<1> USE DEF LockedStep
<1>1. CASE Finish(t, "error") /\ s \notin sessions /\ UNCHANGED lockVars
  BY <1>1, MoveElse DEF Finish, Locked, lockVars
<1>2. CASE Hold(t, o, s, p, r) /\ UNCHANGED waiters
  <2>1. Move(t, o, s, p, r)
    BY <1>2 DEF Hold
  <2> QED
    BY <1>2, <2>1, MoveElse DEF Locked
<1>3. CASE /\ Move(t, o, s, IF p = "body" THEN "waitUse" ELSE "waitDel", r) /\ ~FreeNow(s)
           /\ waiters' = [waiters EXCEPT ![s] = Append(@, t)]
           /\ owner' = owner
  <2>1. pc'[t] \in {"waitUse", "waitDel"}
    BY <1>3, MoveElse
  <2> QED
    BY <1>3, <2>1, MoveElse DEF Locked, FreeNow, TypeOK, LockTypes
<1> QED
  BY <1>1, <1>2, <1>3 DEF Locked

\* The sweep keeps the lock of the session it removes until that session is out
\* of the registry.
LEMMA SweeperStays ==
  ASSUME TypeOK, SafeInv, SafeInv', [Next]_vars, NEW s \in Sessions, owner[s] = Sweeper, s \in sessions'
  PROVE  owner'[s] = Sweeper
<1>1. swPc = "remove" /\ swAt = s
  BY ActorsAssumption DEF SafeInv, LockOwnership, Inside
<1>2. UNCHANGED <<swPc, swAt>> => owner'[s] = Sweeper
  BY <1>1 DEF SafeInv, LockOwnership, Inside
<1>3. ASSUME NEW t, NEW o, NEW r, NEW p, NEW a, Locked(t, o, r, p, a)
      PROVE  UNCHANGED <<swPc, swAt>>
  BY <1>3 DEF Locked
<1>4. ASSUME NEW t \in Tasks, Create(t) \/ Handler(t) PROVE UNCHANGED <<swPc, swAt>>
  BY <1>3, <1>4
  DEF Create, CreateRefused, CreateFails, CreateReserve, CreateAtOnce, Handler, QuotaOk, QuotaFail,
      UndoDone, SeedDone, SeedFail, Grant, LockTimeout, BodyEnd, RemoveDone, sweepVars
<1>5. ASSUME NEW t \in Tasks, NEW r \in Sessions, UseBegin(t, r) \/ DeleteBegin(t, r)
      PROVE  UNCHANGED <<swPc, swAt>>
  BY <1>3, <1>5 DEF UseBegin, DeleteBegin
<1>6. ASSUME NEW r \in Sessions, Overdue(r) PROVE UNCHANGED <<swPc, swAt>>
  BY <1>6 DEF Overdue, sweepVars
<1>7. ~Sweep
  BY <1>1 DEF Sweep, SweepStart, SweepRemoved, SweepEnd, SweepSkip, SweepTake, Retire
<1>8. CASE UNCHANGED vars
  BY <1>2, <1>8 DEF vars, sweepVars
<1> QED
  BY <1>2, <1>4, <1>5, <1>6, <1>7, <1>8 DEF Next

\* A step of t that leaves the queues of other sessions alone.
LEMMA QueueOther ==
  ASSUME TypeOK, TypeOK', SafeInv, SafeInv', QueueInv, [Next]_vars,
         NEW t \in Tasks, NEW s, s \in Sessions => disk[s] # "unborn",
         \A u \in Tasks \ {t} : /\ pc'[u] = pc[u] /\ op'[u] = op[u] /\ sess'[u] = sess[u]
                                /\ pc[u] = "quota" => sess[u] # s,
         \A x \in Sessions \ {s} : waiters'[x] = waiters[x],
         \A x \in Sessions : disk'[x] = "unborn" => disk[x] = "unborn",
         \A x \in sessions' : x \in sessions \/ disk[x] = "unborn",
         pc'[t] = "quota" => /\ sess'[t] # s
                             /\ sess'[t] \in Sessions => waiters[sess'[t]] = <<>>,
         op'[t] = "ephemeral" /\ Waiting(t)' /\ sess'[t] \in sessions' => owner'[sess'[t]] = Sweeper
  PROVE  QueueInv'
<1>1. \A x \in Sessions : disk'[x] = "unborn" => waiters'[x] = <<>>
  BY DEF QueueInv
<1>2. ASSUME NEW u \in Tasks, pc'[u] = "quota" PROVE waiters'[sess'[u]] = <<>>
  <2>1. sess'[u] \in Sessions
    BY <1>2 DEF TypeOK, ReqTypes
  <2>2. CASE u = t
    BY <1>2, <2>1, <2>2
  <2>3. CASE u # t
    BY <1>2, <2>1, <2>3 DEF QueueInv
  <2> QED
    BY <2>2, <2>3
<1>3. ASSUME NEW u \in Tasks, u # t, op'[u] = "ephemeral", Waiting(u)', sess'[u] \in sessions'
      PROVE  owner'[sess'[u]] = Sweeper
  <2>1. op[u] = "ephemeral" /\ Waiting(u) /\ sess[u] \in sessions' /\ sess'[u] = sess[u]
    BY <1>3 DEF Waiting
  <2>2. sess[u] \in sessions /\ sess[u] \in Sessions
    BY <2>1 DEF SafeInv, UnbornUnknown, TypeOK, RegTypes
  <2> QED
    BY <2>1, <2>2, SweeperStays DEF QueueInv
<1> QED
  BY <1>1, <1>2, <1>3 DEF QueueInv

LEMMA QueueCreate ==
  ASSUME TypeOK, TypeOK', SafeInv, SafeInv', QueueInv, [Next]_vars, NEW t \in Tasks, Create(t)
  PROVE  QueueInv'
<1>0. None \notin Sessions
  BY ActorsAssumption
<1>1. CASE CreateRefused(t) \/ \E s \in Sessions : CreateFails(t, s)
  <2>1. Finish(t, "error") /\ sessions' = sessions /\ waiters' = waiters
    BY <1>1 DEF CreateRefused, CreateFails, regVars, lockVars
  <2>2. \A x \in Sessions : disk'[x] = "unborn" => disk[x] = "unborn"
    BY <1>1 DEF CreateRefused, CreateFails, diskVars, TypeOK, RegTypes
  <2>3. /\ pc'[t] = "idle"
        /\ \A u \in Tasks \ {t} : pc'[u] = pc[u] /\ op'[u] = op[u] /\ sess'[u] = sess[u]
    BY <2>1, MoveElse DEF Finish
  <2> QED
    BY <1>0, <2>1, <2>2, <2>3, QueueOther DEF Waiting, TypeOK, ReqTypes
<1>2. ASSUME NEW s \in Sessions, NEW o, CreateReserve(t, o, s) \/ CreateAtOnce(t, o, s)
      PROVE  QueueInv'
  <2>1. /\ disk[s] = "unborn" /\ sessions' = sessions \cup {s} /\ waiters' = waiters
        /\ disk' = [disk EXCEPT ![s] = "present"]
    BY <1>2 DEF CreateReserve, CreateAtOnce, lockVars
  <2>2. /\ \A u \in Tasks \ {t} : pc'[u] = pc[u] /\ op'[u] = op[u] /\ sess'[u] = sess[u]
        /\ pc'[t] \in {"quota", "seed", "idle", "body"}
        /\ pc'[t] = "quota" => sess'[t] = s
    BY <1>2, MoveElse DEF CreateReserve, CreateAtOnce, Hold, Finish
  <2>3. waiters[s] = <<>>
    BY <2>1 DEF QueueInv
  <2>4. \A x \in Sessions : disk'[x] = "unborn" => disk[x] = "unborn"
    BY <2>1 DEF TypeOK, RegTypes
  <2>5. \A u \in Tasks : pc[u] = "quota" => sess[u] # None
    BY <1>0 DEF TypeOK, ReqTypes
  <2>6. ~Waiting(t)'
    BY <2>2 DEF Waiting
  <2> QED
    BY <1>0, <2>1, <2>2, <2>3, <2>4, <2>5, <2>6, QueueOther
<1> QED
  BY <1>1, <1>2 DEF Create

LEMMA QueueLocked ==
  ASSUME TypeOK, TypeOK', SafeInv, SafeInv', QueueInv, [Next]_vars, NEW t \in Tasks, NEW o,
         NEW s \in Sessions, NEW p, NEW r, p = "body" \/ p = "remove", Locked(t, o, s, p, r),
         disk[s] # "unborn",
         \A u \in Tasks \ {t} : pc[u] = "quota" => sess[u] # s,
         o = "ephemeral" => owner[s] \in {None, Sweeper} /\ waiters[s] = <<>>
  PROVE  QueueInv'
<1>1. LockedStep(t, o, s)
  BY LockedElse
<1>2. op'[t] = "ephemeral" /\ Waiting(t)' => owner'[sess'[t]] = Sweeper
  BY <1>1 DEF LockedStep, Waiting
<1> QED
  BY <1>1, <1>2, QueueOther DEF LockedStep

LEMMA QueueHandler ==
  ASSUME TypeOK, TypeOK', SafeInv, SafeInv', QueueInv, [Next]_vars, NEW t \in Tasks, Handler(t)
  PROVE  QueueInv'
<1> DEFINE s == sess[t]
<1>1. pc[t] # "idle" /\ s \in Sessions
  BY DEF Handler, QuotaOk, QuotaFail, UndoDone, SeedDone, SeedFail, Grant, LockTimeout, Waiting,
         BodyEnd, LeaveBody, RemoveDone, TypeOK, ReqTypes
<1>2. disk[s] # "unborn"
  BY <1>1 DEF SafeInv, UnbornUnknown
<1>3. \A u \in Tasks \ {t} : pc[u] = "quota" => sess[u] # s
  BY DEF SafeInv, CreatedPrivate, OpFitsPc
<1>4. CASE QuotaOk(t) /\ op[t] = "ephemeral"
  <2>1. Locked(t, "ephemeral", s, "body", "none") /\ pc[t] = "quota"
    BY <1>4 DEF QuotaOk
  <2>2. owner[s] \notin Tasks
    <3>1. ASSUME NEW u \in Tasks, owner[s] = u PROVE FALSE
      <4>1. sess[u] = s /\ pc[u] \in {"body", "remove"}
        BY <1>1, <3>1, ActorsAssumption DEF SafeInv, LockOwnership, Inside
      <4> QED
        BY <1>4, <2>1, <4>1 DEF SafeInv, CreatedPrivate
    <3> QED
      BY <3>1
  <2>3. owner[s] \in {None, Sweeper} /\ waiters[s] = <<>>
    BY <1>1, <2>1, <2>2 DEF QueueInv, TypeOK, LockTypes
  <2> HIDE DEF s
  <2> QED
    BY <1>1, <1>2, <1>3, <2>1, <2>3, QueueLocked
<1>5. CASE SeedFail(t)
  BY <1>1, <1>2, <1>3, <1>5, QueueLocked DEF SeedFail
<1>6. CASE \/ QuotaOk(t) /\ op[t] # "ephemeral"
           \/ QuotaFail(t) \/ UndoDone(t) \/ SeedDone(t) \/ BodyEnd(t) \/ RemoveDone(t)
  <2>1. /\ waiters' = waiters /\ sessions' \subseteq sessions
        /\ \A x \in Sessions : disk'[x] = "unborn" => disk[x] = "unborn"
    BY <1>6
    DEF QuotaOk, QuotaFail, UndoDone, SeedDone, BodyEnd, LeaveBody, Release, RemoveDone, Retire,
        regVars, diskVars, lockVars, TypeOK, RegTypes
  <2>2. /\ \A u \in Tasks \ {t} : pc'[u] = pc[u] /\ op'[u] = op[u] /\ sess'[u] = sess[u]
        /\ pc'[t] \in {"seed", "idle", "undo", "remove"}
    BY <1>6, MoveElse
    DEF QuotaOk, QuotaFail, UndoDone, SeedDone, BodyEnd, LeaveBody, RemoveDone, Finish
  <2> QED
    BY <1>2, <1>3, <2>1, <2>2, QueueOther DEF Waiting
<1>7. CASE Grant(t)
  <2>1. /\ \A x \in Sessions \ {s} : waiters'[x] = waiters[x]
        /\ sessions' = sessions /\ disk' = disk
    BY <1>7 DEF Grant, TypeOK, LockTypes
  <2>2. /\ \A u \in Tasks \ {t} : pc'[u] = pc[u] /\ op'[u] = op[u] /\ sess'[u] = sess[u]
        /\ pc'[t] \in {"body", "remove", "idle"}
    BY <1>7, MoveElse DEF Grant, Hold, Finish
  <2> QED
    BY <1>2, <1>3, <2>1, <2>2, QueueOther DEF Waiting
<1>8. CASE LockTimeout(t)
  <2>1. /\ \A x \in Sessions \ {s} : waiters'[x] = waiters[x]
        /\ sessions' = sessions /\ disk' = disk /\ owner' = owner
    BY <1>8 DEF LockTimeout, regVars, diskVars, TypeOK, LockTypes
  <2>2. /\ \A u \in Tasks \ {t} : pc'[u] = pc[u] /\ op'[u] = op[u] /\ sess'[u] = sess[u]
        /\ \/ pc'[t] = "idle"
           \/ pc'[t] = "waitDel" /\ op'[t] = op[t] /\ sess'[t] = s
    BY <1>8, MoveElse DEF LockTimeout, Finish
  <2>3. Waiting(t)
    BY <1>8 DEF LockTimeout
  <2>4. op'[t] = "ephemeral" /\ Waiting(t)' /\ sess'[t] \in sessions' => owner'[sess'[t]] = Sweeper
    BY <2>1, <2>2, <2>3 DEF Waiting, QueueInv
  <2> QED
    BY <1>2, <1>3, <2>1, <2>2, <2>4, QueueOther
<1> QED
  BY <1>4, <1>5, <1>6, <1>7, <1>8 DEF Handler

LEMMA QueueNext ==
  TypeOK /\ TypeOK' /\ SafeInv /\ SafeInv' /\ QueueInv /\ [Next]_vars => QueueInv'
<1> SUFFICES ASSUME TypeOK, TypeOK', SafeInv, SafeInv', QueueInv, [Next]_vars
             PROVE  QueueInv'
  OBVIOUS
<1>1. ASSUME NEW t \in Tasks, NEW s \in Sessions, UseBegin(t, s) \/ DeleteBegin(t, s)
      PROVE  QueueInv'
  <2>1. s \in handed /\ disk[s] # "unborn"
    BY <1>1 DEF UseBegin, DeleteBegin, SafeInv, UnbornUnknown
  <2>2. \A u \in Tasks \ {t} : pc[u] = "quota" => sess[u] # s
    BY <2>1 DEF SafeInv, CreatedPrivate, OpFitsPc
  <2> QED
    BY <1>1, <2>1, <2>2, QueueLocked DEF UseBegin, DeleteBegin
<1>2. CASE Sweep \/ (\E s \in Sessions : Overdue(s)) \/ UNCHANGED vars
  <2>1. /\ pc' = pc /\ op' = op /\ sess' = sess /\ waiters' = waiters
        /\ sessions' \subseteq sessions
        /\ \A x \in Sessions : disk'[x] = "unborn" => disk[x] = "unborn"
    BY <1>2
    DEF Sweep, SweepStart, SweepRemoved, SweepEnd, SweepSkip, SweepTake, Retire, Release, Overdue,
        vars, reqVars, regVars, diskVars, lockVars, TypeOK, RegTypes
  <2>2. ASSUME NEW u \in Tasks, op'[u] = "ephemeral", Waiting(u)', sess'[u] \in sessions'
        PROVE  owner'[sess'[u]] = Sweeper
    <3>1. owner[sess[u]] = Sweeper /\ sess[u] \in Sessions /\ sess[u] \in sessions'
      BY <2>1, <2>2 DEF Waiting, QueueInv, TypeOK, RegTypes
    <3> QED
      BY <2>1, <3>1, SweeperStays
  <2> QED
    BY <2>1, <2>2 DEF QueueInv
<1> QED
  BY <1>1, <1>2, QueueCreate, QueueHandler DEF Next

\* When POST /execute is answered, however its create, its run and its removal
\* raced with the sweep and with timeouts, its session has left the registry or
\* the sweep is removing it (routes/execute.py, the `finally`).
THEOREM ThrowawayGoneCorrect == Spec => ThrowawayGone
<1>1. Init => QueueInv
  BY DEF Init, QueueInv, Waiting
<1>2. TypeOK /\ SafeInv /\ SafeInv' /\ QueueInv /\ [Next]_vars
      => [\A t \in Tasks :
            op[t] = "ephemeral" /\ pc'[t] = "idle" =>
              sess[t] \notin sessions' \/ owner'[sess[t]] = Sweeper]_vars
  <2> SUFFICES ASSUME TypeOK, SafeInv, SafeInv', QueueInv, Next, NEW t \in Tasks,
                      op[t] = "ephemeral", pc'[t] = "idle"
               PROVE  sess[t] \notin sessions' \/ owner'[sess[t]] = Sweeper
    OBVIOUS
  <2>0. pc[t] # "idle"
    BY DEF SafeInv, OpFitsPc
  <2>1. ASSUME NEW u \in Tasks, u # t, Create(u) \/ Handler(u) PROVE FALSE
    <3>1. pc'[t] = pc[t]
      BY <2>1
      DEF Create, CreateRefused, CreateFails, CreateReserve, CreateAtOnce, Handler, QuotaOk, QuotaFail,
          UndoDone, SeedDone, SeedFail, Grant, LockTimeout, BodyEnd, LeaveBody, RemoveDone, Locked,
          Hold, Finish, Move, TypeOK, ReqTypes
    <3> QED
      BY <2>0, <3>1
  <2>2. ASSUME NEW u \in Tasks, NEW s \in Sessions, UseBegin(u, s) \/ DeleteBegin(u, s) PROVE FALSE
    <3>1. pc[u] = "idle" /\ pc'[t] = pc[t]
      BY <2>0, <2>2 DEF UseBegin, DeleteBegin, Locked, Hold, Finish, Move, TypeOK, ReqTypes
    <3> QED
      BY <2>0, <3>1
  <2>3. ~Sweep /\ \A s \in Sessions : ~Overdue(s)
    BY <2>0
    DEF Sweep, SweepStart, SweepRemoved, SweepEnd, SweepSkip, SweepTake, Overdue, reqVars
  <2>4. Handler(t)
    BY <2>0, <2>1, <2>2, <2>3
    DEF Next, Create, CreateRefused, CreateFails, CreateReserve, CreateAtOnce
  <2>5. CASE QuotaOk(t)
    <3>1. Locked(t, "ephemeral", sess[t], "body", "none") /\ sess[t] \in Sessions
      BY <2>0, <2>5 DEF QuotaOk, TypeOK, ReqTypes
    <3> QED
      BY <3>1, LockedElse DEF LockedStep
  <2>6. CASE LockTimeout(t)
    <3>1. Waiting(t) /\ sessions' = sessions /\ owner' = owner
      BY <2>6 DEF LockTimeout, regVars
    <3> QED
      BY <3>1 DEF QueueInv
  <2>7. CASE Grant(t)
    <3>1. ~StillRegistered(sess[t]) /\ sessions' = sessions
      BY <2>7, MoveElse DEF Grant, Hold
    <3> QED
      BY <3>1 DEF StillRegistered
  <2>8. CASE UndoDone(t)
    BY <2>8 DEF UndoDone, regVars, SafeInv, InsideRegistered
  <2>9. CASE RemoveDone(t)
    BY <2>9 DEF RemoveDone, Retire
  <2>10. ~QuotaFail(t) /\ ~SeedDone(t) /\ ~SeedFail(t)
    <3>1. ~QuotaFail(t)
      BY MoveElse DEF QuotaFail
    <3> QED
      BY <3>1 DEF SeedDone, SeedFail, SafeInv, OpFitsPc
  <2>11. ~BodyEnd(t)
    BY MoveElse DEF BodyEnd, LeaveBody
  <2> QED
    BY <2>4, <2>5, <2>6, <2>7, <2>8, <2>9, <2>10, <2>11 DEF Handler
<1> QED
  BY <1>1, <1>2, QueueNext, TypeCorrect, SafeCorrect, PTL DEF Spec, ThrowawayGone

-----------------------------------------------------------------------------
(* The queue of a lock                                                       *)

\* Who queues at s, as far as the requests know.
WaitingAt(s) == {t \in Tasks : Waiting(t) /\ sess[t] = s}

\* A request that waits neither before nor after a step leaves the queues as they are.
LEMMA QueueStays ==
  ASSUME QueuedOnce, NEW t \in Tasks, waiters' = waiters,
         pc[t] \notin {"waitUse", "waitDel"}, pc'[t] \notin {"waitUse", "waitDel"},
         \A u \in Tasks \ {t} : pc'[u] = pc[u] /\ sess'[u] = sess[u]
  PROVE  QueuedOnce'
<1>1. \A s \in Sessions : WaitingAt(s)' = WaitingAt(s)
  BY DEF WaitingAt, Waiting
<1>2. \A s \in Sessions : IsInjective(waiters[s]) /\ ToSet(waiters[s]) = WaitingAt(s)
  BY DEF QueuedOnce, WaitingAt
<1> QED
  BY <1>1, <1>2 DEF QueuedOnce, WaitingAt

\* A request joins the queue of s, leaves it, or goes to its end, and nobody else moves.
LEMMA QueueChanges ==
  ASSUME TypeOK, QueuedOnce, NEW t \in Tasks, NEW s \in Sessions, NEW q,
         waiters' = [waiters EXCEPT ![s] = q], IsInjective(q),
         Waiting(t) => sess[t] = s, Waiting(t)' => sess'[t] = s,
         Waiting(t)' => ToSet(q) = ToSet(waiters[s]) \cup {t},
         ~Waiting(t)' => ToSet(q) = ToSet(waiters[s]) \ {t},
         \A u \in Tasks \ {t} : pc'[u] = pc[u] /\ sess'[u] = sess[u]
  PROVE  QueuedOnce'
<1>1. \A x \in Sessions : IsInjective(waiters[x]) /\ ToSet(waiters[x]) = WaitingAt(x)
  BY DEF QueuedOnce, WaitingAt
<1>2. waiters'[s] = q /\ \A x \in Sessions \ {s} : waiters'[x] = waiters[x]
  BY DEF TypeOK, LockTypes
<1>3. \A x \in Sessions \ {s} : WaitingAt(x)' = WaitingAt(x)
  BY DEF WaitingAt, Waiting
<1>4. WaitingAt(s)' = ToSet(q)
  <2>1. \A u \in Tasks \ {t} : u \in WaitingAt(s)' <=> u \in WaitingAt(s)
    BY DEF WaitingAt, Waiting
  <2>2. WaitingAt(s)' \subseteq Tasks /\ WaitingAt(s) \subseteq Tasks
    BY DEF WaitingAt
  <2>3. t \in WaitingAt(s)' <=> Waiting(t)'
    BY DEF WaitingAt
  <2> QED
    BY <1>1, <2>1, <2>2, <2>3
<1> QED
  BY <1>1, <1>2, <1>3, <1>4 DEF QueuedOnce, WaitingAt

\* `locked`, called by a request that waits for nothing else.
LEMMA QueueLocks ==
  ASSUME TypeOK, QueuedOnce, NEW t \in Tasks, NEW o, NEW s \in Sessions, NEW p, NEW r,
         p = "body" \/ p = "remove", Locked(t, o, s, p, r), ~Waiting(t)
  PROVE  QueuedOnce'
<1>1. CASE Finish(t, "error") /\ UNCHANGED lockVars
  BY <1>1, MoveElse, QueueStays DEF Finish, lockVars, Waiting
<1>2. CASE Hold(t, o, s, p, r) /\ UNCHANGED waiters
  <2>1. Move(t, o, s, p, r)
    BY <1>2 DEF Hold
  <2> QED
    BY <1>2, <2>1, MoveElse, QueueStays DEF Waiting
<1>3. CASE /\ Move(t, o, s, IF p = "body" THEN "waitUse" ELSE "waitDel", r)
           /\ waiters' = [waiters EXCEPT ![s] = Append(@, t)]
  <2> DEFINE q == Append(waiters[s], t)
  <2>1. waiters[s] \in Seq(Tasks) /\ waiters' = [waiters EXCEPT ![s] = q]
    BY <1>3 DEF TypeOK, LockTypes
  <2>2. IsInjective(waiters[s]) /\ t \notin ToSet(waiters[s])
    BY DEF QueuedOnce
  <2>3. IsInjective(q) /\ ToSet(q) = ToSet(waiters[s]) \cup {t}
    BY <2>1, <2>2, PushSet
  <2>4. /\ Waiting(t)' /\ sess'[t] = s
        /\ \A u \in Tasks \ {t} : pc'[u] = pc[u] /\ sess'[u] = sess[u]
    BY <1>3, MoveElse DEF Waiting
  <2> HIDE DEF q
  <2> QED
    BY <2>1, <2>3, <2>4, QueueChanges
<1> QED
  BY <1>1, <1>2, <1>3 DEF Locked

\* The first of the queue gets the lock, or learns that the session is gone.
LEMMA QueueGrants ==
  ASSUME TypeOK, QueuedOnce, NEW t \in Tasks, Grant(t)
  PROVE  QueuedOnce'
<1> DEFINE s == sess[t]
           q == Tail(waiters[s])
<1>1. /\ Waiting(t) /\ s \in Sessions /\ waiters[s] \in Seq(Tasks)
      /\ waiters[s] # <<>> /\ Head(waiters[s]) = t /\ waiters' = [waiters EXCEPT ![s] = q]
  BY DEF Grant, Waiting, TypeOK, ReqTypes, LockTypes
<1>2. IsInjective(q) /\ ToSet(q) = ToSet(waiters[s]) \ {t}
  <2>1. IsInjective(waiters[s])
    BY <1>1 DEF QueuedOnce
  <2> QED
    BY <1>1, <2>1, TailSet
<1>3. /\ ~Waiting(t)'
      /\ \A u \in Tasks \ {t} : pc'[u] = pc[u] /\ sess'[u] = sess[u]
  BY MoveElse DEF Grant, Hold, Finish, Waiting
<1> HIDE DEF s, q
<1> QED
  BY <1>1, <1>2, <1>3, QueueChanges DEF s

\* A request that waited too long leaves the queue; a throwaway execution goes to its end.
LEMMA QueueTimeout ==
  ASSUME TypeOK, QueuedOnce, NEW t \in Tasks, LockTimeout(t)
  PROVE  QueuedOnce'
<1> DEFINE s == sess[t]
<1>1. Waiting(t) /\ s \in Sessions /\ waiters[s] \in Seq(Tasks) /\ IsInjective(waiters[s])
  BY DEF LockTimeout, Waiting, TypeOK, ReqTypes, LockTypes, QueuedOnce
<1>2. PICK i \in 1..Len(waiters[s]) :
        /\ waiters[s][i] = t
        /\ \/ /\ Move(t, op[t], s, "waitDel", "error")
              /\ waiters' = [waiters EXCEPT ![s] = Append(RemoveAt(@, i), t)]
           \/ /\ Finish(t, "error")
              /\ waiters' = [waiters EXCEPT ![s] = RemoveAt(@, i)]
  BY DEF LockTimeout
<1> DEFINE q == RemoveAt(waiters[s], i)
<1>3. q \in Seq(Tasks) /\ IsInjective(q) /\ ToSet(q) = ToSet(waiters[s]) \ {t}
  BY <1>1, <1>2, RemoveSet
<1>4. CASE /\ Move(t, op[t], s, "waitDel", "error")
           /\ waiters' = [waiters EXCEPT ![s] = Append(RemoveAt(@, i), t)]
  <2> DEFINE p == Append(q, t)
  <2>1. waiters' = [waiters EXCEPT ![s] = p]
    BY <1>1, <1>4 DEF TypeOK, LockTypes
  <2>2. /\ Waiting(t)' /\ sess'[t] = s
        /\ \A u \in Tasks \ {t} : pc'[u] = pc[u] /\ sess'[u] = sess[u]
    BY <1>4, MoveElse DEF Waiting
  <2> HIDE DEF q
  <2>3. IsInjective(p) /\ ToSet(p) = ToSet(waiters[s]) \cup {t}
    BY <1>3, PushSet
  <2> HIDE DEF p, s
  <2> QED
    BY <1>1, <2>1, <2>2, <2>3, QueueChanges DEF s
<1>5. CASE Finish(t, "error") /\ waiters' = [waiters EXCEPT ![s] = RemoveAt(@, i)]
  <2>1. waiters' = [waiters EXCEPT ![s] = q]
    BY <1>1, <1>5 DEF TypeOK, LockTypes
  <2>2. ~Waiting(t)' /\ \A u \in Tasks \ {t} : pc'[u] = pc[u] /\ sess'[u] = sess[u]
    BY <1>5, MoveElse DEF Finish, Waiting
  <2> HIDE DEF q, s
  <2> QED
    BY <1>1, <1>3, <2>1, <2>2, QueueChanges DEF s
<1> QED
  BY <1>2, <1>4, <1>5

LEMMA QueuedOnceNext ==
  TypeOK /\ QueuedOnce /\ [Next]_vars => QueuedOnce'
<1> SUFFICES ASSUME TypeOK, QueuedOnce, [Next]_vars PROVE QueuedOnce'
  OBVIOUS
<1>1. ASSUME NEW t \in Tasks, Create(t) PROVE QueuedOnce'
  <2>1. /\ pc[t] = "idle" /\ waiters' = waiters
        /\ pc'[t] \in {"idle", "quota", "seed", "body"}
        /\ \A u \in Tasks \ {t} : pc'[u] = pc[u] /\ sess'[u] = sess[u]
    BY <1>1, MoveElse
    DEF Create, CreateRefused, CreateFails, CreateReserve, CreateAtOnce, Hold, Finish, lockVars
  <2> QED
    BY <2>1, QueueStays
<1>2. ASSUME NEW t \in Tasks, NEW s \in Sessions, UseBegin(t, s) \/ DeleteBegin(t, s)
      PROVE  QueuedOnce'
  BY <1>2, QueueLocks DEF UseBegin, DeleteBegin, Waiting
<1>3. ASSUME NEW t \in Tasks, SeedFail(t) \/ (QuotaOk(t) /\ op[t] = "ephemeral")
      PROVE  QueuedOnce'
  <2>1. pc[t] \in {"seed", "quota"} /\ sess[t] \in Sessions
    BY <1>3 DEF SeedFail, QuotaOk, TypeOK, ReqTypes
  <2> QED
    BY <1>3, <2>1, QueueLocks DEF SeedFail, QuotaOk, Waiting
<1>4. ASSUME NEW t \in Tasks,
             \/ QuotaOk(t) /\ op[t] # "ephemeral"
             \/ QuotaFail(t) \/ UndoDone(t) \/ SeedDone(t) \/ BodyEnd(t) \/ RemoveDone(t)
      PROVE  QueuedOnce'
  <2>1. waiters' = waiters /\ pc[t] \in {"quota", "undo", "seed", "body", "remove"}
    BY <1>4
    DEF QuotaOk, QuotaFail, UndoDone, SeedDone, BodyEnd, LeaveBody, Release, RemoveDone, Retire,
        lockVars
  <2>2. /\ \A u \in Tasks \ {t} : pc'[u] = pc[u] /\ sess'[u] = sess[u]
        /\ pc'[t] \in {"seed", "idle", "undo", "remove"}
    BY <1>4, MoveElse
    DEF QuotaOk, QuotaFail, UndoDone, SeedDone, BodyEnd, LeaveBody, RemoveDone, Finish
  <2> QED
    BY <2>1, <2>2, QueueStays
<1>5. CASE Sweep \/ (\E s \in Sessions : Overdue(s)) \/ UNCHANGED vars
  <2>1. pc' = pc /\ sess' = sess /\ waiters' = waiters
    BY <1>5
    DEF Sweep, SweepStart, SweepRemoved, SweepEnd, SweepSkip, SweepTake, Retire, Release, Overdue,
        vars, reqVars, lockVars
  <2> QED
    BY <2>1 DEF QueuedOnce, Waiting
<1> QED
  BY <1>1, <1>2, <1>3, <1>4, <1>5, QueueGrants, QueueTimeout DEF Next, Handler

\* A request that waits for a lock is in its queue once, and only such requests are, for any
\* number of requests and sessions: whoever gives up is out of the way of those behind it.
THEOREM QueuedOnceCorrect == Spec => []QueuedOnce
<1>1. Init => QueuedOnce
  <2> SUFFICES ASSUME Init, NEW s \in Sessions
               PROVE  /\ IsInjective(waiters[s])
                      /\ ToSet(waiters[s]) = {t \in Tasks : Waiting(t) /\ sess[t] = s}
    BY DEF QueuedOnce
  <2>1. waiters[s] = <<>> /\ DOMAIN <<>> = {}
    BY DEF Init
  <2>2. IsInjective(waiters[s])
    BY <2>1 DEF IsInjective
  <2>3. ToSet(waiters[s]) = {}
    BY <2>1 DEF ToSet
  <2>4. \A t \in Tasks : ~Waiting(t)
    BY DEF Init, Waiting
  <2> QED
    BY <2>2, <2>3, <2>4
<1> QED
  BY <1>1, QueuedOnceNext, TypeCorrect, PTL DEF Spec

-----------------------------------------------------------------------------
(* Project ids: no two sessions share an XFS project, no allowance is handed *)
(* on while it is partly spent, and no id is lost, provided that quota setup *)
(* never outlasts the inactivity limit (~SlowSetup).  Each step of the       *)
(* server is one of five kinds as far as ids are concerned; there is a lemma *)
(* for each kind.  The same premise keeps two removals of one directory      *)
(* apart.                                                                    *)

IdCore == IdBounds /\ ProjectIdsUnique /\ NoSpentAllowance /\ IdAccounting

\* Kind 1: nothing about ids changes, and only registered sessions get files.
LEMMA IdsQuiet ==
  ASSUME TypeOK, IdCore,
         UNCHANGED <<sessions, disk, pid, freeIds, nextId>>,
         used \subseteq used', used' \subseteq used \cup sessions
  PROVE  IdCore'
<1>1. CASE QuotaConfigured
  BY <1>1 DEF IdCore, IdBounds, ProjectIdsUnique, NoSpentAllowance, IdAccounting
<1>2. CASE ~QuotaConfigured
  BY <1>2 DEF IdCore, IdBounds, ProjectIdsUnique, NoSpentAllowance, IdAccounting,
              TypeOK, RegTypes
<1> QED
  BY <1>1, <1>2

\* Kind 2: the directory of an unregistered, empty session appears or goes.
LEMMA IdsDirectory ==
  ASSUME TypeOK, IdCore, NEW s \in Sessions, s \notin sessions \cup used,
         disk[s] # "left", disk'[s] # "unborn",
         disk' \in [Sessions -> Disks], \A x \in Sessions \ {s} : disk'[x] = disk[x],
         UNCHANGED <<sessions, used, pid, freeIds, nextId>>
  PROVE  IdCore'
<1>1. IdBounds' /\ ProjectIdsUnique'
  BY DEF IdCore, IdBounds, ProjectIdsUnique
<1>2. NoSpentAllowance'
  BY DEF IdCore, NoSpentAllowance, TypeOK, RegTypes
<1>3. IdAccounting'
  BY DEF IdCore, IdAccounting
<1> QED
  BY <1>1, <1>2, <1>3 DEF IdCore

\* Kind 3: a session is registered, with an id if there are quotas.
LEMMA IdsReserve ==
  ASSUME TypeOK, IdCore, NEW s \in Sessions, s \notin sessions \cup used,
         disk[s] = "unborn",
         sessions' = sessions \cup {s},
         disk' = [disk EXCEPT ![s] = "present"],
         QuotaConfigured, AllocateId(s), UNCHANGED used
  PROVE  IdCore'
<1> USE LimitsAssumption DEF NoProject
<1> DEFINE n == pid'[s]
<1>1. /\ n \in Nat \ {0} /\ nextId \in Nat
      /\ pid' = [pid EXCEPT ![s] = n]
      /\ \/ /\ n \in ToSet(freeIds) /\ nextId' = nextId
            /\ ToSet(freeIds') = ToSet(freeIds) \ {n}
         \/ /\ n = nextId /\ nextId' = nextId + 1 /\ freeIds' = freeIds
      /\ IsInjective(freeIds')
  <2>1. CASE freeIds # <<>>
    <3>1. /\ pid' = [pid EXCEPT ![s] = Last(freeIds)]
          /\ freeIds' = Front(freeIds) /\ nextId' = nextId
      BY <2>1 DEF AllocateId, IdsExhausted
    <3>2. /\ IsInjective(Front(freeIds)) /\ Last(freeIds) \in ToSet(freeIds)
          /\ ToSet(Front(freeIds)) = ToSet(freeIds) \ {Last(freeIds)}
      BY <2>1, PopSet DEF TypeOK, IdTypes, IdCore, ProjectIdsUnique
    <3> QED
      BY <3>1, <3>2 DEF TypeOK, IdTypes, IdCore, IdBounds
  <2>2. CASE freeIds = <<>>
    BY <2>2 DEF AllocateId, TypeOK, IdTypes, IdCore, IdBounds, ProjectIdsUnique
  <2> QED
    BY <2>1, <2>2
<1>2. \A x \in sessions : pid[x] # n
  BY <1>1 DEF IdCore, IdBounds, ProjectIdsUnique, TypeOK, RegTypes, IdTypes
<1>3. ToSet(freeIds') \subseteq ToSet(freeIds) /\ n \notin ToSet(freeIds')
  BY <1>1 DEF IdCore, IdBounds
<1>4. IdBounds'
  <2>1. \A x \in Sessions : pid'[x] < nextId'
    BY <1>1 DEF IdCore, IdBounds, TypeOK, IdTypes
  <2>2. ToSet(freeIds') \subseteq 1..(nextId' - 1)
    BY <1>1, <1>3 DEF IdCore, IdBounds
  <2> QED
    BY <1>1, <2>1, <2>2 DEF IdCore, IdBounds, TypeOK, IdTypes, RegTypes
<1>5. ProjectIdsUnique'
  BY <1>1, <1>2, <1>3 DEF IdCore, ProjectIdsUnique, TypeOK, IdTypes, RegTypes
<1>6. NoSpentAllowance'
  <2> SUFFICES ASSUME NEW x \in used, disk'[x] \in {"present", "left"}, pid'[x] # 0
               PROVE  /\ pid'[x] \notin ToSet(freeIds')
                      /\ \A r \in sessions' \ {x} : pid'[r] # pid'[x]
    BY DEF NoSpentAllowance
  <2>1. x # s /\ x \in Sessions /\ pid'[x] = pid[x] /\ disk'[x] = disk[x]
    BY <1>1 DEF TypeOK, RegTypes, IdTypes
  <2>2. pid[x] \notin ToSet(freeIds) /\ \A r \in sessions \ {x} : pid[r] # pid[x]
    BY <2>1 DEF IdCore, NoSpentAllowance
  <2>3. pid[x] # n
    BY <1>1, <2>1, <2>2 DEF IdCore, IdBounds, TypeOK, IdTypes
  <2> QED
    BY <1>1, <1>3, <2>1, <2>2, <2>3 DEF TypeOK, RegTypes, IdTypes
<1>7. IdAccounting'
  <2> SUFFICES ASSUME NEW m \in PROJECT_ID_BASE..(nextId' - 1)
               PROVE  \/ m \in ToSet(freeIds')
                      \/ \E x \in Sessions : pid'[x] = m /\ (x \in sessions' \/ disk'[x] = "left")
    BY DEF IdAccounting
  <2>1. CASE m = n
    BY <1>1, <2>1 DEF TypeOK, IdTypes
  <2>2. CASE m # n
    <3>1. m \in PROJECT_ID_BASE..(nextId - 1)
      BY <1>1, <2>2
    <3>2. \/ m \in ToSet(freeIds)
          \/ \E x \in Sessions \ {s} : pid[x] = m /\ (x \in sessions \/ disk[x] = "left")
      BY <3>1 DEF IdCore, IdAccounting
    <3> QED
      BY <1>1, <2>2, <3>2 DEF TypeOK, IdTypes, RegTypes
  <2> QED
    BY <2>1, <2>2
<1> QED
  BY <1>4, <1>5, <1>6, <1>7 DEF IdCore

\* Kind 4: a registered session leaves with its id, which can be reused.
LEMMA IdsRelease ==
  ASSUME TypeOK, IdCore, NEW s \in sessions,
         sessions' = sessions \ {s}, ReleaseId(s),
         s \in used => disk'[s] = "gone", disk'[s] # "unborn",
         disk' \in [Sessions -> Disks], \A x \in Sessions \ {s} : disk'[x] = disk[x],
         UNCHANGED <<used, pid, nextId>>
  PROVE  IdCore'
<1> USE LimitsAssumption DEF NoProject
<1>0. s \in Sessions /\ pid[s] \in Nat
  BY DEF TypeOK, RegTypes, IdTypes
<1>1. CASE pid[s] = 0
  <2>1. freeIds' = freeIds /\ ~QuotaConfigured
    BY <1>1 DEF ReleaseId, IdCore, IdBounds
  <2>2. IdBounds' /\ ProjectIdsUnique'
    BY <2>1 DEF IdCore, IdBounds, ProjectIdsUnique
  <2>3. NoSpentAllowance'
    BY <2>1 DEF IdCore, IdBounds, NoSpentAllowance, TypeOK, RegTypes
  <2>4. IdAccounting'
    BY <1>1, <2>1 DEF IdCore, IdAccounting
  <2> QED
    BY <2>2, <2>3, <2>4 DEF IdCore
<1>2. CASE pid[s] # 0
  <2>1. QuotaConfigured
    BY <1>0, <1>2 DEF IdCore, IdBounds
  <2>2. pid[s] \notin ToSet(freeIds) /\ IsInjective(freeIds)
    BY <2>1 DEF IdCore, ProjectIdsUnique
  <2>3. freeIds' = Append(freeIds, pid[s])
    BY <1>2 DEF ReleaseId
  <2>4. IsInjective(freeIds') /\ ToSet(freeIds') = ToSet(freeIds) \cup {pid[s]}
    BY <1>0, <2>2, <2>3, PushSet DEF TypeOK, IdTypes
  <2>5. IdBounds'
    <3>1. \A x \in Sessions : disk'[x] = "unborn" => pid'[x] = NoProject
      BY DEF IdCore, IdBounds
    <3>2. ToSet(freeIds') \subseteq 1..(nextId' - 1)
      BY <1>0, <1>2, <2>4 DEF IdCore, IdBounds, TypeOK, IdTypes
    <3> QED
      BY <2>1, <3>1, <3>2 DEF IdCore, IdBounds
  <2>6. ProjectIdsUnique'
    BY <2>1, <2>4 DEF IdCore, ProjectIdsUnique
  <2>7. NoSpentAllowance'
    BY <1>0, <2>1, <2>4 DEF IdCore, NoSpentAllowance, ProjectIdsUnique, TypeOK, RegTypes
  <2>8. IdAccounting'
    BY <1>0, <2>4 DEF IdCore, IdAccounting
  <2> QED
    BY <2>5, <2>6, <2>7, <2>8 DEF IdCore
<1> QED
  BY <1>1, <1>2

\* Kind 5: the tree of a registered session could not be removed, and its id is
\* held back with it.
LEMMA IdsHeldBack ==
  ASSUME TypeOK, IdCore, NEW s \in sessions,
         sessions' = sessions \ {s},
         disk' = [disk EXCEPT ![s] = "left"],
         UNCHANGED <<used, pid, freeIds, nextId>>
  PROVE  IdCore'
<1>0. s \in Sessions
  BY DEF TypeOK, RegTypes
<1>1. IdBounds' /\ ProjectIdsUnique'
  BY DEF IdCore, IdBounds, ProjectIdsUnique
<1>2. NoSpentAllowance'
  <2> SUFFICES ASSUME NEW x \in used, disk'[x] \in {"present", "left"}, pid[x] # NoProject
               PROVE  /\ pid[x] \notin ToSet(freeIds)
                      /\ \A r \in (sessions \ {s}) \ {x} : pid[r] # pid[x]
    BY DEF NoSpentAllowance
  <2>1. CASE x = s
    BY <1>0, <2>1 DEF IdCore, IdBounds, ProjectIdsUnique
  <2>2. CASE x # s
    BY <2>2 DEF IdCore, NoSpentAllowance, TypeOK, RegTypes
  <2> QED
    BY <2>1, <2>2
<1>3. IdAccounting'
  BY <1>0 DEF IdCore, IdAccounting, TypeOK, RegTypes
<1> QED
  BY <1>1, <1>2, <1>3 DEF IdCore

\* Without quotas nothing is ever allocated.
LEMMA IdsUnquoted ==
  ASSUME TypeOK, IdCore, ~QuotaConfigured, used' \subseteq Sessions, UNCHANGED idVars
  PROVE  IdCore'
<1>1. IdBounds' /\ ProjectIdsUnique'
  BY DEF IdCore, IdBounds, ProjectIdsUnique, idVars
<1>2. NoSpentAllowance'
  BY DEF IdCore, IdBounds, NoSpentAllowance, idVars
<1>3. IdAccounting'
  BY LimitsAssumption DEF IdCore, IdBounds, IdAccounting, idVars
<1> QED
  BY <1>1, <1>2, <1>3 DEF IdCore

\* The end of _delete, by a request or by the sweep.
LEMMA IdsRetire ==
  ASSUME TypeOK, IdCore, NEW s \in sessions, disk[s] = "present",
         NEW ok \in BOOLEAN, Retire(s, ok)
  PROVE  IdCore'
<1>1. /\ sessions' = sessions \ {s}
      /\ UNCHANGED <<used, pid, nextId>>
      /\ s \in Sessions
      /\ disk' = [disk EXCEPT ![s] = IF ok THEN "gone" ELSE "left"]
  BY DEF Retire, TypeOK, RegTypes
<1>2. CASE ok
  <2>1. ReleaseId(s)
    BY <1>2 DEF Retire, ReleaseIfRemoved
  <2>2. /\ disk'[s] = "gone" /\ disk' \in [Sessions -> Disks]
        /\ \A x \in Sessions \ {s} : disk'[x] = disk[x]
    BY <1>1, <1>2 DEF TypeOK, RegTypes, Disks
  <2> QED
    BY <1>1, <2>1, <2>2, IdsRelease
<1>3. CASE ~ok
  <2>1. UNCHANGED freeIds
    BY <1>3 DEF Retire, ReleaseIfRemoved
  <2> QED
    BY <1>1, <1>3, <2>1, IdsHeldBack
<1> QED
  BY <1>2, <1>3

-----------------------------------------------------------------------------
(* Sessions in quota setup.                                                  *)

InSetup(t) == pc[t] \in {"quota", "undo"}

\* A session in setup belongs to the one request that creates it.
LEMMA SetupPrivate ==
  ASSUME SafeInv, NEW t \in Tasks, InSetup(t)
  PROVE  /\ sess[t] \notin handed
         /\ \A u \in Tasks \ {t} : sess[u] # sess[t]
  BY DEF SafeInv, OpFitsPc, CreatedPrivate, InSetup

\* A step that touches no session in setup but those that leave it.
LEMMA SetupKept ==
  ASSUME TypeOK, SetupUntouched, NEW S \in SUBSET Sessions,
         \A t \in Tasks : InSetup(t)' =>
            pc'[t] = pc[t] /\ sess'[t] = sess[t] /\ sess[t] \notin S,
         sessions \subseteq sessions' \cup S,
         overdue' \subseteq overdue \cup S,
         swSeen' \subseteq swSeen \cup S,
         used' \subseteq used \cup S,
         swAt' \in {swAt, None} \cup S,
         \A x \in Sessions \ S : disk'[x] = disk[x]
  PROVE  SetupUntouched'
<1> SUFFICES ASSUME NEW t \in Tasks, InSetup(t)'
             PROVE  /\ pc'[t] = "quota" => sess'[t] \in sessions' \ (overdue' \cup swSeen' \cup used')
                    /\ pc'[t] = "undo" => sess'[t] \notin used' /\ disk'[sess'[t]] = "present"
                    /\ sess'[t] # swAt'
  BY DEF SetupUntouched, InSetup
<1>1. pc'[t] = pc[t] /\ sess'[t] = sess[t] /\ sess[t] \notin S /\ InSetup(t)
  BY DEF InSetup
<1>2. sess[t] \in Sessions /\ sess[t] # None
  BY <1>1, ActorsAssumption DEF InSetup, TypeOK, ReqTypes
<1>3. /\ pc[t] = "quota" => sess[t] \in sessions \ (overdue \cup swSeen \cup used)
      /\ pc[t] = "undo" => sess[t] \notin used /\ disk[sess[t]] = "present"
      /\ sess[t] # swAt
  BY <1>1 DEF SetupUntouched, InSetup
<1> QED
  BY <1>1, <1>2, <1>3

\* A request moves on outside setup; it may write to one registered session.
LEMMA IdsMoved ==
  ASSUME TypeOK, IdInv, NEW t \in Tasks, ~InSetup(t)',
         \A u \in Tasks \ {t} : pc'[u] = pc[u] /\ sess'[u] = sess[u],
         UNCHANGED <<sessions, disk, pid, freeIds, nextId, swPc, swAt>>,
         overdue' \subseteq overdue, swSeen' \subseteq swSeen,
         \/ used' = used
         \/ \E s \in sessions : /\ used' = used \cup {s}
                                /\ \A u \in Tasks \ {t} : InSetup(u) => sess[u] # s
  PROVE  IdInv'
<1>1. PICK S \in SUBSET sessions :
         /\ used' = used \cup S
         /\ \A u \in Tasks \ {t} : InSetup(u) => sess[u] \notin S
  <2>1. CASE used' = used
    <3> WITNESS {} \in SUBSET sessions
    <3> QED
      BY <2>1
  <2>2. CASE \E s \in sessions : /\ used' = used \cup {s}
                                 /\ \A u \in Tasks \ {t} : InSetup(u) => sess[u] # s
    <3> PICK s \in sessions : /\ used' = used \cup {s}
                              /\ \A u \in Tasks \ {t} : InSetup(u) => sess[u] # s
      BY <2>2
    <3> WITNESS {s} \in SUBSET sessions
    <3> QED
      OBVIOUS
  <2> QED
    BY <2>1, <2>2
<1>2. S \in SUBSET Sessions
  BY <1>1 DEF TypeOK, RegTypes
<1>3. \A u \in Tasks : InSetup(u)' => pc'[u] = pc[u] /\ sess'[u] = sess[u] /\ sess[u] \notin S
  BY <1>1 DEF InSetup
<1>4. SetupUntouched'
  BY <1>1, <1>2, <1>3, SetupKept DEF IdInv
<1>5. SweepRegistered'
  BY DEF IdInv, SweepRegistered
<1>6. IdCore'
  BY <1>1, IdsQuiet DEF IdInv, IdCore
<1> QED
  BY <1>4, <1>5, <1>6 DEF IdInv, IdCore

\* locked() on a session that is not in setup, or is leaving it.
LEMMA IdsLocked ==
  ASSUME TypeOK, IdInv,
         NEW t \in Tasks, NEW o \in Ops, NEW s \in Sessions,
         NEW p \in {"body", "remove"}, NEW r \in Replies, Locked(t, o, s, p, r),
         \A u \in Tasks \ {t} : InSetup(u) => sess[u] # s
  PROVE  IdInv'
<1>1. /\ UNCHANGED <<sessions, disk, pid, freeIds, nextId, swPc, swAt>>
      /\ \A u \in Tasks \ {t} : pc'[u] = pc[u] /\ sess'[u] = sess[u]
      /\ pc'[t] \in {"idle", "waitUse", "waitDel", "body", "remove"}
  BY DEF Locked, Hold, Finish, Move, TypeOK, ReqTypes, idVars
<1>2. /\ overdue' \subseteq overdue /\ swSeen' \subseteq swSeen
      /\ used' = used \/ (s \in sessions /\ used' = used \cup {s})
  BY DEF Locked, Hold, Touch
<1> QED
  BY <1>1, <1>2, IdsMoved DEF InSetup

-----------------------------------------------------------------------------
(* The steps of a request.                                                   *)

LEMMA IdsCreate ==
  ASSUME TypeOK, TypeOK', SafeInv, IdInv, NEW t \in Tasks, Create(t)
  PROVE  IdInv'
<1> USE DEF IdInv
<1>1. CASE CreateRefused(t)
  <2>1. /\ UNCHANGED <<sessions, overdue, disk, used, pid, freeIds, nextId, swPc, swAt, swSeen>>
        /\ \A u \in Tasks \ {t} : pc'[u] = pc[u] /\ sess'[u] = sess[u]
        /\ pc'[t] = "idle"
    BY <1>1 DEF CreateRefused, Finish, Move, TypeOK, ReqTypes, regVars, diskVars, idVars, sweepVars
  <2> QED
    BY <2>1, IdsMoved DEF InSetup
<1>2. CASE \E s \in Sessions : CreateFails(t, s)
  <2> PICK s \in Sessions : CreateFails(t, s)
    BY <1>2
  <2>1. /\ UNCHANGED <<sessions, overdue, used, pid, freeIds, nextId, swPc, swAt, swSeen>>
        /\ \A u \in Tasks \ {t} : pc'[u] = pc[u] /\ sess'[u] = sess[u]
        /\ pc'[t] = "idle"
        /\ disk[s] = "unborn" /\ (disk' = disk \/ disk' = [disk EXCEPT ![s] = "present"])
    BY DEF CreateFails, Finish, Move, TypeOK, ReqTypes, regVars, idVars, sweepVars
  <2>2. /\ \A u \in Tasks : sess[u] # s
        /\ s \notin sessions \cup used
    BY <2>1 DEF SafeInv, UnbornUnknown
  <2>3. \A u \in Tasks : InSetup(u)' => pc'[u] = pc[u] /\ sess'[u] = sess[u] /\ sess[u] \notin {s}
    BY <2>1, <2>2 DEF InSetup
  <2>4. \A x \in Sessions \ {s} : disk'[x] = disk[x]
    BY <2>1 DEF TypeOK, RegTypes
  <2>5. SetupUntouched'
    BY <2>1, <2>3, <2>4, SetupKept
  <2>6. SweepRegistered'
    BY <2>1 DEF SweepRegistered
  <2>7. CASE disk' = disk
    <3>1. IdCore'
      BY <2>1, <2>7, IdsQuiet DEF IdCore
    <3> QED
      BY <2>5, <2>6, <3>1 DEF IdCore
  <2>8. CASE disk' = [disk EXCEPT ![s] = "present"]
    <3>1. disk'[s] = "present" /\ disk' \in [Sessions -> Disks]
      BY <2>8 DEF TypeOK, RegTypes
    <3>2. IdCore'
      BY <2>1, <2>2, <2>4, <3>1, IdsDirectory DEF IdCore
    <3> QED
      BY <2>5, <2>6, <3>2 DEF IdCore
  <2> QED
    BY <2>1, <2>7, <2>8
<1>3. CASE \E s \in Sessions, o \in {"create", "ephemeral"} : CreateReserve(t, o, s)
  <2> PICK s \in Sessions, o \in {"create", "ephemeral"} : CreateReserve(t, o, s)
    BY <1>3
  <2>1. /\ sessions' = sessions \cup {s}
        /\ UNCHANGED <<overdue, used, swPc, swAt, swSeen>>
        /\ \A u \in Tasks \ {t} : pc'[u] = pc[u] /\ sess'[u] = sess[u]
        /\ pc'[t] = "quota" /\ sess'[t] = s
        /\ disk[s] = "unborn" /\ disk' = [disk EXCEPT ![s] = "present"]
        /\ QuotaConfigured /\ AllocateId(s)
    BY DEF CreateReserve, Move, TypeOK, ReqTypes, sweepVars
  <2>2. /\ \A u \in Tasks : sess[u] # s
        /\ s \notin sessions \cup overdue \cup used \cup swSeen
        /\ swAt # s
    BY <2>1 DEF SafeInv, UnbornUnknown
  <2>3. SetupUntouched'
    <3> SUFFICES ASSUME NEW u \in Tasks
                 PROVE  /\ pc'[u] = "quota" => sess'[u] \in sessions' \ (overdue' \cup swSeen' \cup used')
                        /\ pc'[u] = "undo" => sess'[u] \notin used' /\ disk'[sess'[u]] = "present"
                        /\ pc'[u] \in {"quota", "undo"} => sess'[u] # swAt'
      BY DEF SetupUntouched
    <3>1. CASE u = t
      BY <2>1, <2>2, <3>1
    <3>2. CASE u # t
      <4>1. pc'[u] = pc[u] /\ sess'[u] = sess[u] /\ sess[u] # s
        BY <2>1, <2>2, <3>2
      <4>2. disk'[sess[u]] = disk[sess[u]] \/ pc[u] = "idle"
        BY <2>1, <4>1 DEF TypeOK, ReqTypes, RegTypes
      <4> QED
        BY <2>1, <4>1, <4>2 DEF SetupUntouched
    <3> QED
      BY <3>1, <3>2
  <2>4. SweepRegistered'
    BY <2>1 DEF SweepRegistered
  <2>5. IdCore'
    BY <2>1, <2>2, IdsReserve DEF IdCore
  <2> QED
    BY <2>3, <2>4, <2>5 DEF IdCore
<1>4. CASE \E s \in Sessions, o \in {"create", "ephemeral"} : CreateAtOnce(t, o, s)
  <2> PICK s \in Sessions, o \in {"create", "ephemeral"} : CreateAtOnce(t, o, s)
    BY <1>4
  <2>1. /\ sessions' = sessions \cup {s}
        /\ UNCHANGED <<idVars, swPc, swAt>>
        /\ overdue' \subseteq overdue /\ swSeen' \subseteq swSeen
        /\ \A u \in Tasks \ {t} : pc'[u] = pc[u] /\ sess'[u] = sess[u]
        /\ pc'[t] \in {"seed", "idle", "body"}
        /\ disk[s] = "unborn" /\ disk' = [disk EXCEPT ![s] = "present"]
        /\ ~QuotaConfigured
    BY DEF CreateAtOnce, Hold, Touch, Finish, Move, TypeOK, ReqTypes
  <2>2. used' \subseteq used \cup {s}
    BY DEF CreateAtOnce, Hold
  <2>3. \A u \in Tasks : sess[u] # s
    BY <2>1 DEF SafeInv, UnbornUnknown
  <2>4. \A u \in Tasks : InSetup(u)' => pc'[u] = pc[u] /\ sess'[u] = sess[u] /\ sess[u] \notin {s}
    BY <2>1, <2>3 DEF InSetup
  <2>5. \A x \in Sessions \ {s} : disk'[x] = disk[x]
    BY <2>1 DEF TypeOK, RegTypes
  <2>6. SetupUntouched'
    BY <2>1, <2>2, <2>4, <2>5, SetupKept
  <2>7. SweepRegistered'
    BY <2>1 DEF SweepRegistered
  <2>8. used' \subseteq Sessions
    BY <2>2 DEF TypeOK, RegTypes
  <2>9. IdCore'
    BY <2>1, <2>8, IdsUnquoted DEF IdCore
  <2> QED
    BY <2>6, <2>7, <2>9 DEF IdCore
<1> QED
  BY <1>1, <1>2, <1>3, <1>4 DEF Create

\* Quota setup ends, one way or the other, and the undoing of a failed one.
LEMMA IdsSetup ==
  ASSUME TypeOK, SafeInv, IdInv, NEW t \in Tasks,
         QuotaOk(t) \/ QuotaFail(t) \/ UndoDone(t)
  PROVE  IdInv'
<1> DEFINE s == sess[t]
<1>0. /\ InSetup(t) /\ s \in Sessions
      /\ \A u \in Tasks \ {t} : InSetup(u) => sess[u] # s
  <2>1. InSetup(t)
    BY DEF QuotaOk, QuotaFail, UndoDone, InSetup
  <2> QED
    BY <2>1, SetupPrivate DEF InSetup, TypeOK, ReqTypes
<1>1. CASE QuotaOk(t) /\ op[t] = "create"
  <2>1. /\ UNCHANGED <<sessions, overdue, disk, pid, freeIds, nextId, swPc, swAt, swSeen>>
        /\ \A u \in Tasks \ {t} : pc'[u] = pc[u] /\ sess'[u] = sess[u]
        /\ pc'[t] \in {"seed", "idle"}
        /\ used' = used \/ used' = used \cup {s}
        /\ s \in sessions
    BY <1>1 DEF QuotaOk, Finish, Move, TypeOK, ReqTypes, regVars, diskVars, idVars, sweepVars,
                IdInv, SetupUntouched
  <2> QED
    BY <1>0, <2>1, IdsMoved DEF InSetup
<1>2. CASE QuotaOk(t) /\ op[t] = "ephemeral"
  <2>1. Locked(t, "ephemeral", s, "body", "none")
    BY <1>2 DEF QuotaOk
  <2> QED
    BY <1>0, <2>1, IdsLocked DEF Ops, Replies
<1>3. CASE QuotaFail(t)
  <2>1. /\ pc[t] = "quota" /\ sessions' = sessions \ {s} /\ overdue' = overdue \ {s}
        /\ ReleaseId(s)
        /\ UNCHANGED <<disk, used, pid, nextId, swPc, swAt, swSeen>>
        /\ pc'[t] = "undo" /\ sess'[t] = s
        /\ \A u \in Tasks \ {t} : pc'[u] = pc[u] /\ sess'[u] = sess[u]
    BY <1>3 DEF QuotaFail, Move, TypeOK, ReqTypes, diskVars, sweepVars
  <2>2. /\ s \in sessions \ used /\ s # swAt
        /\ disk[s] = "present"
    BY <2>1 DEF IdInv, SetupUntouched, SafeInv, RegisteredPresent
  <2>3. SetupUntouched'
    <3> SUFFICES ASSUME NEW u \in Tasks
                 PROVE  /\ pc'[u] = "quota" => sess'[u] \in sessions' \ (overdue' \cup swSeen' \cup used')
                        /\ pc'[u] = "undo" => sess'[u] \notin used' /\ disk'[sess'[u]] = "present"
                        /\ pc'[u] \in {"quota", "undo"} => sess'[u] # swAt'
      BY DEF SetupUntouched
    <3>1. CASE u = t
      BY <2>1, <2>2, <3>1
    <3>2. CASE u # t
      BY <1>0, <2>1, <3>2 DEF IdInv, SetupUntouched, InSetup
    <3> QED
      BY <3>1, <3>2
  <2>4. SweepRegistered'
    BY <2>1, <2>2 DEF IdInv, SweepRegistered
  <2>5. IdCore'
    BY <2>1, <2>2, IdsRelease DEF IdInv, IdCore, TypeOK, RegTypes
  <2> QED
    BY <2>3, <2>4, <2>5 DEF IdInv, IdCore
<1>4. CASE UndoDone(t)
  <2>1. /\ pc[t] = "undo"
        /\ UNCHANGED <<sessions, overdue, used, pid, freeIds, nextId, swPc, swAt, swSeen>>
        /\ \A u \in Tasks \ {t} : pc'[u] = pc[u] /\ sess'[u] = sess[u]
        /\ pc'[t] = "idle"
    BY <1>4 DEF UndoDone, Finish, Move, TypeOK, ReqTypes, regVars, idVars, sweepVars
  <2>2. PICK d \in {"gone", "left"} : disk' = [disk EXCEPT ![s] = d]
    BY <1>4 DEF UndoDone
  <2>3. /\ disk'[s] # "unborn" /\ disk' \in [Sessions -> Disks]
        /\ \A x \in Sessions \ {s} : disk'[x] = disk[x]
    BY <1>0, <2>2 DEF TypeOK, RegTypes, Disks
  <2>4. s \notin sessions \cup used /\ disk[s] = "present"
    BY <2>1 DEF SafeInv, InsideRegistered, IdInv, SetupUntouched
  <2>5. SetupUntouched'
    <3>1. \A u \in Tasks : InSetup(u)' =>
             pc'[u] = pc[u] /\ sess'[u] = sess[u] /\ sess[u] \notin {s}
      BY <1>0, <2>1 DEF InSetup
    <3> QED
      BY <1>0, <2>1, <2>3, <3>1, SetupKept DEF IdInv
  <2>6. SweepRegistered'
    BY <2>1 DEF IdInv, SweepRegistered
  <2>7. IdCore'
    BY <1>0, <2>1, <2>3, <2>4, IdsDirectory DEF IdInv, IdCore
  <2> QED
    BY <2>5, <2>6, <2>7 DEF IdInv, IdCore
<1> QED
  BY <1>1, <1>2, <1>3, <1>4 DEF QuotaOk

\* Deleting: s leaves the registry under its lock.
LEMMA IdsRetired ==
  ASSUME TypeOK, SafeInv, IdInv, NEW s \in sessions, NEW ok \in BOOLEAN, Retire(s, ok),
         \A u \in Tasks : InSetup(u)' => pc'[u] = pc[u] /\ sess'[u] = sess[u] /\ sess[u] # s,
         swSeen' = swSeen, swAt' \in {swAt, None},
         swPc' = "remove" => swPc = "remove" /\ swAt' = swAt /\ swAt # s
  PROVE  IdInv'
<1>1. /\ sessions' = sessions \ {s} /\ overdue' = overdue \ {s} /\ used' = used
      /\ s \in Sessions /\ disk[s] = "present"
      /\ \A x \in Sessions \ {s} : disk'[x] = disk[x]
  BY DEF Retire, TypeOK, RegTypes, SafeInv, RegisteredPresent
<1>2. SetupUntouched'
  <2>1. \A u \in Tasks : InSetup(u)' =>
           pc'[u] = pc[u] /\ sess'[u] = sess[u] /\ sess[u] \notin {s}
    OBVIOUS
  <2> QED
    BY <1>1, <2>1, SetupKept DEF IdInv
<1>3. SweepRegistered'
  BY <1>1 DEF IdInv, SweepRegistered
<1>4. IdCore'
  BY <1>1, IdsRetire DEF IdInv, IdCore
<1> QED
  BY <1>2, <1>3, <1>4 DEF IdInv, IdCore

\* The other steps of a handler.
LEMMA IdsHandler ==
  ASSUME TypeOK, SafeInv, IdInv, NEW t \in Tasks,
         \/ SeedDone(t) \/ SeedFail(t) \/ Grant(t)
         \/ LockTimeout(t) \/ BodyEnd(t) \/ RemoveDone(t)
  PROVE  IdInv'
<1> DEFINE s == sess[t]
<1>1. CASE SeedDone(t)
  <2>1. /\ UNCHANGED <<sessions, overdue, disk, used, pid, freeIds, nextId, swPc, swAt, swSeen>>
        /\ \A u \in Tasks \ {t} : pc'[u] = pc[u] /\ sess'[u] = sess[u]
        /\ pc'[t] = "idle"
    BY <1>1 DEF SeedDone, Finish, Move, TypeOK, ReqTypes, diskVars, idVars, sweepVars
  <2> QED
    BY <2>1, IdsMoved DEF InSetup
<1>2. CASE SeedFail(t)
  <2>1. pc[t] = "seed" /\ s \in Sessions /\ Locked(t, "create", s, "remove", "error")
    BY <1>2 DEF SeedFail, TypeOK, ReqTypes
  <2>2. \A u \in Tasks \ {t} : InSetup(u) => sess[u] # s
    BY <2>1 DEF SafeInv, OpFitsPc, CreatedPrivate, InSetup
  <2> QED
    BY <2>1, <2>2, IdsLocked DEF Ops, Replies
<1>3. CASE Grant(t)
  <2>1. /\ UNCHANGED <<sessions, disk, pid, freeIds, nextId, swPc, swAt>>
        /\ \A u \in Tasks \ {t} : pc'[u] = pc[u] /\ sess'[u] = sess[u]
        /\ pc'[t] \in {"idle", "body", "remove"}
    BY <1>3 DEF Grant, Hold, Finish, Move, TypeOK, ReqTypes, idVars
  <2>2. /\ overdue' \subseteq overdue /\ swSeen' \subseteq swSeen
        /\ used' = used \/ (s \in sessions /\ used' = used \cup {s})
    BY <1>3 DEF Grant, StillRegistered, Hold, Touch
  <2>3. \A u \in Tasks \ {t} : InSetup(u) => sess[u] # s
    BY <1>3, SetupPrivate
  <2> QED
    BY <2>1, <2>2, <2>3, IdsMoved DEF InSetup
<1>4. CASE LockTimeout(t)
  <2>1. /\ UNCHANGED <<sessions, overdue, disk, used, pid, freeIds, nextId, swPc, swAt, swSeen>>
        /\ \A u \in Tasks \ {t} : pc'[u] = pc[u] /\ sess'[u] = sess[u]
        /\ pc'[t] \in {"idle", "waitDel"}
    BY <1>4 DEF LockTimeout, Finish, Move, TypeOK, ReqTypes, regVars, diskVars, idVars, sweepVars
  <2> QED
    BY <2>1, IdsMoved DEF InSetup
<1>5. CASE BodyEnd(t)
  <2>1. /\ UNCHANGED <<sessions, disk, used, pid, freeIds, nextId, swPc, swAt>>
        /\ \A u \in Tasks \ {t} : pc'[u] = pc[u] /\ sess'[u] = sess[u]
        /\ pc'[t] \in {"idle", "remove"}
    BY <1>5 DEF BodyEnd, LeaveBody, Finish, Move, TypeOK, ReqTypes, regVars, diskVars, idVars
  <2>2. overdue' \subseteq overdue /\ swSeen' \subseteq swSeen
    BY <1>5 DEF BodyEnd, LeaveBody, Touch, regVars
  <2> QED
    BY <2>1, <2>2, IdsMoved DEF InSetup
<1>6. CASE RemoveDone(t)
  <2>1. PICK ok \in BOOLEAN : Retire(s, ok)
    BY <1>6 DEF RemoveDone
  <2>2. /\ pc[t] = "remove" /\ pc'[t] = "idle"
        /\ UNCHANGED <<swPc, swAt, swSeen>>
        /\ \A u \in Tasks \ {t} : pc'[u] = pc[u] /\ sess'[u] = sess[u]
    BY <1>6 DEF RemoveDone, Finish, Move, TypeOK, ReqTypes, sweepVars
  <2>3. s \in sessions /\ \A u \in Tasks \ {t} : InSetup(u) => sess[u] # s
    BY <2>2, SetupPrivate DEF SafeInv, InsideRegistered
  <2>4. swPc = "remove" => swAt # s
    BY <2>2, <2>3, ActorsAssumption DEF SafeInv, LockOwnership, Inside, TypeOK, RegTypes
  <2> QED
    BY <2>1, <2>2, <2>3, <2>4, IdsRetired DEF InSetup
<1> QED
  BY <1>1, <1>2, <1>3, <1>4, <1>5, <1>6

LEMMA IdsOverdue ==
  ASSUME TypeOK, IdInv, ~SlowSetup, NEW s \in Sessions, Overdue(s)
  PROVE  IdInv'
<1>1. /\ UNCHANGED <<pc, sess, sessions, disk, used, pid, freeIds, nextId, swPc, swAt, swSeen>>
      /\ overdue' = overdue \cup {s}
      /\ \A t \in Tasks : ~(pc[t] = "quota" /\ sess[t] = s)
  BY DEF Overdue, reqVars, diskVars, idVars, sweepVars
<1>2. SetupUntouched'
  BY <1>1 DEF IdInv, SetupUntouched
<1>3. SweepRegistered'
  BY <1>1 DEF IdInv, SweepRegistered
<1>4. IdCore'
  BY <1>1, IdsQuiet DEF IdInv, IdCore
<1> QED
  BY <1>2, <1>3, <1>4 DEF IdInv, IdCore

-----------------------------------------------------------------------------
(* The sweep cannot reach a session in setup: it has never been overdue.      *)

LEMMA IdsSweep ==
  ASSUME TypeOK, SafeInv, IdInv, Sweep
  PROVE  IdInv'
<1>1. CASE SweepStart \/ SweepEnd \/ \E s \in Sessions : SweepSkip(s)
  <2>1. /\ UNCHANGED <<pc, sess, sessions, overdue, disk, used, pid, freeIds, nextId, swAt>>
        /\ swPc' # "remove"
        /\ swSeen' \subseteq swSeen \cup overdue
    BY <1>1 DEF SweepStart, SweepEnd, SweepSkip, reqVars, regVars, diskVars, idVars
  <2>2. SetupUntouched'
    BY <2>1 DEF IdInv, SetupUntouched
  <2>3. SweepRegistered'
    BY <2>1 DEF SweepRegistered
  <2>4. IdCore'
    BY <2>1, IdsQuiet DEF IdInv, IdCore
  <2> QED
    BY <2>2, <2>3, <2>4 DEF IdInv, IdCore
<1>2. CASE \E s \in Sessions : SweepTake(s)
  <2> PICK s \in Sessions : SweepTake(s)
    BY <1>2
  <2>1. /\ UNCHANGED <<pc, sess, sessions, overdue, disk, used, pid, freeIds, nextId, swSeen>>
        /\ swAt' = s /\ s \in sessions /\ s \in swSeen
    BY DEF SweepTake, Sweepable, StillRegistered, reqVars, regVars, diskVars, idVars
  <2>2. SetupUntouched'
    <3>1. \A t \in Tasks : InSetup(t) => sess[t] # s
      BY <2>1 DEF IdInv, SetupUntouched, SafeInv, InsideRegistered, InSetup
    <3> QED
      BY <2>1, <3>1 DEF IdInv, SetupUntouched, InSetup
  <2>3. SweepRegistered'
    BY <2>1 DEF SweepRegistered
  <2>4. IdCore'
    BY <2>1, IdsQuiet DEF IdInv, IdCore
  <2> QED
    BY <2>2, <2>3, <2>4 DEF IdInv, IdCore
<1>3. CASE SweepRemoved
  <2>1. PICK ok \in BOOLEAN : Retire(swAt, ok)
    BY <1>3 DEF SweepRemoved
  <2>2. /\ swPc = "remove" /\ swPc' = "pass" /\ swAt' = None
        /\ UNCHANGED <<pc, sess, swSeen>>
    BY <1>3 DEF SweepRemoved, reqVars
  <2>3. swAt \in sessions /\ \A u \in Tasks : InSetup(u) => sess[u] # swAt
    BY <2>2 DEF IdInv, SetupUntouched, SweepRegistered, InSetup
  <2> QED
    BY <2>1, <2>2, <2>3, IdsRetired DEF InSetup
<1> QED
  BY <1>1, <1>2, <1>3 DEF Sweep

-----------------------------------------------------------------------------
LEMMA IdsInit == Init => IdInv
<1> SUFFICES ASSUME Init PROVE IdInv
  OBVIOUS
<1>1. SetupUntouched /\ SweepRegistered
  BY DEF Init, SetupUntouched, SweepRegistered
<1>2. ToSet(freeIds) = {} /\ IsInjective(freeIds)
  BY LenProperties DEF Init, ToSet, IsInjective
<1>3. IdBounds
  BY <1>2, LimitsAssumption DEF Init, IdBounds, NoProject
<1>4. ProjectIdsUnique /\ NoSpentAllowance
  BY <1>2 DEF Init, ProjectIdsUnique, NoSpentAllowance
<1>5. IdAccounting
  BY LimitsAssumption DEF Init, IdAccounting
<1> QED
  BY <1>1, <1>3, <1>4, <1>5 DEF IdInv

LEMMA IdsNext ==
  ASSUME ~SlowSetup, TypeOK, TypeOK', SafeInv, IdInv, [Next]_vars
  PROVE  IdInv'
<1>1. CASE \E t \in Tasks : Create(t)
  BY <1>1, IdsCreate
<1>2. CASE \E t \in Tasks : Handler(t)
  BY <1>2, IdsSetup, IdsHandler DEF Handler
<1>3. CASE \E t \in Tasks, s \in Sessions : UseBegin(t, s) \/ DeleteBegin(t, s)
  <2> PICK t \in Tasks, s \in Sessions : UseBegin(t, s) \/ DeleteBegin(t, s)
    BY <1>3
  <2>1. s \in handed
    BY DEF UseBegin, DeleteBegin
  <2>2. \A u \in Tasks \ {t} : InSetup(u) => sess[u] # s
    BY <2>1, SetupPrivate
  <2>3. \/ Locked(t, "use", s, "body", "none")
        \/ Locked(t, "delete", s, "remove", "none")
    BY DEF UseBegin, DeleteBegin
  <2> QED
    BY <2>2, <2>3, IdsLocked DEF Ops, Replies
<1>4. CASE \E s \in Sessions : Overdue(s)
  BY <1>4, IdsOverdue
<1>5. CASE Sweep
  BY <1>5, IdsSweep
<1>6. CASE UNCHANGED vars
  BY <1>6
  DEF vars, reqVars, regVars, diskVars, idVars, lockVars, sweepVars, IdInv,
      SetupUntouched, SweepRegistered, IdBounds, ProjectIdsUnique, NoSpentAllowance, IdAccounting
<1> QED
  BY <1>1, <1>2, <1>3, <1>4, <1>5, <1>6 DEF Next

\* The inductive invariant of the id proofs holds whenever quota setup cannot
\* outlast the inactivity limit.
THEOREM IdCorrect ==
  ASSUME ~SlowSetup
  PROVE  Spec => []IdInv
<1>1. TypeOK /\ TypeOK' /\ SafeInv /\ IdInv /\ [Next]_vars => IdInv'
  BY IdsNext
<1> QED
  BY <1>1, IdsInit, TypeCorrect, SafeCorrect, PTL DEF Spec

\* No two registered sessions share an XFS project: _allocate_project_id never
\* returns an id in use, whatever the interleaving.
THEOREM ProjectIdsUniqueCorrect ==
  ASSUME ~SlowSetup
  PROVE  Spec => []ProjectIdsUnique
<1>1. IdInv => ProjectIdsUnique
  BY DEF IdInv
<1> QED
  BY <1>1, IdCorrect, PTL

\* An id whose allowance is partly spent is not handed on (the comment in _delete).
THEOREM NoSpentAllowanceCorrect ==
  ASSUME ~SlowSetup
  PROVE  Spec => []NoSpentAllowance
<1>1. IdInv => NoSpentAllowance
  BY DEF IdInv
<1> QED
  BY <1>1, IdCorrect, PTL

\* No id is ever lost: it is reusable, in use, or held back with its tree.
THEOREM IdAccountingCorrect ==
  ASSUME ~SlowSetup
  PROVE  Spec => []IdAccounting
<1>1. IdInv => IdAccounting
  BY DEF IdInv
<1> QED
  BY <1>1, IdCorrect, PTL

\* No two removals of one directory overlap: not the undoing of a failed create
\* and the sweep, nor a deletion and either (sessions.py, _remove_tree).
THEOREM OneRemoverCorrect ==
  ASSUME ~SlowSetup
  PROVE  Spec => []OneRemover
<1>1. TypeOK /\ SafeInv /\ IdInv => OneRemover
  <2> SUFFICES ASSUME TypeOK, SafeInv, IdInv, NEW s \in Sessions, NEW a \in Removers(s)
               PROVE  /\ \A b \in Removers(s) : b = a
                      /\ a \in Tasks \cup {Sweeper}
                      /\ disk[s] = "present"
    BY DEF OneRemover, Removers
  <2>1. ASSUME NEW b \in Removers(s)
        PROVE  \/ b \in Tasks /\ pc[b] = "remove" /\ sess[b] = s /\ owner[s] = b
               \/ b \in Tasks /\ pc[b] = "undo" /\ sess[b] = s
               \/ b = Sweeper /\ swAt = s /\ owner[s] = Sweeper /\ swPc = "remove"
    BY <2>1, ActorsAssumption DEF Removers, Inside, SafeInv, LockOwnership
  <2>2. ASSUME NEW b \in Tasks, pc[b] = "undo", sess[b] = s
        PROVE  /\ \A c \in Tasks \ {b} : sess[c] # s
               /\ swAt # s /\ disk[s] = "present"
    BY <2>2 DEF SafeInv, OpFitsPc, CreatedPrivate, IdInv, SetupUntouched
  <2>3. ASSUME NEW b \in Removers(s), NEW c \in Removers(s) PROVE b = c
    BY <2>1, <2>2, <2>3
  <2>4. disk[s] = "present"
    BY <2>1, <2>2 DEF SafeInv, InsideRegistered, RegisteredPresent, IdInv, SweepRegistered
  <2> QED
    BY <2>1, <2>3, <2>4
<1> QED
  BY <1>1, TypeCorrect, SafeCorrect, IdCorrect, PTL
=============================================================================
