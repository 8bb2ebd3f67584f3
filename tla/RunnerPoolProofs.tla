-------------------------- MODULE RunnerPoolProofs --------------------------
(***************************************************************************)
(* Proofs about the pool of runners, for every set of pids, every size of  *)
(* the pool and every close timeout.                                       *)
(***************************************************************************)
EXTENDS RunnerPool, FiniteSetTheorems, TLAPS

Assumptions == /\ Pids \subseteq Nat \ {0} /\ IsFiniteSet(Pids)
               /\ MaxPreCachedRunners \in Nat
               /\ CloseTimeout \in Nat \ {0}
               /\ CommandMayFail \in BOOLEAN

\* The named assumptions of the modules, as one fact.
LEMMA ConstantsOK == Assumptions
BY PidsAssumption, MaxAssumption, TimeoutAssumption, MayFailAssumption
   DEF Assumptions

\* What the proofs need to know of the size of a set of processes.
LEMMA PidSetSize ==
    ASSUME NEW S \in SUBSET Pids, NEW T \in SUBSET S
    PROVE  /\ IsFiniteSet(S) /\ IsFiniteSet(T)
           /\ Cardinality(S) \in Nat /\ Cardinality(T) \in Nat
           /\ Cardinality(T) <= Cardinality(S)
<1>1. IsFiniteSet(S)
  BY ConstantsOK, FS_Subset DEF Assumptions
<1>2. IsFiniteSet(T) /\ Cardinality(T) <= Cardinality(S)
  BY <1>1, FS_Subset
<1> QED  BY <1>1, <1>2, FS_CardinalityType

----------------------------------------------------------------------------
(***************************************************************************)
(* Type correctness.                                                       *)
(***************************************************************************)

\* Reporting a count leaves the manager's variables well typed.
LEMMA CountChangedType ==
    ASSUME LMTypeOK, NEW ready \in SUBSET Pids, NEW n, CountChanged(ready, n)
    PROVE  LMTypeOK'
BY DEF LMTypeOK, CountChanged, PoolIsMissingSome

\* Every variable of the pool keeps its type.
THEOREM PoolTypeCorrect == PoolSpec => []PoolTypeOK
<1>1. PoolInit => PoolTypeOK
  BY ConstantsOK
     DEF Assumptions, PoolInit, LMInit, PoolTypeOK, LMTypeOK, Stages, Signals,
         PoolIsMissingSome
<1>2. PoolTypeOK /\ [PoolNext]_poolVars => PoolTypeOK'
  <2> SUFFICES ASSUME PoolTypeOK, [PoolNext]_poolVars
               PROVE  PoolTypeOK'
    OBVIOUS
  <2> USE DEF PoolTypeOK
  <2>1. CASE \E p \in Pids : Register(p) \/ Leave(p)
    BY <2>1, CountChangedType DEF Register, Leave
  <2>2. CASE \E p, q \in Pids : RegisterAndUse(p, q)
    BY <2>2, CountChangedType DEF RegisterAndUse
  <2>3. CASE FindEmpty
    BY <2>3, CountChangedType DEF FindEmpty
  <2> USE ConstantsOK DEF Assumptions, LMTypeOK, Stages, Signals
  <2>4. ASSUME NEW p \in Pids, Close(p)
        PROVE  PoolTypeOK'
    BY <2>4 DEF Close, Terminate, StartClosing
  <2>5. ASSUME NEW p \in Pids, ProcessEnds(p), UNCHANGED << seen, pooled >>
        PROVE  PoolTypeOK'
    BY <2>5 DEF ProcessEnds
  <2>6. ASSUME NEW p \in Pids, ExecFails(p), UNCHANGED << seen, pooled >>
        PROVE  PoolTypeOK'
    BY <2>6 DEF ExecFails
  <2>7. ASSUME NEW p \in Pids, LaunchTimeout(p), UNCHANGED << seen, pooled >>
        PROVE  PoolTypeOK'
    BY <2>7 DEF LaunchTimeout
  <2>8. ASSUME NEW p \in Pids, OnProcessFinished(p), UNCHANGED << seen, pooled >>
        PROVE  PoolTypeOK'
    BY <2>8 DEF OnProcessFinished
  <2>9. ASSUME NEW p \in Pids, OnProcessError(p), UNCHANGED << seen, pooled >>
        PROVE  PoolTypeOK'
    BY <2>9 DEF OnProcessError
  <2>10. ASSUME NEW p \in Pids, OnProcessDestroyed(p), UNCHANGED << seen, pooled >>
         PROVE  PoolTypeOK'
    BY <2>10 DEF OnProcessDestroyed
  <2>11. CASE Tick /\ UNCHANGED << seen, pooled >>
    BY <2>11 DEF Tick
  <2>12. CASE CloseTimerFires /\ UNCHANGED << seen, pooled >>
    <3>1. Waits \subseteq -1 .. CloseTimeout
      BY DEF Waits, Overdue
    <3>2. m_closeTimer' = -1 \/ m_closeTimer' \in Waits
      BY <2>12 DEF CloseTimerFires, KillOverdue
    <3>3. -1 \in -1 .. CloseTimeout
      OBVIOUS
    <3>4. m_closeTimer' \in -1 .. CloseTimeout
      BY ONLY <3>1, <3>2, <3>3
    <3> QED
      BY <2>12, <3>4 DEF CloseTimerFires, KillOverdue, Overdue
  <2>13. CASE UNCHANGED poolVars
    BY <2>13 DEF poolVars, lmVars
  <2> QED
    BY <2>1, <2>2, <2>3, <2>4, <2>5, <2>6, <2>7, <2>8, <2>9, <2>10, <2>11,
       <2>12, <2>13 DEF PoolNext, ServerStep, ManagerStep
<1> QED  BY <1>1, <1>2, PTL DEF PoolSpec

----------------------------------------------------------------------------
(***************************************************************************)
(* The bound of the pool.                                                  *)
(*                                                                         *)
(* PoolBound alone is not inductive: the launch timer could start a runner *)
(* in a full pool (TimerMeansRoom), a runner could be counted twice        *)
(* (CountedOnce), and a late REGISTER_REQUEST could add a live runner that *)
(* was not counted before (UnseenStarts).                                  *)
(***************************************************************************)
UnseenStarts ==
    \A p \in Pids : proc[p] \in {"alive", "dead", "failed"} /\ p \notin seen =>
        p \in m_startingUp

SeenWereForked == \A p \in seen : proc[p] # "none"

PoolInv ==
    /\ PoolTypeOK
    /\ CountedOnce
    /\ pooled \subseteq seen
    /\ SeenWereForked
    /\ UnseenStarts
    /\ PoolBound
    /\ TimerMeansRoom

\* Fewer idle runners keep the bound, and the room the timer stands for.
LEMMA IdleShrinks ==
    ASSUME PoolInv, PoolTypeOK', Idle' \subseteq Idle,
           m_launchTimer' => m_launchTimer
    PROVE  PoolBound' /\ TimerMeansRoom'
<1>1. Idle \subseteq Pids /\ Idle' \subseteq Pids
  BY DEF PoolInv, PoolTypeOK, LMTypeOK, Idle
<1>2. /\ Cardinality(Idle) \in Nat /\ Cardinality(Idle') \in Nat
      /\ Cardinality(Idle') <= Cardinality(Idle)
  BY <1>1, PidSetSize
<1> QED
  BY <1>2, ConstantsOK DEF Assumptions, PoolInv, PoolBound, TimerMeansRoom

\* After a count was reported the timer is set only when there is room.
LEMMA CountedRoom ==
    ASSUME PoolInv, PoolTypeOK', Idle' \subseteq Idle,
           NEW ready, CountChanged(ready, Cardinality(pooled'))
    PROVE  PoolBound' /\ TimerMeansRoom'
<1>1. Idle \subseteq Pids /\ Idle' \subseteq Pids
  BY DEF PoolInv, PoolTypeOK, LMTypeOK, Idle
<1>2. /\ Cardinality(Idle) \in Nat /\ Cardinality(Idle') \in Nat
      /\ Cardinality(Idle') <= Cardinality(Idle)
  BY <1>1, PidSetSize
<1>3. /\ Idle' \subseteq m_startingUp' \cup pooled'
      /\ m_startingUp' \cup pooled' \in SUBSET Pids
      /\ m_startingUp' \in SUBSET Pids /\ pooled' \in SUBSET Pids
  BY DEF Idle, PoolTypeOK, LMTypeOK
<1>4. Cardinality(Idle') <= Cardinality(m_startingUp' \cup pooled')
  BY <1>3, PidSetSize
<1>5. /\ IsFiniteSet(m_startingUp') /\ IsFiniteSet(pooled')
      /\ Cardinality(m_startingUp') \in Nat /\ Cardinality(pooled') \in Nat
      /\ Cardinality(m_startingUp' \cap pooled') \in Nat
  BY <1>3, PidSetSize
<1>6. Cardinality(m_startingUp' \cup pooled')
        = Cardinality(m_startingUp') + Cardinality(pooled')
            - Cardinality(m_startingUp' \cap pooled')
  BY <1>5, FS_Union
<1>7. Cardinality(Idle') <= Cardinality(m_startingUp') + Cardinality(pooled')
  BY <1>2, <1>4, <1>5, <1>6
<1>8. m_launchTimer' => MaxPreCachedRunners
                          - (Cardinality(m_startingUp') + Cardinality(pooled')) > 0
  BY DEF CountChanged, PoolIsMissingSome
<1> QED
  BY <1>2, <1>5, <1>7, <1>8, ConstantsOK
     DEF Assumptions, PoolInv, PoolBound, TimerMeansRoom

\* Initially there is no runner, and the timer is set if the pool may hold one.
LEMMA PoolInvInit == PoolInit => PoolInv
<1> SUFFICES ASSUME PoolInit PROVE PoolInv
  OBVIOUS
<1>1. PoolTypeOK
  BY ConstantsOK
     DEF Assumptions, PoolInit, LMInit, PoolTypeOK, LMTypeOK, Stages, Signals,
         PoolIsMissingSome
<1>2. Cardinality({}) = 0
  BY FS_EmptySet
<1>3. Cardinality(Idle) = 0
  <2>1. Idle = {}
    BY DEF PoolInit, LMInit, Idle
  <2> QED
    BY <1>2, <2>1
<1>4. m_launchTimer => MaxPreCachedRunners - (0 + 0) > 0
  BY <1>2 DEF PoolInit, LMInit, PoolIsMissingSome
<1>5. PoolBound /\ TimerMeansRoom
  BY <1>3, <1>4, ConstantsOK DEF Assumptions, PoolBound, TimerMeansRoom
<1> QED
  BY <1>1, <1>5 DEF PoolInv, PoolInit, LMInit, CountedOnce, SeenWereForked, UnseenStarts

\* Every step keeps the invariant.
LEMMA PoolInvNext == PoolInv /\ PoolTypeOK' /\ [PoolNext]_poolVars => PoolInv'
<1> SUFFICES ASSUME PoolInv, PoolTypeOK', [PoolNext]_poolVars
             PROVE  PoolInv'
  OBVIOUS
<1> DEFINE Rest == CountedOnce /\ pooled \subseteq seen /\ SeenWereForked /\ UnseenStarts
<1> SUFFICES Rest' /\ PoolBound' /\ TimerMeansRoom'
  BY DEF PoolInv
<1>0. Rest
  BY DEF PoolInv
<1>t. PoolTypeOK
  BY DEF PoolInv
<1>1. ASSUME NEW p \in Pids, Register(p)
      PROVE  Rest' /\ PoolBound' /\ TimerMeansRoom'
  <2>1. Rest'
    BY <1>1, <1>0 DEF Register, MayRegister, CountChanged, CountedOnce, SeenWereForked,
                      UnseenStarts
  <2>2. Idle' \subseteq Idle
    BY <1>1, <1>0, <1>t DEF Register, MayRegister, CountChanged, UnseenStarts, Idle
  <2> QED
    BY <1>1, <2>1, <2>2, CountedRoom DEF Register
<1>2. ASSUME NEW p \in Pids, NEW q \in Pids, RegisterAndUse(p, q)
      PROVE  Rest' /\ PoolBound' /\ TimerMeansRoom'
  <2>1. Rest'
    BY <1>2, <1>0 DEF RegisterAndUse, MayRegister, CountChanged, CountedOnce,
                      SeenWereForked, UnseenStarts
  <2>2. Idle' \subseteq Idle
    BY <1>2, <1>0, <1>t DEF RegisterAndUse, MayRegister, CountChanged, UnseenStarts, Idle
  <2> QED
    BY <1>2, <2>1, <2>2, CountedRoom DEF RegisterAndUse
<1>3. ASSUME NEW p \in Pids, Leave(p)
      PROVE  Rest' /\ PoolBound' /\ TimerMeansRoom'
  <2>1. Rest'
    BY <1>3, <1>0 DEF Leave, CountChanged, CountedOnce, SeenWereForked, UnseenStarts
  <2>2. Idle' \subseteq Idle
    BY <1>3 DEF Leave, CountChanged, Idle
  <2> QED
    BY <1>3, <2>1, <2>2, CountedRoom DEF Leave
<1>4. CASE FindEmpty
  <2>1. Rest'
    BY <1>4, <1>0 DEF FindEmpty, CountChanged, CountedOnce, SeenWereForked, UnseenStarts
  <2>2. Idle' \subseteq Idle
    BY <1>4 DEF FindEmpty, CountChanged, Idle
  <2>3. Cardinality(pooled') = 0
    BY <1>4, FS_EmptySet DEF FindEmpty
  <2> QED
    BY <1>4, <2>1, <2>2, <2>3, CountedRoom DEF FindEmpty
<1>5. ASSUME NEW p \in Pids, Close(p)
      PROVE  Rest' /\ PoolBound' /\ TimerMeansRoom'
  <2>1. Rest'
    BY <1>5, <1>0 DEF Close, Terminate, StartClosing, CountedOnce, SeenWereForked, UnseenStarts
  <2>2. Idle' \subseteq Idle /\ (m_launchTimer' => m_launchTimer)
    BY <1>5 DEF Close, Terminate, StartClosing, Idle
  <2> QED
    BY <2>1, <2>2, IdleShrinks
<1> USE DEF PoolTypeOK, LMTypeOK
<1>6. ASSUME NEW p \in Pids, ProcessEnds(p), UNCHANGED << seen, pooled >>
      PROVE  Rest' /\ PoolBound' /\ TimerMeansRoom'
  <2>1. Rest'
    BY <1>6, <1>0, <1>t DEF ProcessEnds, CountedOnce, SeenWereForked, UnseenStarts
  <2>2. Idle' \subseteq Idle /\ (m_launchTimer' => m_launchTimer)
    BY <1>6, <1>t DEF ProcessEnds, Idle
  <2> QED
    BY <2>1, <2>2, IdleShrinks
<1>7. ASSUME NEW p \in Pids, ExecFails(p), UNCHANGED << seen, pooled >>
      PROVE  Rest' /\ PoolBound' /\ TimerMeansRoom'
  <2>1. Rest'
    BY <1>7, <1>0, <1>t DEF ExecFails, CountedOnce, SeenWereForked, UnseenStarts
  <2>2. Idle' \subseteq Idle /\ (m_launchTimer' => m_launchTimer)
    BY <1>7, <1>t DEF ExecFails, Idle
  <2> QED
    BY <2>1, <2>2, IdleShrinks
<1>8. ASSUME NEW p \in Pids, LaunchTimeout(p), UNCHANGED << seen, pooled >>
      PROVE  Rest' /\ PoolBound' /\ TimerMeansRoom'
  <2>1. Rest'
    BY <1>8, <1>0, <1>t DEF LaunchTimeout, IsFreshPid, CountedOnce, SeenWereForked,
                            UnseenStarts
  <2>2. Idle' \subseteq Idle \cup {p} /\ Idle \subseteq Pids
    BY <1>8, <1>t DEF LaunchTimeout, Idle
  <2>3. /\ IsFiniteSet(Idle) /\ Cardinality(Idle) \in Nat
        /\ Cardinality(Idle') \in Nat
        /\ Cardinality(Idle') <= Cardinality(Idle \cup {p})
    BY <2>2, PidSetSize
  <2>4. Cardinality(Idle \cup {p}) <= Cardinality(Idle) + 1
    <3>1. Cardinality(Idle \cup {p})
            = IF p \in Idle THEN Cardinality(Idle) ELSE Cardinality(Idle) + 1
      BY <2>3, FS_AddElement
    <3> QED
      BY <2>3, <3>1
  <2>5. Cardinality(Idle) < MaxPreCachedRunners /\ ~m_launchTimer'
    BY <1>8 DEF LaunchTimeout, PoolInv, TimerMeansRoom
  <2>6. Cardinality(Idle \cup {p}) \in Nat
    BY <2>2, PidSetSize
  <2> QED
    BY <2>1, <2>3, <2>4, <2>5, <2>6, ConstantsOK
       DEF Assumptions, PoolBound, TimerMeansRoom
<1>9. ASSUME NEW p \in Pids, OnProcessFinished(p), UNCHANGED << seen, pooled >>
      PROVE  Rest' /\ PoolBound' /\ TimerMeansRoom'
  <2>1. Rest'
    BY <1>9, <1>0, <1>t DEF OnProcessFinished, CountedOnce, SeenWereForked, UnseenStarts
  <2>2. Idle' \subseteq Idle \ {p}
    BY <1>9, <1>t DEF OnProcessFinished, Idle
  <2>3. CASE p \notin m_startingUp
    BY <1>9, <2>1, <2>2, <2>3, IdleShrinks DEF OnProcessFinished
  <2>4. CASE p \in m_startingUp
    <3>1. p \in Idle /\ Idle \subseteq Pids
      BY <2>4, <1>t DEF Idle
    <3>2. IsFiniteSet(Idle) /\ Cardinality(Idle) \in Nat
          /\ Cardinality(Idle') \in Nat
          /\ Cardinality(Idle') <= Cardinality(Idle \ {p})
      BY <2>2, <3>1, PidSetSize
    <3>3. Cardinality(Idle \ {p}) = Cardinality(Idle) - 1
      BY <3>1, <3>2, FS_RemoveElement
    <3> QED
      BY <2>1, <3>2, <3>3, ConstantsOK
         DEF Assumptions, PoolInv, PoolBound, TimerMeansRoom
  <2> QED
    BY <2>3, <2>4
<1>10. ASSUME NEW p \in Pids, OnProcessError(p), UNCHANGED << seen, pooled >>
       PROVE  Rest' /\ PoolBound' /\ TimerMeansRoom'
  <2>1. Rest'
    BY <1>10, <1>0, <1>t DEF OnProcessError, CountedOnce, SeenWereForked, UnseenStarts
  <2>2. Idle' \subseteq Idle /\ (m_launchTimer' => m_launchTimer)
    BY <1>10, <1>t DEF OnProcessError, Idle
  <2> QED
    BY <2>1, <2>2, IdleShrinks
<1>11. ASSUME NEW p \in Pids, OnProcessDestroyed(p), UNCHANGED << seen, pooled >>
       PROVE  Rest' /\ PoolBound' /\ TimerMeansRoom'
  <2>1. Rest'
    BY <1>11, <1>0, <1>t DEF OnProcessDestroyed, CountedOnce, SeenWereForked, UnseenStarts
  <2>2. Idle' \subseteq Idle /\ (m_launchTimer' => m_launchTimer)
    BY <1>11, <1>t DEF OnProcessDestroyed, Idle
  <2> QED
    BY <2>1, <2>2, IdleShrinks
<1>12. ASSUME Tick \/ CloseTimerFires, UNCHANGED << seen, pooled >>
       PROVE  Rest' /\ PoolBound' /\ TimerMeansRoom'
  <2>1. UNCHANGED << m_startingUp, m_launchTimer, proc, seen, pooled >>
    BY <1>12 DEF Tick, CloseTimerFires, KillOverdue
  <2>2. Rest'
    BY <1>0, <2>1 DEF CountedOnce, SeenWereForked, UnseenStarts
  <2>3. Idle' \subseteq Idle /\ (m_launchTimer' => m_launchTimer)
    BY <2>1 DEF Idle
  <2> QED
    BY <2>2, <2>3, IdleShrinks
<1>13. CASE UNCHANGED poolVars
  <2>1. UNCHANGED << m_startingUp, m_launchTimer, proc, seen, pooled >>
    BY <1>13 DEF poolVars, lmVars
  <2>2. Rest'
    BY <1>0, <2>1 DEF CountedOnce, SeenWereForked, UnseenStarts
  <2>3. Idle' \subseteq Idle /\ (m_launchTimer' => m_launchTimer)
    BY <2>1 DEF Idle
  <2> QED
    BY <2>2, <2>3, IdleShrinks
<1> QED
  BY <1>1, <1>2, <1>3, <1>4, <1>5, <1>6, <1>7, <1>8, <1>9, <1>10, <1>11, <1>12,
     <1>13 DEF PoolNext, ServerStep, ManagerStep

\* The bound of the pool, with all that makes it inductive, always holds.
THEOREM PoolInvariant == PoolSpec => []PoolInv
<1>1. PoolTypeOK /\ PoolTypeOK' /\ PoolInv /\ [PoolNext]_poolVars => PoolInv'
  BY PoolInvNext
<1> QED
  BY <1>1, PoolInvInit, PoolTypeCorrect, PTL DEF PoolSpec

\* There are never more idle runners than the pool is meant to hold, for every
\* size of the pool and any number of processes that come and go.
THEOREM PoolNeverOverfull == PoolSpec => []PoolBound
<1>1. PoolInv => PoolBound
  BY DEF PoolInv
<1> QED
  BY <1>1, PoolInvariant, PTL

\* The launch timer is set only while there is room for another runner.
THEOREM TimerOnlyWithRoom == PoolSpec => []TimerMeansRoom
<1>1. PoolInv => TimerMeansRoom
  BY DEF PoolInv
<1> QED
  BY <1>1, PoolInvariant, PTL

----------------------------------------------------------------------------
(***************************************************************************)
(* Closing processes.                                                      *)
(*                                                                         *)
(* A process that has no QProcess object has never been forked or is gone, *)
(* so a new one never starts out closing; and whatever is closing and alive*)
(* has been sent a signal.                                                 *)
(***************************************************************************)
RunningWasForked == \A p \in m_running : proc[p] # "none"

ClosingWasSignalled == \A p \in m_closing : proc[p] = "alive" => signal[p] # "none"

CloseInv ==
    /\ PoolTypeOK
    /\ CloseTimerCoversDeadlines
    /\ RunningWasForked
    /\ ClosingWasSignalled

\* Every step keeps the invariant of the closing processes.
LEMMA CloseInvNext == CloseInv /\ PoolTypeOK' /\ [PoolNext]_poolVars => CloseInv'
<1> SUFFICES ASSUME CloseInv, PoolTypeOK', [PoolNext]_poolVars
             PROVE  CloseInv'
  OBVIOUS
<1> DEFINE Inv == /\ CloseTimerCoversDeadlines
                  /\ RunningWasForked /\ ClosingWasSignalled
<1> SUFFICES Inv'
  BY DEF CloseInv
<1>0. PoolTypeOK /\ Inv
  BY DEF CloseInv
<1> USE <1>0, ConstantsOK
    DEF Assumptions, PoolTypeOK, LMTypeOK, ClosingIsRunning, RunningWasForked,
        ClosingWasSignalled, CloseTimerCoversDeadlines
<1>1. ASSUME NEW ready, NEW n, CountChanged(ready, n)
      PROVE  Inv'
  BY <1>1 DEF CountChanged
<1>2. ASSUME NEW p \in Pids, Close(p)
      PROVE  Inv'
  <2>1. ClosingIsRunning' /\ RunningWasForked' /\ ClosingWasSignalled'
    BY <1>2 DEF Close, Terminate, StartClosing, CanTerminate
  <2>2. CloseTimerCoversDeadlines'
    BY <1>2 DEF Close, Terminate, StartClosing, CanTerminate
  <2> QED
    BY <2>1, <2>2
<1>3. ASSUME NEW p \in Pids, ProcessEnds(p) \/ ExecFails(p) \/ OnProcessError(p)
      PROVE  Inv'
  BY <1>3 DEF ProcessEnds, ExecFails, OnProcessError
<1>4. ASSUME NEW p \in Pids, LaunchTimeout(p)
      PROVE  Inv'
  BY <1>4 DEF LaunchTimeout, IsFreshPid
<1>5. ASSUME NEW p \in Pids, OnProcessFinished(p)
      PROVE  Inv'
  BY <1>5 DEF OnProcessFinished
<1>6. ASSUME NEW p \in Pids, OnProcessDestroyed(p)
      PROVE  Inv'
  BY <1>6 DEF OnProcessDestroyed
<1>7. CASE Tick
  <2>1. ClosingIsRunning' /\ RunningWasForked' /\ ClosingWasSignalled'
    BY <1>7 DEF Tick
  <2>2. ASSUME NEW p \in m_closing
        PROVE  m_closeTimer' # -1 /\ m_closeTimer' <= CloseTimeout - closeAge'[p]
    BY <1>7, <2>2 DEF Tick
  <2>3. m_closing' = m_closing
    BY <1>7 DEF Tick
  <2> QED
    BY <2>1, <2>2, <2>3
<1>8. CASE CloseTimerFires
  <2>1. ClosingIsRunning' /\ RunningWasForked' /\ ClosingWasSignalled'
    BY <1>8 DEF CloseTimerFires, KillOverdue
  <2>2. ASSUME NEW p \in m_closing'
        PROVE  m_closeTimer' # -1 /\ m_closeTimer' <= CloseTimeout - closeAge'[p]
    <3>1. p \in m_closing \ Overdue /\ closeAge' = closeAge
      BY <1>8, <2>2 DEF CloseTimerFires, KillOverdue
    <3>2. CloseTimeout - closeAge[p] \in Waits
      BY <3>1 DEF Waits
    <3>3. m_closeTimer' \in Waits /\ m_closeTimer' <= CloseTimeout - closeAge[p]
      BY <1>8, <3>2 DEF CloseTimerFires, KillOverdue
    <3>4. \A w \in Waits : w # -1
      BY DEF Waits, Overdue
    <3> QED
      BY <3>1, <3>3, <3>4
  <2> QED
    BY <2>1, <2>2
<1>9. CASE UNCHANGED poolVars
  BY <1>9 DEF poolVars, lmVars
<1> QED
  BY <1>1, <1>2, <1>3, <1>4, <1>5, <1>6, <1>7, <1>8, <1>9
     DEF PoolNext, ServerStep, ManagerStep, Register, RegisterAndUse, Leave, FindEmpty

\* The invariant of the closing processes always holds.
THEOREM CloseInvariant == PoolSpec => []CloseInv
<1>1. PoolInit /\ PoolTypeOK => CloseInv
  BY DEF PoolInit, LMInit, CloseInv, ClosingIsRunning, CloseTimerCoversDeadlines,
         RunningWasForked, ClosingWasSignalled
<1>2. PoolTypeOK /\ PoolTypeOK' /\ CloseInv /\ [PoolNext]_poolVars => CloseInv'
  BY CloseInvNext
<1> QED
  BY <1>1, <1>2, PoolTypeCorrect, PTL DEF PoolSpec

\* closeTimeoutHandler() never dereferences the null pointer that value()
\* returns for a process without a QProcess object.
THEOREM ClosingAlwaysRunning == PoolSpec => []ClosingIsRunning
<1>1. CloseInv => ClosingIsRunning
  BY DEF CloseInv, CloseTimerCoversDeadlines
<1> QED
  BY <1>1, CloseInvariant, PTL

\* The close timer is never set later than the first deadline, and every process
\* it then looks up has its QProcess object.
THEOREM CloseTimerInTime == PoolSpec => []CloseTimerCoversDeadlines
<1>1. CloseInv => CloseTimerCoversDeadlines
  BY DEF CloseInv
<1> QED
  BY <1>1, CloseInvariant, PTL

\* No process is killed before it had SIGTERM and the whole CLOSE_TIMEOUT.
THEOREM KillIsLastResort == PoolSpec => KillOnlyAfterTimeout
<1> DEFINE Kill(p) == /\ signal[p] = "term"
                      /\ p \in m_closing
                      /\ closeAge[p] = CloseTimeout
           Step    == \A p \in Pids :
                          signal'[p] = "kill" /\ signal[p] # "kill" => Kill(p)
<1>1. CloseInv /\ [PoolNext]_poolVars => [Step]_lmVars
  <2> SUFFICES ASSUME CloseInv, PoolNext, NEW p \in Pids,
                      signal'[p] = "kill", signal[p] # "kill"
               PROVE  Kill(p)
    BY DEF poolVars
  <2>0. PoolTypeOK
    BY DEF CloseInv
  <2> USE <2>0 DEF PoolTypeOK, LMTypeOK
  <2>1. CASE CloseTimerFires
    <3>1. p \in Overdue /\ proc[p] = "alive"
      BY <2>1 DEF CloseTimerFires, KillOverdue
    <3>2. closeAge[p] = CloseTimeout
      BY <3>1, ConstantsOK DEF Overdue, Assumptions
    <3>3. signal[p] = "term"
      BY <3>1 DEF Overdue, CloseInv, ClosingWasSignalled, Signals
    <3> QED
      BY <3>1, <3>2, <3>3 DEF Overdue
  <2>2. CASE \E q \in Pids : Close(q)
    BY <2>2 DEF Close, Terminate, StartClosing
  <2>3. CASE ~CloseTimerFires /\ ~\E q \in Pids : Close(q)
    <3>1. signal' = signal
      BY <2>3 DEF PoolNext, ServerStep, ManagerStep, Register, RegisterAndUse, Leave,
                  FindEmpty, CountChanged, ProcessEnds, ExecFails, LaunchTimeout,
                  OnProcessFinished, OnProcessError, OnProcessDestroyed, Tick
    <3> QED
      BY <3>1
  <2> QED
    BY <2>1, <2>2, <2>3
<1> QED
  BY <1>1, CloseInvariant, PTL DEF PoolSpec, KillOnlyAfterTimeout

----------------------------------------------------------------------------
(***************************************************************************)
(* A short pool is refilled, when the runner command can be executed.      *)
(***************************************************************************)
StartingIsForked ==
    \A p \in Pids : /\ proc[p] # "failed"
                    /\ p \in m_startingUp => proc[p] \in {"alive", "dead"}

RefillInv == PoolInv /\ StartingIsForked /\ ShortPoolIsRefilled

\* Every step keeps a short pool being refilled: reports of a count set the timer,
\* the timer leaves a runner starting up, and a runner that ends before it
\* registers leaves the timer.
LEMMA RefillInvNext ==
    RefillInv /\ PoolInv' /\ NoExecFails' /\ [PoolNext]_poolVars => RefillInv'
<1> SUFFICES ASSUME RefillInv, PoolInv', NoExecFails', [PoolNext]_poolVars
             PROVE  StartingIsForked' /\ ShortPoolIsRefilled'
  BY DEF RefillInv
<1>0. PoolTypeOK /\ StartingIsForked /\ ShortPoolIsRefilled
  BY DEF RefillInv, PoolInv
<1>a. ASSUME NEW ready, CountChanged(ready, Cardinality(pooled'))
      PROVE  StartingIsForked' /\ ShortPoolIsRefilled'
  <2>1. StartingIsForked'
    BY <1>0, <1>a DEF CountChanged, StartingIsForked
  <2>2. /\ Cardinality(m_startingUp') \in Nat
        /\ Cardinality(pooled') \in Nat
    BY PidSetSize DEF PoolInv, PoolTypeOK, LMTypeOK
  <2>3. MaxPreCachedRunners - (Cardinality(m_startingUp') + Cardinality(pooled')) > 0
          => m_launchTimer'
    BY <1>a DEF CountChanged, PoolIsMissingSome
  <2>4. ShortPoolIsRefilled'
    BY <2>2, <2>3, ConstantsOK DEF Assumptions, ShortPoolIsRefilled
  <2> QED
    BY <2>1, <2>4
<1>1. CASE \E p \in Pids : Register(p) \/ Leave(p)
  BY <1>1, <1>a DEF Register, Leave
<1>2. CASE \E p, q \in Pids : RegisterAndUse(p, q)
  BY <1>2, <1>a DEF RegisterAndUse
<1>3. CASE FindEmpty
  <2>1. Cardinality(pooled') = 0
    BY <1>3, FS_EmptySet DEF FindEmpty
  <2> QED
    BY <1>3, <1>a, <2>1 DEF FindEmpty
<1> USE <1>0 DEF PoolTypeOK, LMTypeOK, StartingIsForked, ShortPoolIsRefilled
<1>4. CASE (\E p \in Pids : Close(p) \/ ProcessEnds(p)) /\ UNCHANGED << seen, pooled >>
  BY <1>4 DEF Close, Terminate, StartClosing, ProcessEnds
<1>5. CASE \E p \in Pids : ExecFails(p) \/ OnProcessError(p)
  BY <1>5 DEF ExecFails, OnProcessError, NoExecFails
<1>6. CASE \E p \in Pids : LaunchTimeout(p)
  BY <1>6 DEF LaunchTimeout
<1>7. ASSUME NEW p \in Pids, OnProcessFinished(p), UNCHANGED << seen, pooled >>
      PROVE  StartingIsForked' /\ ShortPoolIsRefilled'
  <2>1. StartingIsForked'
    BY <1>7 DEF OnProcessFinished
  <2>2. CASE p \in m_startingUp
    BY <1>7, <2>1, <2>2 DEF OnProcessFinished
  <2>3. CASE p \notin m_startingUp
    <3>1. UNCHANGED << m_startingUp, pooled >> /\ m_launchTimer' = m_launchTimer
      BY <1>7, <2>3 DEF OnProcessFinished
    <3> QED
      BY <2>1, <3>1
  <2> QED
    BY <2>2, <2>3
<1>8. ASSUME NEW p \in Pids, OnProcessDestroyed(p), UNCHANGED << seen, pooled >>
      PROVE  StartingIsForked' /\ ShortPoolIsRefilled'
  <2>0. p \notin m_startingUp
    BY <1>8 DEF OnProcessDestroyed
  <2>1. UNCHANGED << m_startingUp, pooled, m_launchTimer >>
    BY <1>8, <2>0 DEF OnProcessDestroyed
  <2> QED
    <3>1. StartingIsForked'
      BY <1>8 DEF OnProcessDestroyed
    <3>2. ShortPoolIsRefilled'
      BY <2>1
    <3> QED
      BY <3>1, <3>2
<1>9. CASE (Tick \/ CloseTimerFires) /\ UNCHANGED << seen, pooled >>
  BY <1>9 DEF Tick, CloseTimerFires, KillOverdue
<1>10. CASE UNCHANGED poolVars
  BY <1>10 DEF poolVars, lmVars
<1> QED
  BY <1>1, <1>2, <1>3, <1>4, <1>5, <1>6, <1>7, <1>8, <1>9, <1>10
     DEF PoolNext, ServerStep, ManagerStep, Close

\* "If it's less than m_maxPreCachedRunners we need to start more runners": it is
\* so in every behaviour in which exec of the runner command never fails.
THEOREM ShortPoolAlwaysRefilled == PoolSpec => RefilledUnlessExecFails
<1>1. PoolInit /\ PoolInv => RefillInv
  <2> SUFFICES ASSUME PoolInit, PoolInv PROVE StartingIsForked /\ ShortPoolIsRefilled
    BY DEF RefillInv
  <2>1. StartingIsForked
    BY DEF PoolInit, LMInit, StartingIsForked
  <2>2. Cardinality({}) = 0 /\ m_startingUp = {} /\ pooled = {}
    BY FS_EmptySet DEF PoolInit, LMInit
  <2>3. MaxPreCachedRunners - (0 + 0) > 0 => m_launchTimer
    BY <2>2 DEF PoolInit, LMInit, PoolIsMissingSome
  <2>4. Cardinality(m_startingUp) = 0 /\ Cardinality(pooled) = 0
    BY <2>2
  <2>5. ShortPoolIsRefilled
    BY <2>3, <2>4, ConstantsOK DEF Assumptions, ShortPoolIsRefilled
  <2> QED
    BY <2>1, <2>5
<1>2. RefillInv /\ PoolInv' /\ NoExecFails' /\ [PoolNext]_poolVars => RefillInv'
  BY RefillInvNext
<1>3. RefillInv => ShortPoolIsRefilled
  BY DEF RefillInv
<1> QED
  BY <1>1, <1>2, <1>3, PoolInvariant, PTL DEF PoolSpec, RefilledUnlessExecFails
=============================================================================
