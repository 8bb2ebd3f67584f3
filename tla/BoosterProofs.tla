--------------------------- MODULE BoosterProofs ----------------------------
(***************************************************************************)
(* Proofs about the whole booster, for every set of pids, applications and *)
(* requests, every size of the pool and every behaviour of the clients.    *)
(*                                                                         *)
(* The invariants build on each other: the types, the stages of a runner   *)
(* (StageInv), what is on its wires (MessageInv), the running list         *)
(* (ListInv), where the callbacks are (CallInv), and who claims an         *)
(* application when its clients wait for their answers (ClientInv).        *)
(***************************************************************************)
EXTENDS Booster, SequenceTheorems, FiniteSetTheorems, TLAPS

Assumptions == /\ Pids \subseteq Nat \ {0} /\ IsFiniteSet(Pids)
               /\ MaxPreCachedRunners \in Nat
               /\ CloseTimeout \in Nat \ {0}
               /\ NoApp \notin Apps
               /\ MaxRequests \in Nat

\* The named assumptions of the modules, as one fact.
LEMMA ConstantsOK == Assumptions
BY PidsAssumption, MaxAssumption, TimeoutAssumption, AppsAssumption,
   RequestsAssumption DEF Assumptions

----------------------------------------------------------------------------
(***************************************************************************)
(* The pool as a sequence and as a set: m_runnerClients never lists a      *)
(* socket twice, so what is taken from it is no longer in it.              *)
(***************************************************************************)
Elems(q) == {q[i] : i \in DOMAIN q}

Distinct(q) == \A i, j \in DOMAIN q : q[i] = q[j] => i = j

\* takeFirst() takes the head and nothing else.
LEMMA TakeFirst ==
    ASSUME NEW S, NEW q \in Seq(S), q # << >>, Distinct(q)
    PROVE  /\ Head(q) \in Elems(q)
           /\ Tail(q) \in Seq(S)
           /\ Distinct(Tail(q))
           /\ Elems(Tail(q)) = Elems(q) \ {Head(q)}
<1> DEFINE t == Tail(q)
<1>1. /\ Len(q) \in Nat \ {0} /\ DOMAIN q = 1 .. Len(q)
      /\ Head(q) = q[1]
  BY EmptySeq, LenProperties
<1>2. /\ t \in Seq(S) /\ DOMAIN t = 1 .. Len(q) - 1
      /\ \A i \in 1 .. Len(q) - 1 : t[i] = q[i + 1]
  BY <1>1, HeadTailProperties
<1> HIDE DEF t
<1>3. ASSUME NEW i \in DOMAIN t
      PROVE  i + 1 \in DOMAIN q /\ i + 1 # 1 /\ t[i] = q[i + 1]
  BY <1>1, <1>2
<1>4. Distinct(t)
  <2>1. ASSUME NEW i \in DOMAIN t, NEW j \in DOMAIN t, t[i] = t[j] PROVE i = j
    <3>1. i + 1 = j + 1
      BY <1>3, <2>1 DEF Distinct
    <3> QED  BY <1>2, <3>1
  <2> QED  BY <2>1 DEF Distinct
<1>5. ASSUME NEW i \in DOMAIN q, q[i] # q[1] PROVE q[i] \in Elems(t)
  <2>1. i - 1 \in 1 .. Len(q) - 1 /\ (i - 1) + 1 = i
    BY <1>1, <1>5
  <2> QED  BY <1>2, <2>1 DEF Elems
<1>6. Elems(t) = Elems(q) \ {q[1]}
  <2>1. ASSUME NEW i \in DOMAIN t PROVE t[i] \in Elems(q) \ {q[1]}
    <3>1. q[i + 1] # q[1]
      BY <1>1, <1>3 DEF Distinct
    <3> QED  BY <1>3, <3>1 DEF Elems
  <2> QED  BY <1>5, <2>1 DEF Elems
<1>7. Head(q) \in Elems(q)
  BY <1>1 DEF Elems
<1> QED
  BY <1>1, <1>2, <1>4, <1>6, <1>7 DEF t

\* A socket that was not listed is listed once.
LEMMA AppendOne ==
    ASSUME NEW S, NEW q \in Seq(S), NEW e \in S
    PROVE  /\ Append(q, e) \in Seq(S) /\ Append(q, e) # << >>
           /\ Elems(Append(q, e)) = Elems(q) \cup {e}
           /\ Distinct(q) /\ e \notin Elems(q) => Distinct(Append(q, e))
<1>1. /\ Len(q) \in Nat /\ DOMAIN q = 1 .. Len(q)
      /\ Append(q, e) \in Seq(S) /\ Append(q, e) # << >>
      /\ DOMAIN Append(q, e) = 1 .. Len(q) + 1
      /\ Append(q, e)[Len(q) + 1] = e
      /\ \A i \in 1 .. Len(q) : Append(q, e)[i] = q[i]
  BY LenProperties
<1>2. \A i \in 1 .. Len(q) + 1 : i = Len(q) + 1 \/ i \in 1 .. Len(q)
  BY <1>1
<1>3. Len(q) + 1 \in 1 .. Len(q) + 1 /\ \A i \in 1 .. Len(q) : i \in 1 .. Len(q) + 1
  BY <1>1
<1>4. Elems(Append(q, e)) = Elems(q) \cup {e}
  BY <1>1, <1>2, <1>3 DEF Elems
<1>5. Distinct(q) /\ e \notin Elems(q) => Distinct(Append(q, e))
  BY <1>1, <1>2 DEF Elems, Distinct
<1> QED  BY <1>1, <1>4, <1>5

\* A sequence without repetitions is as long as its set is large.
LEMMA DistinctSize ==
    ASSUME NEW S, NEW q \in Seq(S), Distinct(q)
    PROVE  Cardinality(Elems(q)) = Len(q)
<1>1. Len(q) \in Nat /\ q \in [1 .. Len(q) -> S] /\ DOMAIN q = 1 .. Len(q)
  BY LenProperties
<1>2. q \in Bijection(1 .. Len(q), Elems(q))
  <2>1. q \in [1 .. Len(q) -> Elems(q)]
    BY <1>1 DEF Elems
  <2> QED
    BY <1>1, <2>1 DEF Elems, Distinct, Bijection, Injection, Surjection, IsInjective
<1> QED
  BY <1>1, <1>2, FS_CountingElements DEF ExistsBijection

\* w is q without its i-th element.
IsWithout(w, q, i) ==
    /\ Len(w) = Len(q) - 1
    /\ \A j \in 1 .. Len(q) - 1 : /\ j < i => w[j] = q[j]
                                  /\ j >= i => w[j] = q[j + 1]

\* Without its i-th element a sequence lists everything else.
LEMMA WithoutElement ==
    ASSUME NEW S, NEW q \in Seq(S), Distinct(q), NEW i \in 1 .. Len(q),
           NEW w \in Seq(S), IsWithout(w, q, i)
    PROVE  Distinct(w) /\ Elems(w) = Elems(q) \ {q[i]}
<1>0. /\ Len(w) = Len(q) - 1
      /\ \A j \in 1 .. Len(q) - 1 : /\ j < i => w[j] = q[j]
                                    /\ j >= i => w[j] = q[j + 1]
  BY DEF IsWithout
<1> PICK n \in Nat : n = Len(q)
  BY LenProperties
<1>1. i \in 1 .. n /\ DOMAIN q = 1 .. n /\ DOMAIN w = 1 .. n - 1
  BY <1>0, LenProperties
<1> DEFINE from(j) == IF j < i THEN j ELSE j + 1
<1>2. ASSUME NEW j \in 1 .. n - 1
      PROVE  from(j) \in 1 .. n /\ from(j) # i /\ w[j] = q[from(j)]
  BY <1>0, <1>1
<1>3. Distinct(w)
  <2>1. ASSUME NEW j \in 1 .. n - 1, NEW k \in 1 .. n - 1, w[j] = w[k] PROVE j = k
    <3>1. from(j) = from(k)
      <4> HIDE DEF from
      <4> QED  BY <2>1, <1>1, <1>2 DEF Distinct
    <3> QED  BY <3>1, <1>1
  <2> QED  BY <2>1, <1>1 DEF Distinct
<1>4. ASSUME NEW j \in 1 .. n - 1 PROVE w[j] \in Elems(q) \ {q[i]}
  <2> HIDE DEF from
  <2> QED  BY <1>1, <1>2 DEF Elems, Distinct
<1>5. ASSUME NEW k \in 1 .. n, q[k] # q[i] PROVE q[k] \in Elems(w)
  <2>1. CASE k < i
    <3>1. k \in 1 .. n - 1 /\ from(k) = k
      BY <2>1, <1>1
    <3> HIDE DEF from
    <3> QED  BY <3>1, <1>1, <1>2 DEF Elems
  <2>2. CASE k > i
    <3>1. k - 1 \in 1 .. n - 1 /\ from(k - 1) = k
      BY <2>2, <1>1
    <3> HIDE DEF from
    <3> QED  BY <3>1, <1>1, <1>2 DEF Elems
  <2> QED  BY <1>1, <1>5, <2>1, <2>2
<1>6. Elems(w) = Elems(q) \ {q[i]}
  <2>1. Elems(w) = {w[j] : j \in 1 .. n - 1} /\ Elems(q) = {q[k] : k \in 1 .. n}
    BY <1>1 DEF Elems
  <2> QED  BY ONLY <1>4, <1>5, <2>1
<1> QED  BY <1>3, <1>6

AllBut(q, i) == SubSeq(q, 1, i - 1) \o SubSeq(q, i + 1, Len(q))

\* What is around the i-th element is the sequence without it.
LEMMA AroundElement ==
    ASSUME NEW S, NEW q \in Seq(S), NEW i \in 1 .. Len(q)
    PROVE  /\ AllBut(q, i) \in Seq(S)
           /\ IsWithout(AllBut(q, i), q, i)
<1> DEFINE u == SubSeq(q, 1, i - 1)
           v == SubSeq(q, i + 1, Len(q))
           w == u \o v
<1> PICK n \in Nat : n = Len(q)
  BY LenProperties
<1>1. i \in 1 .. n /\ \A j \in 1 .. n : q[j] \in S
  BY ElementOfSeq
<1>2. /\ u \in Seq(S) /\ Len(u) = i - 1
      /\ \A j \in 1 .. i - 1 : u[j] = q[j]
  <2>1. i - 1 \in Int /\ \A j \in 1 .. i - 1 : q[j] \in S
    BY <1>1
  <2>2. /\ u \in Seq(S) /\ Len(u) = IF 1 <= i - 1 THEN i - 1 - 1 + 1 ELSE 0
        /\ \A j \in 1 .. i - 1 - 1 + 1 : u[j] = q[1 + j - 1]
    BY <2>1, SubSeqProperties
  <2>3. i - 1 = (IF 1 <= i - 1 THEN i - 1 - 1 + 1 ELSE 0)
        /\ \A j \in 1 .. i - 1 : j \in 1 .. i - 1 - 1 + 1 /\ 1 + j - 1 = j
    BY ONLY <1>1, i \in 1 .. n, n \in Nat
  <2> HIDE DEF u
  <2> QED  BY ONLY <2>2, <2>3
<1>3. /\ v \in Seq(S) /\ Len(v) = n - i
      /\ \A j \in 1 .. n - i : v[j] = q[i + j]
  <2>1. i + 1 \in Int /\ n \in Int /\ \A j \in i + 1 .. n : q[j] \in S
    BY <1>1
  <2>2. /\ v \in Seq(S) /\ Len(v) = IF i + 1 <= n THEN n - (i + 1) + 1 ELSE 0
        /\ \A j \in 1 .. n - (i + 1) + 1 : v[j] = q[i + 1 + j - 1]
    BY <2>1, SubSeqProperties
  <2>3. n - i = (IF i + 1 <= n THEN n - (i + 1) + 1 ELSE 0)
        /\ \A j \in 1 .. n - i : j \in 1 .. n - (i + 1) + 1 /\ i + 1 + j - 1 = i + j
    BY ONLY <1>1, n \in Nat
  <2> HIDE DEF v
  <2> QED  BY ONLY <2>2, <2>3
<1> HIDE DEF u, v
<1>4. /\ w \in Seq(S) /\ Len(w) = Len(u) + Len(v)
      /\ \A j \in 1 .. Len(u) + Len(v) : w[j] = IF j <= Len(u) THEN u[j] ELSE v[j - Len(u)]
  BY ONLY <1>2, <1>3, ConcatProperties DEF w
<1> HIDE DEF w
<1>5. Len(u) + Len(v) = n - 1
  BY ONLY <1>1, <1>2, <1>3, n \in Nat
<1>6. ASSUME NEW j \in 1 .. n - 1, j < i PROVE w[j] = q[j]
  <2>1. j <= Len(u) /\ j \in 1 .. i - 1
    BY ONLY <1>1, <1>2, <1>6, n \in Nat
  <2> QED  BY ONLY <1>2, <1>4, <1>5, <2>1, j \in 1 .. n - 1
<1>7. ASSUME NEW j \in 1 .. n - 1, j >= i PROVE w[j] = q[j + 1]
  <2>1. /\ ~(j <= Len(u)) /\ j - Len(u) \in 1 .. n - i
        /\ i + (j - Len(u)) = j + 1
    BY ONLY <1>1, <1>2, <1>7, n \in Nat
  <2>2. w[j] = v[j - Len(u)]
    BY ONLY <1>4, <1>5, <2>1, j \in 1 .. n - 1
  <2>3. v[j - Len(u)] = q[i + (j - Len(u))]
    BY ONLY <1>3, <2>1
  <2> QED  BY ONLY <2>1, <2>2, <2>3
<1>8. IsWithout(w, q, i)
  BY ONLY <1>4, <1>5, <1>6, <1>7, n = Len(q) DEF IsWithout
<1> QED
  BY <1>4, <1>8 DEF u, v, w, AllBut

\* removeOne() takes its argument and nothing else.
LEMMA RemoveOneRemoves ==
    ASSUME m_runnerClients \in Seq(Pids), Distinct(m_runnerClients),
           NEW s, RemoveOne(s)
    PROVE  /\ m_runnerClients' \in Seq(Pids)
           /\ Distinct(m_runnerClients')
           /\ Elems(m_runnerClients') = Elems(m_runnerClients) \ {s}
<1>1. CASE \A i \in DOMAIN m_runnerClients : m_runnerClients[i] # s
  <2>1. UNCHANGED m_runnerClients
    BY <1>1 DEF RemoveOne
  <2> QED
    BY <1>1, <2>1 DEF Elems, Distinct
<1>2. CASE \E i \in DOMAIN m_runnerClients : m_runnerClients[i] = s
  <2>1. DOMAIN m_runnerClients = 1 .. Len(m_runnerClients)
    BY LenProperties
  <2>2. PICK i \in 1 .. Len(m_runnerClients) :
            /\ m_runnerClients[i] = s
            /\ m_runnerClients' = AllBut(m_runnerClients, i)
    BY <1>2, <2>1 DEF RemoveOne, AllBut
  <2>3. /\ m_runnerClients' \in Seq(Pids)
        /\ IsWithout(m_runnerClients', m_runnerClients, i)
    BY <2>2, AroundElement
  <2> QED  BY <2>2, <2>3, WithoutElement
<1> QED  BY <1>1, <1>2

----------------------------------------------------------------------------
(***************************************************************************)
(* Type correctness, handler by handler.                                   *)
(***************************************************************************)

\* The LaunchManager's slots and the kernel keep its variables well typed.
LEMMA SlotTypes ==
    ASSUME LMTypeOK,
           \/ \E ready \in SUBSET Pids : \E n : CountChanged(ready, n)
           \/ \E p \in Pids : \/ Terminate(p) \/ ProcessEnds(p)
                              \/ ExecFails(p) \/ OnProcessFinished(p)
    PROVE  LMTypeOK'
<1> USE ConstantsOK DEF Assumptions, LMTypeOK, Stages, Signals
<1>1. ASSUME NEW ready \in SUBSET Pids, NEW n, CountChanged(ready, n) PROVE LMTypeOK'
  BY <1>1 DEF CountChanged, PoolIsMissingSome
<1>2. ASSUME NEW p \in Pids, Terminate(p) PROVE LMTypeOK'
  BY <1>2 DEF Terminate, StartClosing
<1>3. ASSUME NEW p \in Pids, ProcessEnds(p) PROVE LMTypeOK'
  BY <1>3 DEF ProcessEnds
<1>4. ASSUME NEW p \in Pids, ExecFails(p) PROVE LMTypeOK'
  BY <1>4 DEF ExecFails
<1>5. ASSUME NEW p \in Pids, OnProcessFinished(p) PROVE LMTypeOK'
  BY <1>5 DEF OnProcessFinished
<1> QED  BY <1>1, <1>2, <1>3, <1>4, <1>5

\* No close timer is set for longer than a timeout.
LEMMA WaitsType == LMTypeOK => Waits \subseteq 0 .. CloseTimeout
BY ConstantsOK DEF Assumptions, LMTypeOK, Waits, Overdue

\* So do its timers and the other signals of QProcess.
LEMMA TimerTypes ==
    ASSUME LMTypeOK,
           \/ \E p \in Pids : LaunchTimeout(p) \/ OnProcessError(p) \/ OnProcessDestroyed(p)
           \/ Tick
           \/ CloseTimerFires
    PROVE  LMTypeOK'
<1> USE ConstantsOK DEF Assumptions, LMTypeOK, Stages, Signals
<1>1. ASSUME NEW p \in Pids, LaunchTimeout(p) PROVE LMTypeOK'
  BY <1>1 DEF LaunchTimeout
<1>2. ASSUME NEW p \in Pids, OnProcessError(p) PROVE LMTypeOK'
  BY <1>2 DEF OnProcessError
<1>3. ASSUME NEW p \in Pids, OnProcessDestroyed(p) PROVE LMTypeOK'
  BY <1>3 DEF OnProcessDestroyed
<1>4. CASE Tick
  BY <1>4 DEF Tick
<1>5. CASE CloseTimerFires
  <2>1. Waits \subseteq 0 .. CloseTimeout
    BY WaitsType
  <2>2. m_closeTimer' = -1 \/ m_closeTimer' \in Waits
    BY <1>5 DEF CloseTimerFires
  <2>3. -1 \in -1 .. CloseTimeout /\ 0 .. CloseTimeout \subseteq -1 .. CloseTimeout
    OBVIOUS
  <2>4. m_closeTimer' \in -1 .. CloseTimeout
    BY ONLY <2>1, <2>2, <2>3
  <2> QED
    BY <1>5, <2>4 DEF CloseTimerFires, KillOverdue, Overdue
<1> QED  BY <1>1, <1>2, <1>3, <1>4, <1>5

\* Giving an application to the first of the runners in `clients'.
LEMMA LaunchOnTypes ==
    ASSUME IpcTypeOK, NEW clients \in Seq(Pids), clients # << >>,
           NEW a \in Apps, NEW r \in Requests, NEW gone,
           LaunchOn(clients, a, r, gone)
    PROVE  /\ m_runnerClients' \in Seq(Pids)
           /\ m_runningSockets' \in [Apps -> Pids \cup {0}]
           /\ m_launchCallbacks' \in [Pids -> Requests \cup {0}]
           /\ sockOpen' \subseteq Pids
           /\ sockAppId' \in [Pids -> Apps \cup {NoApp}]
           /\ toRunner' \in [Pids -> Seq(ToRunnerMsg)]
<1> DEFINE s == Head(clients)
<1>1. s \in Pids /\ Tail(clients) \in Seq(Pids)
  BY HeadTailProperties
<1>2. LaunchRequest(a) \in ToRunnerMsg
  BY DEF LaunchRequest, ToRunnerMsg
<1>3. Append(toRunner[s], LaunchRequest(a)) \in Seq(ToRunnerMsg)
  BY <1>1, <1>2, AppendProperties DEF IpcTypeOK
<1> HIDE DEF s
<1>4. /\ m_runnerClients' = Tail(clients)
      /\ m_runningSockets' = [m_runningSockets EXCEPT ![a] = IF s \notin gone THEN s ELSE 0]
      /\ sockAppId' = [sockAppId EXCEPT ![s] = a]
      /\ toRunner' = [toRunner EXCEPT ![s] =
             IF s \notin gone THEN Append(@, LaunchRequest(a)) ELSE @]
      /\ m_launchCallbacks' = [m_launchCallbacks EXCEPT ![s] = r]
      /\ sockOpen' = IF s \notin gone THEN sockOpen ELSE sockOpen \ {s}
  BY DEF LaunchOn, s
<1> QED  BY <1>1, <1>3, <1>4 DEF IpcTypeOK

\* The IpcServer's launch().
LEMMA IpcLaunchTypes ==
    ASSUME IpcTypeOK, NEW a \in Apps, NEW r \in Requests, NEW gone,
           IpcLaunch(a, r, gone)
    PROVE  IpcTypeOK'
<1>1. CASE m_runnerClients = << >> /\ Defer(a, r)
  <2>1. [appId |-> a, callback |-> r] \in Deferred
    BY DEF Deferred
  <2>2. m_deferredMessages' \in Seq(Deferred)
    BY <1>1, <2>1, AppendProperties DEF Defer, IpcTypeOK
  <2> QED  BY <1>1, <2>2 DEF Defer, IpcTypeOK, lists, sockets, wires
<1>2. CASE /\ m_runnerClients # << >>
           /\ LaunchOn(m_runnerClients, a, r, gone)
           /\ UNCHANGED << lists, m_deferredMessages, sockPid, toServer >>
  <2>1. m_runnerClients \in Seq(Pids)
    BY DEF IpcTypeOK
  <2> QED  BY <1>2, <2>1, LaunchOnTypes DEF IpcTypeOK, lists
<1> QED  BY <1>1, <1>2 DEF IpcLaunch

\* The IpcServer's relaunch().
LEMMA IpcRelaunchTypes ==
    ASSUME IpcTypeOK, NEW a \in Apps, NEW r \in Requests, NEW gone,
           IpcRelaunch(a, r, gone)
    PROVE  IpcTypeOK'
<1> DEFINE s == m_runningSockets[a]
<1>1. s \in Pids
  BY DEF IpcRelaunch, CanRelaunch, IpcTypeOK
<1>2. Append(toRunner[s], RelaunchRequest) \in Seq(ToRunnerMsg)
  <2>1. RelaunchRequest \in ToRunnerMsg
    BY DEF RelaunchRequest, ToRunnerMsg
  <2> QED  BY <1>1, <2>1, AppendProperties DEF IpcTypeOK
<1>3. << >> \in Seq(ToServerMsg)
  BY EmptySeq
<1>4. /\ m_launchCallbacks' = [m_launchCallbacks EXCEPT ![s] = r]
      /\ UNCHANGED << queues, lists, sockPid, sockAppId >>
      /\ toRunner' = toRunner \/ toRunner' = [toRunner EXCEPT ![s] = Append(@, RelaunchRequest)]
      /\ toServer' = toServer \/ toServer' = [toServer EXCEPT ![s] = << >>]
      /\ \/ m_runningSockets' = m_runningSockets
         \/ m_runningSockets' = WithoutSocket(m_runningSockets, s)
      /\ sockOpen' \subseteq sockOpen
  BY DEF IpcRelaunch
<1> HIDE DEF s
<1>5. toRunner' \in [Pids -> Seq(ToRunnerMsg)] /\ toServer' \in [Pids -> Seq(ToServerMsg)]
  BY <1>1, <1>2, <1>3, <1>4 DEF IpcTypeOK
<1>6. m_runningSockets' \in [Apps -> Pids \cup {0}]
  BY <1>4 DEF IpcTypeOK, WithoutSocket
<1> QED
  BY <1>1, <1>4, <1>5, <1>6 DEF IpcTypeOK, queues, lists

\* Reading a REGISTER_REQUEST.
LEMMA ReadRegisterTypes ==
    ASSUME IpcTypeOK, NEW s \in Pids, NEW gone, ReadRegister(s, gone)
    PROVE  IpcTypeOK'
<1>1. /\ Append(m_runnerClients, s) \in Seq(Pids) /\ Append(m_runnerClients, s) # << >>
      /\ << >> \in Seq(ToServerMsg)
  <2>1. m_runnerClients \in Seq(Pids)
    BY DEF IpcTypeOK
  <2> QED  BY <2>1, AppendOne, EmptySeq
<1>2. /\ toServer' \in [Pids -> Seq(ToServerMsg)]
      /\ sockPid' \subseteq Pids
      /\ UNCHANGED lists
  BY <1>1 DEF ReadRegister, Arrived, IpcTypeOK
<1>3. CASE m_deferredMessages = << >>
  BY <1>1, <1>2, <1>3 DEF ReadRegister, IpcTypeOK, lists
<1>4. CASE m_deferredMessages # << >>
  <2> DEFINE message == Head(m_deferredMessages)
  <2>1. message \in Deferred /\ Tail(m_deferredMessages) \in Seq(Deferred)
    BY <1>4, HeadTailProperties DEF IpcTypeOK
  <2>2. message.appId \in Apps /\ message.callback \in Requests
    BY <2>1 DEF Deferred
  <2>3. /\ m_deferredMessages' = Tail(m_deferredMessages)
        /\ LaunchOn(Append(m_runnerClients, s), message.appId, message.callback, gone)
    BY <1>4 DEF ReadRegister
  <2> HIDE DEF message
  <2> QED  BY <1>1, <1>2, <2>1, <2>2, <2>3, LaunchOnTypes DEF IpcTypeOK, lists
<1> QED  BY <1>3, <1>4

\* The other messages, disconnects and removeProcess().
LEMMA ServerTypes ==
    ASSUME IpcTypeOK, NEW s \in Pids,
           ReadLaunchOk(s) \/ ReadOtherReply(s) \/ OnDisconnected(s) \/ RemoveProcess(s)
    PROVE  IpcTypeOK'
<1> USE DEF IpcTypeOK, queues, lists, sockets, wires
<1>1. << >> \in Seq(ToServerMsg)
  BY EmptySeq
<1>2. CASE ReadLaunchOk(s)
  BY <1>1, <1>2 DEF ReadLaunchOk, Arrived, TakeCallback
<1>3. CASE ReadOtherReply(s)
  BY <1>1, <1>3 DEF ReadOtherReply, Arrived, TakeCallback
<1>4. CASE OnDisconnected(s)
  <2>1. m_runnerClients' \in Seq(Pids)
    <3>1. CASE UNCHANGED m_runnerClients
      BY <3>1
    <3>2. CASE \E i \in DOMAIN m_runnerClients :
                  m_runnerClients' = AllBut(m_runnerClients, i)
      <4>1. \A i \in DOMAIN m_runnerClients : i \in 1 .. Len(m_runnerClients)
        BY LenProperties
      <4> QED  BY <3>2, <4>1, AroundElement
    <3> QED  BY <1>4, <3>1, <3>2 DEF OnDisconnected, RemoveOne, AllBut
  <2> QED  BY <1>4, <2>1 DEF OnDisconnected, WithoutSocket
<1>5. CASE RemoveProcess(s)
  BY <1>5 DEF RemoveProcess
<1> QED  BY <1>2, <1>3, <1>4, <1>5

\* The runner's end of the socket.
LEMMA RunnerTypes ==
    ASSUME IpcTypeOK, NEW s \in Pids, NEW header, NEW reply \in Replies,
           ConnectToServer(s) \/ ReadRequest(s, header, reply) \/ SocketClosed(s)
    PROVE  IpcTypeOK'
<1> USE DEF IpcTypeOK, queues, lists, sockets
<1>1. << >> \in Seq(ToRunnerMsg)
  BY EmptySeq
<1>2. CASE ConnectToServer(s)
  <2>1. << "REGISTER_REQUEST" >> \in Seq(ToServerMsg)
    BY DEF ToServerMsg
  <2> QED  BY <1>2, <2>1 DEF ConnectToServer
<1>3. CASE ReadRequest(s, header, reply)
  <2>1. Append(toServer[s], reply) \in Seq(ToServerMsg)
    BY AppendProperties DEF ToServerMsg
  <2> QED  BY <1>1, <1>3, <2>1 DEF ReadRequest
<1>4. CASE SocketClosed(s)
  BY <1>1, <1>4 DEF SocketClosed
<1> QED  BY <1>2, <1>3, <1>4

\* Calling a callback leaves replies and the published list well typed.
LEMMA CallBackTypes ==
    ASSUME TypeOK, IpcTypeOK', NEW s \in Pids, NEW pid \in Pids \cup {0},
           CallBack(s, pid)
    PROVE  /\ replies' \in [Requests -> Seq(Pids \cup {0})]
           /\ published' \in [Apps -> Pids \cup {0}]
           /\ UNCHANGED requests
<1> DEFINE r == m_launchCallbacks[s]
<1>1. r \in Requests \cup {0} /\ m_runningApps' \in [Apps -> Pids \cup {0}]
  BY DEF TypeOK, IpcTypeOK
<1>2. \A q \in Requests : Append(replies[q], pid) \in Seq(Pids \cup {0})
  BY AppendProperties DEF TypeOK
<1>3. replies' \in [Requests -> Seq(Pids \cup {0})]
  BY <1>1, <1>2 DEF CallBack, Answer, TypeOK
<1> QED  BY <1>1, <1>3 DEF CallBack, TypeOK

\* A call is recorded under the next number, which is within the bound.
LEMMA CallTypes ==
    ASSUME TypeOK, NEW a \in Apps, NEW kind \in {"launch", "close"}, Call(kind, a)
    PROVE  /\ requests' \in Seq([kind : {"launch", "close"}, appId : Apps])
           /\ Len(requests) \in Nat
           /\ Len(requests') = Len(requests) + 1
           /\ Len(requests') \in Requests
<1> DEFINE R == [kind : {"launch", "close"}, appId : Apps]
           c == [kind |-> kind, appId |-> a]
<1>1. c \in R /\ requests \in Seq(R)
  BY DEF TypeOK
<1>2. requests' = Append(requests, c) /\ Len(requests) < MaxRequests
  BY DEF Call, MayCall
<1> HIDE DEF R, c
<1>3. requests' \in Seq(R) /\ Len(requests') = Len(requests) + 1 /\ Len(requests) \in Nat
  BY <1>1, <1>2, AppendProperties, LenProperties
<1>4. Len(requests') \in Requests
  BY <1>2, <1>3, ConstantsOK DEF Assumptions, Requests
<1> QED  BY <1>3, <1>4 DEF R

\* Every step keeps the types.
LEMMA TypeNext == TypeOK /\ [Next]_vars => TypeOK'
<1> SUFFICES ASSUME TypeOK, [Next]_vars PROVE TypeOK'
  OBVIOUS
<1>0. LMTypeOK /\ IpcTypeOK
  BY DEF TypeOK
<1>1. ASSUME NEW p \in Pids, RunnerConnects(p) PROVE TypeOK'
  <2>1. IpcTypeOK'
    <3>1. ConnectToServer(p) /\ "LAUNCH_OK" \in Replies
      BY <1>1 DEF RunnerConnects, Replies
    <3> QED  BY <1>0, <3>1, RunnerTypes
  <2> QED  BY <1>1, <2>1 DEF RunnerConnects, TypeOK, LMTypeOK, lmVars, lunaVars, LoaderStages
<1>2. ASSUME NEW p \in Pids, RunnerLoads(p) PROVE TypeOK'
  <2>1. IpcTypeOK'
    <3>1. ReadRequest(p, "LAUNCH_REQUEST", "LAUNCH_OK") /\ "LAUNCH_OK" \in Replies
      BY <1>2 DEF RunnerLoads, Replies
    <3> QED  BY <1>0, <3>1, RunnerTypes
  <2>2. Head(toRunner[p]).appId \in Apps \cup {NoApp}
    <3>1. toRunner[p] # << >> /\ toRunner[p] \in Seq(ToRunnerMsg)
      BY <1>0, <1>2 DEF RunnerLoads, ReadRequest, IpcTypeOK
    <3>2. Head(toRunner[p]) \in ToRunnerMsg
      BY <3>1, HeadTailProperties
    <3> QED  BY <3>2 DEF ToRunnerMsg
  <2>3. hosted' \in [Pids -> Apps \cup {NoApp}]
    BY <1>2, <2>2 DEF RunnerLoads, TypeOK
  <2> QED  BY <1>2, <2>1, <2>3 DEF RunnerLoads, TypeOK, LMTypeOK, lmVars, lunaVars, LoaderStages
<1>3. ASSUME NEW p \in Pids, RunnerFailsToLoad(p) PROVE TypeOK'
  <2>1. IpcTypeOK'
    <3>1. ReadRequest(p, "LAUNCH_REQUEST", "LAUNCH_ERROR") /\ "LAUNCH_ERROR" \in Replies
      BY <1>3 DEF RunnerFailsToLoad, Replies
    <3> QED  BY <1>0, <3>1, RunnerTypes
  <2> QED  BY <1>3, <2>1 DEF RunnerFailsToLoad, TypeOK, LMTypeOK, lmVars, lunaVars, LoaderStages
<1>4. ASSUME NEW p \in Pids, RunnerReloads(p) PROVE TypeOK'
  <2>1. IpcTypeOK'
    <3>1. ReadRequest(p, "RELAUNCH_REQUEST", "RELAUNCH_OK") /\ "RELAUNCH_OK" \in Replies
      BY <1>4 DEF RunnerReloads, Replies
    <3> QED  BY <1>0, <3>1, RunnerTypes
  <2> QED  BY <1>4, <2>1 DEF RunnerReloads, TypeOK, LMTypeOK, lmVars, runnerVars, lunaVars
<1>5. ASSUME NEW p \in Pids, RunnerEnds(p) PROVE TypeOK'
  <2>1. IpcTypeOK'
    <3>1. SocketClosed(p) /\ "LAUNCH_OK" \in Replies
      BY <1>5 DEF RunnerEnds, Replies
    <3> QED  BY <1>0, <3>1, RunnerTypes
  <2>2. LMTypeOK'
    BY <1>0, <1>5, SlotTypes DEF RunnerEnds
  <2> QED  BY <1>5, <2>1, <2>2 DEF RunnerEnds, TypeOK, runnerVars, lunaVars
<1>6. ASSUME NEW p \in Pids, RunnerExecFails(p) PROVE TypeOK'
  <2>1. LMTypeOK'
    BY <1>0, <1>6, SlotTypes DEF RunnerExecFails
  <2> QED
    BY <1>6, <2>1 DEF RunnerExecFails, TypeOK, IpcTypeOK, ipcVars, queues, lists,
                      sockets, wires, runnerVars, lunaVars
<1>7. ASSUME NEW s \in Pids, ServerReadsRegister(s) PROVE TypeOK'
  <2>1. IpcTypeOK'
    BY <1>0, <1>7, ReadRegisterTypes DEF ServerReadsRegister
  <2>2. LMTypeOK'
    BY <1>0, <1>7, SlotTypes DEF ServerReadsRegister
  <2> QED  BY <1>7, <2>1, <2>2 DEF ServerReadsRegister, TypeOK, runnerVars, lunaVars
<1>8. ASSUME NEW s \in Pids, ServerReadsLaunchOk(s) PROVE TypeOK'
  <2>1. IpcTypeOK'
    BY <1>0, <1>8, ServerTypes DEF ServerReadsLaunchOk
  <2>2. CallBack(s, s)
    BY <1>8 DEF ServerReadsLaunchOk
  <2> QED
    BY <1>8, <2>1, <2>2, CallBackTypes
       DEF ServerReadsLaunchOk, TypeOK, LMTypeOK, lmVars, runnerVars
<1>9. ASSUME NEW s \in Pids, ServerReadsOtherReply(s) PROVE TypeOK'
  <2>1. IpcTypeOK'
    BY <1>0, <1>9, ServerTypes DEF ServerReadsOtherReply
  <2>2. \E pid \in Pids \cup {0} : CallBack(s, pid)
    BY <1>9 DEF ServerReadsOtherReply
  <2> QED
    BY <1>9, <2>1, <2>2, CallBackTypes
       DEF ServerReadsOtherReply, TypeOK, LMTypeOK, lmVars, runnerVars
<1>10. ASSUME NEW s \in Pids, ServerSeesDisconnect(s) PROVE TypeOK'
  <2>1. IpcTypeOK'
    BY <1>0, <1>10, ServerTypes DEF ServerSeesDisconnect
  <2>2. LMTypeOK'
    BY <1>0, <1>10, SlotTypes DEF ServerSeesDisconnect, LMTypeOK, lmVars
  <2> QED  BY <1>10, <2>1, <2>2 DEF ServerSeesDisconnect, TypeOK, runnerVars, lunaVars
<1>11. ASSUME NEW p \in Pids, DaemonReapsProcess(p) PROVE TypeOK'
  <2>1. IpcTypeOK'
    BY <1>0, <1>11, ServerTypes DEF DaemonReapsProcess
  <2>2. LMTypeOK'
    BY <1>0, <1>11, SlotTypes DEF DaemonReapsProcess
  <2> QED  BY <1>11, <2>1, <2>2 DEF DaemonReapsProcess, TypeOK, IpcTypeOK, runnerVars
<1>12. ASSUME NEW a \in Apps, LunaLaunch(a) PROVE TypeOK'
  <2>1. /\ requests' \in Seq([kind : {"launch", "close"}, appId : Apps])
        /\ Len(requests') \in Requests
    BY <1>12, CallTypes DEF LunaLaunch
  <2>2. Len(requests') <= MaxRequests
    BY <2>1, ConstantsOK DEF Requests, Assumptions
  <2>3. IpcTypeOK' /\ LMTypeOK'
    <3>1. CASE /\ IpcLaunch(a, Len(requests'), Gone)
               /\ CountChanged({}, Len(m_runnerClients'))
      BY <1>0, <2>1, <3>1, IpcLaunchTypes, SlotTypes
    <3>2. CASE IpcRelaunch(a, Len(requests'), Gone) /\ UNCHANGED lmVars
      BY <1>0, <2>1, <3>2, IpcRelaunchTypes DEF LMTypeOK, lmVars
    <3>3. CASE UNCHANGED << lmVars, ipcVars >>
      BY <1>0, <3>3 DEF LMTypeOK, lmVars, IpcTypeOK, ipcVars, queues, lists, sockets, wires
    <3> QED  BY <1>12, <3>1, <3>2, <3>3 DEF LunaLaunch
  <2> QED  BY <1>12, <2>1, <2>2, <2>3 DEF LunaLaunch, TypeOK, runnerVars
<1>13. ASSUME NEW a \in Apps, LunaClose(a) PROVE TypeOK'
  <2> DEFINE pid == m_runningApps[a]
  <2>1. /\ requests' \in Seq([kind : {"launch", "close"}, appId : Apps])
        /\ Len(requests') \in Requests
    BY <1>13, CallTypes DEF LunaClose
  <2>2. Len(requests') <= MaxRequests
    BY <2>1, ConstantsOK DEF Requests, Assumptions
  <2>3. pid \in Pids \cup {0}
    BY DEF TypeOK, IpcTypeOK
  <2>4. replies' \in [Requests -> Seq(Pids \cup {0})]
    <3>1. Append(replies[Len(requests')], pid) \in Seq(Pids \cup {0})
      BY <2>1, <2>3, AppendProperties DEF TypeOK
    <3>2. replies' = [replies EXCEPT ![Len(requests')] = Append(@, pid)]
      BY <1>13 DEF LunaClose, Answer
    <3> HIDE DEF pid
    <3> QED  BY <3>1, <3>2 DEF TypeOK
  <2>5. LMTypeOK'
    <3>1. CASE pid # 0 /\ Terminate(pid)
      BY <1>0, <2>3, <3>1, SlotTypes
    <3>2. CASE UNCHANGED lmVars
      BY <1>0, <3>2 DEF LMTypeOK, lmVars
    <3> QED  BY <1>13, <3>1, <3>2 DEF LunaClose
  <2> QED
    BY <1>13, <2>1, <2>2, <2>4, <2>5
       DEF LunaClose, TypeOK, IpcTypeOK, ipcVars, queues, lists, sockets, wires, runnerVars
<1>14. ASSUME DaemonOwnStep PROVE TypeOK'
  <2>1. LMTypeOK'
    BY <1>0, <1>14, TimerTypes DEF DaemonOwnStep
  <2> QED
    BY <1>14, <2>1 DEF DaemonOwnStep, TypeOK, IpcTypeOK, ipcVars, queues, lists,
                       sockets, wires, runnerVars, lunaVars
<1>15. ASSUME UNCHANGED vars PROVE TypeOK'
  BY <1>15 DEF vars, TypeOK, LMTypeOK, lmVars, IpcTypeOK, ipcVars, queues, lists,
               sockets, wires
<1> QED
  BY <1>1, <1>2, <1>3, <1>4, <1>5, <1>6, <1>7, <1>8, <1>9, <1>10, <1>11, <1>12,
     <1>13, <1>14, <1>15 DEF Next, RunnerStep, ServerStep

\* Initially the types are right.
LEMMA TypeInit == Init => TypeOK
<1> SUFFICES ASSUME Init PROVE TypeOK
  OBVIOUS
<1>1. LMTypeOK
  BY ConstantsOK
     DEF Assumptions, Init, LMInit, LMTypeOK, Stages, Signals, PoolIsMissingSome
<1>2. \A S : << >> \in Seq(S) /\ Len(<< >>) = 0
  BY EmptySeq
<1>3. IpcTypeOK
  BY <1>2 DEF Init, IpcInit, IpcTypeOK
<1> QED
  BY <1>1, <1>2, <1>3, ConstantsOK DEF Assumptions, Init, TypeOK, LoaderStages

\* Every variable of the booster keeps its type.
THEOREM TypeCorrect == Spec => []TypeOK
BY TypeInit, TypeNext, PTL DEF Spec
----------------------------------------------------------------------------
(***************************************************************************)
(* The stages of a runner.                                                 *)
(*                                                                         *)
(* That the daemon never registers a runner twice, never takes one from the*)
(* pool that it took before and never terminates one that waits there does *)
(* not follow from the types: it rests on the order in which a runner and  *)
(* the server write to their socket.  A runner is "starting" until it      *)
(* connects, registers once, and once it left the pool it is Taken for     *)
(* good: by a launch, or because it disconnected.                          *)
(***************************************************************************)
Pooled == Elems(m_runnerClients)

Taken(s) == s \in sockPid /\ s \notin Pooled

PoolIsRegistered == Distinct(m_runnerClients) /\ Pooled \subseteq sockPid

StartingIsUnknown ==
    \A p \in Pids : loader[p] = "starting" =>
        p \notin sockOpen /\ p \notin sockPid /\ toServer[p] = << >>

ConnectedWasForked ==
    \A p \in Pids : loader[p] # "starting" => proc[p] \notin {"none", "failed"}

RegistersOnce ==
    \A p \in Pids : toServer[p] # << >> =>
        \/ Head(toServer[p]) = "REGISTER_REQUEST" /\ p \notin sockPid
        \/ Head(toServer[p]) \in Replies /\ Taken(p)

\* Only a runner that left the pool has something to read, and only such a one
\* is listed.
OnlyTakenRead == \A p \in Pids : toRunner[p] # << >> => Taken(p)

ListsNameTaken ==
    \A a \in Apps : /\ m_runningApps[a] # 0 => Taken(m_runningApps[a])
                    /\ m_runningSockets[a] # 0 => Taken(m_runningSockets[a])

StageInv ==
    /\ PoolIsRegistered
    /\ StartingIsUnknown
    /\ ConnectedWasForked
    /\ RegistersOnce
    /\ OnlyTakenRead
    /\ ListsNameTaken

\* The stages hold initially: no runner was started yet.
LEMMA StageInit == Init => StageInv
<1> SUFFICES ASSUME Init PROVE StageInv
  OBVIOUS
<1>1. m_runnerClients = << >> /\ DOMAIN << >> = {}
  BY DEF Init, IpcInit
<1>2. Pooled = {} /\ Distinct(m_runnerClients)
  BY <1>1 DEF Pooled, Elems, Distinct
<1> QED
  BY <1>2 DEF Init, IpcInit, StageInv, PoolIsRegistered, StartingIsUnknown,
              ConnectedWasForked, RegistersOnce, OnlyTakenRead, ListsNameTaken

\* Taking the first runner of `clients' for an application.
LEMMA LaunchOnPool ==
    ASSUME NEW clients \in Seq(Pids), clients # << >>, Distinct(clients),
           NEW a, NEW r, NEW gone, LaunchOn(clients, a, r, gone)
    PROVE  /\ Distinct(m_runnerClients')
           /\ Pooled' = Elems(clients) \ {Head(clients)}
           /\ Head(clients) \in Elems(clients)
           /\ Len(m_runnerClients') = Cardinality(Pooled')
<1>1. m_runnerClients' = Tail(clients)
  BY DEF LaunchOn
<1>2. /\ Distinct(m_runnerClients') /\ m_runnerClients' \in Seq(Pids)
      /\ Elems(m_runnerClients') = Elems(clients) \ {Head(clients)}
      /\ Head(clients) \in Elems(clients)
  BY <1>1, TakeFirst
<1>3. Cardinality(Elems(m_runnerClients')) = Len(m_runnerClients')
  BY <1>2, DistinctSize
<1> QED  BY <1>2, <1>3 DEF Pooled

\* A reply that is put on the wire is behind what is there.
LEMMA HeadOfWire ==
    ASSUME NEW q \in Seq(ToServerMsg), NEW reply \in Replies
    PROVE  /\ Append(q, reply) # << >>
           /\ Head(Append(q, reply)) = IF q = << >> THEN reply ELSE Head(q)
BY AppendProperties, HeadTailAppend DEF ToServerMsg

\* What a runner reads and replies keeps the stages.
LEMMA ReadRequestStage ==
    ASSUME TypeOK, StageInv, NEW p \in Pids, NEW header, NEW reply \in Replies,
           ReadRequest(p, header, reply), UNCHANGED lmVars,
           loader' \in {loader, [loader EXCEPT ![p] = "loaded"],
                        [loader EXCEPT ![p] = "exiting"]}
    PROVE  StageInv'
<1>1. /\ UNCHANGED << queues, lists, sockets, m_runningSockets, proc >>
      /\ toRunner[p] # << >>
      /\ toRunner' = [toRunner EXCEPT ![p] = << >>]
      /\ toServer' = toServer \/ /\ p \in sockOpen
                                 /\ toServer' = [toServer EXCEPT ![p] = Append(@, reply)]
  BY DEF ReadRequest, lmVars
<1>2. \A q \in Pids : Taken(q)' <=> Taken(q)
  BY <1>1 DEF Taken, Pooled, queues, sockets
<1>3. Taken(p) /\ loader[p] # "starting"
  BY <1>1 DEF StageInv, OnlyTakenRead, StartingIsUnknown, Taken
<1>4. PoolIsRegistered'
  BY <1>1 DEF StageInv, PoolIsRegistered, Pooled, queues, sockets
<1>5. StartingIsUnknown'
  BY <1>1, <1>3 DEF StageInv, StartingIsUnknown, sockets, TypeOK, IpcTypeOK, LoaderStages
<1>6. ConnectedWasForked'
  BY <1>1, <1>3 DEF StageInv, ConnectedWasForked, TypeOK, LoaderStages
<1>7. RegistersOnce'
  <2> SUFFICES ASSUME NEW q \in Pids, toServer'[q] # << >>
               PROVE  \/ Head(toServer'[q]) = "REGISTER_REQUEST" /\ q \notin sockPid'
                      \/ Head(toServer'[q]) \in Replies /\ Taken(q)'
    BY DEF RegistersOnce
  <2>1. sockPid' = sockPid
    BY <1>1 DEF sockets
  <2>2. CASE toServer'[q] = toServer[q]
    BY <1>2, <2>1, <2>2 DEF StageInv, RegistersOnce
  <2>3. CASE toServer'[q] # toServer[q]
    <3>1. q = p /\ toServer'[q] = Append(toServer[q], reply) /\ toServer[q] \in Seq(ToServerMsg)
      BY <1>1, <2>3 DEF TypeOK, IpcTypeOK
    <3>2. Head(toServer'[q]) = IF toServer[q] = << >> THEN reply ELSE Head(toServer[q])
      BY <3>1, HeadOfWire
    <3> QED  BY <1>2, <1>3, <2>1, <3>1, <3>2 DEF StageInv, RegistersOnce
  <2> QED  BY <2>2, <2>3
<1>8. OnlyTakenRead'
  BY <1>1, <1>2 DEF StageInv, OnlyTakenRead, TypeOK, IpcTypeOK
<1>9. ListsNameTaken'
  BY <1>1, <1>2 DEF StageInv, ListsNameTaken, TypeOK, IpcTypeOK, lists
<1> QED  BY <1>4, <1>5, <1>6, <1>7, <1>8, <1>9 DEF StageInv

\* Giving the first runner of `clients' an application keeps the stages, if
\* `clients' is the pool or the pool with a runner that just registered.
LEMMA LaunchOnStage ==
    ASSUME TypeOK, StageInv, NEW new \in SUBSET Pids, NEW clients \in Seq(Pids),
           clients # << >>, Distinct(clients), Elems(clients) = Pooled \cup new,
           \A p \in new : loader[p] # "starting" /\ toServer'[p] = << >>,
           new \cap sockPid = {}, sockPid' = sockPid \cup new,
           \A p \in Pids : toServer'[p] \in {toServer[p], << >>},
           NEW a \in Apps, NEW r, NEW gone, LaunchOn(clients, a, r, gone),
           UNCHANGED << m_runningApps, proc, loader >>
    PROVE  StageInv'
<1> DEFINE s == Head(clients)
<1>1. /\ Distinct(m_runnerClients') /\ Pooled' = (Pooled \cup new) \ {s}
      /\ s \in Pooled \cup new
  BY LaunchOnPool
<1>2. s \in Pids
  BY HeadTailProperties
<1> HIDE DEF s
<1>3. Taken(s)' /\ \A q \in Pids : Taken(q) => Taken(q)'
  BY <1>1 DEF Taken, StageInv, PoolIsRegistered
<1>4. /\ m_runningSockets' = [m_runningSockets EXCEPT ![a] = IF s \notin gone THEN s ELSE 0]
      /\ \A q \in Pids : q # s => toRunner'[q] = toRunner[q]
      /\ sockOpen' \subseteq sockOpen
  BY <1>2 DEF LaunchOn, s, TypeOK, IpcTypeOK
<1>5. PoolIsRegistered'
  BY <1>1 DEF StageInv, PoolIsRegistered
<1>6. StartingIsUnknown'
  BY <1>4 DEF StageInv, StartingIsUnknown
<1>7. ConnectedWasForked'
  BY DEF StageInv, ConnectedWasForked
<1>8. RegistersOnce'
  <2> SUFFICES ASSUME NEW q \in Pids, toServer'[q] # << >>
               PROVE  \/ Head(toServer'[q]) = "REGISTER_REQUEST" /\ q \notin sockPid'
                      \/ Head(toServer'[q]) \in Replies /\ Taken(q)'
    BY DEF RegistersOnce
  <2>1. toServer'[q] = toServer[q] /\ q \notin new
    OBVIOUS
  <2> QED  BY <1>3, <2>1 DEF StageInv, RegistersOnce
<1>9. OnlyTakenRead'
  BY <1>3, <1>4 DEF StageInv, OnlyTakenRead
<1>10. ListsNameTaken'
  BY <1>2, <1>3, <1>4 DEF StageInv, ListsNameTaken, TypeOK, IpcTypeOK
<1> QED  BY <1>5, <1>6, <1>7, <1>8, <1>9, <1>10 DEF StageInv

\* A step after which no more runners are pooled, as many are registered and no
\* list or wire names a new one keeps what the stages say of all of them.
LEMMA QuietStage ==
    ASSUME TypeOK, StageInv, Distinct(m_runnerClients'),
           Pooled' \subseteq Pooled, UNCHANGED << sockPid, loader >>,
           sockOpen' \subseteq sockOpen,
           \A p \in Pids : proc'[p] \in {"none", "failed"} => loader[p] = "starting",
           \A p \in Pids : toServer'[p] \in {toServer[p], << >>},
           \A p \in Pids : toRunner'[p] # << >> => Taken(p),
           \A a \in Apps : /\ m_runningApps'[a] # 0 => Taken(m_runningApps'[a])
                           /\ m_runningSockets'[a] \in {m_runningSockets[a], 0}
    PROVE  StageInv'
<1>1. \A p : Taken(p) => Taken(p)'
  BY DEF Taken
<1>2. PoolIsRegistered' /\ StartingIsUnknown' /\ ConnectedWasForked'
  BY DEF StageInv, PoolIsRegistered, StartingIsUnknown, ConnectedWasForked
<1>3. RegistersOnce' /\ OnlyTakenRead' /\ ListsNameTaken'
  BY <1>1 DEF StageInv, RegistersOnce, OnlyTakenRead, ListsNameTaken
<1> QED  BY <1>2, <1>3 DEF StageInv

\* Every step keeps the stages.
LEMMA StageNext == TypeOK /\ StageInv /\ [Next]_vars => StageInv'
<1> SUFFICES ASSUME TypeOK, StageInv, [Next]_vars PROVE StageInv'
  OBVIOUS
<1>a. /\ PoolIsRegistered /\ Distinct(m_runnerClients) /\ Pooled \subseteq sockPid
      /\ \A p \in Pids : proc[p] \in {"none", "failed"} => loader[p] = "starting"
      /\ \A p \in Pids : toRunner[p] # << >> => Taken(p)
      /\ \A a \in Apps : m_runningApps[a] # 0 => Taken(m_runningApps[a])
  BY DEF StageInv, PoolIsRegistered, ConnectedWasForked, OnlyTakenRead, ListsNameTaken
<1>1. ASSUME NEW p \in Pids, RunnerConnects(p) PROVE StageInv'
  <2>1. /\ UNCHANGED << queues, lists, m_runningSockets, sockPid, toRunner, proc >>
        /\ proc[p] = "alive" /\ loader[p] = "starting"
        /\ loader' = [loader EXCEPT ![p] = "idle"]
        /\ sockOpen' = sockOpen \cup {p}
        /\ toServer' = [toServer EXCEPT ![p] = << "REGISTER_REQUEST" >>]
    BY <1>1 DEF RunnerConnects, ConnectToServer, Alive, lmVars
  <2>2. \A q : Taken(q)' <=> Taken(q)
    BY <2>1 DEF Taken, Pooled, queues
  <2>3. p \notin sockPid /\ Head(<< "REGISTER_REQUEST" >>) = "REGISTER_REQUEST"
    BY <2>1 DEF StageInv, StartingIsUnknown
  <2>4. PoolIsRegistered' /\ StartingIsUnknown' /\ ConnectedWasForked'
    BY <2>1 DEF StageInv, PoolIsRegistered, StartingIsUnknown, ConnectedWasForked,
                queues, Pooled, TypeOK, LoaderStages
  <2>5. RegistersOnce'
    BY <2>1, <2>2, <2>3 DEF StageInv, RegistersOnce, TypeOK, IpcTypeOK
  <2>6. OnlyTakenRead' /\ ListsNameTaken'
    BY <2>1, <2>2 DEF StageInv, OnlyTakenRead, ListsNameTaken, lists
  <2> QED  BY <2>4, <2>5, <2>6 DEF StageInv
<1>2. ASSUME NEW p \in Pids, RunnerLoads(p) PROVE StageInv'
  BY <1>2, ReadRequestStage DEF RunnerLoads, Replies
<1>3. ASSUME NEW p \in Pids, RunnerFailsToLoad(p) PROVE StageInv'
  BY <1>3, ReadRequestStage DEF RunnerFailsToLoad, Replies
<1>4. ASSUME NEW p \in Pids, RunnerReloads(p) PROVE StageInv'
  BY <1>4, ReadRequestStage DEF RunnerReloads, Replies, runnerVars
<1>5. ASSUME NEW p \in Pids, RunnerEnds(p) PROVE StageInv'
  <2>1. /\ UNCHANGED << queues, lists, sockets, m_runningSockets, toServer, loader >>
        /\ toRunner' = [toRunner EXCEPT ![p] = << >>]
        /\ proc' = [proc EXCEPT ![p] = "dead"]
    BY <1>5 DEF RunnerEnds, SocketClosed, ProcessEnds, runnerVars
  <2>2. /\ \A q \in Pids : proc'[q] \in {"none", "failed"} => proc'[q] = proc[q]
        /\ \A q \in Pids : toRunner'[q] # << >> => toRunner'[q] = toRunner[q]
    BY <2>1 DEF TypeOK, LMTypeOK, IpcTypeOK
  <2> QED
    BY <1>a, <2>1, <2>2, QuietStage DEF queues, lists, sockets, Pooled
<1>6. ASSUME NEW p \in Pids, RunnerExecFails(p) PROVE StageInv'
  <2>1. /\ UNCHANGED ipcVars /\ UNCHANGED loader /\ loader[p] = "starting"
        /\ proc' = [proc EXCEPT ![p] = "failed"]
    BY <1>6 DEF RunnerExecFails, ExecFails, runnerVars
  <2> QED
    BY <1>a, <2>1, QuietStage DEF TypeOK, LMTypeOK, ipcVars, queues, lists, sockets, wires, Pooled
<1>7. ASSUME NEW s \in Pids, ServerReadsRegister(s) PROVE StageInv'
  <2>1. /\ toServer[s] # << >> /\ Head(toServer[s]) = "REGISTER_REQUEST"
        /\ toServer' = [toServer EXCEPT ![s] = << >>]
        /\ sockPid' = sockPid \cup {s}
        /\ UNCHANGED << lists, loader, proc >>
    BY <1>7 DEF ServerReadsRegister, ReadRegister, Arrived, runnerVars, CountChanged
  <2>2. s \notin sockPid
    BY <2>1 DEF StageInv, RegistersOnce, Replies
  <2>3. loader[s] # "starting"
    BY <2>1 DEF StageInv, StartingIsUnknown
  <2> DEFINE clients == Append(m_runnerClients, s)
  <2>4. /\ clients \in Seq(Pids) /\ clients # << >>
        /\ Distinct(clients) /\ Elems(clients) = Pooled \cup {s}
    <3>1. m_runnerClients \in Seq(Pids)
      BY DEF TypeOK, IpcTypeOK
    <3>2. s \notin Elems(m_runnerClients) /\ Distinct(m_runnerClients)
      BY <1>a, <2>2 DEF Pooled
    <3> QED  BY <3>1, <3>2, AppendOne DEF Pooled
  <2> HIDE DEF clients
  <2>5. \A q \in Pids : /\ q # s => toServer'[q] = toServer[q]
                        /\ toServer'[s] = << >>
    BY <2>1 DEF TypeOK, IpcTypeOK
  <2>6. CASE m_deferredMessages = << >>
    <3>1. /\ m_runnerClients' = clients
          /\ UNCHANGED << m_runningSockets, m_runningApps, toRunner, sockOpen >>
      BY <1>7, <2>6 DEF ServerReadsRegister, ReadRegister, clients, lists
    <3>2. Pooled' = Pooled \cup {s} /\ Distinct(m_runnerClients')
      BY <2>4, <3>1 DEF Pooled
    <3>3. \A q : Taken(q) => Taken(q)'
      BY <1>a, <2>1, <2>2, <3>2 DEF Taken
    <3>4. PoolIsRegistered'
      BY <1>a, <2>1, <3>2 DEF PoolIsRegistered
    <3>5. StartingIsUnknown' /\ ConnectedWasForked'
      BY <2>1, <2>3, <2>5, <3>1 DEF StageInv, StartingIsUnknown, ConnectedWasForked
    <3>6. RegistersOnce'
      BY <2>1, <2>5, <3>3 DEF StageInv, RegistersOnce
    <3>7. OnlyTakenRead' /\ ListsNameTaken'
      BY <3>1, <3>3 DEF StageInv, OnlyTakenRead, ListsNameTaken
    <3> QED  BY <3>4, <3>5, <3>6, <3>7 DEF StageInv
  <2>7. CASE m_deferredMessages # << >>
    <3>1. PICK a, r : a \in Apps /\ LaunchOn(clients, a, r, Gone)
      <4>1. Head(m_deferredMessages) \in Deferred
        BY <2>7, HeadTailProperties DEF TypeOK, IpcTypeOK
      <4>2. Head(m_deferredMessages).appId \in Apps
        BY <4>1 DEF Deferred
      <4> QED  BY <1>7, <2>7, <4>2 DEF ServerReadsRegister, ReadRegister, clients
    <3>2. {s} \cap sockPid = {} /\ {s} \in SUBSET Pids
      BY <2>2
    <3>3. UNCHANGED << m_runningApps, proc, loader >>
      BY <2>1 DEF lists
    <3>4. /\ \A p \in {s} : loader[p] # "starting" /\ toServer'[p] = << >>
          /\ \A p \in Pids : toServer'[p] \in {toServer[p], << >>}
      BY <2>3, <2>5
    <3> QED  BY <2>1, <2>4, <3>1, <3>2, <3>3, <3>4, LaunchOnStage
  <2> QED  BY <2>6, <2>7
<1>8. ASSUME NEW s \in Pids, ServerReadsLaunchOk(s) PROVE StageInv'
  <2>1. /\ toServer[s] # << >> /\ Head(toServer[s]) = "LAUNCH_OK"
        /\ toServer' = [toServer EXCEPT ![s] = << >>]
        /\ m_runningApps' = [m_runningApps EXCEPT ![sockAppId[s]] = s]
        /\ UNCHANGED << queues, sockets, m_runningSockets, toRunner, lmVars, loader >>
    BY <1>8 DEF ServerReadsLaunchOk, ReadLaunchOk, Arrived, runnerVars
  <2>2. Taken(s)
    BY <2>1 DEF StageInv, RegistersOnce
  <2>3. /\ \A a \in Apps : m_runningApps'[a] \in {m_runningApps[a], s}
        /\ \A q \in Pids : toServer'[q] \in {toServer[q], << >>}
    BY <2>1 DEF TypeOK, IpcTypeOK
  <2> QED
    BY <1>a, <2>1, <2>2, <2>3, QuietStage DEF queues, sockets, lmVars, Pooled
<1>9. ASSUME NEW s \in Pids, ServerReadsOtherReply(s) PROVE StageInv'
  <2>1. /\ toServer' = [toServer EXCEPT ![s] = << >>]
        /\ UNCHANGED << queues, lists, sockets, m_runningSockets, toRunner, lmVars, loader >>
    BY <1>9 DEF ServerReadsOtherReply, ReadOtherReply, Arrived, runnerVars
  <2>2. \A q \in Pids : toServer'[q] \in {toServer[q], << >>}
    BY <2>1 DEF TypeOK, IpcTypeOK
  <2> QED
    BY <1>a, <2>1, <2>2, QuietStage DEF queues, lists, sockets, lmVars, Pooled
<1>10. ASSUME NEW s \in Pids, ServerSeesDisconnect(s) PROVE StageInv'
  <2>1. /\ RemoveOne(s) /\ sockOpen' \subseteq sockOpen
        /\ m_runningSockets' = WithoutSocket(m_runningSockets, s)
        /\ UNCHANGED << lists, wires, sockPid, loader, proc >>
    BY <1>10 DEF ServerSeesDisconnect, OnDisconnected, runnerVars, CountChanged, lmVars
  <2>2. Distinct(m_runnerClients') /\ Pooled' = Pooled \ {s}
    BY <1>a, <2>1, RemoveOneRemoves DEF Pooled, TypeOK, IpcTypeOK
  <2>3. \A a \in Apps : m_runningSockets'[a] \in {m_runningSockets[a], 0}
    BY <2>1 DEF WithoutSocket
  <2> QED
    BY <1>a, <2>1, <2>2, <2>3, QuietStage DEF lists, wires
<1>11. ASSUME NEW p \in Pids, DaemonReapsProcess(p) PROVE StageInv'
  <2>1. /\ proc' = [proc EXCEPT ![p] = "deleting"]
        /\ UNCHANGED << queues, sockets, wires, m_runningSockets, loader >>
        /\ \A a \in Apps : m_runningApps'[a] \in {m_runningApps[a], 0}
    BY <1>11 DEF DaemonReapsProcess, OnProcessFinished, RemoveProcess, runnerVars
  <2>2. \A q \in Pids : proc'[q] \in {"none", "failed"} => proc'[q] = proc[q]
    BY <2>1 DEF TypeOK, LMTypeOK
  <2> QED
    BY <1>a, <2>1, <2>2, QuietStage DEF queues, sockets, wires, Pooled
<1>12. ASSUME NEW a \in Apps, LunaLaunch(a) PROVE StageInv'
  <2>1. UNCHANGED loader
    BY <1>12 DEF LunaLaunch, runnerVars
  <2>2. CASE /\ IpcLaunch(a, Len(requests'), Gone)
             /\ CountChanged({}, Len(m_runnerClients'))
    <3>1. UNCHANGED << m_runningApps, proc, toServer, sockPid >>
      BY <2>2 DEF IpcLaunch, Defer, CountChanged, lists, wires, sockets
    <3>2. CASE m_runnerClients = << >>
      BY <1>a, <2>1, <2>2, <3>1, <3>2, QuietStage
         DEF IpcLaunch, Defer, Pooled, wires, sockets
    <3>3. CASE m_runnerClients # << >>
      <4>1. LaunchOn(m_runnerClients, a, Len(requests'), Gone)
        BY <2>2, <3>3 DEF IpcLaunch
      <4>2. /\ {} \in SUBSET Pids /\ {} \cap sockPid = {} /\ sockPid' = sockPid \cup {}
            /\ Elems(m_runnerClients) = Pooled \cup {}
            /\ m_runnerClients \in Seq(Pids)
        BY <3>1 DEF Pooled, TypeOK, IpcTypeOK
      <4> QED  BY <1>a, <2>1, <3>1, <3>3, <4>1, <4>2, LaunchOnStage
    <3> QED  BY <3>2, <3>3
  <2>3. CASE IpcRelaunch(a, Len(requests'), Gone) /\ UNCHANGED lmVars
    <3> DEFINE s == m_runningSockets[a]
    <3>1. s \in Pids /\ Taken(s)
      BY <2>3 DEF IpcRelaunch, CanRelaunch, TypeOK, IpcTypeOK, StageInv, ListsNameTaken
    <3>2. /\ UNCHANGED << queues, lists, sockPid, proc >>
          /\ sockOpen' \subseteq sockOpen
          /\ toRunner' = toRunner \/ toRunner' = [toRunner EXCEPT ![s] = Append(@, RelaunchRequest)]
          /\ toServer' = toServer \/ toServer' = [toServer EXCEPT ![s] = << >>]
          /\ \/ m_runningSockets' = m_runningSockets
             \/ m_runningSockets' = WithoutSocket(m_runningSockets, s)
      BY <2>3 DEF IpcRelaunch, lmVars
    <3> HIDE DEF s
    <3>3. /\ \A q \in Pids : toServer'[q] \in {toServer[q], << >>}
          /\ \A q \in Pids : q # s => toRunner'[q] = toRunner[q]
          /\ \A b \in Apps : m_runningSockets'[b] \in {m_runningSockets[b], 0}
      BY <3>1, <3>2 DEF TypeOK, IpcTypeOK, WithoutSocket
    <3> QED
      BY <1>a, <2>1, <3>1, <3>2, <3>3, QuietStage DEF queues, lists, Pooled
  <2>4. CASE UNCHANGED << lmVars, ipcVars >>
    BY <1>a, <2>1, <2>4, QuietStage
       DEF lmVars, ipcVars, queues, lists, sockets, wires, Pooled
  <2> QED  BY <1>12, <2>2, <2>3, <2>4 DEF LunaLaunch
<1>13. ASSUME NEW a \in Apps, LunaClose(a) PROVE StageInv'
  <2>1. UNCHANGED << ipcVars, loader, proc >>
    BY <1>13 DEF LunaClose, Terminate, StartClosing, lmVars, runnerVars
  <2> QED
    BY <1>a, <2>1, QuietStage DEF ipcVars, queues, lists, sockets, wires, Pooled
<1>14. ASSUME DaemonOwnStep PROVE StageInv'
  <2>1. UNCHANGED << ipcVars, loader >>
    BY <1>14 DEF DaemonOwnStep, runnerVars
  <2>2. \A p \in Pids : proc'[p] \in {"none", "failed"} => proc'[p] = proc[p]
    BY <1>14
       DEF DaemonOwnStep, LaunchTimeout, OnProcessError, OnProcessDestroyed, Tick,
           CloseTimerFires, KillOverdue, TypeOK, LMTypeOK
  <2> QED
    BY <1>a, <2>1, <2>2, QuietStage DEF ipcVars, queues, lists, sockets, wires, Pooled
<1>15. ASSUME UNCHANGED vars PROVE StageInv'
  BY <1>a, <1>15, QuietStage
     DEF vars, lmVars, ipcVars, queues, lists, sockets, wires, Pooled
<1> QED
  BY <1>1, <1>2, <1>3, <1>4, <1>5, <1>6, <1>7, <1>8, <1>9, <1>10, <1>11, <1>12,
     <1>13, <1>14, <1>15 DEF Next, RunnerStep, ServerStep

\* The stages hold in every state.
THEOREM StagesHold == Spec => [](TypeOK /\ StageInv)
<1>1. Init => TypeOK /\ StageInv
  BY TypeInit, StageInit
<1>2. TypeOK /\ StageInv /\ [Next]_vars => (TypeOK /\ StageInv)'
  BY TypeNext, StageNext
<1> QED  BY <1>1, <1>2, PTL DEF Spec

----------------------------------------------------------------------------
(***************************************************************************)
(* The booster implements the abstract pool: the refinement mapping takes  *)
(* the registered sockets and the set of those in m_runnerClients.         *)
(***************************************************************************)

\* A handler that reports the length of the pool reports its size.
LEMMA PoolSize ==
    ASSUME TypeOK, PoolIsRegistered
    PROVE  Len(m_runnerClients) = Cardinality(Pooled)
BY DistinctSize DEF TypeOK, IpcTypeOK, PoolIsRegistered, Pooled

\* The two modules count alike.
LEMMA SameCount ==
    /\ \A S : Pool!Cardinality(S) = Cardinality(S)
    /\ \A S, n : Pool!PoolIsMissingSome(S, n) = PoolIsMissingSome(S, n)
BY DEF PoolIsMissingSome, Pool!PoolIsMissingSome, Cardinality, Pool!Cardinality

\* So they react alike to a count.
LEMMA SameCountChanged ==
    ASSUME NEW ready, NEW n, CountChanged(ready, n)
    PROVE  Pool!CountChanged(ready, n)
<1>1. Pool!PoolIsMissingSome(m_startingUp', n) = PoolIsMissingSome(m_startingUp', n)
  BY SameCount
<1> QED  BY <1>1 DEF CountChanged, Pool!CountChanged

\* Every step of the booster is a step of the pool, or leaves it alone.
LEMMA PoolStep ==
    TypeOK /\ StageInv /\ TypeOK' /\ StageInv' /\ [Next]_vars
        => [Pool!PoolNext]_(Pool!poolVars)
<1> SUFFICES ASSUME TypeOK, StageInv, TypeOK', StageInv', [Next]_vars
             PROVE  [Pool!PoolNext]_(Pool!poolVars)
  OBVIOUS
<1> DEFINE Stutter == UNCHANGED << lmVars, sockPid, m_runnerClients >>
           Same == UNCHANGED << sockPid, m_runnerClients >>
<1>a. ASSUME Stutter PROVE UNCHANGED Pool!poolVars
  BY <1>a DEF Pool!poolVars, Pool!lmVars, lmVars
<1>b. /\ Len(m_runnerClients) = Cardinality(Pooled)
      /\ Len(m_runnerClients') = Cardinality(Pooled')
  <2>1. Len(m_runnerClients) = Cardinality(Pooled)
    BY PoolSize DEF StageInv
  <2>2. Len(m_runnerClients') = Cardinality(Pooled')
    BY DistinctSize DEF TypeOK, IpcTypeOK, StageInv, PoolIsRegistered, Pooled
  <2> QED  BY <2>1, <2>2
<1> DEFINE mapped == {m_runnerClients[i] : i \in DOMAIN m_runnerClients}
<1>c. /\ mapped = Pooled /\ mapped' = Pooled'
      /\ Pool!Cardinality(Pooled') = Cardinality(Pooled')
      /\ \A ready, n : CountChanged(ready, n) => Pool!CountChanged(ready, n)
  BY SameCount, SameCountChanged DEF Pooled, Elems
<1>1. ASSUME NEW p \in Pids, RunnerConnects(p) PROVE Stutter
  BY <1>1 DEF RunnerConnects, ConnectToServer, queues
<1>2. ASSUME NEW p \in Pids, RunnerLoads(p) \/ RunnerFailsToLoad(p) \/ RunnerReloads(p)
      PROVE  Stutter
  BY <1>2 DEF RunnerLoads, RunnerFailsToLoad, RunnerReloads, ReadRequest, queues, sockets
<1>3. ASSUME NEW p \in Pids, RunnerEnds(p) PROVE Pool!PoolNext
  <2>1. Pool!ProcessEnds(p) /\ Same
    BY <1>3 DEF RunnerEnds, ProcessEnds, Pool!ProcessEnds, SocketClosed, queues, sockets
  <2> QED  BY <2>1 DEF Pool!PoolNext, Pool!ManagerStep
<1>4. ASSUME NEW p \in Pids, RunnerExecFails(p) PROVE Pool!PoolNext
  <2>1. Pool!ExecFails(p) /\ Same
    BY <1>4 DEF RunnerExecFails, ExecFails, Pool!ExecFails, ipcVars, queues, sockets
  <2> QED  BY <2>1 DEF Pool!PoolNext, Pool!ManagerStep
<1>5. ASSUME NEW s \in Pids, ServerReadsRegister(s) PROVE Pool!PoolNext
  <2>1. /\ toServer[s] # << >> /\ Head(toServer[s]) = "REGISTER_REQUEST"
        /\ sockPid' = sockPid \cup {s}
        /\ CountChanged({s}, Cardinality(Pooled'))
    BY <1>5, <1>b DEF ServerReadsRegister, ReadRegister, Arrived
  <2>2. s \notin sockPid /\ proc[s] \notin {"none", "failed"}
    BY <2>1 DEF StageInv, RegistersOnce, StartingIsUnknown, ConnectedWasForked, Replies
  <2>3. Pool!MayRegister(s)
    BY <2>2 DEF Pool!MayRegister
  <2> DEFINE clients == Append(m_runnerClients, s)
  <2>4. /\ clients \in Seq(Pids) /\ clients # << >>
        /\ Distinct(clients) /\ Elems(clients) = Pooled \cup {s}
    <3>1. /\ m_runnerClients \in Seq(Pids) /\ Distinct(m_runnerClients)
          /\ Elems(m_runnerClients) = Pooled /\ s \notin Pooled
      BY <2>2 DEF TypeOK, IpcTypeOK, StageInv, PoolIsRegistered, Pooled
    <3> QED  BY <3>1, AppendOne
  <2> HIDE DEF clients
  <2>5. CASE m_deferredMessages = << >>
    <3>1. Pooled' = Pooled \cup {s}
      BY <1>5, <2>4, <2>5 DEF ServerReadsRegister, ReadRegister, Pooled, clients
    <3>2. Pool!Register(s)
      BY <2>1, <2>3, <3>1, <1>c DEF Pool!Register
    <3> QED  BY <3>2 DEF Pool!PoolNext, Pool!ServerStep
  <2>6. CASE m_deferredMessages # << >>
    <3>1. PICK a, r : LaunchOn(clients, a, r, Gone)
      BY <1>5, <2>6 DEF ServerReadsRegister, ReadRegister, clients
    <3>2. PICK q \in Pids : /\ Pooled' = (Pooled \cup {s}) \ {q}
                            /\ q \in Pooled \cup {s}
      BY <2>4, <3>1, LaunchOnPool, HeadTailProperties
    <3>3. Pool!RegisterAndUse(s, q)
      BY <2>1, <2>3, <3>2, <1>c DEF Pool!RegisterAndUse
    <3>4. \E p, t \in Pids : Pool!RegisterAndUse(p, t)
      BY <3>3
    <3> QED  BY <3>4 DEF Pool!PoolNext, Pool!ServerStep
  <2> QED  BY <2>5, <2>6
<1>6. ASSUME NEW s \in Pids, ServerReadsLaunchOk(s) \/ ServerReadsOtherReply(s)
      PROVE  Stutter
  BY <1>6
     DEF ServerReadsLaunchOk, ServerReadsOtherReply, ReadLaunchOk, ReadOtherReply, queues, sockets
<1>7. ASSUME NEW p \in Pids, p \in Pooled, Pooled' = Pooled \ {p},
             CountChanged({}, Len(m_runnerClients')), UNCHANGED sockPid
      PROVE  Pool!PoolNext
  <2>1. Pool!Leave(p)
    BY <1>7, <1>b, <1>c DEF Pool!Leave
  <2> QED  BY <2>1 DEF Pool!PoolNext, Pool!ServerStep
<1>8. ASSUME NEW s \in Pids, ServerSeesDisconnect(s) PROVE Pool!PoolNext \/ Stutter
  <2>1. Pooled' = Pooled \ {s}
    BY <1>8, RemoveOneRemoves
       DEF ServerSeesDisconnect, OnDisconnected, Pooled, TypeOK, IpcTypeOK, StageInv,
           PoolIsRegistered
  <2>2. UNCHANGED sockPid
    BY <1>8 DEF ServerSeesDisconnect, OnDisconnected
  <2>3. CASE s \in Pooled
    <3>1. m_runnerClients' # m_runnerClients
      BY <2>1, <2>3 DEF Pooled
    <3>2. CountChanged({}, Len(m_runnerClients'))
      BY <1>8, <3>1 DEF ServerSeesDisconnect
    <3> QED  BY <1>7, <2>1, <2>2, <2>3, <3>2
  <2>4. CASE s \notin Pooled
    <3>1. UNCHANGED m_runnerClients
      BY <1>8, <2>4 DEF ServerSeesDisconnect, OnDisconnected, RemoveOne, Pooled, Elems
    <3> QED  BY <1>8, <2>2, <3>1 DEF ServerSeesDisconnect
  <2> QED  BY <2>3, <2>4
<1>9. ASSUME NEW p \in Pids, DaemonReapsProcess(p) PROVE Pool!PoolNext
  <2>1. Pool!OnProcessFinished(p) /\ Same
    BY <1>9 DEF DaemonReapsProcess, OnProcessFinished, Pool!OnProcessFinished,
                RemoveProcess, queues, sockets
  <2> QED  BY <2>1 DEF Pool!PoolNext, Pool!ManagerStep
<1>10. ASSUME NEW a \in Apps, LunaLaunch(a) PROVE Pool!PoolNext \/ Stutter
  <2>1. CASE /\ IpcLaunch(a, Len(requests'), Gone)
             /\ CountChanged({}, Len(m_runnerClients'))
    <3>1. CASE m_runnerClients = << >>
      <4>1. UNCHANGED << sockPid, m_runnerClients >>
        BY <2>1, <3>1 DEF IpcLaunch, Defer, sockets
      <4>2. Len(m_runnerClients') = 0 /\ DOMAIN << >> = {}
        BY <3>1, <4>1, EmptySeq
      <4>3. Pool!FindEmpty
        BY <2>1, <3>1, <4>1, <4>2, SameCountChanged DEF Pool!FindEmpty
      <4> QED  BY <4>3 DEF Pool!PoolNext, Pool!ServerStep
    <3>2. CASE m_runnerClients # << >>
      <4>1. LaunchOn(m_runnerClients, a, Len(requests'), Gone) /\ UNCHANGED sockPid
        BY <2>1, <3>2 DEF IpcLaunch
      <4>2. /\ Head(m_runnerClients) \in Pids /\ Head(m_runnerClients) \in Pooled
            /\ Pooled' = Pooled \ {Head(m_runnerClients)}
        BY <3>2, <4>1, LaunchOnPool, HeadTailProperties
           DEF TypeOK, IpcTypeOK, StageInv, PoolIsRegistered, Pooled
      <4> QED  BY <1>7, <2>1, <4>1, <4>2
    <3> QED  BY <3>1, <3>2
  <2>2. CASE IpcRelaunch(a, Len(requests'), Gone) /\ UNCHANGED lmVars
    BY <2>2 DEF IpcRelaunch, queues
  <2>3. CASE UNCHANGED << lmVars, ipcVars >>
    BY <2>3 DEF ipcVars, queues, sockets
  <2> QED  BY <1>10, <2>1, <2>2, <2>3 DEF LunaLaunch
<1>11. ASSUME NEW a \in Apps, LunaClose(a) PROVE Pool!PoolNext \/ Stutter
  <2> DEFINE pid == m_runningApps[a]
  <2>1. Same
    BY <1>11 DEF LunaClose, ipcVars, queues, sockets
  <2>2. CASE pid # 0 /\ Terminate(pid)
    <3>1. pid \in Pids /\ Taken(pid)
      BY <2>2 DEF TypeOK, IpcTypeOK, StageInv, ListsNameTaken
    <3>2. Pool!Close(pid)
      BY <2>1, <2>2, <3>1
         DEF Pool!Close, Terminate, Pool!Terminate, StartClosing, Pool!StartClosing,
             CanTerminate, Pool!CanTerminate, Taken, Pooled, Elems
    <3> HIDE DEF pid
    <3> QED  BY <3>1, <3>2 DEF Pool!PoolNext, Pool!ServerStep
  <2>3. CASE UNCHANGED lmVars
    BY <2>1, <2>3
  <2> QED  BY <1>11, <2>2, <2>3 DEF LunaClose
<1>12. ASSUME DaemonOwnStep PROVE Pool!PoolNext
  <2>1. Same
    BY <1>12 DEF DaemonOwnStep, ipcVars, queues, sockets
  <2>2. ASSUME NEW p \in Pids, LaunchTimeout(p) PROVE Pool!PoolNext
    <3>1. Pool!LaunchTimeout(p)
      BY <2>2 DEF LaunchTimeout, Pool!LaunchTimeout, IsFreshPid, Pool!IsFreshPid
    <3> QED  BY <2>1, <3>1 DEF Pool!PoolNext, Pool!ManagerStep
  <2>3. ASSUME NEW p \in Pids, OnProcessError(p) PROVE Pool!PoolNext
    <3>1. Pool!OnProcessError(p)
      BY <2>3 DEF OnProcessError, Pool!OnProcessError
    <3> QED  BY <2>1, <3>1 DEF Pool!PoolNext, Pool!ManagerStep
  <2>4. ASSUME NEW p \in Pids, OnProcessDestroyed(p) PROVE Pool!PoolNext
    <3>1. Pool!OnProcessDestroyed(p)
      BY <2>4 DEF OnProcessDestroyed, Pool!OnProcessDestroyed
    <3> QED  BY <2>1, <3>1 DEF Pool!PoolNext, Pool!ManagerStep
  <2>5. CASE Tick
    <3>1. Pool!Tick
      BY <2>5 DEF Tick, Pool!Tick
    <3> QED  BY <2>1, <3>1 DEF Pool!PoolNext, Pool!ManagerStep
  <2>6. CASE CloseTimerFires
    <3>1. Pool!CloseTimerFires
      BY <2>6 DEF CloseTimerFires, Pool!CloseTimerFires, KillOverdue, Pool!KillOverdue,
                  Overdue, Pool!Overdue, Waits, Pool!Waits
    <3> QED  BY <2>1, <3>1 DEF Pool!PoolNext, Pool!ManagerStep
  <2> QED  BY <1>12, <2>2, <2>3, <2>4, <2>5, <2>6 DEF DaemonOwnStep
<1>13. ASSUME UNCHANGED vars PROVE Stutter
  BY <1>13 DEF vars, ipcVars, queues, sockets
<1> HIDE DEF Stutter
<1> QED
  BY <1>a, <1>1, <1>2, <1>3, <1>4, <1>5, <1>6, <1>8, <1>9, <1>10, <1>11, <1>12,
     <1>13 DEF Next, RunnerStep, ServerStep

\* Booster implements RunnerPool, for every instance: each handler of the daemon,
\* with all it calls, is one step of the abstract pool or leaves it alone, and
\* only a process that was given an application is ever sent a signal.
THEOREM BoosterImplementsPool == Spec => ImplementsPool
<1>1. Init => Pool!PoolInit
  <2> SUFFICES ASSUME Init PROVE Pool!PoolInit
    OBVIOUS
  <2>1. m_runnerClients = << >> /\ DOMAIN << >> = {} /\ sockPid = {}
    BY DEF Init, IpcInit
  <2>2. Pool!LMInit
    BY SameCount DEF Init, LMInit, Pool!LMInit
  <2> QED  BY <2>1, <2>2 DEF Pool!PoolInit
<1> DEFINE Inv == TypeOK /\ StageInv
<1>2. Inv /\ Inv' /\ [Next]_vars => [Pool!PoolNext]_(Pool!poolVars)
  BY PoolStep
<1>3. Spec => []Inv
  BY StagesHold
<1> HIDE DEF Inv
<1> QED
  BY <1>1, <1>2, <1>3, PTL DEF Spec, ImplementsPool, Pool!PoolSpec

----------------------------------------------------------------------------
(***************************************************************************)
(* What is proved of the abstract pool holds of the whole booster.         *)
(***************************************************************************)
PoolProofs == INSTANCE RunnerPoolProofs WITH
                  seen   <- sockPid,
                  pooled <- {m_runnerClients[i] : i \in DOMAIN m_runnerClients}

\* The assumptions of RunnerPoolProofs hold of this instance.
LEMMA PidsFinite == Pids \subseteq Nat \ {0} /\ PoolProofs!IsFiniteSet(Pids)
BY PidsAssumption DEF IsFiniteSet, PoolProofs!IsFiniteSet

\* The instances of RunnerPool that Booster and its proofs are made with agree
\* on what the server does to the pool ...
LEMMA SameServerStep == Pool!ServerStep => PoolProofs!ServerStep
<1>1. \A S : Pool!Cardinality(S) = PoolProofs!Cardinality(S)
  BY DEF Pool!Cardinality, PoolProofs!Cardinality
<1>2. ASSUME NEW ready, NEW n, Pool!CountChanged(ready, n)
      PROVE  PoolProofs!CountChanged(ready, n)
  BY <1>1, <1>2
     DEF Pool!CountChanged, PoolProofs!CountChanged, Pool!PoolIsMissingSome,
         PoolProofs!PoolIsMissingSome
<1>3. ASSUME NEW p, Pool!Register(p) PROVE PoolProofs!Register(p)
  BY <1>1, <1>2, <1>3
     DEF Pool!Register, PoolProofs!Register, Pool!MayRegister, PoolProofs!MayRegister
<1>4. ASSUME NEW p, Pool!Leave(p) PROVE PoolProofs!Leave(p)
  BY <1>1, <1>2, <1>4 DEF Pool!Leave, PoolProofs!Leave
<1>5. ASSUME NEW p, Pool!Close(p) PROVE PoolProofs!Close(p)
  BY <1>5
     DEF Pool!Close, PoolProofs!Close, Pool!Terminate, PoolProofs!Terminate,
         Pool!StartClosing, PoolProofs!StartClosing, Pool!CanTerminate,
         PoolProofs!CanTerminate
<1>6. ASSUME NEW p, NEW q, Pool!RegisterAndUse(p, q) PROVE PoolProofs!RegisterAndUse(p, q)
  BY <1>1, <1>2, <1>6
     DEF Pool!RegisterAndUse, PoolProofs!RegisterAndUse, Pool!MayRegister,
         PoolProofs!MayRegister
<1>7. ASSUME Pool!FindEmpty PROVE PoolProofs!FindEmpty
  BY <1>2, <1>7 DEF Pool!FindEmpty, PoolProofs!FindEmpty
<1> QED
  BY <1>3, <1>4, <1>5, <1>6, <1>7 DEF Pool!ServerStep, PoolProofs!ServerStep

\* ... on what the LaunchManager and the kernel do ...
LEMMA SameManagerStep == Pool!ManagerStep => PoolProofs!ManagerStep
<1>1. ASSUME NEW p, Pool!ProcessEnds(p) PROVE PoolProofs!ProcessEnds(p)
  BY <1>1 DEF Pool!ProcessEnds, PoolProofs!ProcessEnds
<1>2. ASSUME NEW p, Pool!ExecFails(p) PROVE PoolProofs!ExecFails(p)
  BY <1>2 DEF Pool!ExecFails, PoolProofs!ExecFails
<1>3. ASSUME NEW p, Pool!LaunchTimeout(p) PROVE PoolProofs!LaunchTimeout(p)
  BY <1>3 DEF Pool!LaunchTimeout, PoolProofs!LaunchTimeout, Pool!IsFreshPid, PoolProofs!IsFreshPid
<1>4. ASSUME NEW p, Pool!OnProcessFinished(p) PROVE PoolProofs!OnProcessFinished(p)
  BY <1>4 DEF Pool!OnProcessFinished, PoolProofs!OnProcessFinished
<1>5. ASSUME NEW p, Pool!OnProcessError(p) PROVE PoolProofs!OnProcessError(p)
  BY <1>5 DEF Pool!OnProcessError, PoolProofs!OnProcessError
<1>6. ASSUME NEW p, Pool!OnProcessDestroyed(p) PROVE PoolProofs!OnProcessDestroyed(p)
  BY <1>6 DEF Pool!OnProcessDestroyed, PoolProofs!OnProcessDestroyed
<1>7. ASSUME Pool!Tick PROVE PoolProofs!Tick
  BY <1>7 DEF Pool!Tick, PoolProofs!Tick
<1>8. ASSUME Pool!CloseTimerFires PROVE PoolProofs!CloseTimerFires
  BY <1>8
     DEF Pool!CloseTimerFires, PoolProofs!CloseTimerFires, Pool!KillOverdue,
         PoolProofs!KillOverdue, Pool!Overdue, PoolProofs!Overdue, Pool!Waits,
         PoolProofs!Waits
<1> QED
  BY <1>1, <1>2, <1>3, <1>4, <1>5, <1>6, <1>7, <1>8
     DEF Pool!ManagerStep, PoolProofs!ManagerStep

\* ... and so on the behaviours of the pool.
LEMMA SamePool == Pool!PoolSpec => PoolProofs!PoolSpec
<1>1. Pool!PoolInit => PoolProofs!PoolInit
  BY DEF Pool!PoolInit, PoolProofs!PoolInit, Pool!LMInit, PoolProofs!LMInit,
         Pool!PoolIsMissingSome, PoolProofs!PoolIsMissingSome, Pool!Cardinality,
         PoolProofs!Cardinality
<1>2. Pool!poolVars = PoolProofs!poolVars
  BY DEF Pool!poolVars, PoolProofs!poolVars, Pool!lmVars, PoolProofs!lmVars
<1>3. UNCHANGED Pool!poolVars => UNCHANGED PoolProofs!poolVars
  BY DEF Pool!poolVars, PoolProofs!poolVars, Pool!lmVars, PoolProofs!lmVars
<1>4. [Pool!PoolNext]_(Pool!poolVars) => [PoolProofs!PoolNext]_(PoolProofs!poolVars)
  BY <1>3, SameServerStep, SameManagerStep DEF Pool!PoolNext, PoolProofs!PoolNext
<1> QED  BY <1>1, <1>4, PTL DEF Pool!PoolSpec, PoolProofs!PoolSpec

\* In the whole booster there are never more idle runners than the pool is meant
\* to hold, whatever the sockets, the runners and the clients do
\* (launchmanager.cpp:44, 102-124).
THEOREM BoosterNeverOverfull == Spec => []Pool!PoolBound
<1>1. PoolProofs!PoolBound => Pool!PoolBound
  BY DEF Pool!PoolBound, PoolProofs!PoolBound, Pool!Idle, PoolProofs!Idle,
         Pool!Cardinality, PoolProofs!Cardinality
<1>2. Spec => Pool!PoolSpec
  BY BoosterImplementsPool DEF ImplementsPool
<1>3. Pool!PoolSpec => PoolProofs!PoolSpec
  BY SamePool
<1>4. PoolProofs!PoolSpec => []PoolProofs!PoolBound
  BY PidsFinite, MaxAssumption, TimeoutAssumption, MayFailAssumption,
     PoolProofs!PoolNeverOverfull, PTL
<1> QED
  BY <1>1, <1>2, <1>3, <1>4, PTL

\* In the whole booster SIGKILL goes only to a process that had SIGTERM and the
\* whole CLOSE_TIMEOUT to go (launchmanager.cpp:187-193).
THEOREM BoosterKillsLast == Spec => KillOnlyAfterTimeout
<1>1. PoolProofs!KillOnlyAfterTimeout => KillOnlyAfterTimeout
  BY DEF PoolProofs!KillOnlyAfterTimeout, KillOnlyAfterTimeout, PoolProofs!lmVars, lmVars
<1>2. Spec => Pool!PoolSpec
  BY BoosterImplementsPool DEF ImplementsPool
<1>3. Pool!PoolSpec => PoolProofs!PoolSpec
  BY SamePool
<1>4. PoolProofs!PoolSpec => PoolProofs!KillOnlyAfterTimeout
  BY PidsFinite, MaxAssumption, TimeoutAssumption, MayFailAssumption,
     PoolProofs!KillIsLastResort, PTL
<1> QED
  BY <1>1, <1>2, <1>3, <1>4, PTL

\* In the whole booster a pool that is short is always being refilled, as long as
\* the runner command can be executed (launchmanager.cpp:38-46, 108-111).
THEOREM BoosterRefillsPool == Spec => Pool!RefilledUnlessExecFails
<1>1. PoolProofs!ShortPoolIsRefilled => Pool!ShortPoolIsRefilled
  BY DEF PoolProofs!ShortPoolIsRefilled, Pool!ShortPoolIsRefilled,
         Pool!Cardinality, PoolProofs!Cardinality
<1>2. Pool!NoExecFails => PoolProofs!NoExecFails
  BY DEF PoolProofs!NoExecFails, Pool!NoExecFails
<1>3. PoolProofs!RefilledUnlessExecFails => Pool!RefilledUnlessExecFails
  BY <1>1, <1>2, PTL DEF PoolProofs!RefilledUnlessExecFails, Pool!RefilledUnlessExecFails
<1>4. Spec => Pool!PoolSpec
  BY BoosterImplementsPool DEF ImplementsPool
<1>5. Pool!PoolSpec => PoolProofs!PoolSpec
  BY SamePool
<1>6. PoolProofs!PoolSpec => PoolProofs!RefilledUnlessExecFails
  BY PidsFinite, MaxAssumption, TimeoutAssumption, MayFailAssumption,
     PoolProofs!ShortPoolAlwaysRefilled, PTL
<1> QED
  BY <1>3, <1>4, <1>5, <1>6, PTL

----------------------------------------------------------------------------
(***************************************************************************)
(* Giving an application to a runner: the same from launch() and from the  *)
(* deferred queue.                                                         *)
(***************************************************************************)

\* The socket s, which nobody has taken yet, gets application a and callback r.
Gives(s, a, r) ==
    /\ s \in Pids /\ a \in Apps /\ r \in Requests
    /\ ~Taken(s) /\ Taken(s)' /\ loader[s] # "starting"
    /\ s \in Alive => s \in sockOpen
    /\ toRunner[s] = << >> /\ toServer'[s] = << >>
    /\ m_runningSockets' = [m_runningSockets EXCEPT ![a] = IF s \in Alive THEN s ELSE 0]
    /\ sockAppId' = [sockAppId EXCEPT ![s] = a]
    /\ toRunner' = [toRunner EXCEPT ![s] = IF s \in Alive THEN << LaunchRequest(a) >> ELSE << >>]
    /\ m_launchCallbacks' = [m_launchCallbacks EXCEPT ![s] = r]
    /\ sockOpen' = IF s \in Alive THEN sockOpen ELSE sockOpen \ {s}
    /\ \A q \in Pids : q # s => toServer'[q] \in {toServer[q], << >>}
    /\ \A q \in Pids : toServer'[q] # toServer[q] => ~Taken(q)
    /\ UNCHANGED << lists, runnerVars, proc, replies, published >>

\* A live runner that has connected is connected as far as the server knows.
LiveIsConnected == \A p \in Alive : loader[p] # "starting" => p \in sockOpen

\* What LaunchOn does with a runner that is in `clients' but was not taken.
LEMMA LaunchOnGives ==
    ASSUME TypeOK, StageInv, LiveIsConnected, NEW clients \in Seq(Pids), clients # << >>,
           NEW a \in Apps, NEW r \in Requests, LaunchOn(clients, a, r, Gone),
           NEW s, s = Head(clients), ~Taken(s), Taken(s)', loader[s] # "starting",
           toServer'[s] = << >>,
           \A q \in Pids : toServer'[q] \in {toServer[q], << >>},
           \A q \in Pids : toServer'[q] # toServer[q] => ~Taken(q),
           UNCHANGED << lists, runnerVars, proc, replies, published >>
    PROVE  Gives(s, a, r)
<1>1. s \in Pids
  BY HeadTailProperties
<1>2. toRunner[s] = << >>
  BY <1>1 DEF StageInv, OnlyTakenRead
<1>3. s \in Alive => s \in sockOpen
  BY DEF LiveIsConnected
<1>4. s \notin Gone <=> s \in Alive
  BY <1>1 DEF Gone
<1>5. /\ m_runningSockets' = [m_runningSockets EXCEPT ![a] = IF s \notin Gone THEN s ELSE 0]
      /\ sockAppId' = [sockAppId EXCEPT ![s] = a]
      /\ toRunner' = [toRunner EXCEPT ![s] =
             IF s \notin Gone THEN Append(toRunner[s], LaunchRequest(a)) ELSE toRunner[s]]
      /\ m_launchCallbacks' = [m_launchCallbacks EXCEPT ![s] = r]
      /\ sockOpen' = IF s \notin Gone THEN sockOpen ELSE sockOpen \ {s}
  BY DEF LaunchOn
<1>6. Append(<< >>, LaunchRequest(a)) = << LaunchRequest(a) >>
  OBVIOUS
<1>7. toRunner' = [toRunner EXCEPT ![s] = IF s \in Alive THEN << LaunchRequest(a) >> ELSE << >>]
  BY <1>2, <1>4, <1>5, <1>6
<1> QED  BY <1>1, <1>2, <1>3, <1>4, <1>5, <1>7 DEF Gives

\* launch() with a runner in the pool.
LEMMA LaunchGives ==
    ASSUME TypeOK, StageInv, LiveIsConnected, NEW a \in Apps, LunaLaunch(a),
           m_runnerClients # << >>, IpcLaunch(a, Len(requests'), Gone),
           CountChanged({}, Len(m_runnerClients'))
    PROVE  /\ \E s : Gives(s, a, Len(requests'))
           /\ UNCHANGED m_deferredMessages
<1>1. /\ LaunchOn(m_runnerClients, a, Len(requests'), Gone)
      /\ UNCHANGED << lists, m_deferredMessages, sockPid, toServer >>
      /\ UNCHANGED << runnerVars, proc, replies, published >>
  BY DEF IpcLaunch, LunaLaunch, CountChanged
<1>2. /\ m_runnerClients \in Seq(Pids) /\ Distinct(m_runnerClients)
      /\ Pooled \subseteq sockPid
  BY DEF TypeOK, IpcTypeOK, StageInv, PoolIsRegistered
<1> PICK s \in Pids : s = Head(m_runnerClients)
  BY <1>2, HeadTailProperties
<1>3. s \in Pooled /\ Pooled' = Pooled \ {s}
  BY <1>1, <1>2, LaunchOnPool DEF Pooled
<1>4. ~Taken(s) /\ Taken(s)' /\ s \in sockPid
  BY <1>1, <1>2, <1>3 DEF Taken
<1>5. loader[s] # "starting" /\ toServer[s] = << >>
  BY <1>3, <1>4 DEF StageInv, StartingIsUnknown, RegistersOnce
<1>6. Len(requests') \in Requests
  BY CallTypes DEF LunaLaunch
<1>7. Gives(s, a, Len(requests'))
  BY <1>1, <1>2, <1>4, <1>5, <1>6, LaunchOnGives
<1> QED  BY <1>1, <1>7

\* A registration that serves the oldest deferred launch.
LEMMA RegisterGives ==
    ASSUME TypeOK, StageInv, LiveIsConnected, NEW s \in Pids, ServerReadsRegister(s),
           m_deferredMessages # << >>
    PROVE  LET m == Head(m_deferredMessages)
           IN  /\ \E q : Gives(q, m.appId, m.callback)
               /\ m_deferredMessages' = Tail(m_deferredMessages)
               /\ UNCHANGED requests
<1> DEFINE m == Head(m_deferredMessages)
           clients == Append(m_runnerClients, s)
<1>1. /\ toServer[s] # << >> /\ Head(toServer[s]) = "REGISTER_REQUEST"
      /\ toServer' = [toServer EXCEPT ![s] = << >>]
      /\ sockPid' = sockPid \cup {s}
      /\ m_deferredMessages' = Tail(m_deferredMessages)
      /\ LaunchOn(clients, m.appId, m.callback, Gone)
      /\ UNCHANGED << lists, runnerVars, proc, lunaVars >>
  BY DEF ServerReadsRegister, ReadRegister, Arrived, CountChanged
<1>2. s \notin sockPid /\ loader[s] # "starting"
  BY <1>1 DEF StageInv, RegistersOnce, StartingIsUnknown, Replies
<1>3. /\ clients \in Seq(Pids) /\ clients # << >> /\ Distinct(clients)
      /\ Elems(clients) = Pooled \cup {s} /\ Pooled \subseteq sockPid
  BY <1>2, AppendOne DEF TypeOK, IpcTypeOK, StageInv, PoolIsRegistered, Pooled
<1>4. m.appId \in Apps /\ m.callback \in Requests
  <2>1. m \in Deferred
    BY HeadTailProperties DEF TypeOK, IpcTypeOK
  <2> QED  BY <2>1 DEF Deferred
<1> HIDE DEF clients
<1> PICK q \in Pids : q = Head(clients)
  BY <1>3, HeadTailProperties
<1>5. q \in Pooled \cup {s} /\ Pooled' = (Pooled \cup {s}) \ {q}
  BY <1>1, <1>3, LaunchOnPool
<1>6. ~Taken(q) /\ Taken(q)'
  BY <1>1, <1>2, <1>3, <1>5 DEF Taken
<1>7. loader[q] # "starting"
  BY <1>2, <1>3, <1>5 DEF StageInv, StartingIsUnknown
<1>8. /\ \A p \in Pids : toServer'[p] \in {toServer[p], << >>}
      /\ \A p \in Pids : toServer'[p] # toServer[p] => p = s
      /\ toServer'[s] = << >>
  BY <1>1 DEF TypeOK, IpcTypeOK
<1>9. /\ toServer'[q] = << >>
      /\ \A p \in Pids : toServer'[p] # toServer[p] => ~Taken(p)
  <2>1. q # s => toServer[q] = << >>
    BY <1>3, <1>5, <1>6 DEF StageInv, RegistersOnce
  <2> QED  BY <1>2, <1>5, <1>8, <2>1 DEF Taken
<1>10. UNCHANGED << lists, runnerVars, proc, replies, published >>
  BY <1>1 DEF lunaVars
<1> HIDE DEF m
<1>11. Gives(q, m.appId, m.callback)
  BY <1>1, <1>3, <1>4, <1>6, <1>7, <1>8, <1>9, <1>10, LaunchOnGives
<1> QED  BY <1>1, <1>11 DEF lunaVars, m

\* Nobody puts a runner back into the pool.
LEMMA TakenStays ==
    TypeOK /\ StageInv /\ [Next]_vars => \A q \in Pids : Taken(q) => Taken(q)'
<1> SUFFICES ASSUME TypeOK, StageInv, [Next]_vars
             PROVE  \A q \in Pids : Taken(q) => Taken(q)'
  OBVIOUS
<1>0. /\ m_runnerClients \in Seq(Pids) /\ Distinct(m_runnerClients)
      /\ Pooled \subseteq sockPid
  BY DEF TypeOK, IpcTypeOK, StageInv, PoolIsRegistered
<1>1. ASSUME UNCHANGED << m_runnerClients, sockPid >>
      PROVE  \A q \in Pids : Taken(q) => Taken(q)'
  BY <1>1 DEF Taken, Pooled
<1>2. ASSUME Pooled' \subseteq Pooled, UNCHANGED sockPid
      PROVE  \A q \in Pids : Taken(q) => Taken(q)'
  BY <1>2 DEF Taken
<1>3. ASSUME NEW s \in Pids, ServerReadsRegister(s)
      PROVE  \A q \in Pids : Taken(q) => Taken(q)'
  <2> DEFINE clients == Append(m_runnerClients, s)
  <2>1. /\ Head(toServer[s]) = "REGISTER_REQUEST" /\ toServer[s] # << >>
        /\ sockPid' = sockPid \cup {s}
        /\ \/ m_runnerClients' = clients
           \/ \E a, r : LaunchOn(clients, a, r, Gone)
    BY <1>3 DEF ServerReadsRegister, ReadRegister, Arrived
  <2>2. s \notin sockPid
    BY <2>1 DEF StageInv, RegistersOnce, Replies
  <2>3. /\ clients \in Seq(Pids) /\ clients # << >> /\ Distinct(clients)
        /\ Elems(clients) = Pooled \cup {s}
    BY <1>0, <2>2, AppendOne DEF Pooled
  <2> HIDE DEF clients
  <2>4. Pooled' \subseteq Pooled \cup {s}
    BY <2>1, <2>3, LaunchOnPool DEF Pooled
  <2> QED  BY <2>1, <2>2, <2>4 DEF Taken
<1>4. ASSUME NEW s \in Pids, ServerSeesDisconnect(s)
      PROVE  \A q \in Pids : Taken(q) => Taken(q)'
  <2>1. Pooled' = Pooled \ {s} /\ UNCHANGED sockPid
    BY <1>0, <1>4, RemoveOneRemoves DEF ServerSeesDisconnect, OnDisconnected, Pooled
  <2> QED  BY <1>2, <2>1
<1>5. ASSUME NEW a \in Apps, LunaLaunch(a)
      PROVE  \A q \in Pids : Taken(q) => Taken(q)'
  <2>1. \/ UNCHANGED << m_runnerClients, sockPid >>
        \/ /\ m_runnerClients # << >> /\ UNCHANGED sockPid
           /\ LaunchOn(m_runnerClients, a, Len(requests'), Gone)
    BY <1>5 DEF LunaLaunch, IpcLaunch, IpcRelaunch, Defer, ipcVars, queues, sockets
  <2> QED  BY <1>0, <1>1, <1>2, <2>1, LaunchOnPool DEF Pooled
<1>6. ASSUME NEW p \in Pids, RunnerStep(p) \/ ServerReadsLaunchOk(p)
                \/ ServerReadsOtherReply(p) \/ DaemonReapsProcess(p)
      PROVE  \A q \in Pids : Taken(q) => Taken(q)'
  BY <1>1, <1>6
     DEF RunnerStep, RunnerConnects, ConnectToServer, RunnerLoads, RunnerFailsToLoad,
         RunnerReloads, ReadRequest, RunnerEnds, SocketClosed, RunnerExecFails,
         ServerReadsLaunchOk, ReadLaunchOk, ServerReadsOtherReply, ReadOtherReply,
         DaemonReapsProcess, RemoveProcess, ipcVars, queues, sockets
<1>7. CASE DaemonOwnStep \/ UNCHANGED vars \/ \E a \in Apps : LunaClose(a)
  BY <1>1, <1>7 DEF DaemonOwnStep, LunaClose, vars, ipcVars, queues, sockets
<1> QED
  BY <1>3, <1>4, <1>5, <1>6, <1>7 DEF Next, ServerStep

----------------------------------------------------------------------------
(***************************************************************************)
(* The messages.                                                           *)
(*                                                                         *)
(* No message names the request it is about, so that the right caller gets *)
(* the right answer rests on what is on the two wires of a runner and what *)
(* its socket holds at each moment: a LAUNCH_REQUEST is the first thing a  *)
(* runner reads, nothing is on the wire back while it is unread, and the   *)
(* callback of the launch waits until the reply is read.                   *)
(***************************************************************************)

\* The entry a relaunch writes to is a connected socket with that application.
SocketsAgree ==
    \A a \in Apps : m_runningSockets[a] # 0 =>
        /\ m_runningSockets[a] \in sockOpen
        /\ sockAppId[m_runningSockets[a]] = a

\* A socket that was not taken has no application and owes no answer.
BlankUntilTaken(p) ==
    ~Taken(p) => /\ sockAppId[p] = NoApp
                 /\ hosted[p] = NoApp
                 /\ m_launchCallbacks[p] = 0

LaunchRequestFirst(p) ==
    toRunner[p] # << >> =>
        /\ sockAppId[p] \in Apps
        /\ Head(toRunner[p]).header = "LAUNCH_REQUEST" =>
              /\ Head(toRunner[p]).appId = sockAppId[p]
              /\ hosted[p] = NoApp
              /\ toServer[p] = << >>
              /\ m_launchCallbacks[p] # 0

LoadedHostsApp(p) ==
    loader[p] = "loaded" => sockAppId[p] \in Apps /\ hosted[p] = sockAppId[p]

SuccessIsFromHost(p) ==
    toServer[p] # << >> /\ Head(toServer[p]) \in {"LAUNCH_OK", "RELAUNCH_OK"} =>
        /\ sockAppId[p] \in Apps /\ hosted[p] = sockAppId[p]
        /\ Head(toServer[p]) = "LAUNCH_OK" => m_launchCallbacks[p] # 0

WiresOK(p) ==
    BlankUntilTaken(p) /\ LaunchRequestFirst(p) /\ LoadedHostsApp(p) /\ SuccessIsFromHost(p)

MessageInv == LiveIsConnected /\ SocketsAgree /\ \A p \in Pids : WiresOK(p)

\* Initially there is no socket and no message.
LEMMA MessageInit == Init => MessageInv
BY DEF Init, IpcInit, LMInit, MessageInv, LiveIsConnected, SocketsAgree, WiresOK,
       BlankUntilTaken, LaunchRequestFirst, LoadedHostsApp, SuccessIsFromHost, Alive

\* A socket is closed by the server only when its runner has ended, and a new
\* process has not connected yet.
LEMMA ConnectedNext ==
    TypeOK /\ StageInv /\ LiveIsConnected /\ [Next]_vars => LiveIsConnected'
<1> SUFFICES ASSUME TypeOK, StageInv, LiveIsConnected, [Next]_vars PROVE LiveIsConnected'
  OBVIOUS
<1>1. ASSUME UNCHANGED << loader, sockOpen >>, Alive' \subseteq Alive
      PROVE  LiveIsConnected'
  BY <1>1 DEF LiveIsConnected
<1>2. ASSUME UNCHANGED << loader, proc >>, NEW s \in Gone, sockOpen \ {s} \subseteq sockOpen'
      PROVE  LiveIsConnected'
  BY <1>2 DEF LiveIsConnected, Alive, Gone
<1>3. ASSUME NEW p \in Pids, RunnerConnects(p) PROVE LiveIsConnected'
  BY <1>3 DEF RunnerConnects, ConnectToServer, lmVars, LiveIsConnected, Alive, TypeOK, LoaderStages
<1>4. ASSUME NEW p \in Pids, RunnerLoads(p) \/ RunnerFailsToLoad(p) \/ RunnerReloads(p)
      PROVE  LiveIsConnected'
  <2>1. toRunner[p] # << >> /\ UNCHANGED << proc, sockOpen >>
    BY <1>4 DEF RunnerLoads, RunnerFailsToLoad, RunnerReloads, ReadRequest, lmVars, sockets
  <2>2. p \in sockPid
    BY <2>1 DEF StageInv, OnlyTakenRead, Taken
  <2>3. loader[p] # "starting" /\ \A q \in Pids : q # p => loader'[q] = loader[q]
    BY <1>4, <2>2
       DEF StageInv, StartingIsUnknown, RunnerLoads, RunnerFailsToLoad, RunnerReloads,
           runnerVars, TypeOK
  <2> QED  BY <2>1, <2>3 DEF LiveIsConnected, Alive
<1>5. ASSUME NEW p \in Pids, RunnerEnds(p) \/ RunnerExecFails(p) \/ DaemonReapsProcess(p)
      PROVE  LiveIsConnected'
  <2>1. UNCHANGED << loader, sockOpen >>
    BY <1>5 DEF RunnerEnds, SocketClosed, RunnerExecFails, DaemonReapsProcess,
                RemoveProcess, ipcVars, sockets, runnerVars
  <2>2. \E t \in {"dead", "failed", "deleting"} : proc' = [proc EXCEPT ![p] = t]
    BY <1>5 DEF RunnerEnds, ProcessEnds, RunnerExecFails, ExecFails, DaemonReapsProcess,
                OnProcessFinished
  <2>3. Alive' \subseteq Alive
    BY <2>2 DEF Alive, TypeOK, LMTypeOK
  <2> QED  BY <1>1, <2>1, <2>3
<1>6. ASSUME NEW s \in Pids, ServerReadsRegister(s) PROVE LiveIsConnected'
  <2>1. UNCHANGED << loader, proc >>
    BY <1>6 DEF ServerReadsRegister, runnerVars, CountChanged
  <2>2. \/ UNCHANGED sockOpen
        \/ \E q \in Gone : sockOpen' = sockOpen \ {q}
    BY <1>6 DEF ServerReadsRegister, ReadRegister, LaunchOn
  <2> QED  BY <1>1, <1>2, <2>1, <2>2 DEF Alive
<1>7. ASSUME NEW s \in Pids, ServerReadsLaunchOk(s) \/ ServerReadsOtherReply(s)
      PROVE  LiveIsConnected'
  BY <1>1, <1>7 DEF ServerReadsLaunchOk, ReadLaunchOk, ServerReadsOtherReply,
                    ReadOtherReply, sockets, lmVars, runnerVars, Alive
<1>8. ASSUME NEW s \in Pids, ServerSeesDisconnect(s) PROVE LiveIsConnected'
  <2>1. UNCHANGED << loader, proc >> /\ s \in Gone /\ sockOpen' = sockOpen \ {s}
    BY <1>8 DEF ServerSeesDisconnect, OnDisconnected, runnerVars, CountChanged, lmVars
  <2> QED  BY <1>2, <2>1
<1>9. ASSUME NEW a \in Apps, LunaLaunch(a) PROVE LiveIsConnected'
  <2>1. UNCHANGED << loader, proc >>
    BY <1>9 DEF LunaLaunch, runnerVars, CountChanged, lmVars
  <2>2. \/ UNCHANGED sockOpen
        \/ \E q \in Gone : sockOpen' = sockOpen \ {q}
    BY <1>9 DEF LunaLaunch, IpcLaunch, Defer, LaunchOn, IpcRelaunch, ipcVars, sockets
  <2> QED  BY <1>1, <1>2, <2>1, <2>2 DEF Alive
<1>10. ASSUME NEW a \in Apps, LunaClose(a) PROVE LiveIsConnected'
  BY <1>1, <1>10 DEF LunaClose, Terminate, StartClosing, lmVars, runnerVars, ipcVars,
                     sockets, Alive
<1>11. ASSUME NEW p \in Pids, LaunchTimeout(p), UNCHANGED << ipcVars, runnerVars >>
       PROVE  LiveIsConnected'
  <2>1. loader[p] = "starting" /\ \A q \in Pids : q # p => proc'[q] = proc[q]
    BY <1>11 DEF LaunchTimeout, IsFreshPid, StageInv, ConnectedWasForked, TypeOK, LMTypeOK
  <2> QED  BY <1>11, <2>1 DEF LiveIsConnected, Alive, ipcVars, sockets, runnerVars
<1>12. CASE DaemonOwnStep
  <2>1. UNCHANGED << ipcVars, runnerVars >>
    BY <1>12 DEF DaemonOwnStep
  <2>2. \/ \E p \in Pids : LaunchTimeout(p)
        \/ Alive' \subseteq Alive
    BY <1>12 DEF DaemonOwnStep, OnProcessError, OnProcessDestroyed, Tick, CloseTimerFires,
                 KillOverdue, Alive, TypeOK, LMTypeOK
  <2> QED  BY <1>1, <1>11, <2>1, <2>2 DEF ipcVars, sockets, runnerVars
<1>13. CASE UNCHANGED vars
  BY <1>1, <1>13 DEF vars, lmVars, ipcVars, sockets, Alive
<1> QED
  BY <1>3, <1>4, <1>5, <1>6, <1>7, <1>8, <1>9, <1>10, <1>12, <1>13
     DEF Next, RunnerStep, ServerStep

\* The map of sockets stays true, also when a write fails inside a launch.
LEMMA SocketsNext ==
    TypeOK /\ StageInv /\ LiveIsConnected /\ SocketsAgree /\ [Next]_vars => SocketsAgree'
<1> SUFFICES ASSUME TypeOK, StageInv, LiveIsConnected, SocketsAgree, [Next]_vars
             PROVE  SocketsAgree'
  OBVIOUS
<1>1. ASSUME UNCHANGED << m_runningSockets, sockAppId >>, sockOpen \subseteq sockOpen'
      PROVE  SocketsAgree'
  BY <1>1 DEF SocketsAgree
<1>2. ASSUME NEW s \in Pids, UNCHANGED sockAppId, sockOpen' = sockOpen \ {s},
             m_runningSockets' = WithoutSocket(m_runningSockets, s)
      PROVE  SocketsAgree'
  BY <1>2 DEF SocketsAgree, WithoutSocket
<1>3. ASSUME NEW s, NEW a, NEW r, Gives(s, a, r) PROVE SocketsAgree'
  <2>1. \A b \in Apps : m_runningSockets[b] # s
    BY <1>3, ConstantsOK DEF Gives, StageInv, ListsNameTaken, Assumptions
  <2>2. /\ s \in Pids /\ a \in Apps
        /\ s \in Alive => s \in sockOpen'
        /\ sockOpen \ {s} \subseteq sockOpen'
        /\ sockAppId' = [sockAppId EXCEPT ![s] = a]
        /\ m_runningSockets' = [m_runningSockets EXCEPT ![a] = IF s \in Alive THEN s ELSE 0]
    BY <1>3 DEF Gives
  <2>3. \A b \in Apps : b # a => m_runningSockets'[b] = m_runningSockets[b]
    BY <2>2 DEF TypeOK, IpcTypeOK
  <2>4. m_runningSockets'[a] # 0 => m_runningSockets'[a] = s /\ s \in sockOpen'
    BY <2>2 DEF TypeOK, IpcTypeOK
  <2>5. sockAppId'[s] = a /\ \A q \in Pids : q # s => sockAppId'[q] = sockAppId[q]
    BY <2>2 DEF TypeOK, IpcTypeOK
  <2>6. \A b \in Apps : m_runningSockets[b] \in Pids \cup {0}
    BY DEF TypeOK, IpcTypeOK
  <2> QED  BY <2>1, <2>2, <2>3, <2>4, <2>5, <2>6 DEF SocketsAgree
<1>4. ASSUME NEW p \in Pids, RunnerStep(p) \/ ServerReadsLaunchOk(p)
                \/ ServerReadsOtherReply(p) \/ DaemonReapsProcess(p)
      PROVE  SocketsAgree'
  BY <1>1, <1>4
     DEF RunnerStep, RunnerConnects, ConnectToServer, RunnerLoads, RunnerFailsToLoad,
         RunnerReloads, ReadRequest, RunnerEnds, SocketClosed, RunnerExecFails,
         ServerReadsLaunchOk, ReadLaunchOk, ServerReadsOtherReply, ReadOtherReply,
         DaemonReapsProcess, RemoveProcess, ipcVars, sockets
<1>5. ASSUME NEW s \in Pids, ServerReadsRegister(s) PROVE SocketsAgree'
  <2>1. CASE m_deferredMessages = << >>
    BY <1>1, <1>5, <2>1 DEF ServerReadsRegister, ReadRegister
  <2>2. CASE m_deferredMessages # << >>
    BY <1>3, <1>5, <2>2, RegisterGives
  <2> QED  BY <2>1, <2>2
<1>6. ASSUME NEW s \in Pids, ServerSeesDisconnect(s) PROVE SocketsAgree'
  BY <1>2, <1>6 DEF ServerSeesDisconnect, OnDisconnected
<1>7. ASSUME NEW a \in Apps, LunaLaunch(a) PROVE SocketsAgree'
  <2>1. CASE /\ IpcLaunch(a, Len(requests'), Gone)
             /\ CountChanged({}, Len(m_runnerClients'))
    <3>1. CASE m_runnerClients = << >>
      BY <1>1, <2>1, <3>1 DEF IpcLaunch, Defer, sockets
    <3>2. CASE m_runnerClients # << >>
      BY <1>3, <1>7, <2>1, <3>2, LaunchGives
    <3> QED  BY <3>1, <3>2
  <2>2. CASE IpcRelaunch(a, Len(requests'), Gone)
    <3> PICK s : s = m_runningSockets[a]
      OBVIOUS
    <3>1. s \in Pids
      BY <2>2 DEF IpcRelaunch, CanRelaunch, TypeOK, IpcTypeOK
    <3>2. /\ UNCHANGED sockAppId
          /\ \/ UNCHANGED << m_runningSockets, sockOpen >>
             \/ /\ m_runningSockets' = WithoutSocket(m_runningSockets, s)
                /\ sockOpen' = sockOpen \ {s}
      BY <2>2 DEF IpcRelaunch
    <3> QED  BY <1>1, <1>2, <3>1, <3>2
  <2>3. CASE UNCHANGED ipcVars
    BY <1>1, <2>3 DEF ipcVars, sockets
  <2> QED  BY <1>7, <2>1, <2>2, <2>3 DEF LunaLaunch
<1>8. CASE DaemonOwnStep \/ UNCHANGED vars \/ \E a \in Apps : LunaClose(a)
  BY <1>1, <1>8 DEF DaemonOwnStep, LunaClose, vars, ipcVars, sockets
<1> QED
  BY <1>4, <1>5, <1>6, <1>7, <1>8 DEF Next, ServerStep

\* What is said of one runner stays true if its wires are emptied or left alone
\* and nothing else of it changes.
LEMMA WiresStay ==
    ASSUME NEW q \in Pids, WiresOK(q), Taken(q) => Taken(q)',
           UNCHANGED << hosted[q], loader[q], sockAppId[q], m_launchCallbacks[q] >>,
           toRunner'[q] \in {toRunner[q], << >>}, toServer'[q] \in {toServer[q], << >>}
    PROVE  WiresOK(q)'
BY DEF WiresOK, BlankUntilTaken, LaunchRequestFirst, LoadedHostsApp, SuccessIsFromHost

\* It also stays true when its callback is taken with the message on the wire.
LEMMA WiresRead ==
    ASSUME NEW q \in Pids, WiresOK(q), Taken(q) => Taken(q)', toServer[q] # << >>,
           UNCHANGED << hosted[q], loader[q], sockAppId[q], toRunner[q] >>,
           m_launchCallbacks'[q] = 0, toServer'[q] = << >>
    PROVE  WiresOK(q)'
BY DEF WiresOK, BlankUntilTaken, LaunchRequestFirst, LoadedHostsApp, SuccessIsFromHost

\* Every step keeps what is said of the messages.
LEMMA WiresNext ==
    TypeOK /\ StageInv /\ MessageInv /\ [Next]_vars => \A q \in Pids : WiresOK(q)'
<1> SUFFICES ASSUME TypeOK, StageInv, MessageInv, [Next]_vars
             PROVE  \A q \in Pids : WiresOK(q)'
  OBVIOUS
<1>a. \A q \in Pids : WiresOK(q) /\ (Taken(q) => Taken(q)')
  BY TakenStays DEF MessageInv
<1> DEFINE Still(q) ==
        /\ UNCHANGED << hosted[q], loader[q], sockAppId[q], m_launchCallbacks[q] >>
        /\ toRunner'[q] \in {toRunner[q], << >>}
        /\ toServer'[q] \in {toServer[q], << >>}
<1>b. \A q \in Pids : Still(q) => WiresOK(q)'
  BY <1>a, WiresStay
<1>c. ASSUME UNCHANGED << runnerVars, sockAppId, m_launchCallbacks, wires >>
      PROVE  \A q \in Pids : WiresOK(q)'
  BY <1>b, <1>c DEF runnerVars, wires
<1>1. ASSUME NEW p \in Pids, RunnerConnects(p) PROVE \A q \in Pids : WiresOK(q)'
  <2>1. /\ UNCHANGED << queues, sockPid, hosted, sockAppId, m_launchCallbacks, toRunner >>
        /\ loader[p] = "starting" /\ loader' = [loader EXCEPT ![p] = "idle"]
        /\ toServer' = [toServer EXCEPT ![p] = << "REGISTER_REQUEST" >>]
    BY <1>1 DEF RunnerConnects, ConnectToServer
  <2>2. toRunner[p] = << >> /\ ~Taken(p)
    BY <2>1 DEF StageInv, StartingIsUnknown, OnlyTakenRead, Taken
  <2>3. WiresOK(p)'
    BY <1>a, <2>1, <2>2
       DEF WiresOK, BlankUntilTaken, LaunchRequestFirst, LoadedHostsApp,
           SuccessIsFromHost, TypeOK, IpcTypeOK
  <2>4. \A q \in Pids : q # p => Still(q)
    BY <2>1 DEF TypeOK, IpcTypeOK
  <2> QED  BY <1>b, <2>3, <2>4
<1>2. ASSUME NEW p \in Pids, NEW header, NEW reply \in Replies, ReadRequest(p, header, reply)
      PROVE  /\ Taken(p) /\ WiresOK(p) /\ Head(toRunner[p]).header = header
             /\ toRunner[p] # << >> /\ toRunner'[p] = << >>
             /\ toServer[p] = << >> =>
                    \/ toServer'[p] = << >>
                    \/ toServer'[p] # << >> /\ Head(toServer'[p]) = reply
             /\ toServer[p] # << >> =>
                    toServer'[p] # << >> /\ Head(toServer'[p]) = Head(toServer[p])
             /\ UNCHANGED << sockAppId, m_launchCallbacks >>
             /\ \A q \in Pids : q # p => UNCHANGED << toServer[q], toRunner[q] >>
  <2>1. /\ toRunner[p] # << >> /\ Head(toRunner[p]).header = header
        /\ toRunner' = [toRunner EXCEPT ![p] = << >>]
        /\ toServer' = IF p \in sockOpen THEN [toServer EXCEPT ![p] = Append(toServer[p], reply)]
                                         ELSE toServer
        /\ UNCHANGED << sockAppId, m_launchCallbacks >>
    BY <1>2 DEF ReadRequest, sockets
  <2>2. Taken(p)
    BY <2>1 DEF StageInv, OnlyTakenRead
  <2>4. /\ Append(toServer[p], reply) # << >>
        /\ Head(Append(toServer[p], reply)) = IF toServer[p] = << >> THEN reply ELSE Head(toServer[p])
    BY HeadOfWire DEF TypeOK, IpcTypeOK
  <2>5. toServer'[p] \in {toServer[p], Append(toServer[p], reply)}
    BY <2>1 DEF TypeOK, IpcTypeOK
  <2>6. /\ toRunner'[p] = << >>
        /\ \A q \in Pids : q # p => UNCHANGED << toServer[q], toRunner[q] >>
    BY <2>1 DEF TypeOK, IpcTypeOK
  <2> QED  BY <1>a, <2>1, <2>2, <2>4, <2>5, <2>6
<1>3. ASSUME NEW p \in Pids, RunnerLoads(p) PROVE \A q \in Pids : WiresOK(q)'
  <2>1. ReadRequest(p, "LAUNCH_REQUEST", "LAUNCH_OK") /\ "LAUNCH_OK" \in Replies
    BY <1>3 DEF RunnerLoads, Replies
  <2>2. /\ loader' = [loader EXCEPT ![p] = "loaded"]
        /\ hosted' = [hosted EXCEPT ![p] = Head(toRunner[p]).appId]
    BY <1>3 DEF RunnerLoads
  <2>3. WiresOK(p)'
    <3>1. /\ sockAppId[p] \in Apps /\ Head(toRunner[p]).appId = sockAppId[p]
          /\ toServer[p] = << >> /\ m_launchCallbacks[p] # 0
      BY <1>2, <2>1 DEF WiresOK, LaunchRequestFirst
    <3>2. hosted'[p] = sockAppId'[p] /\ sockAppId'[p] \in Apps /\ loader'[p] = "loaded"
      BY <1>2, <2>1, <2>2, <3>1 DEF TypeOK
    <3> QED
      BY <1>2, <1>a, <2>1, <3>1, <3>2
         DEF WiresOK, BlankUntilTaken, LaunchRequestFirst, LoadedHostsApp, SuccessIsFromHost
  <2>4. \A q \in Pids : q # p => Still(q)
    BY <1>2, <2>1, <2>2 DEF TypeOK
  <2> QED  BY <1>b, <2>3, <2>4
<1>4. ASSUME NEW p \in Pids, RunnerFailsToLoad(p) PROVE \A q \in Pids : WiresOK(q)'
  <2>1. ReadRequest(p, "LAUNCH_REQUEST", "LAUNCH_ERROR") /\ "LAUNCH_ERROR" \in Replies
    BY <1>4 DEF RunnerFailsToLoad, Replies
  <2>2. loader' = [loader EXCEPT ![p] = "exiting"] /\ UNCHANGED hosted
    BY <1>4 DEF RunnerFailsToLoad
  <2>3. WiresOK(p)'
    <3>1. loader'[p] = "exiting" /\ toServer[p] = << >>
      BY <1>2, <2>1, <2>2 DEF TypeOK, WiresOK, LaunchRequestFirst
    <3> QED
      BY <1>2, <1>a, <2>1, <3>1
         DEF WiresOK, BlankUntilTaken, LaunchRequestFirst, LoadedHostsApp, SuccessIsFromHost
  <2>4. \A q \in Pids : q # p => Still(q)
    BY <1>2, <2>1, <2>2 DEF TypeOK
  <2> QED  BY <1>b, <2>3, <2>4
<1>5. ASSUME NEW p \in Pids, RunnerReloads(p) PROVE \A q \in Pids : WiresOK(q)'
  <2>1. ReadRequest(p, "RELAUNCH_REQUEST", "RELAUNCH_OK") /\ "RELAUNCH_OK" \in Replies
    BY <1>5 DEF RunnerReloads, Replies
  <2>2. loader[p] = "loaded" /\ UNCHANGED << loader, hosted >>
    BY <1>5 DEF RunnerReloads, runnerVars
  <2>3. WiresOK(p)'
    <3>1. sockAppId[p] \in Apps /\ hosted[p] = sockAppId[p]
      BY <1>a, <2>2 DEF WiresOK, LoadedHostsApp
    <3>2. SuccessIsFromHost(p)'
      BY <1>2, <2>1, <2>2, <3>1 DEF WiresOK, SuccessIsFromHost
    <3> QED
      BY <1>2, <1>a, <2>1, <2>2, <3>1, <3>2
         DEF WiresOK, BlankUntilTaken, LaunchRequestFirst, LoadedHostsApp
  <2>4. \A q \in Pids : q # p => Still(q)
    BY <1>2, <2>1, <2>2
  <2> QED  BY <1>b, <2>3, <2>4
<1>6. ASSUME NEW p \in Pids, RunnerEnds(p) PROVE \A q \in Pids : WiresOK(q)'
  <2>1. \A q \in Pids : Still(q)
    BY <1>6 DEF RunnerEnds, SocketClosed, sockets, runnerVars, TypeOK, IpcTypeOK
  <2> QED  BY <1>b, <2>1
<1>7. ASSUME NEW s \in Pids, NEW a, NEW r, Gives(s, a, r) PROVE \A q \in Pids : WiresOK(q)'
  <2>1. /\ a \in Apps /\ r # 0 /\ ~Taken(s) /\ Taken(s)' /\ toServer'[s] = << >>
        /\ sockAppId' = [sockAppId EXCEPT ![s] = a]
        /\ toRunner' = [toRunner EXCEPT ![s] = IF s \in Alive THEN << LaunchRequest(a) >> ELSE << >>]
        /\ m_launchCallbacks' = [m_launchCallbacks EXCEPT ![s] = r]
        /\ UNCHANGED << hosted, loader >>
        /\ \A q \in Pids : q # s => toServer'[q] \in {toServer[q], << >>}
    BY <1>7 DEF Gives, runnerVars, Requests
  <2>2. hosted[s] = NoApp /\ sockAppId[s] = NoApp
    BY <1>a, <2>1 DEF WiresOK, BlankUntilTaken
  <2>3. loader[s] # "loaded"
    BY <1>a, <2>2, ConstantsOK DEF WiresOK, LoadedHostsApp, Assumptions
  <2>4. /\ sockAppId'[s] = a /\ m_launchCallbacks'[s] = r
        /\ toRunner'[s] \in {<< LaunchRequest(a) >>, << >>}
        /\ Head(<< LaunchRequest(a) >>) = LaunchRequest(a)
    BY <2>1 DEF TypeOK, IpcTypeOK
  <2>5. LaunchRequest(a).appId = a
    BY DEF LaunchRequest
  <2>6. WiresOK(s)'
    BY <2>1, <2>2, <2>3, <2>4, <2>5
       DEF WiresOK, BlankUntilTaken, LaunchRequestFirst, LoadedHostsApp, SuccessIsFromHost
  <2>7. \A q \in Pids : q # s => Still(q)
    BY <2>1 DEF TypeOK, IpcTypeOK
  <2> QED  BY <1>b, <2>6, <2>7
<1>8. ASSUME NEW s \in Pids, ServerReadsRegister(s) PROVE \A q \in Pids : WiresOK(q)'
  <2>1. CASE m_deferredMessages = << >>
    <3>1. \A q \in Pids : Still(q)
      BY <1>8, <2>1 DEF ServerReadsRegister, ReadRegister, Arrived, runnerVars, TypeOK, IpcTypeOK
    <3> QED  BY <1>b, <3>1
  <2>2. CASE m_deferredMessages # << >>
    <3>1. \E q, a, r : Gives(q, a, r)
      BY <1>8, <2>2, RegisterGives DEF MessageInv
    <3> QED  BY <1>7, <3>1 DEF Gives
  <2> QED  BY <2>1, <2>2
<1>9. ASSUME NEW s \in Pids, ServerReadsLaunchOk(s) \/ ServerReadsOtherReply(s)
      PROVE  \A q \in Pids : WiresOK(q)'
  <2>1. /\ toServer[s] # << >> /\ toServer' = [toServer EXCEPT ![s] = << >>]
        /\ m_launchCallbacks' = [m_launchCallbacks EXCEPT ![s] = 0]
        /\ UNCHANGED << sockAppId, toRunner, loader, hosted >>
    BY <1>9 DEF ServerReadsLaunchOk, ReadLaunchOk, ServerReadsOtherReply, ReadOtherReply,
                Arrived, TakeCallback, sockets, runnerVars
  <2>2. WiresOK(s)'
    BY <1>a, <2>1, WiresRead DEF TypeOK, IpcTypeOK
  <2>3. \A q \in Pids : q # s => Still(q)
    BY <2>1 DEF TypeOK, IpcTypeOK
  <2> QED  BY <1>b, <2>2, <2>3
<1>10. ASSUME NEW a \in Apps, LunaLaunch(a) PROVE \A q \in Pids : WiresOK(q)'
  <2>1. CASE /\ IpcLaunch(a, Len(requests'), Gone)
             /\ CountChanged({}, Len(m_runnerClients'))
    <3>1. CASE m_runnerClients = << >>
      BY <1>10, <1>c, <2>1, <3>1 DEF IpcLaunch, Defer, sockets, LunaLaunch
    <3>2. CASE m_runnerClients # << >>
      <4>1. \E q, b, r : Gives(q, b, r)
        BY <1>10, <2>1, <3>2, LaunchGives DEF MessageInv
      <4> QED  BY <1>7, <4>1 DEF Gives
    <3> QED  BY <3>1, <3>2
  <2>2. CASE IpcRelaunch(a, Len(requests'), Gone)
    <3> PICK s : s = m_runningSockets[a]
      OBVIOUS
    <3>1. s \in Pids /\ Taken(s) /\ sockAppId[s] = a
      BY <2>2 DEF IpcRelaunch, CanRelaunch, TypeOK, IpcTypeOK, StageInv, ListsNameTaken,
                  MessageInv, SocketsAgree
    <3> PICK r \in Requests : r = Len(requests')
      BY <1>10, CallTypes DEF LunaLaunch
    <3>2. /\ m_launchCallbacks' = [m_launchCallbacks EXCEPT ![s] = r]
          /\ UNCHANGED << hosted, loader, sockAppId >>
          /\ \/ /\ toRunner' = [toRunner EXCEPT ![s] = Append(toRunner[s], RelaunchRequest)]
                /\ UNCHANGED toServer
             \/ /\ toServer' = [toServer EXCEPT ![s] = << >>]
                /\ UNCHANGED toRunner
      BY <1>10, <2>2 DEF IpcRelaunch, LunaLaunch, runnerVars, sockets
    <3>3. /\ m_launchCallbacks'[s] # 0
          /\ \/ /\ toRunner'[s] = Append(toRunner[s], RelaunchRequest)
                /\ UNCHANGED toServer[s]
             \/ /\ toServer'[s] = << >>
                /\ UNCHANGED toRunner[s]
      BY <3>1, <3>2 DEF TypeOK, IpcTypeOK, Requests
    <3>4. /\ Append(toRunner[s], RelaunchRequest) # << >>
          /\ toRunner[s] # << >> => Head(Append(toRunner[s], RelaunchRequest)) = Head(toRunner[s])
          /\ toRunner[s] = << >> => Head(Append(toRunner[s], RelaunchRequest)) = RelaunchRequest
      <4>1. toRunner[s] \in Seq(ToRunnerMsg) /\ RelaunchRequest \in ToRunnerMsg
        BY <3>1 DEF TypeOK, IpcTypeOK, RelaunchRequest, ToRunnerMsg
      <4> QED  BY <4>1, AppendProperties, HeadTailAppend
    <3>5. RelaunchRequest.header # "LAUNCH_REQUEST"
      BY DEF RelaunchRequest
    <3>6. LaunchRequestFirst(s)'
      BY <1>a, <3>1, <3>2, <3>3, <3>4, <3>5 DEF WiresOK, LaunchRequestFirst
    <3>7. BlankUntilTaken(s)' /\ LoadedHostsApp(s)' /\ SuccessIsFromHost(s)'
      BY <1>a, <3>1, <3>2, <3>3 DEF WiresOK, BlankUntilTaken, LoadedHostsApp, SuccessIsFromHost
    <3>8. \A q \in Pids : q # s => Still(q)
      BY <3>2 DEF TypeOK, IpcTypeOK
    <3> QED  BY <1>b, <3>6, <3>7, <3>8 DEF WiresOK
  <2>3. CASE UNCHANGED ipcVars
    BY <1>10, <1>c, <2>3 DEF ipcVars, sockets, LunaLaunch
  <2> QED  BY <1>10, <2>1, <2>2, <2>3 DEF LunaLaunch
<1>11. ASSUME NEW p \in Pids,
              RunnerExecFails(p) \/ ServerSeesDisconnect(p) \/ DaemonReapsProcess(p)
       PROVE  \A q \in Pids : WiresOK(q)'
  BY <1>11, <1>c DEF RunnerExecFails, ServerSeesDisconnect, OnDisconnected,
                     DaemonReapsProcess, RemoveProcess, ipcVars, sockets
<1>12. CASE DaemonOwnStep \/ UNCHANGED vars \/ \E a \in Apps : LunaClose(a)
  BY <1>12, <1>c DEF DaemonOwnStep, LunaClose, vars, ipcVars, sockets, runnerVars
<1> QED
  BY <1>1, <1>3, <1>4, <1>5, <1>6, <1>8, <1>9, <1>10, <1>11, <1>12
     DEF Next, RunnerStep, ServerStep

\* What is said of the sockets and the messages holds in every state.
THEOREM MessagesHold == Spec => [](TypeOK /\ StageInv /\ MessageInv)
<1>1. Init => MessageInv
  BY MessageInit
<1>2. TypeOK /\ StageInv /\ MessageInv /\ [Next]_vars => MessageInv'
  BY ConnectedNext, SocketsNext, WiresNext DEF MessageInv
<1>3. Spec => [](TypeOK /\ StageInv)
  BY StagesHold
<1> QED  BY <1>1, <1>2, <1>3, PTL DEF Spec

----------------------------------------------------------------------------
(***************************************************************************)
(* The running list and its subscribers.                                   *)
(***************************************************************************)

\* A listed process is known as such and has loaded the application.
ListsAgree ==
    \A a \in Apps : m_runningApps[a] # 0 =>
        /\ m_runningProcesses[m_runningApps[a]] = a
        /\ hosted[m_runningApps[a]] = a

ListInv == ListsAgree /\ SubscribersUpToDate

\* A runner loads one application in its life.
LEMMA HostedStays ==
    TypeOK /\ StageInv /\ MessageInv /\ [Next]_vars
        => \A p \in Pids : hosted[p] # NoApp => hosted'[p] = hosted[p]
<1> SUFFICES ASSUME TypeOK, StageInv, MessageInv, [Next]_vars
             PROVE  \A p \in Pids : hosted[p] # NoApp => hosted'[p] = hosted[p]
  OBVIOUS
<1>1. UNCHANGED hosted \/ \E p \in Pids : RunnerLoads(p)
  BY DEF Next, RunnerStep, RunnerConnects, RunnerFailsToLoad, RunnerReloads, RunnerEnds,
         RunnerExecFails, ServerStep, ServerReadsRegister, ServerReadsLaunchOk,
         ServerReadsOtherReply, ServerSeesDisconnect, DaemonReapsProcess, LunaLaunch,
         LunaClose, DaemonOwnStep, runnerVars, vars
<1>2. ASSUME NEW p \in Pids, RunnerLoads(p)
      PROVE  \A q \in Pids : hosted[q] # NoApp => hosted'[q] = hosted[q]
  <2>1. hosted[p] = NoApp
    BY <1>2 DEF RunnerLoads, ReadRequest, MessageInv, WiresOK, LaunchRequestFirst
  <2>2. \A q \in Pids : q # p => hosted'[q] = hosted[q]
    BY <1>2 DEF RunnerLoads, TypeOK
  <2> QED  BY <2>1, <2>2
<1> QED  BY <1>1, <1>2

\* Only three handlers touch the lists and what was published.
LEMMA ListCases ==
    [Next]_vars =>
        \/ UNCHANGED << lists, published >>
        \/ \E s \in Pids : \/ ServerReadsLaunchOk(s) \/ ServerReadsOtherReply(s)
                           \/ DaemonReapsProcess(s)
<1> SUFFICES ASSUME [Next]_vars
             PROVE  \/ UNCHANGED << lists, published >>
                    \/ \E s \in Pids : \/ ServerReadsLaunchOk(s) \/ ServerReadsOtherReply(s)
                                       \/ DaemonReapsProcess(s)
  OBVIOUS
<1>1. ASSUME NEW p \in Pids, RunnerStep(p) PROVE UNCHANGED << lists, published >>
  BY <1>1 DEF RunnerStep, RunnerConnects, ConnectToServer, RunnerLoads, RunnerFailsToLoad,
              RunnerReloads, ReadRequest, RunnerEnds, SocketClosed, RunnerExecFails,
              ipcVars, lists, lunaVars
<1>2. ASSUME NEW s \in Pids, ServerReadsRegister(s) \/ ServerSeesDisconnect(s)
      PROVE  UNCHANGED << lists, published >>
  BY <1>2 DEF ServerReadsRegister, ReadRegister, ServerSeesDisconnect, OnDisconnected,
              lists, lunaVars
<1>3. ASSUME NEW a \in Apps, LunaLaunch(a) \/ LunaClose(a)
      PROVE  UNCHANGED << lists, published >>
  BY <1>3 DEF LunaLaunch, IpcLaunch, Defer, IpcRelaunch, LunaClose, ipcVars, lists
<1>4. CASE DaemonOwnStep \/ UNCHANGED vars
  BY <1>4 DEF DaemonOwnStep, vars, ipcVars, lists, lunaVars
<1> QED  BY <1>1, <1>2, <1>3, <1>4 DEF Next, ServerStep

\* What reading LAUNCH_OK does: the callback that is called publishes the list.
LEMMA LaunchOkLists ==
    ASSUME TypeOK, MessageInv, NEW s \in Pids, ServerReadsLaunchOk(s)
    PROVE  /\ sockAppId[s] \in Apps /\ hosted[s] = sockAppId[s] /\ UNCHANGED << hosted, proc >>
           /\ m_runningApps' = [m_runningApps EXCEPT ![sockAppId[s]] = s]
           /\ m_runningProcesses' = [m_runningProcesses EXCEPT ![s] = sockAppId[s]]
           /\ published' = m_runningApps'
<1>1. /\ toServer[s] # << >> /\ Head(toServer[s]) = "LAUNCH_OK"
      /\ m_runningApps' = [m_runningApps EXCEPT ![sockAppId[s]] = s]
      /\ m_runningProcesses' = [m_runningProcesses EXCEPT ![s] = sockAppId[s]]
      /\ published' = IF m_launchCallbacks[s] # 0 /\ s # 0 THEN m_runningApps' ELSE published
      /\ UNCHANGED << hosted, proc >>
  BY DEF ServerReadsLaunchOk, ReadLaunchOk, Arrived, CallBack, lmVars, runnerVars
<1>2. /\ sockAppId[s] \in Apps /\ hosted[s] = sockAppId[s]
      /\ m_launchCallbacks[s] # 0
  BY <1>1 DEF MessageInv, WiresOK, SuccessIsFromHost
<1>3. s # 0
  BY ConstantsOK DEF Assumptions
<1> QED  BY <1>1, <1>2, <1>3

\* Every step keeps the lists true and the subscribers informed.
LEMMA ListNext ==
    TypeOK /\ StageInv /\ MessageInv /\ ListInv /\ [Next]_vars => ListInv'
<1> SUFFICES ASSUME TypeOK, StageInv, MessageInv, ListInv, [Next]_vars PROVE ListInv'
  OBVIOUS
<1>a. /\ \A p \in Pids : hosted[p] # NoApp => hosted'[p] = hosted[p]
      /\ \A a \in Apps : m_runningApps[a] \in Pids \cup {0} /\ a # NoApp
  BY HostedStays, ConstantsOK DEF TypeOK, IpcTypeOK, Assumptions
<1>1. CASE UNCHANGED << lists, published >>
  <2>1. ListsAgree'
    BY <1>a, <1>1 DEF ListInv, ListsAgree, lists
  <2> QED  BY <1>1, <2>1 DEF ListInv, SubscribersUpToDate, lists
<1>2. ASSUME NEW s \in Pids, ServerReadsLaunchOk(s) PROVE ListInv'
  <2> PICK a \in Apps : a = sockAppId[s]
    BY <1>2, LaunchOkLists
  <2>1. /\ hosted[s] = a /\ UNCHANGED hosted /\ published' = m_runningApps'
        /\ m_runningApps' = [m_runningApps EXCEPT ![a] = s]
        /\ m_runningProcesses' = [m_runningProcesses EXCEPT ![s] = a]
    BY <1>2, LaunchOkLists
  <2>2. /\ m_runningApps'[a] = s /\ m_runningProcesses'[s] = a
        /\ \A b \in Apps : b # a => m_runningApps'[b] = m_runningApps[b]
        /\ \A p \in Pids : p # s => m_runningProcesses'[p] = m_runningProcesses[p]
    BY <2>1 DEF TypeOK, IpcTypeOK
  <2>3. ListsAgree'
    BY <1>a, <2>1, <2>2 DEF ListInv, ListsAgree
  <2> QED  BY <2>1, <2>3 DEF ListInv, SubscribersUpToDate
<1>3. ASSUME NEW s \in Pids, ServerReadsOtherReply(s) PROVE ListInv'
  <2>1. /\ UNCHANGED << lists, hosted >>
        /\ published' = m_runningApps' \/ published' = published
    BY <1>3 DEF ServerReadsOtherReply, ReadOtherReply, CallBack, runnerVars
  <2> QED  BY <2>1 DEF ListInv, ListsAgree, SubscribersUpToDate, lists
<1>4. ASSUME NEW p \in Pids, DaemonReapsProcess(p) PROVE ListInv'
  <2>1. /\ UNCHANGED hosted /\ published' = m_runningApps'
        /\ m_runningProcesses' = [m_runningProcesses EXCEPT ![p] = NoApp]
        /\ \A a \in Apps : m_runningApps'[a] =
               IF a = m_runningProcesses[p] /\ m_runningApps[a] = p THEN 0 ELSE m_runningApps[a]
    BY <1>4 DEF DaemonReapsProcess, RemoveProcess, runnerVars
  <2>2. \A a \in Apps : m_runningApps'[a] # 0 =>
            m_runningApps'[a] = m_runningApps[a] /\ m_runningApps[a] # p
    BY <2>1 DEF ListInv, ListsAgree
  <2>3. \A q \in Pids : q # p => m_runningProcesses'[q] = m_runningProcesses[q]
    BY <2>1 DEF TypeOK, IpcTypeOK
  <2>4. ListsAgree'
    BY <1>a, <2>1, <2>2, <2>3 DEF ListInv, ListsAgree
  <2> QED  BY <2>1, <2>4 DEF ListInv, SubscribersUpToDate
<1> QED  BY <1>1, <1>2, <1>3, <1>4, ListCases

\* The lists hold in every state.
THEOREM ListsHold == Spec => [](TypeOK /\ StageInv /\ MessageInv /\ ListInv)
<1>1. Init => ListInv
  BY DEF Init, IpcInit, ListInv, ListsAgree, SubscribersUpToDate
<1>2. Spec => [](TypeOK /\ StageInv /\ MessageInv)
  BY MessagesHold
<1> QED  BY <1>1, <1>2, ListNext, PTL DEF Spec

\* The maps agree: a listed process has loaded the application it is listed for,
\* and the socket a relaunch would write to is connected and belongs to a runner
\* that was given the application (ipcserver.cpp:68-73, 136-137, 199).
THEOREM MapsAlwaysAgree == Spec => []MapsAgree
<1>1. TypeOK /\ StageInv /\ MessageInv /\ ListInv => MapsAgree
  BY DEF MapsAgree, MessageInv, SocketsAgree, ListInv, ListsAgree
<1> QED  BY <1>1, ListsHold, PTL

\* The subscribers of "running" have the list as it is
\* (lunaservice.cpp:79, 95, main.cpp:79-81).
THEOREM SubscribersAlwaysKnow == Spec => []SubscribersUpToDate
<1>1. TypeOK /\ StageInv /\ MessageInv /\ ListInv => SubscribersUpToDate
  BY DEF ListInv
<1> QED  BY <1>1, ListsHold, PTL

\* A process is reported as finished by one handler only.
LEMMA ReportedIsReaped ==
    ASSUME TypeOK, [Next]_vars, NEW p \in Pids, Reported(p)
    PROVE  DaemonReapsProcess(p)
<1>1. proc[p] = "dead" /\ proc'[p] = "deleting"
  BY DEF Reported
<1>2. ASSUME NEW q \in Pids, RunnerStep(q) PROVE FALSE
  BY <1>1, <1>2
     DEF RunnerStep, RunnerConnects, RunnerLoads, RunnerFailsToLoad, RunnerReloads,
         RunnerEnds, ProcessEnds, RunnerExecFails, ExecFails, lmVars, TypeOK, LMTypeOK
<1>3. ASSUME NEW q \in Pids, ServerStep(q), ~DaemonReapsProcess(q) PROVE FALSE
  BY <1>1, <1>3
     DEF ServerStep, ServerReadsRegister, ServerReadsLaunchOk, ServerReadsOtherReply,
         ServerSeesDisconnect, CountChanged, lmVars
<1>4. ASSUME NEW q \in Pids, DaemonReapsProcess(q) PROVE q = p
  BY <1>1, <1>4 DEF DaemonReapsProcess, OnProcessFinished, TypeOK, LMTypeOK
<1>5. ASSUME NEW a \in Apps, LunaLaunch(a) \/ LunaClose(a) PROVE FALSE
  BY <1>1, <1>5 DEF LunaLaunch, LunaClose, CountChanged, Terminate, StartClosing, lmVars
<1>6. CASE DaemonOwnStep
  BY <1>1, <1>6 DEF DaemonOwnStep, LaunchTimeout, IsFreshPid, OnProcessError,
                    OnProcessDestroyed, Tick, CloseTimerFires, KillOverdue, TypeOK, LMTypeOK
<1>7. CASE UNCHANGED vars
  BY <1>1, <1>7 DEF vars, lmVars
<1> QED  BY <1>2, <1>3, <1>4, <1>5, <1>6, <1>7 DEF Next

\* "we may already started new process for this appId" (ipcserver.h:51): an
\* application is dropped from the list exactly when the process it is listed
\* with is reported as finished, never for an older process of its.
THEOREM AlwaysListedUntilExit == Spec => ListedUntilExit
<1> DEFINE Inv == TypeOK /\ StageInv /\ MessageInv /\ ListInv
           Step == \A a \in Apps : m_runningApps[a] # 0 =>
                      (m_runningApps'[a] = 0 <=> Reported(m_runningApps[a]))
<1>1. Inv /\ [Next]_vars => Step
  <2> SUFFICES ASSUME Inv, [Next]_vars, NEW a \in Apps, m_runningApps[a] # 0
               PROVE  m_runningApps'[a] = 0 <=> Reported(m_runningApps[a])
    OBVIOUS
  <2> PICK p \in Pids : p = m_runningApps[a]
    BY DEF TypeOK, IpcTypeOK
  <2>1. m_runningProcesses[p] = a
    BY DEF ListInv, ListsAgree
  <2>2. ASSUME NEW q \in Pids, DaemonReapsProcess(q)
        PROVE  (m_runningApps'[a] = 0 <=> p = q) /\ (Reported(p) <=> p = q)
    <3>1. m_runningApps'[a] = IF a = m_runningProcesses[q] /\ p = q THEN 0 ELSE p
      BY <2>2 DEF DaemonReapsProcess, RemoveProcess
    <3>2. proc[q] = "dead" /\ proc' = [proc EXCEPT ![q] = "deleting"]
      BY <2>2 DEF DaemonReapsProcess, OnProcessFinished
    <3>3. Reported(p) <=> p = q
      BY <3>2 DEF Reported, TypeOK, LMTypeOK
    <3> QED  BY <2>1, <3>1, <3>3
  <2>3. CASE \E q \in Pids : DaemonReapsProcess(q)
    BY <2>2, <2>3
  <2>4. CASE ~\E q \in Pids : DaemonReapsProcess(q)
    <3>1. ~Reported(p)
      BY <2>4, ReportedIsReaped
    <3>2. m_runningApps'[a] # 0
      <4>1. CASE UNCHANGED << lists, published >>
        BY <4>1 DEF lists
      <4>2. ASSUME NEW s \in Pids, ServerReadsLaunchOk(s) PROVE m_runningApps'[a] # 0
        <5>1. m_runningApps' = [m_runningApps EXCEPT ![sockAppId[s]] = s]
          BY <4>2, LaunchOkLists
        <5>2. m_runningApps'[a] \in {m_runningApps[a], s}
          BY <5>1 DEF TypeOK, IpcTypeOK
        <5>3. s # 0
          BY ConstantsOK DEF Assumptions
        <5> QED  BY <5>2, <5>3
      <4>3. ASSUME NEW s \in Pids, ServerReadsOtherReply(s) PROVE m_runningApps'[a] # 0
        BY <4>3 DEF ServerReadsOtherReply, ReadOtherReply, lists
      <4> QED  BY <2>4, <4>1, <4>2, <4>3, ListCases
    <3> QED  BY <3>1, <3>2
  <2> QED  BY <2>3, <2>4
<1>2. Spec => []Inv
  BY ListsHold
<1> HIDE DEF Inv, Step
<1>3. Spec => [][Step]_vars
  BY <1>1, <1>2, PTL DEF Spec
<1> QED  BY <1>3 DEF ListedUntilExit, Step

----------------------------------------------------------------------------
(***************************************************************************)
(* The callbacks.                                                          *)
(***************************************************************************)

\* Nothing is deferred while a runner idles: initially, and by every step.
LEMMA DeferredNext ==
    TypeOK /\ DeferredOnlyWhenPoolEmpty /\ [Next]_vars => DeferredOnlyWhenPoolEmpty'
<1> SUFFICES ASSUME TypeOK, DeferredOnlyWhenPoolEmpty, [Next]_vars
             PROVE  DeferredOnlyWhenPoolEmpty'
  OBVIOUS
<1> USE DEF DeferredOnlyWhenPoolEmpty
<1>a. /\ m_runnerClients \in Seq(Pids) /\ \A q \in Seq(Pids) : q = << >> \/ q # << >>
      /\ \A s \in Pids : Head(Append(<< >>, s)) = s /\ Tail(Append(<< >>, s)) = << >>
  BY HeadTailAppend DEF TypeOK, IpcTypeOK
<1>1. ASSUME NEW s \in Pids, ServerReadsRegister(s) PROVE DeferredOnlyWhenPoolEmpty'
  <2>1. CASE m_deferredMessages = << >>
    BY <1>1, <2>1 DEF ServerReadsRegister, ReadRegister
  <2>2. CASE m_deferredMessages # << >>
    <3>1. m_runnerClients = << >> /\ m_runnerClients' = Tail(Append(m_runnerClients, s))
      BY <1>1, <2>2 DEF ServerReadsRegister, ReadRegister, LaunchOn
    <3> QED  BY <1>a, <3>1
  <2> QED  BY <2>1, <2>2
<1>2. ASSUME NEW s \in Pids, ServerSeesDisconnect(s) PROVE DeferredOnlyWhenPoolEmpty'
  <2>1. UNCHANGED m_deferredMessages /\ RemoveOne(s)
    BY <1>2 DEF ServerSeesDisconnect, OnDisconnected
  <2>2. m_runnerClients = << >> => UNCHANGED m_runnerClients
    BY <2>1, EmptySeq DEF RemoveOne
  <2> QED  BY <2>1, <2>2
<1>3. ASSUME NEW a \in Apps, LunaLaunch(a) PROVE DeferredOnlyWhenPoolEmpty'
  BY <1>3 DEF LunaLaunch, IpcLaunch, Defer, IpcRelaunch, LaunchOn, ipcVars, queues
<1>4. ASSUME NEW p \in Pids, RunnerStep(p) \/ ServerReadsLaunchOk(p)
                \/ ServerReadsOtherReply(p) \/ DaemonReapsProcess(p)
      PROVE  DeferredOnlyWhenPoolEmpty'
  BY <1>4
     DEF RunnerStep, RunnerConnects, ConnectToServer, RunnerLoads, RunnerFailsToLoad,
         RunnerReloads, ReadRequest, RunnerEnds, SocketClosed, RunnerExecFails,
         ServerReadsLaunchOk, ReadLaunchOk, ServerReadsOtherReply, ReadOtherReply,
         DaemonReapsProcess, RemoveProcess, ipcVars, queues
<1>5. CASE DaemonOwnStep \/ UNCHANGED vars \/ \E a \in Apps : LunaClose(a)
  BY <1>5 DEF DaemonOwnStep, LunaClose, vars, ipcVars, queues
<1> QED
  BY <1>1, <1>2, <1>3, <1>4, <1>5 DEF Next, ServerStep

\* Launches are deferred only while the pool is empty: a registration serves one
\* of them, and none is forgotten in the queue while a runner idles
\* (ipcserver.cpp:117-120, 194, 225).
THEOREM AlwaysDeferredOnlyWhenPoolEmpty == Spec => []DeferredOnlyWhenPoolEmpty
<1>1. Init => DeferredOnlyWhenPoolEmpty
  BY DEF Init, IpcInit, DeferredOnlyWhenPoolEmpty
<1> QED  BY <1>1, DeferredNext, TypeCorrect, PTL DEF Spec

\* Every step leaves a held callback with something under way that will call it.
LEMMA CarrierNext ==
    TypeOK /\ StageInv /\ MessageInv /\ CallbackHasCarrier /\ [Next]_vars
        => CallbackHasCarrier'
<1> SUFFICES ASSUME TypeOK, StageInv, MessageInv, CallbackHasCarrier, [Next]_vars,
                    NEW q \in Pids, q \in Alive', m_launchCallbacks'[q] # 0
             PROVE  (toRunner[q] # << >> \/ toServer[q] # << >> \/ loader[q] = "exiting")'
  BY DEF CallbackHasCarrier, Alive
<1> DEFINE Carried == toRunner[q] # << >> \/ toServer[q] # << >> \/ loader[q] = "exiting"
<1>a. q \in Alive /\ m_launchCallbacks[q] # 0 => Carried
  BY DEF CallbackHasCarrier
<1>b. ASSUME UNCHANGED << proc, m_launchCallbacks, wires, loader >> PROVE Carried'
  BY <1>a, <1>b DEF Alive, wires
<1>c. WiresOK(q)
  BY DEF MessageInv
<1>1. ASSUME NEW p \in Pids, RunnerConnects(p) PROVE Carried'
  <2>1. /\ UNCHANGED << proc, m_launchCallbacks, toRunner >> /\ loader[p] = "starting"
        /\ loader' = [loader EXCEPT ![p] = "idle"]
        /\ toServer' = [toServer EXCEPT ![p] = << "REGISTER_REQUEST" >>]
    BY <1>1 DEF RunnerConnects, ConnectToServer, lmVars
  <2>2. CASE q = p
    BY <2>1, <2>2 DEF TypeOK, IpcTypeOK
  <2>3. CASE q # p
    BY <1>a, <2>1, <2>3 DEF TypeOK, IpcTypeOK, Alive
  <2> QED  BY <2>2, <2>3
<1>2. ASSUME NEW p \in Pids, NEW header, NEW reply \in Replies, ReadRequest(p, header, reply),
             p \in Alive, UNCHANGED proc,
             loader' = loader \/ loader' = [loader EXCEPT ![p] = "loaded"]
                \/ loader' = [loader EXCEPT ![p] = "exiting"]
      PROVE  Carried'
  <2>1. /\ toRunner[p] # << >> /\ toRunner' = [toRunner EXCEPT ![p] = << >>]
        /\ p \in sockOpen => toServer' = [toServer EXCEPT ![p] = Append(toServer[p], reply)]
        /\ p \notin sockOpen => toServer' = toServer
        /\ UNCHANGED m_launchCallbacks
    BY <1>2 DEF ReadRequest
  <2>2. p \in sockOpen
    BY <1>2, <2>1 DEF StageInv, OnlyTakenRead, StartingIsUnknown, Taken, MessageInv,
                      LiveIsConnected
  <2>3. CASE q = p
    <3>1. Append(toServer[p], reply) # << >>
      BY HeadOfWire DEF TypeOK, IpcTypeOK
    <3> QED  BY <2>1, <2>2, <2>3, <3>1 DEF TypeOK, IpcTypeOK
  <2>4. CASE q # p
    <3>1. loader'[q] = loader[q] /\ toServer'[q] = toServer[q] /\ toRunner'[q] = toRunner[q]
      BY <1>2, <2>1, <2>2, <2>4 DEF TypeOK, IpcTypeOK
    <3> QED  BY <1>2, <1>a, <2>1, <3>1 DEF Alive
  <2> QED  BY <2>3, <2>4
<1>3. ASSUME NEW p \in Pids, RunnerLoads(p) \/ RunnerFailsToLoad(p) \/ RunnerReloads(p)
      PROVE  Carried'
  <2>1. {"LAUNCH_OK", "LAUNCH_ERROR", "RELAUNCH_OK"} \subseteq Replies
    BY DEF Replies
  <2> QED
    BY <1>2, <1>3, <2>1
       DEF RunnerLoads, RunnerFailsToLoad, RunnerReloads, lmVars, runnerVars
<1>4. ASSUME NEW p \in Pids, RunnerEnds(p) PROVE Carried'
  <2>1. /\ UNCHANGED << m_launchCallbacks, toServer, loader >>
        /\ toRunner' = [toRunner EXCEPT ![p] = << >>] /\ proc' = [proc EXCEPT ![p] = "dead"]
    BY <1>4 DEF RunnerEnds, ProcessEnds, SocketClosed, runnerVars
  <2>2. q # p
    BY <2>1 DEF Alive, TypeOK, LMTypeOK
  <2> QED  BY <1>a, <2>1, <2>2 DEF Alive, TypeOK, LMTypeOK, IpcTypeOK
<1>5. ASSUME NEW s, NEW a, NEW r, Gives(s, a, r) PROVE Carried'
  <2>1. /\ s \in Pids /\ UNCHANGED << proc, loader >>
        /\ toRunner' = [toRunner EXCEPT ![s] = IF s \in Alive THEN << LaunchRequest(a) >> ELSE << >>]
        /\ m_launchCallbacks' = [m_launchCallbacks EXCEPT ![s] = r]
        /\ \A p \in Pids : toServer'[p] # toServer[p] => ~Taken(p)
    BY <1>5 DEF Gives, runnerVars
  <2>2. CASE q = s
    BY <2>1, <2>2 DEF Alive, TypeOK, IpcTypeOK
  <2>3. CASE q # s
    <3>1. m_launchCallbacks'[q] = m_launchCallbacks[q] /\ toRunner'[q] = toRunner[q]
      BY <2>1, <2>3 DEF TypeOK, IpcTypeOK
    <3>2. toServer'[q] = toServer[q]
      BY <1>c, <2>1, <3>1 DEF WiresOK, BlankUntilTaken
    <3> QED  BY <1>a, <2>1, <3>1, <3>2 DEF Alive
  <2> QED  BY <2>2, <2>3
<1>6. ASSUME NEW s \in Pids, ServerReadsRegister(s) PROVE Carried'
  <2>1. CASE m_deferredMessages = << >>
    <3>1. /\ UNCHANGED << proc, loader, m_launchCallbacks, toRunner >>
          /\ Head(toServer[s]) = "REGISTER_REQUEST" /\ toServer[s] # << >>
          /\ toServer' = [toServer EXCEPT ![s] = << >>]
      BY <1>6, <2>1 DEF ServerReadsRegister, ReadRegister, Arrived, CountChanged, runnerVars
    <3>2. ~Taken(s)
      BY <3>1 DEF StageInv, RegistersOnce, Taken, Replies
    <3>3. q # s
      BY <1>c, <3>1, <3>2 DEF WiresOK, BlankUntilTaken
    <3> QED  BY <1>a, <3>1, <3>3 DEF Alive, TypeOK, IpcTypeOK
  <2>2. CASE m_deferredMessages # << >>
    BY <1>5, <1>6, <2>2, RegisterGives DEF MessageInv
  <2> QED  BY <2>1, <2>2
<1>7. ASSUME NEW s \in Pids, ServerReadsLaunchOk(s) \/ ServerReadsOtherReply(s)
      PROVE  Carried'
  <2>1. /\ UNCHANGED << proc, loader, toRunner >>
        /\ toServer' = [toServer EXCEPT ![s] = << >>]
        /\ m_launchCallbacks' = [m_launchCallbacks EXCEPT ![s] = 0]
    BY <1>7 DEF ServerReadsLaunchOk, ReadLaunchOk, ServerReadsOtherReply, ReadOtherReply,
                Arrived, TakeCallback, lmVars, runnerVars
  <2> QED  BY <1>a, <2>1 DEF Alive, TypeOK, IpcTypeOK
<1>8. ASSUME NEW a \in Apps, LunaLaunch(a) PROVE Carried'
  <2>1. CASE /\ IpcLaunch(a, Len(requests'), Gone)
             /\ CountChanged({}, Len(m_runnerClients'))
    <3>1. CASE m_runnerClients = << >>
      BY <1>8, <1>b, <2>1, <3>1 DEF IpcLaunch, Defer, LunaLaunch, CountChanged, runnerVars
    <3>2. CASE m_runnerClients # << >>
      BY <1>5, <1>8, <2>1, <3>2, LaunchGives DEF MessageInv
    <3> QED  BY <3>1, <3>2
  <2>2. CASE IpcRelaunch(a, Len(requests'), Gone) /\ UNCHANGED lmVars
    <3> PICK s : s = m_runningSockets[a]
      OBVIOUS
    <3>1. s \in Pids
      BY <2>2 DEF IpcRelaunch, CanRelaunch, TypeOK, IpcTypeOK
    <3>2. /\ UNCHANGED << proc, loader >>
          /\ \A p \in Pids : p # s => m_launchCallbacks'[p] = m_launchCallbacks[p]
          /\ \/ /\ toRunner' = [toRunner EXCEPT ![s] = Append(toRunner[s], RelaunchRequest)]
                /\ UNCHANGED toServer
             \/ /\ s \in Gone /\ UNCHANGED toRunner
                /\ toServer' = [toServer EXCEPT ![s] = << >>]
      BY <1>8, <2>2 DEF IpcRelaunch, LunaLaunch, lmVars, runnerVars, TypeOK, IpcTypeOK
    <3>3. CASE q = s
      <4>1. Append(toRunner[s], RelaunchRequest) # << >>
        <5>1. toRunner[s] \in Seq(ToRunnerMsg) /\ RelaunchRequest \in ToRunnerMsg
          BY <3>1 DEF TypeOK, IpcTypeOK, RelaunchRequest, ToRunnerMsg
        <5> QED  BY <5>1, AppendProperties
      <4> QED  BY <3>1, <3>2, <3>3, <4>1 DEF Alive, Gone, TypeOK, IpcTypeOK
    <3>4. CASE q # s
      BY <1>a, <3>2, <3>4 DEF Alive, TypeOK, IpcTypeOK
    <3> QED  BY <3>3, <3>4
  <2>3. CASE UNCHANGED << lmVars, ipcVars >>
    BY <1>8, <1>b, <2>3 DEF LunaLaunch, lmVars, ipcVars, runnerVars
  <2> QED  BY <1>8, <2>1, <2>2, <2>3 DEF LunaLaunch
<1>9. ASSUME NEW p \in Pids, RunnerExecFails(p) \/ DaemonReapsProcess(p) \/ ServerSeesDisconnect(p)
      PROVE  Carried'
  <2>1. UNCHANGED << m_launchCallbacks, wires, loader >>
    BY <1>9 DEF RunnerExecFails, DaemonReapsProcess, RemoveProcess, ServerSeesDisconnect,
                OnDisconnected, ipcVars, runnerVars
  <2>2. q \in Alive
    BY <1>9 DEF RunnerExecFails, ExecFails, DaemonReapsProcess, OnProcessFinished,
                ServerSeesDisconnect, CountChanged, lmVars, Alive, TypeOK, LMTypeOK
  <2> QED  BY <1>a, <2>1, <2>2 DEF wires
<1>10. CASE DaemonOwnStep
  <2>1. UNCHANGED << m_launchCallbacks, wires, loader >>
    BY <1>10 DEF DaemonOwnStep, ipcVars, runnerVars
  <2>2. ASSUME NEW p \in Pids, LaunchTimeout(p) PROVE q \in Alive
    <3>1. proc[p] = "none" /\ proc' = [proc EXCEPT ![p] = "alive"]
      BY <2>2 DEF LaunchTimeout, IsFreshPid
    <3>2. ~Taken(p)
      BY <3>1 DEF StageInv, ConnectedWasForked, StartingIsUnknown, Taken
    <3>3. q # p
      BY <1>c, <2>1, <3>2 DEF WiresOK, BlankUntilTaken
    <3> QED  BY <3>1, <3>3 DEF Alive, TypeOK, LMTypeOK
  <2>3. q \in Alive
    BY <1>10, <2>2 DEF DaemonOwnStep, OnProcessError, OnProcessDestroyed, Tick,
                       CloseTimerFires, KillOverdue, Alive, TypeOK, LMTypeOK
  <2> QED  BY <1>a, <2>1, <2>3 DEF wires
<1>11. CASE UNCHANGED vars \/ \E a \in Apps : LunaClose(a)
  BY <1>11, <1>b DEF LunaClose, Terminate, StartClosing, vars, lmVars, ipcVars, runnerVars
<1> QED
  BY <1>1, <1>3, <1>4, <1>6, <1>7, <1>8, <1>9, <1>10, <1>11
     DEF Next, RunnerStep, ServerStep

\* A callback that is held has something under way that will call it, unless its
\* runner is ending: messages lost in a coalesced read never strand a caller
\* (ipcserver.cpp:84-92, ipcclient.cpp:89-96).
THEOREM CallbackAlwaysHasCarrier == Spec => []CallbackHasCarrier
<1>1. Init => CallbackHasCarrier
  BY DEF Init, LMInit, CallbackHasCarrier, Alive
<1> QED  BY <1>1, CarrierNext, MessagesHold, PTL DEF Spec

----------------------------------------------------------------------------
(***************************************************************************)
(* The requests and their answers.                                         *)
(***************************************************************************)
Waiting == Elems(m_deferredMessages)

InOrder(q) == \A i, j \in DOMAIN q : i < j => q[i].callback < q[j].callback

\* A callback waits at a runner that was given the application it asks for.
CallbackForApp ==
    \A p \in Pids : m_launchCallbacks[p] # 0 =>
        /\ m_launchCallbacks[p] \in DOMAIN requests
        /\ requests[m_launchCallbacks[p]].appId = sockAppId[p]

\* A deferred launch is of the application that was asked for.
WaitingForApp ==
    \A m \in Waiting : m.callback \in DOMAIN requests /\ requests[m.callback].appId = m.appId

AnsweredOnce ==
    \A r \in Requests : replies[r] # << >> => r \in DOMAIN requests /\ Len(replies[r]) = 1

\* No two places hold the callback of one request.
CallbacksApart ==
    /\ \A p, q \in Pids : m_launchCallbacks[p] # 0 /\ m_launchCallbacks[p] = m_launchCallbacks[q]
          => p = q
    /\ \A p \in Pids : \A m \in Waiting : m_launchCallbacks[p] # m.callback
    /\ \A r \in Requests : replies[r] # << >> =>
          /\ \A p \in Pids : m_launchCallbacks[p] # r
          /\ \A m \in Waiting : m.callback # r

CallInv ==
    /\ CallbackForApp
    /\ WaitingForApp
    /\ InOrder(m_deferredMessages)
    /\ AnsweredOnce
    /\ ReplyFromHost
    /\ CallbacksApart

\* Serving the oldest of the deferred launches leaves the others in order.
LEMMA TailInOrder ==
    ASSUME NEW S, NEW q \in Seq(S), q # << >>, InOrder(q)
    PROVE  /\ Head(q) \in Elems(q) /\ Elems(Tail(q)) \subseteq Elems(q)
           /\ InOrder(Tail(q))
           /\ \A m \in Elems(Tail(q)) : Head(q).callback < m.callback
<1> DEFINE t == Tail(q)
<1> PICK n \in Nat : n = Len(q)
  BY LenProperties
<1>1. n # 0 /\ DOMAIN q = 1 .. n /\ Head(q) = q[1]
  BY EmptySeq, LenProperties
<1>2. /\ t \in Seq(S) /\ DOMAIN t = 1 .. n - 1
      /\ \A i \in 1 .. n - 1 : t[i] = q[i + 1]
  BY <1>1, HeadTailProperties
<1> HIDE DEF t
<1>3. ASSUME NEW i \in 1 .. n - 1
      PROVE  i + 1 \in 1 .. n /\ 1 < i + 1 /\ t[i] = q[i + 1]
  BY <1>1, <1>2
<1>4. 1 \in 1 .. n
  BY <1>1
<1>5. ASSUME NEW m \in Elems(t)
      PROVE  m \in Elems(q) /\ Head(q).callback < m.callback
  <2> PICK i \in 1 .. n - 1 : m = t[i]
    BY <1>2 DEF Elems
  <2> PICK j \in 1 .. n : j = i + 1
    BY <1>3
  <2>1. m = q[j] /\ 1 < j
    BY <1>3
  <2> QED  BY <1>1, <1>4, <2>1 DEF Elems, InOrder
<1>6. Head(q) \in Elems(q)
  BY <1>1, <1>4 DEF Elems
<1>7. InOrder(t)
  <2>1. ASSUME NEW i \in 1 .. n - 1, NEW j \in 1 .. n - 1, i < j
        PROVE  t[i].callback < t[j].callback
    <3>1. i + 1 < j + 1
      BY <2>1
    <3> QED  BY <1>1, <1>3, <3>1 DEF InOrder
  <2> QED  BY <1>2, <2>1 DEF InOrder
<1> QED  BY <1>5, <1>6, <1>7 DEF t

\* A launch that is deferred last is last.
LEMMA AppendInOrder ==
    ASSUME NEW S, NEW q \in Seq(S), NEW e \in S, InOrder(q),
           \A m \in Elems(q) : m.callback < e.callback
    PROVE  InOrder(Append(q, e)) /\ Elems(Append(q, e)) = Elems(q) \cup {e}
<1> PICK n \in Nat : n = Len(q)
  BY LenProperties
<1>1. /\ DOMAIN q = 1 .. n /\ DOMAIN Append(q, e) = 1 .. n + 1
      /\ Append(q, e)[n + 1] = e
      /\ \A i \in 1 .. n : Append(q, e)[i] = q[i]
  BY LenProperties
<1>2. ASSUME NEW i \in 1 .. n + 1, NEW j \in 1 .. n + 1, i < j
      PROVE  Append(q, e)[i].callback < Append(q, e)[j].callback
  <2>1. i \in 1 .. n /\ (j \in 1 .. n \/ j = n + 1)
    BY <1>2
  <2> QED  BY <1>1, <1>2, <2>1 DEF InOrder, Elems
<1>3. InOrder(Append(q, e))
  BY <1>1, <1>2 DEF InOrder
<1> QED  BY <1>3, AppendOne

\* The number of a new call follows all earlier ones, which stay as they are.
LEMMA NewCall ==
    ASSUME TypeOK, NEW a \in Apps, NEW kind \in {"launch", "close"}, Call(kind, a)
    PROVE  LET n == Len(requests')
           IN  /\ n \in Requests /\ n \notin DOMAIN requests
               /\ DOMAIN requests' = DOMAIN requests \cup {n}
               /\ requests'[n].appId = a
               /\ \A r \in DOMAIN requests : requests'[r] = requests[r] /\ r < n
<1> DEFINE R == [kind : {"launch", "close"}, appId : Apps]
           c == [kind |-> kind, appId |-> a]
<1>1. c \in R /\ requests \in Seq(R) /\ c.appId = a
  BY DEF TypeOK
<1>2. requests' = Append(requests, c)
  BY DEF Call
<1> HIDE DEF R, c
<1> PICK k \in Nat : k = Len(requests)
  BY CallTypes
<1>3. Len(requests') = k + 1 /\ k + 1 \in Requests
  BY CallTypes
<1>4. /\ DOMAIN requests = 1 .. k /\ DOMAIN requests' = 1 .. k + 1
      /\ requests'[k + 1] = c
      /\ \A i \in 1 .. k : requests'[i] = requests[i]
  BY <1>1, <1>2, LenProperties
<1>5. /\ 1 .. k + 1 = 1 .. k \cup {k + 1} /\ k + 1 \notin 1 .. k
      /\ \A r \in 1 .. k : r < k + 1
  OBVIOUS
<1> QED  BY <1>1, <1>3, <1>4, <1>5

\* Every call is of an application.
LEMMA RequestedApp == TypeOK => \A r \in DOMAIN requests : requests[r].appId \in Apps
<1> DEFINE R == [kind : {"launch", "close"}, appId : Apps]
<1> SUFFICES ASSUME TypeOK, NEW r \in DOMAIN requests PROVE requests[r].appId \in Apps
  OBVIOUS
<1>1. requests \in Seq(R)
  BY DEF TypeOK
<1> HIDE DEF R
<1>2. r \in 1 .. Len(requests)
  BY <1>1, LenProperties
<1>3. requests[r] \in R
  BY <1>1, <1>2, ElementOfSeq
<1> QED  BY <1>3 DEF R

\* Initially nothing was asked.
LEMMA CallInit == Init => CallInv
<1> SUFFICES ASSUME Init PROVE CallInv
  OBVIOUS
<1>1. DOMAIN << >> = {}
  OBVIOUS
<1>2. Waiting = {} /\ InOrder(m_deferredMessages) /\ DOMAIN requests = {}
  BY <1>1 DEF Init, IpcInit, Waiting, Elems, InOrder
<1> QED
  BY <1>2 DEF Init, IpcInit, CallInv, CallbackForApp, WaitingForApp, AnsweredOnce,
              ReplyFromHost, CallbacksApart

\* The calls made so far stay what they are.
CallsStay ==
    /\ DOMAIN requests \subseteq DOMAIN requests'
    /\ \A r \in DOMAIN requests : requests'[r] = requests[r]

HostsStay == \A p \in Pids : hosted[p] # NoApp => hosted'[p] = hosted[p]

\* Answers that were given stay true.
LEMMA RepliesStay ==
    ASSUME TypeOK, CallInv, CallsStay, HostsStay, UNCHANGED replies,
           DOMAIN requests' \subseteq Requests
    PROVE  AnsweredOnce' /\ ReplyFromHost'
<1>1. AnsweredOnce'
  BY DEF CallInv, AnsweredOnce, CallsStay
<1>2. \A r \in DOMAIN requests : requests[r].appId \in Apps
  BY RequestedApp
<1>3. ASSUME NEW r \in DOMAIN requests', NEW i \in DOMAIN replies[r], replies[r][i] # 0
      PROVE  hosted'[replies[r][i]] = requests'[r].appId
  <2>1. r \in Requests /\ replies[r] \in Seq(Pids \cup {0})
    BY DEF TypeOK
  <2>2. replies[r] # << >>
    BY <1>3, EmptySeq
  <2>3. r \in DOMAIN requests
    BY <2>1, <2>2 DEF CallInv, AnsweredOnce
  <2>4. i \in 1 .. Len(replies[r])
    BY <2>1, LenProperties
  <2>5. replies[r][i] \in Pids
    BY <1>3, <2>1, <2>4, ElementOfSeq
  <2>6. hosted[replies[r][i]] = requests[r].appId /\ requests[r].appId # NoApp
    BY <1>2, <1>3, <2>3, ConstantsOK DEF CallInv, ReplyFromHost, Assumptions
  <2> QED  BY <2>3, <2>5, <2>6 DEF CallsStay, HostsStay
<1> QED  BY <1>1, <1>3 DEF ReplyFromHost

\* What the requests are numbered with.
LEMMA RequestNumbers == TypeOK => DOMAIN requests \subseteq Requests
<1> SUFFICES ASSUME TypeOK PROVE DOMAIN requests \subseteq Requests
  OBVIOUS
<1>1. Len(requests) \in Nat /\ DOMAIN requests = 1 .. Len(requests)
  BY LenProperties DEF TypeOK
<1>2. Len(requests) <= MaxRequests /\ MaxRequests \in Nat
  BY ConstantsOK DEF TypeOK, Assumptions
<1> QED  BY <1>1, <1>2 DEF Requests

\* A step that moves no callback.
LEMMA CallsUntouched ==
    ASSUME TypeOK, TypeOK', CallInv, CallsStay, HostsStay,
           UNCHANGED << m_deferredMessages, m_launchCallbacks, sockAppId, replies >>
    PROVE  CallInv'
<1>1. AnsweredOnce' /\ ReplyFromHost'
  <2>1. DOMAIN requests' \subseteq Requests
    BY LenProperties, ConstantsOK DEF TypeOK, Assumptions, Requests
  <2> QED  BY <2>1, RepliesStay
<1>2. UNCHANGED Waiting /\ InOrder(m_deferredMessages')
  BY DEF Waiting, CallInv
<1> QED
  BY <1>1, <1>2 DEF CallInv, CallbackForApp, WaitingForApp, CallbacksApart, CallsStay, InOrder

\* A step that gives the callback r, which was in the queue or is new, to s.
LEMMA CallGiven ==
    ASSUME TypeOK, TypeOK', CallInv, CallsStay, HostsStay, UNCHANGED replies,
           NEW s \in Pids, NEW r \in Requests,
           m_launchCallbacks' = [m_launchCallbacks EXCEPT ![s] = r],
           r \in DOMAIN requests', requests'[r].appId = sockAppId'[s],
           \A p \in Pids : p # s => sockAppId'[p] = sockAppId[p],
           \A p \in Pids : m_launchCallbacks[p] # r, replies[r] = << >>,
           Waiting' \subseteq Waiting, \A m \in Waiting' : m.callback # r,
           InOrder(m_deferredMessages')
    PROVE  CallInv'
<1>1. AnsweredOnce' /\ ReplyFromHost'
  <2>1. DOMAIN requests' \subseteq Requests
    BY LenProperties, ConstantsOK DEF TypeOK, Assumptions, Requests
  <2> QED  BY <2>1, RepliesStay
<1>2. /\ m_launchCallbacks'[s] = r
      /\ \A p \in Pids : p # s => m_launchCallbacks'[p] = m_launchCallbacks[p]
  BY DEF TypeOK, IpcTypeOK
<1>3. CallbackForApp' /\ WaitingForApp'
  BY <1>2 DEF CallInv, CallbackForApp, WaitingForApp, CallsStay
<1>4. CallbacksApart'
  BY <1>2 DEF CallInv, CallbacksApart
<1>5. InOrder(m_deferredMessages)'
  BY DEF InOrder
<1> QED  BY <1>1, <1>3, <1>4, <1>5 DEF CallInv

\* A step that gives a first answer to r, whose callback is nowhere any more.
LEMMA CallAnswered ==
    ASSUME TypeOK, TypeOK', CallInv, CallsStay, HostsStay,
           NEW r \in DOMAIN requests', r \in Requests, NEW pid \in Pids \cup {0},
           replies' = [replies EXCEPT ![r] = Append(replies[r], pid)], replies[r] = << >>,
           pid # 0 => hosted'[pid] = requests'[r].appId,
           \A p \in Pids : m_launchCallbacks'[p] \in {m_launchCallbacks[p], 0} \ {r},
           \A m \in Waiting : m.callback # r,
           UNCHANGED << m_deferredMessages, sockAppId >>
    PROVE  CallInv'
<1>1. /\ replies'[r] = << pid >> /\ \A q \in Requests : q # r => replies'[q] = replies[q]
      /\ Len(<< pid >>) = 1 /\ DOMAIN << pid >> = {1} /\ << pid >>[1] = pid
  BY DEF TypeOK
<1>2. AnsweredOnce'
  BY <1>1 DEF CallInv, AnsweredOnce, CallsStay
<1>3. ReplyFromHost'
  <2>1. DOMAIN requests' \subseteq Requests
    BY LenProperties, ConstantsOK DEF TypeOK, Assumptions, Requests
  <2>2. ASSUME NEW q \in DOMAIN requests', NEW i \in DOMAIN replies'[q], replies'[q][i] # 0
        PROVE  hosted'[replies'[q][i]] = requests'[q].appId
    <3>1. CASE q = r
      BY <1>1, <2>2, <3>1
    <3>2. CASE q # r
      <4>1. q \in Requests /\ replies'[q] = replies[q] /\ replies[q] \in Seq(Pids \cup {0})
        BY <1>1, <2>1, <3>2 DEF TypeOK
      <4>2. replies[q] # << >>
        BY <2>2, <4>1, EmptySeq
      <4>3. q \in DOMAIN requests
        BY <4>1, <4>2 DEF CallInv, AnsweredOnce
      <4>4. i \in 1 .. Len(replies[q])
        BY <2>2, <4>1, LenProperties
      <4>5. replies[q][i] \in Pids
        BY <2>2, <4>1, <4>4, ElementOfSeq
      <4>6. requests[q].appId \in Apps
        BY <4>3, RequestedApp
      <4>7. hosted[replies[q][i]] = requests[q].appId /\ requests[q].appId # NoApp
        BY <2>2, <4>1, <4>3, <4>6, ConstantsOK DEF CallInv, ReplyFromHost, Assumptions
      <4> QED  BY <4>1, <4>3, <4>5, <4>7 DEF CallsStay, HostsStay
    <3> QED  BY <3>1, <3>2
  <2> QED  BY <2>2 DEF ReplyFromHost
<1>4. UNCHANGED Waiting /\ InOrder(m_deferredMessages)'
  BY DEF Waiting, CallInv, InOrder
<1>5. CallbackForApp' /\ WaitingForApp'
  BY <1>4 DEF CallInv, CallbackForApp, WaitingForApp, CallsStay
<1>6. CallbacksApart'
  <2>1. 0 \notin Requests /\ \A m \in Waiting : m.callback # 0
    BY RequestNumbers DEF Requests, CallInv, WaitingForApp
  <2> QED  BY <1>1, <1>4, <2>1 DEF CallInv, CallbacksApart
<1> QED  BY <1>2, <1>3, <1>4, <1>5, <1>6 DEF CallInv

\* A new call that moves no callback but may be deferred.
LEMMA CallDeferred ==
    ASSUME TypeOK, TypeOK', CallInv, CallsStay, HostsStay, NEW a \in Apps,
           NEW r \in Requests, r \in DOMAIN requests', r \notin DOMAIN requests,
           requests'[r].appId = a, \A q \in DOMAIN requests : q < r,
           m_deferredMessages' = Append(m_deferredMessages, [appId |-> a, callback |-> r]),
           UNCHANGED << m_launchCallbacks, sockAppId, replies >>
    PROVE  CallInv'
<1> DEFINE e == [appId |-> a, callback |-> r]
<1>1. /\ e \in Deferred /\ e.callback = r /\ e.appId = a
      /\ m_deferredMessages \in Seq(Deferred)
  BY DEF Deferred, TypeOK, IpcTypeOK
<1>2. m_deferredMessages' = Append(m_deferredMessages, e)
  OBVIOUS
<1> HIDE DEF e
<1>3. InOrder(m_deferredMessages) /\ \A m \in Elems(m_deferredMessages) : m.callback < e.callback
  BY <1>1 DEF CallInv, WaitingForApp, Waiting
<1>4. /\ InOrder(Append(m_deferredMessages, e))
      /\ Elems(Append(m_deferredMessages, e)) = Elems(m_deferredMessages) \cup {e}
  BY <1>1, <1>3, AppendInOrder
<1>5. Waiting' = Waiting \cup {e} /\ InOrder(m_deferredMessages)'
  BY <1>2, <1>4 DEF Waiting, InOrder
<1>6. AnsweredOnce' /\ ReplyFromHost'
  <2>1. DOMAIN requests' \subseteq Requests
    BY LenProperties, ConstantsOK DEF TypeOK, Assumptions, Requests
  <2> QED  BY <2>1, RepliesStay
<1>7. CallbackForApp' /\ WaitingForApp'
  BY <1>1, <1>5 DEF CallInv, CallbackForApp, WaitingForApp, CallsStay
<1>8. /\ \A p \in Pids : m_launchCallbacks[p] # r
      /\ replies[r] = << >>
  <2>1. r # 0
    BY DEF Requests
  <2> QED  BY <2>1 DEF CallInv, CallbackForApp, AnsweredOnce
<1>9. CallbacksApart'
  BY <1>1, <1>5, <1>8 DEF CallInv, CallbacksApart
<1> QED  BY <1>5, <1>6, <1>7, <1>9 DEF CallInv

\* The callback of a call that was not made yet is nowhere.
LEMMA FreshCallback ==
    ASSUME CallInv, NEW r \in Requests, r \notin DOMAIN requests
    PROVE  /\ \A p \in Pids : m_launchCallbacks[p] # r
           /\ \A m \in Waiting : m.callback # r
           /\ replies[r] = << >>
<1>1. r # 0
  BY DEF Requests
<1> QED  BY <1>1 DEF CallInv, CallbackForApp, WaitingForApp, AnsweredOnce

\* Reading a reply of runner s: its callback is called with pid, if it has one.
LEMMA CallTaken ==
    ASSUME TypeOK, TypeOK', CallInv, HostsStay, NEW s \in Pids, NEW pid \in Pids \cup {0},
           TakeCallback(s), CallBack(s, pid), pid # 0 => hosted'[pid] = sockAppId[s],
           UNCHANGED << m_deferredMessages, sockAppId >>
    PROVE  CallInv'
<1> PICK r \in Requests \cup {0} : r = m_launchCallbacks[s]
  BY DEF TypeOK, IpcTypeOK
<1>1. /\ m_launchCallbacks' = [m_launchCallbacks EXCEPT ![s] = 0] /\ UNCHANGED requests
      /\ r = 0 => UNCHANGED replies
      /\ r # 0 => replies' = [replies EXCEPT ![r] = Append(replies[r], pid)]
  BY DEF TakeCallback, CallBack, Answer
<1>2. CallsStay
  BY <1>1 DEF CallsStay
<1>3. CASE r = 0
  <2>1. UNCHANGED << m_launchCallbacks, replies >>
    BY <1>1, <1>3 DEF TypeOK, IpcTypeOK
  <2> QED  BY <1>2, <2>1, CallsUntouched
<1>4. CASE r # 0
  <2>1. /\ r \in Requests /\ r \in DOMAIN requests' /\ requests'[r].appId = sockAppId[s]
        /\ replies[r] = << >> /\ \A m \in Waiting : m.callback # r
    BY <1>1, <1>4 DEF CallInv, CallbackForApp, CallbacksApart
  <2>2. \A p \in Pids : m_launchCallbacks'[p] \in {m_launchCallbacks[p], 0} \ {r}
    BY <1>1, <1>4 DEF CallInv, CallbacksApart, TypeOK, IpcTypeOK
  <2> QED  BY <1>1, <1>2, <1>4, <2>1, <2>2, CallAnswered
<1> QED  BY <1>3, <1>4

\* Every step keeps what is said of the calls.
LEMMA CallNext ==
    /\ TypeOK /\ StageInv /\ MessageInv /\ ListInv /\ CallInv
    /\ TypeOK' /\ [Next]_vars
    => CallInv'
<1> SUFFICES ASSUME TypeOK, StageInv, MessageInv, ListInv, CallInv, TypeOK', [Next]_vars
             PROVE  CallInv'
  OBVIOUS
<1>a. HostsStay
  BY HostedStays DEF HostsStay
<1>b. UNCHANGED requests => CallsStay
  BY DEF CallsStay
<1>c. ASSUME UNCHANGED << m_deferredMessages, m_launchCallbacks, sockAppId, requests, replies >>
      PROVE  CallInv'
  BY <1>a, <1>b, <1>c, CallsUntouched
<1>1. ASSUME NEW p \in Pids, RunnerStep(p) \/ DaemonReapsProcess(p) \/ ServerSeesDisconnect(p)
      PROVE  CallInv'
  BY <1>c, <1>1
     DEF RunnerStep, RunnerConnects, ConnectToServer, RunnerLoads, RunnerFailsToLoad,
         RunnerReloads, ReadRequest, RunnerEnds, SocketClosed, RunnerExecFails,
         DaemonReapsProcess, RemoveProcess, ServerSeesDisconnect, OnDisconnected,
         ipcVars, queues, sockets, lunaVars
<1>2. CASE DaemonOwnStep \/ UNCHANGED vars
  BY <1>c, <1>2 DEF DaemonOwnStep, vars, ipcVars, queues, sockets, lunaVars
<1>3. ASSUME NEW s \in Pids, ServerReadsLaunchOk(s) PROVE CallInv'
  <2>1. /\ TakeCallback(s) /\ CallBack(s, s) /\ UNCHANGED << m_deferredMessages, sockAppId >>
    BY <1>3 DEF ServerReadsLaunchOk, ReadLaunchOk, queues, sockets
  <2>2. hosted'[s] = sockAppId[s]
    BY <1>3, LaunchOkLists
  <2> QED  BY <1>a, <2>1, <2>2, CallTaken
<1>4. ASSUME NEW s \in Pids, ServerReadsOtherReply(s) PROVE CallInv'
  <2> PICK pid \in Pids \cup {0} : pid = IF Head(toServer[s]) = "RELAUNCH_OK" THEN s ELSE 0
    OBVIOUS
  <2>1. /\ TakeCallback(s) /\ CallBack(s, pid) /\ UNCHANGED << m_deferredMessages, sockAppId >>
        /\ toServer[s] # << >> /\ UNCHANGED hosted
    BY <1>4 DEF ServerReadsOtherReply, ReadOtherReply, Arrived, queues, sockets, runnerVars
  <2>2. pid # 0 => hosted'[pid] = sockAppId[s]
    BY <2>1 DEF MessageInv, WiresOK, SuccessIsFromHost
  <2> QED  BY <1>a, <2>1, <2>2, CallTaken
<1>5. ASSUME NEW s \in Pids, ServerReadsRegister(s) PROVE CallInv'
  <2>1. CASE m_deferredMessages = << >>
    BY <1>5, <1>c, <2>1 DEF ServerReadsRegister, ReadRegister, lunaVars
  <2>2. CASE m_deferredMessages # << >>
    <3> PICK m \in Deferred : m = Head(m_deferredMessages)
      BY <2>2, HeadTailProperties DEF TypeOK, IpcTypeOK
    <3>1. /\ m \in Waiting /\ Waiting' \subseteq Waiting /\ InOrder(m_deferredMessages')
          /\ \A k \in Waiting' : k.callback # m.callback
      <4>1. m_deferredMessages \in Seq(Deferred) /\ InOrder(m_deferredMessages)
        BY DEF TypeOK, IpcTypeOK, CallInv
      <4>2. m_deferredMessages' = Tail(m_deferredMessages)
        BY <1>5, <2>2, RegisterGives DEF MessageInv
      <4>3. /\ m \in Waiting /\ Waiting' \subseteq Waiting /\ InOrder(m_deferredMessages')
            /\ \A k \in Waiting' : m.callback < k.callback
        BY <2>2, <4>1, <4>2, TailInOrder DEF Waiting
      <4>4. \A k \in Waiting : k.callback \in Int
        BY RequestNumbers DEF CallInv, WaitingForApp, Requests
      <4> QED  BY <4>3, <4>4
    <3>2. m.callback \in DOMAIN requests /\ requests[m.callback].appId = m.appId
      BY <3>1 DEF CallInv, WaitingForApp
    <3>3. /\ \A p \in Pids : m_launchCallbacks[p] # m.callback
          /\ replies[m.callback] = << >> /\ m.callback \in Requests
      BY <3>1, <3>2, RequestNumbers DEF CallInv, CallbacksApart
    <3> PICK q : Gives(q, m.appId, m.callback) /\ UNCHANGED requests
      BY <1>5, <2>2, RegisterGives DEF MessageInv
    <3>4. /\ q \in Pids /\ UNCHANGED replies
          /\ m_launchCallbacks' = [m_launchCallbacks EXCEPT ![q] = m.callback]
          /\ sockAppId'[q] = m.appId
          /\ \A p \in Pids : p # q => sockAppId'[p] = sockAppId[p]
      BY DEF Gives, TypeOK, IpcTypeOK
    <3> QED  BY <1>a, <1>b, <3>1, <3>2, <3>3, <3>4, CallGiven
  <2> QED  BY <2>1, <2>2
<1>6. ASSUME NEW a \in Apps, NEW kind \in {"launch", "close"}, Call(kind, a)
      PROVE  \E r \in Requests :
                 /\ r = Len(requests') /\ r \in DOMAIN requests' /\ r \notin DOMAIN requests
                 /\ requests'[r].appId = a /\ \A q \in DOMAIN requests : q < r
                 /\ CallsStay
                 /\ \A p \in Pids : m_launchCallbacks[p] # r
                 /\ \A m \in Waiting : m.callback # r
                 /\ replies[r] = << >>
  BY <1>6, NewCall, FreshCallback DEF CallsStay
<1>7. ASSUME NEW a \in Apps, LunaLaunch(a) PROVE CallInv'
  <2> PICK r \in Requests :
                 /\ r = Len(requests') /\ r \in DOMAIN requests' /\ r \notin DOMAIN requests
                 /\ requests'[r].appId = a /\ \A q \in DOMAIN requests : q < r
                 /\ CallsStay
                 /\ \A p \in Pids : m_launchCallbacks[p] # r
                 /\ \A m \in Waiting : m.callback # r
                 /\ replies[r] = << >>
    BY <1>6, <1>7 DEF LunaLaunch
  <2>a. UNCHANGED replies
    BY <1>7 DEF LunaLaunch
  <2>b. UNCHANGED m_deferredMessages => UNCHANGED Waiting /\ InOrder(m_deferredMessages')
    BY DEF CallInv, Waiting
  <2>1. CASE IpcLaunch(a, r, Gone) /\ CountChanged({}, Len(m_runnerClients'))
    <3>1. CASE m_runnerClients = << >>
      <4>1. /\ m_deferredMessages' = Append(m_deferredMessages, [appId |-> a, callback |-> r])
            /\ UNCHANGED << m_launchCallbacks, sockAppId >>
        BY <2>1, <3>1 DEF IpcLaunch, Defer, sockets
      <4> QED  BY <1>a, <2>a, <4>1, CallDeferred
    <3>2. CASE m_runnerClients # << >>
      <4> PICK s : Gives(s, a, r) /\ UNCHANGED m_deferredMessages
        BY <1>7, <2>1, <3>2, LaunchGives DEF MessageInv
      <4>1. /\ s \in Pids /\ sockAppId'[s] = a
            /\ m_launchCallbacks' = [m_launchCallbacks EXCEPT ![s] = r]
            /\ \A p \in Pids : p # s => sockAppId'[p] = sockAppId[p]
        BY DEF Gives, TypeOK, IpcTypeOK
      <4> QED  BY <1>a, <2>a, <2>b, <4>1, CallGiven
    <3> QED  BY <3>1, <3>2
  <2>2. CASE IpcRelaunch(a, r, Gone)
    <3> PICK s : s = m_runningSockets[a]
      OBVIOUS
    <3>1. s \in Pids /\ sockAppId[s] = a
      BY <2>2 DEF IpcRelaunch, CanRelaunch, TypeOK, IpcTypeOK, MessageInv, SocketsAgree
    <3>2. /\ m_launchCallbacks' = [m_launchCallbacks EXCEPT ![s] = r]
          /\ UNCHANGED << m_deferredMessages, sockAppId >>
      BY <2>2 DEF IpcRelaunch, queues
    <3> QED  BY <1>a, <2>a, <2>b, <3>1, <3>2, CallGiven
  <2>3. CASE UNCHANGED ipcVars
    BY <1>a, <2>a, <2>3, CallsUntouched DEF ipcVars, queues, sockets
  <2> QED  BY <1>7, <2>1, <2>2, <2>3 DEF LunaLaunch
<1>8. ASSUME NEW a \in Apps, LunaClose(a) PROVE CallInv'
  <2> PICK r \in Requests :
                 /\ r = Len(requests') /\ r \in DOMAIN requests' /\ r \notin DOMAIN requests
                 /\ requests'[r].appId = a /\ \A q \in DOMAIN requests : q < r
                 /\ CallsStay
                 /\ \A p \in Pids : m_launchCallbacks[p] # r
                 /\ \A m \in Waiting : m.callback # r
                 /\ replies[r] = << >>
    BY <1>6, <1>8 DEF LunaClose
  <2> PICK pid \in Pids \cup {0} : pid = m_runningApps[a]
    BY DEF TypeOK, IpcTypeOK
  <2>1. /\ replies' = [replies EXCEPT ![r] = Append(replies[r], pid)]
        /\ UNCHANGED << m_deferredMessages, sockAppId, m_launchCallbacks, hosted >>
    BY <1>8 DEF LunaClose, Answer, ipcVars, queues, sockets, runnerVars
  <2>2. pid # 0 => hosted'[pid] = requests'[r].appId
    BY <2>1 DEF ListInv, ListsAgree
  <2>3. \A p \in Pids : m_launchCallbacks'[p] \in {m_launchCallbacks[p], 0} \ {r}
    BY <2>1
  <2> QED  BY <1>a, <2>1, <2>2, <2>3, CallAnswered
<1> QED
  BY <1>1, <1>2, <1>3, <1>4, <1>5, <1>7, <1>8 DEF Next, ServerStep

\* What is said of the calls holds in every state.
THEOREM CallsHold == Spec => [](TypeOK /\ StageInv /\ MessageInv /\ ListInv /\ CallInv)
<1> DEFINE Inv == TypeOK /\ StageInv /\ MessageInv /\ ListInv
<1>1. Spec => []Inv
  BY ListsHold
<1>2. Inv /\ Inv' /\ CallInv /\ [Next]_vars => CallInv'
  BY CallNext
<1>3. Spec => []CallInv
  <2> HIDE DEF Inv
  <2> QED  BY <1>1, <1>2, CallInit, PTL DEF Spec
<1> QED  BY <1>1, <1>3, PTL

\* An answer that names a process names one that has loaded the application asked
\* for (ipcserver.cpp:125, 145, 185).
THEOREM ReplyAlwaysFromHost == Spec => []ReplyFromHost
<1>1. TypeOK /\ StageInv /\ MessageInv /\ ListInv /\ CallInv => ReplyFromHost
  BY DEF CallInv
<1> QED  BY <1>1, CallsHold, PTL

\* A set without two elements has at most one.
LEMMA AtMostOne ==
    ASSUME NEW S, \A x, y \in S : x = y
    PROVE  Cardinality(S) = IF S = {} THEN 0 ELSE 1
<1>1. CASE S = {}
  BY <1>1, FS_EmptySet
<1>2. CASE S # {}
  <2> PICK x \in S : S = {x}
    BY <1>2
  <2> QED  BY <1>2, FS_Singleton
<1> QED  BY <1>1, <1>2

\* The callback of a request is never in two places, and nowhere once it was
\* called: no request is answered twice (ipcserver.cpp:118, 125, 185, 219).
THEOREM CallbackAlwaysInOnePlace == Spec => []CallbackInOnePlace
<1> DEFINE Inv == TypeOK /\ StageInv /\ MessageInv /\ ListInv /\ CallInv
<1>1. Inv => CallbackInOnePlace
  <2> SUFFICES ASSUME Inv, NEW r \in DOMAIN requests
               PROVE  Cardinality(InDeferred(r)) + Cardinality(InCallbacks(r)) + Len(replies[r]) <= 1
    BY DEF CallbackInOnePlace
  <2>1. r \in Requests /\ r # 0
    BY RequestNumbers DEF Requests
  <2>2. Cardinality(InDeferred(r)) = IF InDeferred(r) = {} THEN 0 ELSE 1
    <3>1. ASSUME NEW i \in DOMAIN m_deferredMessages, NEW j \in DOMAIN m_deferredMessages,
                 m_deferredMessages[i].callback = r, m_deferredMessages[j].callback = r
          PROVE  i = j
      <4>1. DOMAIN m_deferredMessages = 1 .. Len(m_deferredMessages)
        BY LenProperties DEF TypeOK, IpcTypeOK
      <4>2. ~(r < r) /\ (i < j \/ i = j \/ j < i)
        BY <2>1, <4>1 DEF Requests
      <4> QED  BY <3>1, <4>2 DEF CallInv, InOrder
    <3> QED  BY <3>1, AtMostOne DEF InDeferred
  <2>3. Cardinality(InCallbacks(r)) = IF InCallbacks(r) = {} THEN 0 ELSE 1
    BY <2>1, AtMostOne DEF InCallbacks, CallInv, CallbacksApart
  <2>4. InDeferred(r) = {} \/ InCallbacks(r) = {}
    BY DEF InDeferred, InCallbacks, CallInv, CallbacksApart, Waiting, Elems
  <2>5. CASE replies[r] = << >>
    BY <2>2, <2>3, <2>4, <2>5, EmptySeq
  <2>6. CASE replies[r] # << >>
    <3>1. Len(replies[r]) = 1
      BY <2>1, <2>6 DEF CallInv, AnsweredOnce
    <3>2. InDeferred(r) = {} /\ InCallbacks(r) = {}
      BY <2>1, <2>6 DEF InDeferred, InCallbacks, CallInv, CallbacksApart, Waiting, Elems
    <3> QED  BY <2>2, <2>3, <3>1, <3>2
  <2> QED  BY <2>5, <2>6
<1> HIDE DEF Inv
<1>2. Spec => []Inv
  BY CallsHold DEF Inv
<1> QED  BY <1>1, <1>2, PTL

\* A runner is never given to a launch while an earlier one is deferred
\* (ipcserver.cpp:117-120, 219-225).
THEOREM NeverOvertaking == Spec => NoOvertaking
<1> DEFINE Inv == /\ TypeOK /\ StageInv /\ MessageInv /\ ListInv /\ CallInv
                  /\ DeferredOnlyWhenPoolEmpty
           Step == \A p \in Pids : sockAppId'[p] # sockAppId[p] =>
                      \A i \in DOMAIN m_deferredMessages :
                          m_launchCallbacks'[p] <= m_deferredMessages[i].callback
<1>1. Inv /\ [Next]_vars => Step
  <2> SUFFICES ASSUME Inv, [Next]_vars PROVE Step
    OBVIOUS
  <2>1. CASE UNCHANGED sockAppId
    BY <2>1
  <2>2. ASSUME NEW a \in Apps, LunaLaunch(a) PROVE Step
    <3>1. CASE m_deferredMessages = << >>
      <4>1. DOMAIN m_deferredMessages = {}
        BY <3>1
      <4> QED  BY <4>1
    <3>2. CASE m_deferredMessages # << >>
      <4>1. m_runnerClients = << >>
        BY <3>2 DEF DeferredOnlyWhenPoolEmpty
      <4>2. UNCHANGED sockAppId
        BY <2>2, <4>1 DEF LunaLaunch, IpcLaunch, Defer, IpcRelaunch, ipcVars, sockets
      <4> QED  BY <2>1, <4>2
    <3> QED  BY <3>1, <3>2
  <2>3. ASSUME NEW s \in Pids, ServerReadsRegister(s) PROVE Step
    <3>1. CASE m_deferredMessages = << >>
      BY <2>1, <2>3, <3>1 DEF ServerReadsRegister, ReadRegister
    <3>2. CASE m_deferredMessages # << >>
      <4> PICK m \in Deferred : m = Head(m_deferredMessages)
        BY <3>2, HeadTailProperties DEF TypeOK, IpcTypeOK
      <4> PICK q : Gives(q, m.appId, m.callback)
        BY <2>3, <3>2, RegisterGives DEF MessageInv
      <4>1. /\ \A p \in Pids : p # q => sockAppId'[p] = sockAppId[p]
            /\ q \in Pids => m_launchCallbacks'[q] = m.callback
        BY DEF Gives, TypeOK, IpcTypeOK
      <4>2. ASSUME NEW i \in DOMAIN m_deferredMessages
            PROVE  m.callback <= m_deferredMessages[i].callback
        <5>1. /\ DOMAIN m_deferredMessages = 1 .. Len(m_deferredMessages)
              /\ Len(m_deferredMessages) \in Nat
              /\ m = m_deferredMessages[1]
          BY <3>2, LenProperties, EmptySeq DEF TypeOK, IpcTypeOK
        <5>2. 1 \in DOMAIN m_deferredMessages /\ (i = 1 \/ 1 < i)
          BY <5>1
        <5>3. m.callback \in Int /\ m_deferredMessages[i].callback \in Int
          <6>1. m_deferredMessages[i] \in Deferred
            BY <5>1, ElementOfSeq DEF TypeOK, IpcTypeOK
          <6> QED  BY <6>1 DEF Deferred, Requests
        <5>4. i # 1 => m.callback < m_deferredMessages[i].callback
          BY <5>1, <5>2 DEF CallInv, InOrder
        <5> QED  BY <5>1, <5>3, <5>4
      <4> QED  BY <4>1, <4>2
    <3> QED  BY <3>1, <3>2
  <2>4. ASSUME NEW p \in Pids, RunnerStep(p) \/ ServerReadsLaunchOk(p)
                  \/ ServerReadsOtherReply(p) \/ DaemonReapsProcess(p)
                  \/ ServerSeesDisconnect(p)
        PROVE  Step
    BY <2>1, <2>4
       DEF RunnerStep, RunnerConnects, ConnectToServer, RunnerLoads, RunnerFailsToLoad,
           RunnerReloads, ReadRequest, RunnerEnds, SocketClosed, RunnerExecFails,
           ServerReadsLaunchOk, ReadLaunchOk, ServerReadsOtherReply, ReadOtherReply,
           DaemonReapsProcess, RemoveProcess, ServerSeesDisconnect, OnDisconnected,
           ipcVars, sockets
  <2>5. CASE DaemonOwnStep \/ UNCHANGED vars \/ \E a \in Apps : LunaClose(a)
    BY <2>1, <2>5 DEF DaemonOwnStep, LunaClose, vars, ipcVars, sockets
  <2> HIDE DEF Step
  <2> QED  BY <2>2, <2>3, <2>4, <2>5 DEF Next, ServerStep
<1> HIDE DEF Inv, Step
<1>2. Spec => []Inv
  BY CallsHold, AlwaysDeferredOnlyWhenPoolEmpty, PTL DEF Inv
<1>3. Spec => [][Step]_vars
  BY <1>1, <1>2, PTL DEF Spec
<1> QED  BY <1>3 DEF NoOvertaking, Step

----------------------------------------------------------------------------
(***************************************************************************)
(* What patient clients can rely on.                                       *)
(*                                                                         *)
(* Neither OneRunnerPerApp nor AnsweredRunnerIsListed is inductive: they   *)
(* are lost when a second runner is given an application whose first one   *)
(* is not listed yet.  So the invariant follows a runner from the moment it*)
(* is given an application: until its LAUNCH_REPLY is read the callback of *)
(* the launch is held for it, which keeps its client from calling again,   *)
(* and from then on it is listed, which makes a launch a relaunch.         *)
(***************************************************************************)

\* A client has one unanswered call of an application at a time.
OneCallAtATime ==
    \A r, n \in DOMAIN requests :
        Pending(r) /\ Pending(n) /\ requests[r].appId = requests[n].appId => r = n

\* The runner has told that it loaded its application, and nobody read it yet.
HasTold(p) == toServer[p] # << >> /\ Head(toServer[p]) = "LAUNCH_OK"

Serves(p) == p \in Alive /\ loader[p] # "exiting" /\ sockAppId[p] # NoApp

\* A runner that runs its application, or a dead one that will be listed as if it did.
Claims(p) == Serves(p) \/ HasTold(p)

Introduced(p) == hosted[p] # NoApp /\ ~HasTold(p)

OneClaim ==
    \A p, q \in Pids : Claims(p) /\ Claims(q) /\ sockAppId[p] = sockAppId[q] => p = q

RunnerIsKnown ==
    \A p \in Pids : Serves(p) =>
        IF Introduced(p) THEN m_runningApps[sockAppId[p]] = p ELSE m_launchCallbacks[p] # 0

DeferredIsNotListed == \A m \in Waiting : m_runningApps[m.appId] = 0

\* Of any client: what a runner hosts is loaded, and one that tells of an error exits.
LoaderInv ==
    \A p \in Pids :
        /\ hosted[p] # NoApp => loader[p] = "loaded"
        /\ toServer[p] # << >> /\ Head(toServer[p]) \in {"LAUNCH_ERROR", "RELAUNCH_ERROR"}
              => loader[p] = "exiting"

ClientInv == /\ LoaderInv /\ OneCallAtATime /\ OneClaim /\ RunnerIsKnown
             /\ DeferredIsNotListed /\ AnsweredRunnerIsListed

\* The invariants of all clients, on which those of patient ones rest.
DaemonInv == TypeOK /\ StageInv /\ MessageInv /\ ListInv /\ CallInv

\* Only the four steps of a runner's loader write to the server or load.
LEMMA LoaderCases ==
    ASSUME TypeOK, [Next]_vars
    PROVE  \/ \E p \in Pids : \/ RunnerConnects(p) \/ RunnerLoads(p)
                              \/ RunnerFailsToLoad(p) \/ RunnerReloads(p)
           \/ UNCHANGED runnerVars /\ \A q \in Pids : toServer'[q] \in {toServer[q], << >>}
<1> DEFINE Quiet == UNCHANGED runnerVars /\ \A q \in Pids : toServer'[q] \in {toServer[q], << >>}
<1>1. ASSUME NEW p \in Pids, RunnerEnds(p) \/ RunnerExecFails(p) PROVE Quiet
  BY <1>1 DEF RunnerEnds, SocketClosed, RunnerExecFails, ipcVars, wires
<1>2. ASSUME NEW s \in Pids, ServerStep(s) PROVE Quiet
  <2>1. CASE ServerReadsRegister(s) \/ ServerReadsLaunchOk(s) \/ ServerReadsOtherReply(s)
    <3>1. UNCHANGED runnerVars /\ toServer' = [toServer EXCEPT ![s] = << >>]
      BY <2>1 DEF ServerReadsRegister, ReadRegister, ServerReadsLaunchOk, ReadLaunchOk,
                  ServerReadsOtherReply, ReadOtherReply, Arrived
    <3> QED  BY <3>1 DEF TypeOK, IpcTypeOK
  <2>2. CASE ServerSeesDisconnect(s) \/ DaemonReapsProcess(s)
    BY <2>2 DEF ServerSeesDisconnect, OnDisconnected, DaemonReapsProcess, RemoveProcess, wires
  <2> QED  BY <1>2, <2>1, <2>2 DEF ServerStep
<1>3. ASSUME NEW a \in Apps, LunaLaunch(a) PROVE Quiet
  <2>1. UNCHANGED runnerVars
    BY <1>3 DEF LunaLaunch
  <2>2. \/ UNCHANGED toServer
        \/ toServer' = [toServer EXCEPT ![m_runningSockets[a]] = << >>]
    BY <1>3 DEF LunaLaunch, IpcLaunch, Defer, IpcRelaunch, ipcVars, wires
  <2> QED  BY <2>1, <2>2 DEF TypeOK, IpcTypeOK
<1>4. CASE DaemonOwnStep \/ UNCHANGED vars \/ \E a \in Apps : LunaClose(a)
  BY <1>4 DEF DaemonOwnStep, LunaClose, vars, ipcVars, wires, runnerVars
<1> QED  BY <1>1, <1>2, <1>3, <1>4 DEF Next, RunnerStep

\* What a reply on the wire of p does to it, once the runner read a request.
LEMMA RequestRead ==
    ASSUME TypeOK, StageInv, MessageInv, NEW p \in Alive, NEW header, NEW reply \in Replies,
           ReadRequest(p, header, reply)
    PROVE  /\ p \in Pids /\ loader[p] # "starting" /\ toRunner[p] # << >>
           /\ Head(toRunner[p]).header = header
           /\ toServer'[p] # << >>
           /\ Head(toServer'[p]) = IF toServer[p] = << >> THEN reply ELSE Head(toServer[p])
           /\ \A q \in Pids : q # p => toServer'[q] = toServer[q]
           /\ UNCHANGED << m_deferredMessages, lists, sockAppId, m_launchCallbacks >>
<1>1. p \in Pids
  BY DEF Alive
<1>2. /\ toRunner[p] # << >> /\ Head(toRunner[p]).header = header
      /\ toServer' = IF p \in sockOpen THEN [toServer EXCEPT ![p] = Append(@, reply)] ELSE toServer
      /\ UNCHANGED << m_deferredMessages, lists, sockAppId, m_launchCallbacks >>
  BY DEF ReadRequest, queues, sockets
<1>3. loader[p] # "starting" /\ p \in sockOpen
  BY <1>1, <1>2 DEF StageInv, OnlyTakenRead, Taken, StartingIsUnknown, MessageInv, LiveIsConnected
<1>4. toServer[p] \in Seq(ToServerMsg) /\ toServer \in [Pids -> Seq(ToServerMsg)]
  BY <1>1 DEF TypeOK, IpcTypeOK
<1>5. toServer'[p] = Append(toServer[p], reply) /\ \A q \in Pids : q # p => toServer'[q] = toServer[q]
  BY <1>1, <1>2, <1>3, <1>4
<1> QED  BY <1>1, <1>2, <1>3, <1>4, <1>5, HeadOfWire

\* Every step keeps what is said of the loaders.
LEMMA LoaderNext ==
    ASSUME TypeOK, StageInv, MessageInv, LoaderInv, [Next]_vars
    PROVE  LoaderInv'
<1>a. ASSUME NEW q \in Pids, UNCHANGED << hosted[q], loader[q] >>,
             toServer'[q] \in {toServer[q], << >>}
      PROVE  /\ hosted'[q] # NoApp => loader'[q] = "loaded"
             /\ toServer'[q] # << >> /\ Head(toServer'[q]) \in {"LAUNCH_ERROR", "RELAUNCH_ERROR"}
                   => loader'[q] = "exiting"
  BY <1>a DEF LoaderInv
<1>1. ASSUME NEW p \in Pids, RunnerConnects(p) PROVE LoaderInv'
  <2>1. /\ loader[p] = "starting" /\ loader' = [loader EXCEPT ![p] = "idle"]
        /\ toServer' = [toServer EXCEPT ![p] = << "REGISTER_REQUEST" >>] /\ UNCHANGED hosted
    BY <1>1 DEF RunnerConnects, ConnectToServer
  <2>2. hosted[p] = NoApp
    BY <2>1 DEF LoaderInv
  <2>3. /\ toServer'[p] = << "REGISTER_REQUEST" >>
        /\ \A q \in Pids : q # p => toServer'[q] = toServer[q] /\ loader'[q] = loader[q]
    BY <2>1 DEF TypeOK, IpcTypeOK
  <2> QED  BY <1>a, <2>1, <2>2, <2>3 DEF LoaderInv
<1>2. ASSUME NEW p \in Pids, RunnerLoads(p) PROVE LoaderInv'
  <2>1. /\ p \in Alive /\ ReadRequest(p, "LAUNCH_REQUEST", "LAUNCH_OK") /\ "LAUNCH_OK" \in Replies
        /\ loader' = [loader EXCEPT ![p] = "loaded"]
        /\ hosted' = [hosted EXCEPT ![p] = Head(toRunner[p]).appId]
    BY <1>2 DEF RunnerLoads, Replies
  <2>2. toServer[p] = << >>
    BY <2>1, RequestRead DEF MessageInv, WiresOK, LaunchRequestFirst
  <2>3. loader'[p] = "loaded" /\ Head(toServer'[p]) = "LAUNCH_OK"
    BY <2>1, <2>2, RequestRead DEF TypeOK
  <2>4. \A q \in Pids : q # p => UNCHANGED << hosted[q], loader[q], toServer[q] >>
    BY <2>1, RequestRead DEF TypeOK
  <2> QED  BY <1>a, <2>3, <2>4 DEF LoaderInv
<1>3. ASSUME NEW p \in Pids, RunnerFailsToLoad(p) PROVE LoaderInv'
  <2>1. /\ p \in Alive /\ "LAUNCH_ERROR" \in Replies
        /\ ReadRequest(p, "LAUNCH_REQUEST", "LAUNCH_ERROR")
        /\ loader' = [loader EXCEPT ![p] = "exiting"] /\ UNCHANGED hosted
    BY <1>3 DEF RunnerFailsToLoad, Replies
  <2>2. hosted[p] = NoApp
    BY <2>1, RequestRead DEF MessageInv, WiresOK, LaunchRequestFirst
  <2>3. loader'[p] = "exiting"
    BY <2>1 DEF TypeOK
  <2>4. \A q \in Pids : q # p => UNCHANGED << hosted[q], loader[q], toServer[q] >>
    BY <2>1, RequestRead DEF TypeOK
  <2> QED  BY <1>a, <2>1, <2>2, <2>3, <2>4 DEF LoaderInv
<1>4. ASSUME NEW p \in Pids, RunnerReloads(p) PROVE LoaderInv'
  <2>1. /\ p \in Alive /\ "RELAUNCH_OK" \in Replies
        /\ ReadRequest(p, "RELAUNCH_REQUEST", "RELAUNCH_OK") /\ UNCHANGED << hosted, loader >>
    BY <1>4 DEF RunnerReloads, Replies, runnerVars
  <2>2. /\ Head(toServer'[p]) = IF toServer[p] = << >> THEN "RELAUNCH_OK" ELSE Head(toServer[p])
        /\ \A q \in Pids : q # p => toServer'[q] = toServer[q]
    BY <2>1, RequestRead
  <2> QED  BY <1>a, <2>1, <2>2 DEF LoaderInv
<1>5. CASE UNCHANGED runnerVars /\ \A q \in Pids : toServer'[q] \in {toServer[q], << >>}
  BY <1>a, <1>5 DEF LoaderInv, runnerVars
<1> QED  BY <1>1, <1>2, <1>3, <1>4, <1>5, LoaderCases

\* A callback that is held, for a runner or a deferred launch, is of a pending call.
LEMMA HeldIsPending ==
    ASSUME TypeOK, CallInv
    PROVE  /\ \A p \in Pids : m_launchCallbacks[p] # 0 => Pending(m_launchCallbacks[p])
           /\ \A m \in Waiting : Pending(m.callback)
<1>1. \A r \in DOMAIN requests : r \in Requests /\ r <= Len(requests)
  <2>1. DOMAIN requests = 1 .. Len(requests) /\ Len(requests) \in Nat
    BY LenProperties DEF TypeOK
  <2> QED  BY <2>1, RequestNumbers
<1> QED  BY <1>1 DEF CallInv, CallbackForApp, WaitingForApp, CallbacksApart, Pending

\* With one call at a time, one place holds a callback for an application.
LEMMA OneHolder ==
    ASSUME TypeOK, CallInv, OneCallAtATime
    PROVE  /\ \A p, q \in Pids : /\ m_launchCallbacks[p] # 0 /\ m_launchCallbacks[q] # 0
                                 /\ sockAppId[p] = sockAppId[q]
                 => p = q
           /\ \A p \in Pids : \A m \in Waiting :
                 m_launchCallbacks[p] # 0 => sockAppId[p] # m.appId
<1>1. /\ \A p \in Pids : m_launchCallbacks[p] # 0 =>
             /\ m_launchCallbacks[p] \in DOMAIN requests /\ Pending(m_launchCallbacks[p])
             /\ requests[m_launchCallbacks[p]].appId = sockAppId[p]
      /\ \A m \in Waiting :
             /\ m.callback \in DOMAIN requests /\ Pending(m.callback)
             /\ requests[m.callback].appId = m.appId
  BY HeldIsPending DEF CallInv, CallbackForApp, WaitingForApp
<1>2. \A p, q \in Pids : m_launchCallbacks[p] # 0 /\ m_launchCallbacks[p] = m_launchCallbacks[q]
          => p = q
  BY DEF CallInv, CallbacksApart
<1>3. \A p \in Pids : \A m \in Waiting : m_launchCallbacks[p] # m.callback
  BY DEF CallInv, CallbacksApart
<1> QED  BY <1>1, <1>2, <1>3 DEF OneCallAtATime

\* An application that is not listed and whose callback is nowhere has no runner.
LEMMA NobodyServes ==
    ASSUME TypeOK, MessageInv, RunnerIsKnown, NEW a \in Apps, m_runningApps[a] = 0,
           \A q \in Pids : m_launchCallbacks[q] # 0 => sockAppId[q] # a
    PROVE  \A p \in Pids : Claims(p) => sockAppId[p] # a
<1> SUFFICES ASSUME NEW p \in Pids, Claims(p), sockAppId[p] = a PROVE FALSE
  OBVIOUS
<1>1. CASE HasTold(p)
  BY <1>1 DEF HasTold, MessageInv, WiresOK, SuccessIsFromHost
<1>2. CASE Serves(p)
  <2>1. p # 0
    BY ConstantsOK DEF Assumptions
  <2> QED  BY <1>2, <2>1 DEF RunnerIsKnown
<1> QED  BY <1>1, <1>2 DEF Claims

\* An answer ends the wait for it and no other.
LEMMA AnswerGiven ==
    ASSUME TypeOK, NEW r \in Requests, NEW pid \in Pids \cup {0}, Answer(r, pid)
    PROVE  replies'[r] # << >> /\ \A n \in Requests : n # r => replies'[n] = replies[n]
<1>1. /\ replies'[r] = Append(replies[r], pid) /\ replies[r] \in Seq(Pids \cup {0})
      /\ \A n \in Requests : n # r => replies'[n] = replies[n]
  BY DEF Answer, TypeOK
<1> QED  BY <1>1, AppendProperties

\* A call of before that waits after a step that takes no answer back waited before.
LEMMA PendingBefore ==
    ASSUME TypeOK, \A r \in DOMAIN requests : replies'[r] = << >> => replies[r] = << >>
    PROVE  \A r \in DOMAIN requests : Pending(r)' => Pending(r)
<1>1. DOMAIN requests = 1 .. Len(requests) /\ Len(requests) \in Nat
  BY LenProperties DEF TypeOK
<1> QED  BY <1>1 DEF Pending

\* Calls are made by patient clients only, and answers are not taken back.
LEMMA OneCallNext ==
    ASSUME PatientClients, DaemonInv, OneCallAtATime, [Next]_vars
    PROVE  OneCallAtATime'
<1>0. TypeOK /\ CallInv /\ DOMAIN requests \subseteq Requests
  BY RequestNumbers DEF DaemonInv
<1>1. ASSUME UNCHANGED requests,
             \A r \in Requests : replies'[r] = << >> => replies[r] = << >>
      PROVE  OneCallAtATime'
  BY <1>0, <1>1 DEF OneCallAtATime, Pending
<1>2. ASSUME NEW kind \in {"launch", "close"}, NEW a \in Apps, Call(kind, a),
             \A r \in DOMAIN requests : replies'[r] = << >> => replies[r] = << >>
      PROVE  OneCallAtATime'
  <2> PICK n \in Requests :
          /\ n = Len(requests') /\ DOMAIN requests' = DOMAIN requests \cup {n}
          /\ requests'[n].appId = a
          /\ \A r \in DOMAIN requests : requests'[r] = requests[r]
    BY <1>0, <1>2, NewCall
  <2>2. \A r \in DOMAIN requests : Pending(r)' => Pending(r)
    BY <1>0, <1>2, PendingBefore
  <2>3. \A r \in DOMAIN requests : requests[r].appId = a => ~Pending(r)
    BY <1>2 DEF Call, MayCall
  <2> QED  BY <2>2, <2>3 DEF OneCallAtATime
<1>3. ASSUME NEW a \in Apps, LunaLaunch(a) PROVE OneCallAtATime'
  <2>1. Call("launch", a) /\ UNCHANGED replies
    BY <1>3 DEF LunaLaunch
  <2> QED  BY <1>2, <2>1
<1>a. ASSUME NEW r \in Requests, NEW pid \in Pids \cup {0}, Answer(r, pid)
      PROVE  \A n \in Requests : replies'[n] = << >> => replies[n] = << >>
  BY <1>0, <1>a, AnswerGiven
<1>4. ASSUME NEW a \in Apps, LunaClose(a) PROVE OneCallAtATime'
  <2>1. Call("close", a) /\ Answer(Len(requests'), m_runningApps[a])
    BY <1>4 DEF LunaClose
  <2>2. Len(requests') \in Requests /\ m_runningApps[a] \in Pids \cup {0}
    BY <1>0, <2>1, NewCall DEF TypeOK, IpcTypeOK
  <2> QED  BY <1>0, <1>2, <1>a, <2>1, <2>2
<1>5. ASSUME NEW s \in Pids, ServerReadsLaunchOk(s) \/ ServerReadsOtherReply(s)
      PROVE  OneCallAtATime'
  <2> PICK pid \in Pids \cup {0} : CallBack(s, pid)
    BY <1>5 DEF ServerReadsLaunchOk, ServerReadsOtherReply
  <2>1. m_launchCallbacks[s] \in Requests \cup {0}
    BY <1>0 DEF TypeOK, IpcTypeOK
  <2>2. UNCHANGED requests /\ (UNCHANGED replies \/ (m_launchCallbacks[s] # 0 /\ Answer(m_launchCallbacks[s], pid)))
    BY DEF CallBack
  <2> QED  BY <1>1, <1>a, <2>1, <2>2
<1>6. ASSUME UNCHANGED << requests, replies >> PROVE OneCallAtATime'
  BY <1>1, <1>6
<1>7. ASSUME NEW p \in Pids, RunnerStep(p) \/ ServerReadsRegister(p) \/ ServerSeesDisconnect(p)
                \/ DaemonReapsProcess(p)
      PROVE  OneCallAtATime'
  BY <1>6, <1>7
     DEF RunnerStep, RunnerConnects, RunnerLoads, RunnerFailsToLoad, RunnerReloads,
         RunnerEnds, RunnerExecFails, ServerReadsRegister, ServerSeesDisconnect,
         DaemonReapsProcess, lunaVars
<1>8. CASE DaemonOwnStep \/ UNCHANGED vars
  BY <1>6, <1>8 DEF DaemonOwnStep, vars, lunaVars
<1> QED  BY <1>3, <1>4, <1>5, <1>7, <1>8 DEF Next, ServerStep

\* A step that gives no runner an application and introduces none, and drops no live
\* runner from the list.
LEMMA ClaimsKept ==
    ASSUME TypeOK, OneClaim, RunnerIsKnown, UNCHANGED sockAppId,
           \A p \in Pids : Serves(p)' =>
               /\ Serves(p) /\ Introduced(p)' = Introduced(p)
               /\ m_launchCallbacks'[p] = m_launchCallbacks[p] \/ Introduced(p)
               /\ \A a \in Apps : m_runningApps[a] = p => m_runningApps'[a] = p,
           \A p \in Pids : HasTold(p)' => Claims(p)
    PROVE  OneClaim' /\ RunnerIsKnown'
<1>1. \A p \in Pids : Claims(p)' => Claims(p)
  BY DEF Claims
<1>2. OneClaim'
  BY <1>1 DEF OneClaim
<1>3. \A p \in Pids : Serves(p) => sockAppId[p] \in Apps
  BY DEF Serves, TypeOK, IpcTypeOK
<1>4. RunnerIsKnown'
  BY <1>3 DEF RunnerIsKnown
<1> QED  BY <1>2, <1>4

\* A runner that was just started has no application yet.
LEMMA NewIsBlank ==
    ASSUME TypeOK, StageInv, MessageInv, NEW p \in Pids, loader[p] = "starting"
    PROVE  /\ ~Taken(p) /\ sockAppId[p] = NoApp /\ hosted[p] = NoApp
           /\ toServer[p] = << >> /\ toRunner[p] = << >>
BY DEF StageInv, StartingIsUnknown, OnlyTakenRead, Taken, MessageInv, WiresOK, BlankUntilTaken

\* Processes end; those that are new have no application.
LEMMA AliveNext ==
    ASSUME TypeOK, StageInv, MessageInv, [Next]_vars, NEW p \in Pids, p \in Alive', p \notin Alive
    PROVE  loader[p] = "starting" /\ UNCHANGED << ipcVars, runnerVars, lunaVars >>
<1>1. proc'[p] = "alive" /\ proc[p] # "alive"
  BY DEF Alive
<1>2. ASSUME UNCHANGED proc PROVE FALSE
  BY <1>1, <1>2
<1>3. ASSUME NEW q \in Pids, NEW stage, stage # "alive", proc' = [proc EXCEPT ![q] = stage]
      PROVE  FALSE
  BY <1>1, <1>3 DEF TypeOK, LMTypeOK
<1>4. ASSUME NEW q \in Pids, RunnerStep(q) PROVE FALSE
  <2>1. UNCHANGED proc \/ proc' = [proc EXCEPT ![q] = "dead"] \/ proc' = [proc EXCEPT ![q] = "failed"]
    BY <1>4 DEF RunnerStep, RunnerConnects, RunnerLoads, RunnerFailsToLoad, RunnerReloads,
                RunnerEnds, ProcessEnds, RunnerExecFails, ExecFails, lmVars
  <2> QED  BY <1>2, <1>3, <2>1
<1>5. ASSUME NEW q \in Pids, ServerStep(q) PROVE FALSE
  <2>1. UNCHANGED proc \/ proc' = [proc EXCEPT ![q] = "deleting"]
    BY <1>5 DEF ServerStep, ServerReadsRegister, ServerReadsLaunchOk, ServerReadsOtherReply,
                ServerSeesDisconnect, DaemonReapsProcess, OnProcessFinished, CountChanged, lmVars
  <2> QED  BY <1>2, <1>3, <2>1
<1>6. ASSUME NEW a \in Apps, LunaLaunch(a) \/ LunaClose(a) PROVE FALSE
  BY <1>2, <1>6 DEF LunaLaunch, LunaClose, CountChanged, Terminate, StartClosing, lmVars
<1>7. CASE DaemonOwnStep
  <2>1. UNCHANGED << ipcVars, runnerVars, lunaVars >>
    BY <1>7 DEF DaemonOwnStep
  <2>2. CASE \E q \in Pids : LaunchTimeout(q)
    <3> PICK q \in Pids : LaunchTimeout(q)
      BY <2>2
    <3>1. proc[q] = "none" /\ proc' = [proc EXCEPT ![q] = "alive"]
      BY DEF LaunchTimeout, IsFreshPid
    <3>2. p = q
      BY <1>1, <3>1 DEF TypeOK, LMTypeOK
    <3> QED  BY <2>1, <3>1, <3>2 DEF StageInv, ConnectedWasForked
  <2>3. CASE \E q \in Pids : OnProcessError(q) \/ OnProcessDestroyed(q)
    BY <1>3, <2>3 DEF OnProcessError, OnProcessDestroyed
  <2>4. CASE Tick \/ CloseTimerFires
    BY <1>2, <2>4 DEF Tick, CloseTimerFires, KillOverdue
  <2> QED  BY <1>7, <2>2, <2>3, <2>4 DEF DaemonOwnStep
<1>8. CASE UNCHANGED vars
  BY <1>2, <1>8 DEF vars, lmVars
<1> QED  BY <1>4, <1>5, <1>6, <1>7, <1>8 DEF Next

\* Whoever serves after a step that changes no stage of a loader served before.
LEMMA ServedBefore ==
    ASSUME TypeOK, StageInv, MessageInv, [Next]_vars, UNCHANGED << loader, sockAppId >>
    PROVE  \A p \in Pids : Serves(p)' => Serves(p)
BY AliveNext, NewIsBlank DEF Serves

\* Giving an application that nobody claims to a runner.
LEMMA GiveClaim ==
    ASSUME TypeOK, StageInv, MessageInv, OneClaim, RunnerIsKnown, [Next]_vars,
           NEW s, NEW a, NEW r, Gives(s, a, r),
           \A p \in Pids : Claims(p) => sockAppId[p] # a
    PROVE  OneClaim' /\ RunnerIsKnown'
<1>1. /\ s \in Pids /\ a \in Apps /\ r # 0 /\ ~Taken(s)
      /\ sockAppId'[s] = a /\ m_launchCallbacks'[s] = r
      /\ \A q \in Pids : q # s => /\ sockAppId'[q] = sockAppId[q]
                                  /\ m_launchCallbacks'[q] = m_launchCallbacks[q]
      /\ toServer'[s] = << >>
      /\ \A q \in Pids : toServer'[q] # toServer[q] => ~Taken(q) /\ toServer'[q] \in {toServer[q], << >>}
      /\ UNCHANGED << m_runningApps, runnerVars, proc >>
  BY DEF Gives, Requests, lists, TypeOK, IpcTypeOK
<1>2. hosted[s] = NoApp
  BY <1>1 DEF MessageInv, WiresOK, BlankUntilTaken
<1>3. \A q \in Pids : HasTold(q) => Taken(q)
  BY DEF HasTold, StageInv, RegistersOnce, Replies
<1>4. \A q \in Pids : q # s => HasTold(q)' = HasTold(q)
  <2> SUFFICES ASSUME NEW q \in Pids, q # s PROVE HasTold(q)' = HasTold(q)
    OBVIOUS
  <2>1. CASE toServer'[q] = toServer[q]
    BY <2>1 DEF HasTold
  <2>2. CASE toServer'[q] # toServer[q]
    BY <1>1, <1>3, <2>2 DEF HasTold
  <2> QED  BY <2>1, <2>2
<1>5. ~HasTold(s)'
  BY <1>1 DEF HasTold
<1>6. Alive' = Alive /\ UNCHANGED << loader, hosted >>
  BY <1>1 DEF Alive, runnerVars
<1>7. \A q \in Pids : q # s => Serves(q)' = Serves(q) /\ Introduced(q)' = Introduced(q)
  BY <1>1, <1>4, <1>6 DEF Serves, Introduced
<1>8. \A q \in Pids : q # s => Claims(q)' = Claims(q)
  BY <1>4, <1>7 DEF Claims
<1>9. OneClaim'
  BY <1>1, <1>8 DEF OneClaim
<1>10. ~Introduced(s)'
  BY <1>2, <1>6 DEF Introduced
<1>11. RunnerIsKnown'
  BY <1>1, <1>7, <1>10 DEF RunnerIsKnown
<1> QED  BY <1>9, <1>11

\* Reading a positive LAUNCH_REPLY introduces its runner, and no other is listed for the
\* application.
LEMMA LaunchOkClaim ==
    ASSUME DaemonInv, ClientInv, [Next]_vars, NEW s \in Pids, ServerReadsLaunchOk(s)
    PROVE  OneClaim' /\ RunnerIsKnown'
<1>0. TypeOK /\ StageInv /\ MessageInv /\ OneClaim /\ RunnerIsKnown
  BY DEF DaemonInv, ClientInv
<1>1. /\ HasTold(s)
      /\ toServer' = [toServer EXCEPT ![s] = << >>]
      /\ m_launchCallbacks' = [m_launchCallbacks EXCEPT ![s] = 0]
      /\ UNCHANGED << loader, hosted, sockAppId >>
  BY DEF ServerReadsLaunchOk, ReadLaunchOk, Arrived, TakeCallback, HasTold, sockets, runnerVars
<1>2. /\ sockAppId[s] \in Apps /\ hosted[s] = sockAppId[s]
      /\ m_runningApps' = [m_runningApps EXCEPT ![sockAppId[s]] = s]
  BY <1>0, LaunchOkLists
<1>3. /\ toServer'[s] = << >>
      /\ \A q \in Pids : q # s => /\ toServer'[q] = toServer[q]
                                  /\ m_launchCallbacks'[q] = m_launchCallbacks[q]
      /\ m_runningApps'[sockAppId[s]] = s
      /\ \A b \in Apps : b # sockAppId[s] => m_runningApps'[b] = m_runningApps[b]
  BY <1>0, <1>1, <1>2 DEF TypeOK, IpcTypeOK
<1>4. \A q \in Pids : q # s => HasTold(q)' = HasTold(q) /\ Introduced(q)' = Introduced(q)
  BY <1>1, <1>3 DEF HasTold, Introduced
<1>5. ~HasTold(s)' /\ Claims(s)
  BY <1>1, <1>3 DEF HasTold, Claims
<1>6. \A q \in Pids : Serves(q)' => Serves(q) /\ sockAppId[q] \in Apps
  <2>1. \A q \in Pids : Serves(q) => sockAppId[q] \in Apps
    BY <1>0 DEF Serves, TypeOK, IpcTypeOK
  <2> QED  BY <1>0, <1>1, <2>1, ServedBefore
<1>7. \A q \in Pids : Claims(q)' => Claims(q)
  BY <1>4, <1>5, <1>6 DEF Claims
<1>8. OneClaim'
  BY <1>0, <1>1, <1>7 DEF OneClaim
<1>9. ASSUME NEW q \in Pids, q # s, Serves(q)' PROVE sockAppId[q] # sockAppId[s]
  BY <1>0, <1>5, <1>6, <1>9 DEF OneClaim, Claims
<1>10. ASSUME NEW q \in Pids, Serves(q)'
       PROVE  IF Introduced(q)' THEN m_runningApps'[sockAppId'[q]] = q ELSE m_launchCallbacks'[q] # 0
  <2>1. CASE q = s
    <3>1. Introduced(s)'
      BY <1>1, <1>2, <1>5, ConstantsOK DEF Introduced, Assumptions
    <3> QED  BY <1>1, <1>3, <2>1, <3>1
  <2>2. CASE q # s
    BY <1>0, <1>1, <1>3, <1>4, <1>6, <1>9, <1>10, <2>2 DEF RunnerIsKnown
  <2> QED  BY <2>1, <2>2
<1>11. RunnerIsKnown'
  BY <1>10 DEF RunnerIsKnown
<1> QED  BY <1>8, <1>11

\* launch() of an application that is not listed, for which nothing else is pending: it
\* goes to a runner that nobody served it with, or waits.
LEMMA LaunchClaim ==
    ASSUME PatientClients, DaemonInv, ClientInv, [Next]_vars, NEW a \in Apps, LunaLaunch(a)
    PROVE  OneClaim' /\ RunnerIsKnown' /\ DeferredIsNotListed'
<1>0. /\ TypeOK /\ StageInv /\ MessageInv /\ CallInv
      /\ OneClaim /\ RunnerIsKnown /\ DeferredIsNotListed
  BY DEF DaemonInv, ClientInv
<1>1. \A q \in Pids : m_launchCallbacks[q] # 0 => sockAppId[q] # a
  <2>1. \A r \in DOMAIN requests : requests[r].appId = a => ~Pending(r)
    BY DEF LunaLaunch, Call, MayCall
  <2> QED  BY <1>0, <2>1, HeldIsPending DEF CallInv, CallbackForApp
<1>2. UNCHANGED << runnerVars, m_runningApps >>
  BY DEF LunaLaunch, IpcLaunch, Defer, IpcRelaunch, ipcVars, lists
<1>3. ASSUME UNCHANGED << sockAppId, toServer, m_launchCallbacks >> PROVE OneClaim' /\ RunnerIsKnown'
  <2>1. \A p \in Pids : HasTold(p)' = HasTold(p) /\ Introduced(p)' = Introduced(p)
    BY <1>2, <1>3 DEF HasTold, Introduced, runnerVars
  <2>2. \A p \in Pids : Serves(p)' => Serves(p)
    BY <1>0, <1>2, <1>3, ServedBefore DEF runnerVars
  <2> QED  BY <1>0, <1>2, <1>3, <2>1, <2>2, ClaimsKept DEF Claims
<1>4. CASE /\ m_runningApps[a] = 0 /\ IpcLaunch(a, Len(requests'), Gone)
           /\ CountChanged({}, Len(m_runnerClients'))
  <2>1. CASE m_runnerClients = << >>
    <3> DEFINE e == [appId |-> a, callback |-> Len(requests')]
    <3>1. /\ m_deferredMessages' = Append(m_deferredMessages, e)
          /\ UNCHANGED << sockAppId, toServer, m_launchCallbacks >>
      BY <1>4, <2>1 DEF IpcLaunch, Defer, sockets, wires
    <3>2. e \in Deferred /\ m_deferredMessages \in Seq(Deferred) /\ e.appId = a
      BY <1>0, CallTypes DEF Deferred, TypeOK, IpcTypeOK, LunaLaunch
    <3> HIDE DEF e
    <3>3. Waiting' = Waiting \cup {e}
      BY <3>1, <3>2, AppendOne DEF Waiting
    <3>4. DeferredIsNotListed'
      BY <1>0, <1>2, <1>4, <3>2, <3>3 DEF DeferredIsNotListed
    <3> QED  BY <1>3, <3>1, <3>4
  <2>2. CASE m_runnerClients # << >>
    <3>1. \E s : Gives(s, a, Len(requests'))
      BY <1>0, <1>4, <2>2, LaunchGives DEF MessageInv
    <3>2. UNCHANGED m_deferredMessages
      BY <1>0, <1>4, <2>2, LaunchGives DEF MessageInv
    <3>3. \A p \in Pids : Claims(p) => sockAppId[p] # a
      BY <1>0, <1>1, <1>4, NobodyServes
    <3>4. DeferredIsNotListed'
      BY <1>0, <1>2, <3>2 DEF DeferredIsNotListed, Waiting
    <3> QED  BY <1>0, <3>1, <3>3, <3>4, GiveClaim
  <2> QED  BY <2>1, <2>2
<1>5. CASE m_runningApps[a] # 0 /\ IpcRelaunch(a, Len(requests'), Gone)
  <2> PICK s \in Pids : s = m_runningSockets[a] /\ sockAppId[s] = a
    BY <1>0, <1>5 DEF IpcRelaunch, CanRelaunch, TypeOK, IpcTypeOK, MessageInv, SocketsAgree
  <2>1. /\ m_launchCallbacks' = [m_launchCallbacks EXCEPT ![s] = Len(requests')]
        /\ \/ UNCHANGED toServer
           \/ s \in Gone /\ toServer' = [toServer EXCEPT ![s] = << >>]
        /\ UNCHANGED << sockAppId, m_deferredMessages >>
    BY <1>5 DEF IpcRelaunch, queues
  <2>2. /\ \A p \in Pids : p # s => /\ m_launchCallbacks'[p] = m_launchCallbacks[p]
                                    /\ toServer'[p] = toServer[p]
        /\ toServer'[s] = toServer[s] \/ (s \notin Alive /\ toServer'[s] = << >>)
    BY <1>0, <2>1 DEF TypeOK, IpcTypeOK, Gone
  <2>3. \A p \in Pids : Serves(p)' => Serves(p)
    BY <1>0, <1>2, <2>1, ServedBefore DEF runnerVars
  <2>4. \A p \in Pids : HasTold(p)' => HasTold(p)
    BY <2>2 DEF HasTold
  <2>5. \A p \in Pids : Serves(p) => toServer'[p] = toServer[p]
    BY <2>2 DEF Serves
  <2>6. \A p \in Pids : Serves(p)' => Introduced(p)' = Introduced(p)
    BY <1>2, <2>3, <2>5 DEF Introduced, HasTold, runnerVars
  <2>7. Serves(s) => Introduced(s)
    BY <1>0, <1>1 DEF RunnerIsKnown
  <2>8. OneClaim' /\ RunnerIsKnown'
    BY <1>0, <1>2, <2>1, <2>2, <2>3, <2>4, <2>6, <2>7, ClaimsKept DEF Claims
  <2> QED  BY <1>0, <1>2, <2>1, <2>8 DEF DeferredIsNotListed, Waiting
<1>6. CASE UNCHANGED ipcVars
  <2>1. UNCHANGED << sockAppId, toServer, m_launchCallbacks, m_deferredMessages >>
    BY <1>6 DEF ipcVars, queues, sockets, wires
  <2> QED  BY <1>0, <1>2, <1>3, <2>1 DEF DeferredIsNotListed, Waiting
<1> QED  BY <1>4, <1>5, <1>6 DEF LunaLaunch

\* What a step does that leaves the wires to the server, the callbacks and the loaders
\* alone, and drops no live runner from the list.
LEMMA QuietClaim ==
    ASSUME TypeOK, StageInv, MessageInv, OneClaim, RunnerIsKnown, [Next]_vars,
           UNCHANGED << runnerVars, sockAppId, m_launchCallbacks >>,
           \A p \in Pids : HasTold(p)' = HasTold(p),
           \A p \in Alive : \A a \in Apps : m_runningApps[a] = p => m_runningApps'[a] = p
    PROVE  OneClaim' /\ RunnerIsKnown'
<1>1. \A p \in Pids : Serves(p)' => Serves(p)
  BY ServedBefore DEF runnerVars
<1>2. \A p \in Pids : Introduced(p)' = Introduced(p)
  BY DEF Introduced, runnerVars
<1>3. \A p \in Pids : Serves(p) => p \in Alive
  BY DEF Serves
<1> QED  BY <1>1, <1>2, <1>3, ClaimsKept DEF Claims

\* A runner that connects, loads, fails to load or reloads.
LEMMA LoaderClaim ==
    ASSUME DaemonInv, ClientInv, [Next]_vars, NEW p \in Pids,
           RunnerConnects(p) \/ RunnerLoads(p) \/ RunnerFailsToLoad(p) \/ RunnerReloads(p)
    PROVE  OneClaim' /\ RunnerIsKnown' /\ DeferredIsNotListed'
<1>0. /\ TypeOK /\ StageInv /\ MessageInv
      /\ OneClaim /\ RunnerIsKnown /\ DeferredIsNotListed /\ LoaderInv
  BY DEF DaemonInv, ClientInv
<1>1. /\ UNCHANGED << m_deferredMessages, m_runningApps, sockAppId, m_launchCallbacks, proc >>
      /\ p \in Alive
  BY DEF RunnerConnects, ConnectToServer, RunnerLoads, RunnerFailsToLoad, RunnerReloads,
         ReadRequest, lmVars, queues, lists, sockets
<1>2. DeferredIsNotListed'
  BY <1>0, <1>1 DEF DeferredIsNotListed, Waiting
<1>3. Alive' = Alive
  BY <1>1 DEF Alive
<1> DEFINE Others == \A q \in Pids : q # p => UNCHANGED << hosted[q], loader[q], toServer[q] >>
<1>4. ASSUME Others
      PROVE  \A q \in Pids : q # p => /\ HasTold(q)' = HasTold(q)
                                      /\ Serves(q)' = Serves(q)
                                      /\ Introduced(q)' = Introduced(q)
  BY <1>1, <1>3, <1>4 DEF HasTold, Serves, Introduced
<1>5. ASSUME Others, ~HasTold(p)', ~Serves(p)' PROVE OneClaim' /\ RunnerIsKnown'
  <2>1. \A q \in Pids : Serves(q)' =>
            Serves(q) /\ Introduced(q)' = Introduced(q)
    BY <1>4, <1>5
  <2>2. \A q \in Pids : HasTold(q)' => HasTold(q)
    BY <1>4, <1>5
  <2> HIDE DEF Others
  <2> QED  BY <1>0, <1>1, <2>1, <2>2, ClaimsKept DEF Claims
<1>6. CASE RunnerConnects(p)
  <2>1. /\ loader[p] = "starting" /\ UNCHANGED hosted
        /\ loader' = [loader EXCEPT ![p] = "idle"]
        /\ toServer' = [toServer EXCEPT ![p] = << "REGISTER_REQUEST" >>]
    BY <1>6 DEF RunnerConnects, ConnectToServer
  <2>2. Others /\ toServer'[p] = << "REGISTER_REQUEST" >>
    BY <1>0, <2>1 DEF TypeOK, IpcTypeOK
  <2>3. ~HasTold(p)' /\ ~Serves(p)'
    BY <1>0, <1>1, <2>1, <2>2, NewIsBlank DEF HasTold, Serves
  <2> QED  BY <1>2, <1>5, <2>2, <2>3
<1>7. CASE RunnerLoads(p)
  <2>1. /\ ReadRequest(p, "LAUNCH_REQUEST", "LAUNCH_OK") /\ "LAUNCH_OK" \in Replies
        /\ loader' = [loader EXCEPT ![p] = "loaded"] /\ loader[p] # "exiting"
        /\ hosted' = [hosted EXCEPT ![p] = Head(toRunner[p]).appId]
    BY <1>7 DEF RunnerLoads, Replies
  <2>2. toServer[p] = << >> /\ m_launchCallbacks[p] # 0 /\ sockAppId[p] \in Apps
    BY <1>0, <1>1, <2>1, RequestRead DEF MessageInv, WiresOK, LaunchRequestFirst
  <2>3. /\ HasTold(p)'
        /\ \A q \in Pids : q # p => toServer'[q] = toServer[q]
    BY <1>0, <1>1, <2>1, <2>2, RequestRead DEF HasTold
  <2>4. Others
    BY <1>0, <2>1, <2>3 DEF TypeOK
  <2>5. Serves(p)
    BY <1>1, <2>1, <2>2, ConstantsOK DEF Serves, Assumptions
  <2>6. \A q \in Pids : Claims(q)' => Claims(q)
    BY <1>4, <2>4, <2>5 DEF Claims
  <2>7. OneClaim'
    BY <1>0, <1>1, <2>6 DEF OneClaim
  <2>8. ~Introduced(p)'
    BY <2>3 DEF Introduced
  <2>9. ASSUME NEW q \in Pids, Serves(q)'
        PROVE  IF Introduced(q)' THEN m_runningApps'[sockAppId'[q]] = q ELSE m_launchCallbacks'[q] # 0
    <3>1. CASE q = p
      BY <1>1, <2>2, <2>8, <3>1
    <3>2. CASE q # p
      BY <1>0, <1>1, <1>4, <2>4, <2>9, <3>2 DEF RunnerIsKnown
    <3> QED  BY <3>1, <3>2
  <2>10. RunnerIsKnown'
    BY <2>9 DEF RunnerIsKnown
  <2> QED  BY <1>2, <2>7, <2>10
<1>8. CASE RunnerFailsToLoad(p)
  <2>1. /\ ReadRequest(p, "LAUNCH_REQUEST", "LAUNCH_ERROR") /\ "LAUNCH_ERROR" \in Replies
        /\ loader' = [loader EXCEPT ![p] = "exiting"] /\ UNCHANGED hosted
    BY <1>8 DEF RunnerFailsToLoad, Replies
  <2>2. toServer[p] = << >>
    BY <1>0, <1>1, <2>1, RequestRead DEF MessageInv, WiresOK, LaunchRequestFirst
  <2>3. /\ ~HasTold(p)'
        /\ \A q \in Pids : q # p => toServer'[q] = toServer[q]
    BY <1>0, <1>1, <2>1, <2>2, RequestRead DEF HasTold
  <2>4. Others /\ ~Serves(p)'
    BY <1>0, <2>1, <2>3 DEF TypeOK, Serves
  <2> QED  BY <1>2, <1>5, <2>3, <2>4
<1>9. CASE RunnerReloads(p)
  <2>1. /\ ReadRequest(p, "RELAUNCH_REQUEST", "RELAUNCH_OK") /\ "RELAUNCH_OK" \in Replies
        /\ UNCHANGED runnerVars
    BY <1>9 DEF RunnerReloads, Replies
  <2>2. \A q \in Pids : HasTold(q)' = HasTold(q)
    BY <1>0, <1>1, <2>1, RequestRead DEF HasTold
  <2> QED  BY <1>0, <1>1, <1>2, <2>1, <2>2, QuietClaim
<1> QED  BY <1>6, <1>7, <1>8, <1>9

\* Every step keeps what is said of who claims an application.
LEMMA ClaimNext ==
    ASSUME PatientClients, DaemonInv, ClientInv, [Next]_vars
    PROVE  OneClaim' /\ RunnerIsKnown' /\ DeferredIsNotListed'
<1>0. /\ TypeOK /\ StageInv /\ MessageInv /\ CallInv
      /\ OneCallAtATime /\ OneClaim /\ RunnerIsKnown /\ DeferredIsNotListed /\ LoaderInv
  BY DEF DaemonInv, ClientInv
<1>1. ASSUME NEW s \in Pids, ServerReadsRegister(s)
      PROVE  OneClaim' /\ RunnerIsKnown' /\ DeferredIsNotListed'
  <2>1. UNCHANGED << m_runningApps, runnerVars >>
    BY <1>1 DEF ServerReadsRegister, ReadRegister, lists
  <2>2. CASE m_deferredMessages = << >>
    <3>1. /\ UNCHANGED << sockAppId, m_launchCallbacks, m_deferredMessages >>
          /\ ~HasTold(s) /\ toServer' = [toServer EXCEPT ![s] = << >>]
      BY <1>1, <2>2 DEF ServerReadsRegister, ReadRegister, Arrived, HasTold
    <3>2. \A p \in Pids : HasTold(p)' = HasTold(p)
      BY <1>0, <3>1 DEF HasTold, TypeOK, IpcTypeOK
    <3> QED  BY <1>0, <2>1, <3>1, <3>2, QuietClaim DEF DeferredIsNotListed, Waiting
  <2>3. CASE m_deferredMessages # << >>
    <3> PICK m \in Deferred : m = Head(m_deferredMessages)
      BY <1>0, <2>3, HeadTailProperties DEF TypeOK, IpcTypeOK
    <3>1. /\ \E q : Gives(q, m.appId, m.callback)
          /\ m_deferredMessages' = Tail(m_deferredMessages)
      BY <1>0, <1>1, <2>3, RegisterGives DEF MessageInv
    <3>2. m \in Waiting /\ Waiting' \subseteq Waiting
      <4>1. m_deferredMessages \in Seq(Deferred) /\ InOrder(m_deferredMessages)
        BY <1>0 DEF TypeOK, IpcTypeOK, CallInv
      <4> QED  BY <2>3, <3>1, <4>1, TailInOrder DEF Waiting
    <3>3. m.appId \in Apps
      BY DEF Deferred
    <3>4. \A p \in Pids : Claims(p) => sockAppId[p] # m.appId
      BY <1>0, <3>2, <3>3, NobodyServes, OneHolder DEF DeferredIsNotListed
    <3>5. OneClaim' /\ RunnerIsKnown'
      BY <1>0, <3>1, <3>4, GiveClaim
    <3> QED  BY <1>0, <2>1, <3>2, <3>5 DEF DeferredIsNotListed
  <2> QED  BY <2>2, <2>3
<1>2. ASSUME NEW s \in Pids, ServerReadsLaunchOk(s)
      PROVE  OneClaim' /\ RunnerIsKnown' /\ DeferredIsNotListed'
  <2>1. /\ m_runningApps' = [m_runningApps EXCEPT ![sockAppId[s]] = s]
        /\ UNCHANGED m_deferredMessages
        /\ toServer[s] # << >> /\ Head(toServer[s]) = "LAUNCH_OK"
    BY <1>0, <1>2, LaunchOkLists DEF ServerReadsLaunchOk, ReadLaunchOk, Arrived, queues
  <2>2. m_launchCallbacks[s] # 0
    BY <1>0, <2>1 DEF MessageInv, WiresOK, SuccessIsFromHost
  <2>3. \A m \in Waiting : m.appId # sockAppId[s]
    BY <1>0, <2>2, OneHolder
  <2>4. \A m \in Waiting : m.appId \in Apps
    <3>1. \A i \in DOMAIN m_deferredMessages : m_deferredMessages[i] \in Deferred
      BY <1>0, LenProperties, ElementOfSeq DEF TypeOK, IpcTypeOK
    <3> QED  BY <3>1 DEF Waiting, Elems, Deferred
  <2>5. DeferredIsNotListed'
    BY <1>0, <2>1, <2>3, <2>4 DEF DeferredIsNotListed, Waiting, TypeOK, IpcTypeOK
  <2> QED  BY <1>2, <2>5, LaunchOkClaim
<1>3. ASSUME NEW s \in Pids, ServerReadsOtherReply(s)
      PROVE  OneClaim' /\ RunnerIsKnown' /\ DeferredIsNotListed'
  <2>1. /\ UNCHANGED << m_runningApps, runnerVars, sockAppId, m_deferredMessages >>
        /\ toServer[s] # << >> /\ Head(toServer[s]) \in Replies \ {"LAUNCH_OK"}
        /\ toServer' = [toServer EXCEPT ![s] = << >>]
        /\ m_launchCallbacks' = [m_launchCallbacks EXCEPT ![s] = 0]
    BY <1>3 DEF ServerReadsOtherReply, ReadOtherReply, Arrived, TakeCallback, queues, lists, sockets
  <2>2. \A p \in Pids : HasTold(p)' = HasTold(p)
    BY <1>0, <2>1 DEF HasTold, TypeOK, IpcTypeOK
  <2>3. Serves(s) => Introduced(s)
    <3>1. CASE Head(toServer[s]) = "RELAUNCH_OK"
      <4>1. hosted[s] \in Apps
        BY <1>0, <2>1, <3>1 DEF MessageInv, WiresOK, SuccessIsFromHost
      <4> QED  BY <2>1, <3>1, <4>1, ConstantsOK DEF Introduced, HasTold, Assumptions
    <3>2. CASE Head(toServer[s]) \in {"LAUNCH_ERROR", "RELAUNCH_ERROR"}
      BY <1>0, <2>1, <3>2 DEF LoaderInv, Serves
    <3> QED  BY <2>1, <3>1, <3>2 DEF Replies
  <2>4. \A p \in Pids : Serves(p)' => Serves(p)
    BY <1>0, <2>1, ServedBefore DEF runnerVars
  <2>5. \A p \in Pids : Introduced(p)' = Introduced(p)
    BY <2>1, <2>2 DEF Introduced, runnerVars
  <2>6. \A p \in Pids : p # s => m_launchCallbacks'[p] = m_launchCallbacks[p]
    BY <1>0, <2>1 DEF TypeOK, IpcTypeOK
  <2>7. OneClaim' /\ RunnerIsKnown'
    BY <1>0, <2>1, <2>2, <2>3, <2>4, <2>5, <2>6, ClaimsKept DEF Claims
  <2> QED  BY <1>0, <2>1, <2>7 DEF DeferredIsNotListed, Waiting
<1>4. ASSUME NEW p \in Pids, DaemonReapsProcess(p)
      PROVE  OneClaim' /\ RunnerIsKnown' /\ DeferredIsNotListed'
  <2>1. /\ UNCHANGED << runnerVars, sockAppId, m_launchCallbacks, toServer, m_deferredMessages >>
        /\ \A a \in Apps : m_runningApps'[a] = m_runningApps[a]
              \/ (m_runningApps[a] = p /\ m_runningApps'[a] = 0)
        /\ p \notin Alive
    BY <1>4 DEF DaemonReapsProcess, RemoveProcess, OnProcessFinished, Alive, queues, sockets, wires
  <2>2. DeferredIsNotListed'
    <3>1. \A m \in Waiting : m.appId \in Apps
      <4>1. \A i \in DOMAIN m_deferredMessages : m_deferredMessages[i] \in Deferred
        BY <1>0, LenProperties, ElementOfSeq DEF TypeOK, IpcTypeOK
      <4> QED  BY <4>1 DEF Waiting, Elems, Deferred
    <3> QED  BY <1>0, <2>1, <3>1 DEF DeferredIsNotListed, Waiting
  <2>3. \A q \in Alive : \A a \in Apps : m_runningApps[a] = q => m_runningApps'[a] = q
    BY <2>1
  <2>4. \A q \in Pids : HasTold(q)' = HasTold(q)
    BY <2>1 DEF HasTold
  <2> QED  BY <1>0, <2>1, <2>2, <2>3, <2>4, QuietClaim
<1>5. ASSUME UNCHANGED << runnerVars, sockAppId, m_launchCallbacks, toServer, m_runningApps,
                          m_deferredMessages >>
      PROVE  OneClaim' /\ RunnerIsKnown' /\ DeferredIsNotListed'
  <2>1. \A q \in Pids : HasTold(q)' = HasTold(q)
    BY <1>5 DEF HasTold
  <2> QED  BY <1>0, <1>5, <2>1, QuietClaim DEF DeferredIsNotListed, Waiting
<1>6. ASSUME NEW p \in Pids, RunnerEnds(p) \/ RunnerExecFails(p) \/ ServerSeesDisconnect(p)
      PROVE  OneClaim' /\ RunnerIsKnown' /\ DeferredIsNotListed'
  BY <1>5, <1>6 DEF RunnerEnds, SocketClosed, RunnerExecFails, ServerSeesDisconnect,
                    OnDisconnected, ipcVars, queues, lists, sockets, wires
<1>7. CASE DaemonOwnStep \/ UNCHANGED vars \/ \E a \in Apps : LunaClose(a)
  BY <1>5, <1>7 DEF DaemonOwnStep, LunaClose, vars, ipcVars, queues, lists, sockets, wires,
                    runnerVars
<1> QED
  BY <1>1, <1>2, <1>3, <1>4, <1>6, <1>7, LoaderClaim, LaunchClaim
     DEF Next, RunnerStep, ServerStep

\* What answers name stays listed while it lives, and so is what a new answer names.
LEMMA AnsweredNext ==
    ASSUME DaemonInv, ClientInv, DaemonInv', [Next]_vars
    PROVE  AnsweredRunnerIsListed'
<1>0. /\ TypeOK /\ StageInv /\ MessageInv /\ ListInv /\ CallInv /\ TypeOK' /\ CallInv'
      /\ OneClaim /\ RunnerIsKnown /\ LoaderInv /\ AnsweredRunnerIsListed
  BY DEF DaemonInv, ClientInv
<1>1. \A p \in Pids : hosted[p] # NoApp =>
          hosted'[p] = hosted[p] /\ (p \in Alive' => p \in Alive)
  BY <1>0, HostedStays, AliveNext, NewIsBlank
<1>2. ASSUME NEW p \in Alive, hosted[p] # NoApp
      PROVE  p \in Pids /\ Serves(p) /\ sockAppId[p] = hosted[p] /\ hosted[p] \in Apps
  <2>1. p \in Pids
    BY DEF Alive
  <2>2. loader[p] = "loaded"
    BY <1>0, <1>2, <2>1 DEF LoaderInv
  <2> QED
    BY <1>0, <1>2, <2>1, <2>2 DEF MessageInv, WiresOK, LoadedHostsApp, Serves
<1>3. ASSUME NEW p \in Alive, hosted[p] # NoApp, m_runningApps[hosted[p]] = p
      PROVE  m_runningApps'[hosted[p]] = p
  <2>1. CASE UNCHANGED lists
    BY <1>3, <2>1 DEF lists
  <2>2. ASSUME NEW s \in Pids, ServerReadsLaunchOk(s) PROVE m_runningApps'[hosted[p]] = p
    <3>1. /\ m_runningApps' = [m_runningApps EXCEPT ![sockAppId[s]] = s]
          /\ HasTold(s)
      BY <1>0, <2>2, LaunchOkLists DEF ServerReadsLaunchOk, ReadLaunchOk, Arrived, HasTold
    <3>2. sockAppId[s] = sockAppId[p] => s = p
      BY <1>0, <1>2, <1>3, <3>1 DEF OneClaim, Claims
    <3> QED  BY <1>0, <1>2, <1>3, <3>1, <3>2 DEF TypeOK, IpcTypeOK
  <2>3. ASSUME NEW s \in Pids, ServerReadsOtherReply(s) PROVE UNCHANGED lists
    BY <2>3 DEF ServerReadsOtherReply, ReadOtherReply
  <2>4. ASSUME NEW q \in Pids, DaemonReapsProcess(q) PROVE m_runningApps'[hosted[p]] = p
    <3>1. q # p
      BY <2>4 DEF DaemonReapsProcess, OnProcessFinished, Alive
    <3> QED  BY <1>2, <1>3, <2>4, <3>1 DEF DaemonReapsProcess, RemoveProcess
  <2> QED  BY <2>1, <2>2, <2>3, <2>4, ListCases
<1> DEFINE Fresh == \A r \in Requests :
                \/ replies'[r] = replies[r]
                \/ \E pid \in Pids \cup {0} :
                      /\ replies'[r] = << pid >>
                      /\ pid \in Alive' => m_runningApps'[hosted'[pid]] = pid
<1>4. ASSUME Fresh PROVE AnsweredRunnerIsListed'
  <2> SUFFICES ASSUME NEW r \in DOMAIN requests', NEW i \in DOMAIN replies'[r],
                      replies'[r][i] \in Alive'
               PROVE  m_runningApps'[hosted'[replies'[r][i]]] = replies'[r][i]
    BY DEF AnsweredRunnerIsListed
  <2> PICK p : p = replies'[r][i]
    OBVIOUS
  <2>1. r \in Requests /\ p \in Pids
    <3>1. DOMAIN requests' \subseteq Requests
      <4>1. Len(requests') \in Nat /\ DOMAIN requests' = 1 .. Len(requests')
        BY <1>0, LenProperties DEF TypeOK
      <4>2. Len(requests') <= MaxRequests /\ MaxRequests \in Nat
        BY <1>0, ConstantsOK DEF TypeOK, Assumptions
      <4> QED  BY <4>1, <4>2 DEF Requests
    <3> QED  BY <3>1 DEF Alive
  <2>2. CASE replies'[r] = replies[r]
    <3>1. replies[r] # << >>
      BY <2>2, EmptySeq
    <3>2. r \in DOMAIN requests
      BY <1>0, <2>1, <3>1 DEF CallInv, AnsweredOnce
    <3>3. p # 0
      BY <2>1, ConstantsOK DEF Assumptions
    <3>4. hosted[p] = requests[r].appId /\ requests[r].appId \in Apps
      BY <1>0, <2>2, <3>2, <3>3, RequestedApp DEF CallInv, ReplyFromHost
    <3>5. hosted[p] # NoApp
      BY <3>4, ConstantsOK DEF Assumptions
    <3>6. p \in Alive /\ hosted'[p] = hosted[p]
      BY <1>1, <2>1, <3>5
    <3>7. m_runningApps[hosted[p]] = p
      BY <1>0, <2>2, <3>2, <3>6 DEF AnsweredRunnerIsListed
    <3> QED  BY <1>3, <3>5, <3>6, <3>7
  <2>3. CASE replies'[r] # replies[r]
    <3> PICK pid \in Pids \cup {0} : /\ replies'[r] = << pid >>
                                     /\ pid \in Alive' => m_runningApps'[hosted'[pid]] = pid
      BY <1>4, <2>1, <2>3
    <3>1. i = 1 /\ p = pid
      BY DOMAIN << pid >> = {1}
    <3> QED  BY <3>1
  <2> QED  BY <2>2, <2>3
<1>5. ASSUME NEW r \in Requests, NEW pid \in Pids \cup {0}, Answer(r, pid), replies[r] = << >>,
             pid \in Alive' => m_runningApps'[hosted'[pid]] = pid
      PROVE  Fresh
  <2>1. /\ replies'[r] = << pid >>
        /\ \A n \in Requests : n # r => replies'[n] = replies[n]
    BY <1>0, <1>5 DEF Answer, TypeOK
  <2> QED  BY <1>5, <2>1
<1>6. ASSUME NEW s \in Pids, NEW pid \in Pids \cup {0}, CallBack(s, pid),
             pid \in Alive' => m_runningApps'[hosted'[pid]] = pid
      PROVE  Fresh
  <2> PICK r \in Requests \cup {0} : r = m_launchCallbacks[s]
    BY <1>0 DEF TypeOK, IpcTypeOK
  <2>1. CASE r = 0
    BY <1>6, <2>1 DEF CallBack
  <2>2. CASE r # 0
    <3>1. Answer(r, pid) /\ r \in Requests
      BY <1>6, <2>2 DEF CallBack
    <3>2. replies[r] = << >>
      BY <1>0, <3>1 DEF CallInv, CallbacksApart
    <3> HIDE DEF Fresh
    <3> QED  BY <1>5, <1>6, <3>1, <3>2
  <2> QED  BY <2>1, <2>2
<1>7. ASSUME NEW s \in Pids, ServerReadsLaunchOk(s) PROVE Fresh
  <2>1. /\ CallBack(s, s) /\ sockAppId[s] \in Apps /\ hosted'[s] = sockAppId[s]
        /\ m_runningApps' = [m_runningApps EXCEPT ![sockAppId[s]] = s]
    BY <1>0, <1>7, LaunchOkLists DEF ServerReadsLaunchOk
  <2>2. m_runningApps'[hosted'[s]] = s
    BY <1>0, <2>1 DEF TypeOK, IpcTypeOK
  <2> HIDE DEF Fresh
  <2> QED  BY <1>6, <2>1, <2>2
<1>8. ASSUME NEW s \in Pids, ServerReadsOtherReply(s) PROVE Fresh
  <2> PICK pid \in Pids \cup {0} : pid = IF Head(toServer[s]) = "RELAUNCH_OK" THEN s ELSE 0
    OBVIOUS
  <2>1. /\ CallBack(s, pid) /\ toServer[s] # << >> /\ UNCHANGED << m_runningApps, hosted >>
    BY <1>8 DEF ServerReadsOtherReply, ReadOtherReply, Arrived, lists, runnerVars
  <2>2. ASSUME pid \in Alive' PROVE m_runningApps'[hosted'[pid]] = pid
    <3>1. pid = s /\ Head(toServer[s]) = "RELAUNCH_OK"
      BY <2>2, ConstantsOK DEF Alive, Assumptions
    <3>2. hosted[s] \in Apps
      BY <1>0, <2>1, <3>1 DEF MessageInv, WiresOK, SuccessIsFromHost
    <3>3. hosted[s] # NoApp /\ ~HasTold(s)
      BY <3>1, <3>2, ConstantsOK DEF HasTold, Assumptions
    <3>4. s \in Alive
      BY <1>1, <2>2, <3>1, <3>3
    <3>5. m_runningApps[hosted[s]] = s
      BY <1>0, <1>2, <3>3, <3>4 DEF RunnerIsKnown, Introduced
    <3> QED  BY <2>1, <3>1, <3>5
  <2> HIDE DEF Fresh
  <2> QED  BY <1>6, <2>1, <2>2
<1>9. ASSUME NEW a \in Apps, LunaClose(a) PROVE Fresh
  <2> PICK pid \in Pids \cup {0} : pid = m_runningApps[a]
    BY <1>0 DEF TypeOK, IpcTypeOK
  <2>1. /\ Call("close", a) /\ Answer(Len(requests'), pid)
        /\ UNCHANGED << m_runningApps, hosted >>
    BY <1>9 DEF LunaClose, ipcVars, lists, runnerVars
  <2>2. /\ Len(requests') \in Requests /\ replies[Len(requests')] = << >>
    BY <1>0, <2>1, NewCall, FreshCallback
  <2>3. pid \in Alive' => hosted[pid] = a
    BY <1>0, ConstantsOK DEF Alive, Assumptions, ListInv, ListsAgree
  <2> HIDE DEF Fresh
  <2> QED  BY <1>5, <2>1, <2>2, <2>3
<1>10. ASSUME UNCHANGED replies PROVE Fresh
  BY <1>10
<1> HIDE DEF Fresh
<1>11. ASSUME NEW p \in Pids, RunnerStep(p) \/ ServerReadsRegister(p) \/ ServerSeesDisconnect(p)
                \/ DaemonReapsProcess(p)
       PROVE  Fresh
  BY <1>10, <1>11
     DEF RunnerStep, RunnerConnects, RunnerLoads, RunnerFailsToLoad, RunnerReloads,
         RunnerEnds, RunnerExecFails, ServerReadsRegister, ServerSeesDisconnect,
         DaemonReapsProcess, lunaVars
<1>12. ASSUME DaemonOwnStep \/ UNCHANGED vars \/ \E a \in Apps : LunaLaunch(a) PROVE Fresh
  BY <1>10, <1>12 DEF DaemonOwnStep, LunaLaunch, vars, lunaVars
<1> QED
  BY <1>4, <1>7, <1>8, <1>9, <1>11, <1>12 DEF Next, ServerStep

\* Initially nobody was asked for anything.
LEMMA ClientInit == Init => ClientInv
<1> SUFFICES ASSUME Init PROVE ClientInv
  OBVIOUS
<1>1. DOMAIN << >> = {}
  OBVIOUS
<1>2. DOMAIN requests = {} /\ Waiting = {}
  BY <1>1 DEF Init, IpcInit, Waiting, Elems
<1>3. \A p \in Pids : ~Claims(p) /\ hosted[p] = NoApp /\ toServer[p] = << >>
  BY DEF Init, IpcInit, Claims, Serves, HasTold
<1> QED
  BY <1>2, <1>3 DEF ClientInv, LoaderInv, OneCallAtATime, OneClaim, RunnerIsKnown, Claims,
                    DeferredIsNotListed, AnsweredRunnerIsListed

\* What is said of patient clients holds in every state.
THEOREM ClientsHold == PatientClients => (Spec => [](DaemonInv /\ ClientInv))
<1> SUFFICES ASSUME PatientClients PROVE Spec => [](DaemonInv /\ ClientInv)
  OBVIOUS
<1>1. Spec => []DaemonInv
  BY CallsHold DEF DaemonInv
<1>2. DaemonInv /\ DaemonInv' /\ ClientInv /\ [Next]_vars => ClientInv'
  <2> SUFFICES ASSUME DaemonInv, DaemonInv', ClientInv, [Next]_vars PROVE ClientInv'
    OBVIOUS
  <2>1. LoaderInv'
    BY LoaderNext DEF DaemonInv, ClientInv
  <2>2. OneCallAtATime'
    BY OneCallNext DEF ClientInv
  <2>3. OneClaim' /\ RunnerIsKnown' /\ DeferredIsNotListed'
    BY ClaimNext
  <2>4. AnsweredRunnerIsListed'
    BY AnsweredNext
  <2> QED  BY <2>1, <2>2, <2>3, <2>4 DEF ClientInv
<1> QED  BY <1>1, <1>2, ClientInit, PTL DEF Spec

\* For clients that wait for their answers an application has at most one live runner,
\* however launches, closes, crashes and the answers to them interleave
\* (lunaservice.cpp:70-97, ipcserver.cpp:117-145).
THEOREM OneRunnerAlways == PatientClients => (Spec => []OneRunnerPerApp)
<1>1. DaemonInv /\ ClientInv => OneRunnerPerApp
  <2> SUFFICES ASSUME DaemonInv, ClientInv, NEW p \in Alive, NEW q \in Alive,
                      hosted[p] # NoApp, hosted[p] = hosted[q]
               PROVE  p = q
    BY DEF OneRunnerPerApp
  <2>1. \A s \in Alive : hosted[s] # NoApp => /\ s \in Pids /\ Claims(s)
                                              /\ sockAppId[s] = hosted[s]
    <3> SUFFICES ASSUME NEW s \in Alive, hosted[s] # NoApp
                 PROVE  s \in Pids /\ Claims(s) /\ sockAppId[s] = hosted[s]
      OBVIOUS
    <3>1. s \in Pids
      BY DEF Alive
    <3>2. loader[s] = "loaded"
      BY <3>1 DEF ClientInv, LoaderInv
    <3> QED
      BY <3>1, <3>2 DEF DaemonInv, MessageInv, WiresOK, LoadedHostsApp, Claims, Serves
  <2> QED  BY <2>1 DEF ClientInv, OneClaim
<1> QED  BY <1>1, ClientsHold, PTL

\* A runner that an answer names is in the running list for as long as it lives, so that
\* it can be closed and relaunched (ipcserver.cpp:136-145, 199, lunaservice.cpp:79, 95).
THEOREM AnsweredStaysListed == PatientClients => (Spec => []AnsweredRunnerIsListed)
<1>1. DaemonInv /\ ClientInv => AnsweredRunnerIsListed
  BY DEF ClientInv
<1> QED  BY <1>1, ClientsHold, PTL

----------------------------------------------------------------------------
(***************************************************************************)
(* What a patient client waits for.                                        *)
(*                                                                         *)
(* The safety half of CallIsAnswered: a call without an answer is held     *)
(* somewhere, unless a runner with its application has ended.  A launch is *)
(* dropped when its application is listed and has no socket to write to    *)
(* (lunaservice.cpp:76, ipcserver.cpp:166-168), so the invariant follows the   *)
(* sockets too: a runner that serves an application is the one a relaunch  *)
(* of it reaches.                                                          *)
(***************************************************************************)
RunnerIsReached == \A p \in Pids : Serves(p) => m_runningSockets[sockAppId[p]] = p

HasEnded(a) == \E p \in Gone : sockAppId[p] = a

Held(r) == \/ \E m \in Waiting : m.callback = r
           \/ \E p \in Pids : m_launchCallbacks[p] = r

PendingIsHeld ==
    \A r \in DOMAIN requests : Pending(r) => Held(r) \/ HasEnded(requests[r].appId)

HeldInv == RunnerIsReached /\ PendingIsHeld

\* A runner is given an application that nobody claims.
GivesUnclaimed ==
    \E s, a, r : Gives(s, a, r) /\ \A p \in Pids : Claims(p) => sockAppId[p] # a

\* Only the sockets of runners that ended leave the map.
KeepsLiveSockets ==
    /\ UNCHANGED sockAppId
    /\ \A b \in Apps : \/ m_runningSockets'[b] = m_runningSockets[b]
                       \/ m_runningSockets[b] \notin Alive

\* What a step does to the sockets of the applications.
LEMMA SocketCases ==
    ASSUME PatientClients, DaemonInv, ClientInv, [Next]_vars
    PROVE  GivesUnclaimed \/ KeepsLiveSockets
<1>0. /\ TypeOK /\ StageInv /\ MessageInv /\ CallInv
      /\ OneCallAtATime /\ RunnerIsKnown /\ DeferredIsNotListed
  BY DEF DaemonInv, ClientInv
<1>a. ASSUME NEW s \in Gone, m_runningSockets' = WithoutSocket(m_runningSockets, s)
      PROVE  \A b \in Apps : \/ m_runningSockets'[b] = m_runningSockets[b]
                             \/ m_runningSockets[b] \notin Alive
  BY <1>0, <1>a DEF WithoutSocket, Gone, TypeOK, IpcTypeOK
<1>b. UNCHANGED << sockAppId, m_runningSockets >> => KeepsLiveSockets
  BY DEF KeepsLiveSockets
<1>1. ASSUME NEW a \in Apps, LunaLaunch(a) PROVE GivesUnclaimed \/ KeepsLiveSockets
  <2>1. CASE /\ m_runningApps[a] = 0 /\ IpcLaunch(a, Len(requests'), Gone)
             /\ CountChanged({}, Len(m_runnerClients'))
    <3>1. CASE m_runnerClients = << >>
      BY <1>b, <2>1, <3>1 DEF IpcLaunch, Defer, sockets
    <3>2. CASE m_runnerClients # << >>
      <4>1. \E s : Gives(s, a, Len(requests'))
        BY <1>0, <1>1, <2>1, <3>2, LaunchGives DEF MessageInv
      <4>2. \A q \in Pids : m_launchCallbacks[q] # 0 => sockAppId[q] # a
        <5>1. \A r \in DOMAIN requests : requests[r].appId = a => ~Pending(r)
          BY <1>1 DEF LunaLaunch, Call, MayCall
        <5> QED  BY <1>0, <5>1, HeldIsPending DEF CallInv, CallbackForApp
      <4>3. \A p \in Pids : Claims(p) => sockAppId[p] # a
        BY <1>0, <2>1, <4>2, NobodyServes
      <4> QED  BY <4>1, <4>3 DEF GivesUnclaimed
    <3> QED  BY <3>1, <3>2
  <2>2. CASE IpcRelaunch(a, Len(requests'), Gone)
    BY <1>a, <1>b, <2>2 DEF IpcRelaunch, KeepsLiveSockets
  <2>3. CASE UNCHANGED ipcVars
    BY <1>b, <2>3 DEF ipcVars, sockets
  <2> QED  BY <1>1, <2>1, <2>2, <2>3 DEF LunaLaunch
<1>2. ASSUME NEW s \in Pids, ServerReadsRegister(s) PROVE GivesUnclaimed \/ KeepsLiveSockets
  <2>1. CASE m_deferredMessages = << >>
    BY <1>2, <1>b, <2>1 DEF ServerReadsRegister, ReadRegister
  <2>2. CASE m_deferredMessages # << >>
    <3> PICK m \in Deferred : m = Head(m_deferredMessages)
      BY <1>0, <2>2, HeadTailProperties DEF TypeOK, IpcTypeOK
    <3>1. \E q : Gives(q, m.appId, m.callback)
      BY <1>0, <1>2, <2>2, RegisterGives DEF MessageInv
    <3>2. m \in Waiting
      <4>1. m_deferredMessages \in Seq(Deferred) /\ InOrder(m_deferredMessages)
        BY <1>0 DEF TypeOK, IpcTypeOK, CallInv
      <4> QED  BY <2>2, <4>1, TailInOrder DEF Waiting
    <3>3. m.appId \in Apps
      BY DEF Deferred
    <3>4. \A p \in Pids : Claims(p) => sockAppId[p] # m.appId
      BY <1>0, <3>2, <3>3, NobodyServes, OneHolder DEF DeferredIsNotListed
    <3> QED  BY <3>1, <3>4 DEF GivesUnclaimed
  <2> QED  BY <2>1, <2>2
<1>3. ASSUME NEW s \in Pids, ServerSeesDisconnect(s) PROVE KeepsLiveSockets
  BY <1>a, <1>3 DEF ServerSeesDisconnect, OnDisconnected, KeepsLiveSockets
<1>4. ASSUME NEW p \in Pids, RunnerStep(p) \/ ServerReadsLaunchOk(p)
                \/ ServerReadsOtherReply(p) \/ DaemonReapsProcess(p)
      PROVE  KeepsLiveSockets
  BY <1>4, <1>b
     DEF RunnerStep, RunnerConnects, ConnectToServer, RunnerLoads, RunnerFailsToLoad,
         RunnerReloads, ReadRequest, RunnerEnds, SocketClosed, RunnerExecFails,
         ServerReadsLaunchOk, ReadLaunchOk, ServerReadsOtherReply, ReadOtherReply,
         DaemonReapsProcess, RemoveProcess, ipcVars, sockets
<1>5. CASE DaemonOwnStep \/ UNCHANGED vars \/ \E a \in Apps : LunaClose(a)
  BY <1>5, <1>b DEF DaemonOwnStep, LunaClose, vars, ipcVars, sockets
<1> QED  BY <1>1, <1>2, <1>3, <1>4, <1>5 DEF Next, ServerStep

\* A runner that was given an application and ended stays as it is.
LEMMA EndedStays ==
    ASSUME PatientClients, DaemonInv, ClientInv, [Next]_vars, NEW a \in Apps, HasEnded(a)
    PROVE  HasEnded(a)'
<1>0. TypeOK /\ StageInv /\ MessageInv
  BY DEF DaemonInv
<1> PICK p \in Gone : sockAppId[p] = a
  BY DEF HasEnded
<1>1. p \in Pids /\ p \notin Alive /\ a # NoApp
  BY ConstantsOK DEF Gone, Assumptions
<1>2. p \notin Alive'
  BY <1>0, <1>1, AliveNext, NewIsBlank
<1>3. Taken(p)
  BY <1>0, <1>1 DEF MessageInv, WiresOK, BlankUntilTaken
<1>4. sockAppId'[p] = a
  <2>1. CASE UNCHANGED sockAppId
    BY <2>1
  <2>2. CASE \E s, b, r : Gives(s, b, r)
    BY <1>0, <1>1, <1>3, <2>2 DEF Gives, TypeOK, IpcTypeOK
  <2> QED  BY <2>1, <2>2, SocketCases DEF GivesUnclaimed, KeepsLiveSockets
<1>5. p \in Gone'
  BY <1>1, <1>2 DEF Gone
<1> QED  BY <1>4, <1>5 DEF HasEnded

\* A step that gives no runner an application makes none serve one.
LEMMA ServesNext ==
    ASSUME TypeOK, StageInv, MessageInv, [Next]_vars, UNCHANGED sockAppId
    PROVE  \A p \in Pids : Serves(p)' => Serves(p)
<1>1. CASE UNCHANGED runnerVars
  BY <1>1, ServedBefore DEF runnerVars
<1>2. ASSUME NEW s \in Pids, \/ RunnerConnects(s) \/ RunnerLoads(s)
                             \/ RunnerFailsToLoad(s) \/ RunnerReloads(s)
      PROVE  \A p \in Pids : Serves(p)' => Serves(p)
  <2>1. /\ UNCHANGED proc
        /\ \/ loader[s] # "exiting" /\ \E stage : loader' = [loader EXCEPT ![s] = stage]
           \/ UNCHANGED loader
    BY <1>2 DEF RunnerConnects, RunnerLoads, RunnerFailsToLoad, RunnerReloads, lmVars, runnerVars
  <2>2. \A p \in Pids : loader'[p] # "exiting" => loader[p] # "exiting"
    BY <2>1 DEF TypeOK
  <2> QED  BY <2>1, <2>2 DEF Serves, Alive
<1> QED  BY <1>1, <1>2, LoaderCases

\* The socket of a runner that serves stays in the map.
LEMMA ReachedNext ==
    ASSUME PatientClients, DaemonInv, ClientInv, RunnerIsReached, [Next]_vars
    PROVE  RunnerIsReached'
<1>0. TypeOK /\ StageInv /\ MessageInv
  BY DEF DaemonInv
<1>1. ASSUME NEW s, NEW a, NEW r, Gives(s, a, r),
             \A p \in Pids : Claims(p) => sockAppId[p] # a
      PROVE  RunnerIsReached'
  <2>1. /\ s \in Pids /\ a \in Apps /\ Alive' = Alive /\ UNCHANGED loader
        /\ sockAppId'[s] = a
        /\ \A q \in Pids : q # s => sockAppId'[q] = sockAppId[q]
        /\ s \in Alive => m_runningSockets'[a] = s
        /\ \A b \in Apps : b # a => m_runningSockets'[b] = m_runningSockets[b]
    BY <1>0, <1>1 DEF Gives, Alive, runnerVars, TypeOK, IpcTypeOK
  <2>2. ASSUME NEW q \in Pids, Serves(q)' PROVE m_runningSockets'[sockAppId'[q]] = q
    <3>1. CASE q = s
      BY <2>1, <2>2, <3>1 DEF Serves
    <3>2. CASE q # s
      <4>1. Serves(q) /\ sockAppId'[q] = sockAppId[q]
        BY <2>1, <2>2, <3>2 DEF Serves
      <4>2. sockAppId[q] \in Apps /\ sockAppId[q] # a
        BY <1>0, <1>1, <4>1 DEF Claims, Serves, TypeOK, IpcTypeOK
      <4> QED  BY <2>1, <4>1, <4>2 DEF RunnerIsReached
    <3> QED  BY <3>1, <3>2
  <2> QED  BY <2>2 DEF RunnerIsReached
<1>2. ASSUME UNCHANGED sockAppId,
             \A b \in Apps : \/ m_runningSockets'[b] = m_runningSockets[b]
                             \/ m_runningSockets[b] \notin Alive
      PROVE  RunnerIsReached'
  <2>1. ASSUME NEW q \in Pids, Serves(q)' PROVE m_runningSockets'[sockAppId'[q]] = q
    <3>1. Serves(q)
      BY <1>0, <1>2, <2>1, ServesNext
    <3>2. q \in Alive /\ sockAppId[q] \in Apps
      BY <1>0, <3>1 DEF Serves, TypeOK, IpcTypeOK
    <3> QED  BY <1>2, <3>1, <3>2 DEF RunnerIsReached
  <2> QED  BY <2>1 DEF RunnerIsReached
<1> QED  BY <1>1, <1>2, SocketCases DEF GivesUnclaimed, KeepsLiveSockets

\* A step that answers nothing by a new call, and forgets no callback of a call that
\* still waits.
LEMMA HeldStays ==
    ASSUME PatientClients, DaemonInv, ClientInv, PendingIsHeld, [Next]_vars, CallsStay,
           \A r \in DOMAIN requests : Pending(r)' => Pending(r),
           \A r \in DOMAIN requests : Pending(r)' /\ Held(r) => Held(r)',
           \A r \in DOMAIN requests' : r \notin DOMAIN requests /\ Pending(r)' =>
               Held(r)' \/ HasEnded(requests[r].appId)'
    PROVE  PendingIsHeld'
<1> SUFFICES ASSUME NEW r \in DOMAIN requests', Pending(r)'
             PROVE  Held(r)' \/ HasEnded(requests[r].appId)'
  BY DEF PendingIsHeld
<1>1. CASE r \notin DOMAIN requests
  BY <1>1
<1>2. CASE r \in DOMAIN requests
  <2>1. requests'[r].appId = requests[r].appId /\ requests[r].appId \in Apps
    BY <1>2, RequestedApp DEF CallsStay, DaemonInv
  <2>2. Held(r) \/ HasEnded(requests[r].appId)
    BY <1>2 DEF PendingIsHeld
  <2> PICK a \in Apps : a = requests[r].appId
    BY <2>1
  <2>3. CASE HasEnded(a)
    <3>1. HasEnded(a)'
      BY <2>3, EndedStays
    <3> QED  BY <2>1, <3>1 DEF HasEnded
  <2> QED  BY <1>2, <2>2, <2>3
<1> QED  BY <1>1, <1>2

\* What is not the oldest of the deferred launches stays in the queue.
LEMMA HeadOrTail ==
    ASSUME NEW S, NEW q \in Seq(S), q # << >>, NEW e \in Elems(q)
    PROVE  e = Head(q) \/ e \in Elems(Tail(q))
<1> DEFINE t == Tail(q)
<1> PICK n \in Nat : n = Len(q)
  BY LenProperties
<1>1. DOMAIN q = 1 .. n /\ Head(q) = q[1]
  BY EmptySeq, LenProperties
<1>2. DOMAIN t = 1 .. n - 1 /\ \A i \in 1 .. n - 1 : t[i] = q[i + 1]
  BY HeadTailProperties
<1> HIDE DEF t
<1> PICK i \in 1 .. n : e = q[i]
  BY <1>1 DEF Elems
<1>3. CASE i = 1
  BY <1>1, <1>3
<1>4. CASE i # 1
  <2>1. i - 1 \in 1 .. n - 1 /\ (i - 1) + 1 = i
    BY <1>4
  <2> QED  BY <1>2, <2>1 DEF Elems, t
<1> QED  BY <1>3, <1>4

\* launch(): the new call gets a runner, waits for one, or is sent to the one that
\* serves its application; it is dropped only if that one has ended.
LEMMA LaunchHeld ==
    ASSUME PatientClients, DaemonInv, ClientInv, HeldInv, [Next]_vars,
           NEW a \in Apps, LunaLaunch(a)
    PROVE  PendingIsHeld'
<1>0. /\ TypeOK /\ StageInv /\ MessageInv /\ ListInv /\ CallInv /\ LoaderInv
      /\ PendingIsHeld /\ RunnerIsReached
  BY DEF DaemonInv, ClientInv, HeldInv
<1> PICK n \in Requests :
        /\ n = Len(requests') /\ n \notin DOMAIN requests
        /\ DOMAIN requests' = DOMAIN requests \cup {n}
        /\ requests'[n].appId = a /\ CallsStay
  BY <1>0, NewCall DEF LunaLaunch, CallsStay
<1>1. \A r \in DOMAIN requests : Pending(r)' => Pending(r)
  BY <1>0, PendingBefore DEF LunaLaunch
<1>2. \A q \in Pids : m_launchCallbacks[q] # 0 => sockAppId[q] # a
  <2>1. \A r \in DOMAIN requests : requests[r].appId = a => ~Pending(r)
    BY DEF LunaLaunch, Call, MayCall
  <2> QED  BY <1>0, <2>1, HeldIsPending DEF CallInv, CallbackForApp
<1>3. ASSUME \A r \in DOMAIN requests : Held(r) => Held(r)', Held(n)' \/ HasEnded(a)'
      PROVE  PendingIsHeld'
  BY <1>0, <1>1, <1>3, HeldStays
<1>4. ASSUME NEW s \in Pids, m_launchCallbacks[s] = 0,
             m_launchCallbacks' = [m_launchCallbacks EXCEPT ![s] = n],
             UNCHANGED m_deferredMessages
      PROVE  PendingIsHeld'
  <2>1. /\ m_launchCallbacks'[s] = n
        /\ \A q \in Pids : q # s => m_launchCallbacks'[q] = m_launchCallbacks[q]
    BY <1>0, <1>4 DEF TypeOK, IpcTypeOK
  <2>2. \A r \in DOMAIN requests : r # 0
    BY <1>0, RequestNumbers DEF Requests
  <2> QED  BY <1>3, <1>4, <2>1, <2>2 DEF Held, Waiting
<1>5. CASE IpcLaunch(a, n, Gone) /\ CountChanged({}, Len(m_runnerClients'))
  <2>1. CASE m_runnerClients = << >>
    <3> DEFINE e == [appId |-> a, callback |-> n]
    <3>1. m_deferredMessages' = Append(m_deferredMessages, e) /\ UNCHANGED m_launchCallbacks
      BY <1>5, <2>1 DEF IpcLaunch, Defer
    <3>2. e \in Deferred /\ m_deferredMessages \in Seq(Deferred) /\ e.callback = n
      BY <1>0 DEF Deferred, TypeOK, IpcTypeOK
    <3> HIDE DEF e
    <3>3. Waiting' = Waiting \cup {e}
      BY <3>1, <3>2, AppendOne DEF Waiting
    <3> QED  BY <1>3, <3>1, <3>2, <3>3 DEF Held
  <2>2. CASE m_runnerClients # << >>
    <3> PICK s : Gives(s, a, n) /\ UNCHANGED m_deferredMessages
      BY <1>0, <1>5, <2>2, LaunchGives DEF MessageInv
    <3>1. s \in Pids /\ ~Taken(s) /\ m_launchCallbacks' = [m_launchCallbacks EXCEPT ![s] = n]
      BY DEF Gives
    <3>2. m_launchCallbacks[s] = 0
      BY <1>0, <3>1 DEF MessageInv, WiresOK, BlankUntilTaken
    <3> QED  BY <1>4, <3>1, <3>2
  <2> QED  BY <2>1, <2>2
<1>6. CASE IpcRelaunch(a, n, Gone)
  <2> PICK s \in Pids : s = m_runningSockets[a] /\ sockAppId[s] = a
    BY <1>0, <1>6 DEF IpcRelaunch, CanRelaunch, TypeOK, IpcTypeOK, MessageInv, SocketsAgree
  <2>1. /\ m_launchCallbacks' = [m_launchCallbacks EXCEPT ![s] = n]
        /\ UNCHANGED m_deferredMessages
    BY <1>6 DEF IpcRelaunch, queues
  <2> QED  BY <1>2, <1>4, <2>1
<1>7. CASE m_runningApps[a] # 0 /\ ~CanRelaunch(a) /\ UNCHANGED ipcVars
  <2> PICK p \in Pids : p = m_runningApps[a]
    BY <1>0, <1>7 DEF TypeOK, IpcTypeOK
  <2>1. hosted[p] = a /\ a # NoApp
    BY <1>0, <1>7, ConstantsOK DEF ListInv, ListsAgree, Assumptions
  <2>2. loader[p] = "loaded" /\ sockAppId[p] = a
    BY <1>0, <2>1 DEF LoaderInv, MessageInv, WiresOK, LoadedHostsApp
  <2>3. p \notin Alive
    <3> SUFFICES ASSUME p \in Alive PROVE FALSE
      OBVIOUS
    <3>1. m_runningSockets[a] = p
      BY <1>0, <2>1, <2>2 DEF RunnerIsReached, Serves
    <3> QED  BY <1>7, <3>1, ConstantsOK DEF CanRelaunch, Assumptions
  <2>4. HasEnded(a)
    BY <2>2, <2>3 DEF HasEnded, Gone
  <2>5. UNCHANGED << m_deferredMessages, m_launchCallbacks >>
    BY <1>7 DEF ipcVars, queues
  <2> QED  BY <1>3, <2>4, <2>5, EndedStays DEF Held, Waiting
<1> QED  BY <1>5, <1>6, <1>7 DEF LunaLaunch

\* A reply that is read ends the wait for the call whose callback the socket holds.
LEMMA TakenHeld ==
    ASSUME PatientClients, DaemonInv, ClientInv, PendingIsHeld, [Next]_vars, NEW s \in Pids,
           NEW pid \in Pids \cup {0}, TakeCallback(s), CallBack(s, pid),
           UNCHANGED m_deferredMessages
    PROVE  PendingIsHeld'
<1>0. TypeOK /\ CallInv /\ DOMAIN requests \subseteq Requests
  BY RequestNumbers DEF DaemonInv
<1> PICK n \in Requests \cup {0} : n = m_launchCallbacks[s]
  BY <1>0 DEF TypeOK, IpcTypeOK
<1>1. /\ m_launchCallbacks'[s] = 0
      /\ \A q \in Pids : q # s => m_launchCallbacks'[q] = m_launchCallbacks[q]
  BY <1>0 DEF TakeCallback, TypeOK, IpcTypeOK
<1>2. UNCHANGED requests /\ CallsStay
  BY DEF CallBack, CallsStay
<1>3. \A r \in Requests : r # n => replies'[r] = replies[r]
  <2>1. CASE n = 0
    BY <2>1 DEF CallBack
  <2>2. CASE n # 0
    BY <1>0, <2>2, AnswerGiven DEF CallBack
  <2> QED  BY <2>1, <2>2
<1>4. n # 0 => replies'[n] # << >>
  BY <1>0, AnswerGiven DEF CallBack
<1>5. \A r \in DOMAIN requests : Pending(r)' => Pending(r)
  BY <1>0, <1>3, <1>4, PendingBefore DEF Requests
<1>6. ASSUME NEW r \in DOMAIN requests, Pending(r)', Held(r) PROVE Held(r)'
  <2>1. r # n
    BY <1>0, <1>4, <1>6 DEF Pending, Requests
  <2> QED  BY <1>1, <1>6, <2>1 DEF Held, Waiting
<1> QED  BY <1>0, <1>2, <1>5, <1>6, HeldStays

\* A call that waits is held after every step.
LEMMA PendingHeldNext ==
    ASSUME PatientClients, DaemonInv, ClientInv, HeldInv, [Next]_vars
    PROVE  PendingIsHeld'
<1>0. /\ TypeOK /\ StageInv /\ MessageInv /\ CallInv /\ PendingIsHeld
      /\ DOMAIN requests \subseteq Requests
  BY RequestNumbers DEF DaemonInv, HeldInv
<1>a. ASSUME UNCHANGED << requests, replies >>,
             \A r \in DOMAIN requests : Held(r) => Held(r)'
      PROVE  PendingIsHeld'
  <2>1. CallsStay /\ \A r \in DOMAIN requests : Pending(r)' => Pending(r)
    BY <1>a DEF CallsStay, Pending
  <2> QED  BY <1>0, <1>a, <2>1, HeldStays
<1>b. ASSUME UNCHANGED << m_deferredMessages, m_launchCallbacks, requests, replies >>
      PROVE  PendingIsHeld'
  BY <1>a, <1>b DEF Held, Waiting
<1>1. ASSUME NEW a \in Apps, LunaClose(a) PROVE PendingIsHeld'
  <2> PICK n \in Requests :
          /\ n = Len(requests') /\ n \notin DOMAIN requests
          /\ DOMAIN requests' = DOMAIN requests \cup {n} /\ CallsStay
    BY <1>0, <1>1, NewCall DEF LunaClose, CallsStay
  <2>1. /\ Answer(n, m_runningApps[a]) /\ m_runningApps[a] \in Pids \cup {0}
        /\ UNCHANGED << m_deferredMessages, m_launchCallbacks >>
    BY <1>0, <1>1 DEF LunaClose, ipcVars, queues, TypeOK, IpcTypeOK
  <2>2. replies'[n] # << >> /\ \A r \in Requests : r # n => replies'[r] = replies[r]
    BY <1>0, <2>1, AnswerGiven
  <2>3. \A r \in DOMAIN requests : Pending(r)' => Pending(r)
    BY <1>0, <2>2, PendingBefore
  <2>4. \A r \in DOMAIN requests : Held(r) => Held(r)'
    BY <2>1 DEF Held, Waiting
  <2> QED  BY <1>0, <2>2, <2>3, <2>4, HeldStays DEF Pending
<1>2. ASSUME NEW s \in Pids, ServerReadsRegister(s) PROVE PendingIsHeld'
  <2>1. CASE m_deferredMessages = << >>
    BY <1>2, <1>b, <2>1 DEF ServerReadsRegister, ReadRegister, lunaVars
  <2>2. CASE m_deferredMessages # << >>
    <3> PICK m \in Deferred : m = Head(m_deferredMessages)
      BY <1>0, <2>2, HeadTailProperties DEF TypeOK, IpcTypeOK
    <3>1. m_deferredMessages' = Tail(m_deferredMessages) /\ UNCHANGED << requests, replies >>
      BY <1>0, <1>2, <2>2, RegisterGives DEF MessageInv, ServerReadsRegister, lunaVars
    <3>2. \A k \in Waiting : k = m \/ k \in Waiting'
      BY <1>0, <2>2, <3>1, HeadOrTail DEF TypeOK, IpcTypeOK, Waiting
    <3> PICK q : Gives(q, m.appId, m.callback)
      BY <1>0, <1>2, <2>2, RegisterGives DEF MessageInv
    <3>3. /\ q \in Pids /\ m_launchCallbacks'[q] = m.callback
          /\ \A p \in Pids : p # q => m_launchCallbacks'[p] = m_launchCallbacks[p]
      BY <1>0 DEF Gives, TypeOK, IpcTypeOK
    <3>4. m_launchCallbacks[q] = 0
      BY <1>0, <3>3 DEF Gives, MessageInv, WiresOK, BlankUntilTaken
    <3>5. ASSUME NEW r \in DOMAIN requests, Held(r) PROVE Held(r)'
      <4>1. r # 0
        BY <1>0 DEF Requests
      <4> QED  BY <3>2, <3>3, <3>4, <3>5, <4>1 DEF Held
    <3> QED  BY <1>a, <3>1, <3>5
  <2> QED  BY <2>1, <2>2
<1>3. ASSUME NEW s \in Pids, ServerReadsLaunchOk(s) PROVE PendingIsHeld'
  <2>1. TakeCallback(s) /\ CallBack(s, s) /\ UNCHANGED m_deferredMessages
    BY <1>3 DEF ServerReadsLaunchOk, ReadLaunchOk, queues
  <2> QED  BY <1>0, <2>1, TakenHeld
<1>4. ASSUME NEW s \in Pids, ServerReadsOtherReply(s) PROVE PendingIsHeld'
  <2> PICK pid \in Pids \cup {0} : pid = IF Head(toServer[s]) = "RELAUNCH_OK" THEN s ELSE 0
    OBVIOUS
  <2>1. TakeCallback(s) /\ CallBack(s, pid) /\ UNCHANGED m_deferredMessages
    BY <1>4 DEF ServerReadsOtherReply, ReadOtherReply, queues
  <2> QED  BY <1>0, <2>1, TakenHeld
<1>5. ASSUME NEW p \in Pids, RunnerStep(p) \/ DaemonReapsProcess(p) \/ ServerSeesDisconnect(p)
      PROVE  PendingIsHeld'
  BY <1>5, <1>b
     DEF RunnerStep, RunnerConnects, ConnectToServer, RunnerLoads, RunnerFailsToLoad,
         RunnerReloads, ReadRequest, RunnerEnds, SocketClosed, RunnerExecFails,
         DaemonReapsProcess, RemoveProcess, ServerSeesDisconnect, OnDisconnected,
         ipcVars, queues, lunaVars
<1>6. CASE DaemonOwnStep \/ UNCHANGED vars
  BY <1>6, <1>b DEF DaemonOwnStep, vars, ipcVars, queues, lunaVars
<1> QED
  BY <1>1, <1>2, <1>3, <1>4, <1>5, <1>6, LaunchHeld DEF Next, ServerStep

\* Initially nobody waits.
LEMMA HeldInit == Init => HeldInv
<1> SUFFICES ASSUME Init PROVE HeldInv
  OBVIOUS
<1>1. DOMAIN << >> = {}
  OBVIOUS
<1>2. DOMAIN requests = {} /\ \A p \in Pids : ~Serves(p)
  BY <1>1 DEF Init, IpcInit, Serves
<1> QED  BY <1>2 DEF HeldInv, RunnerIsReached, PendingIsHeld

\* A call without an answer has something under way: it is deferred, or a live runner
\* whose socket holds its callback has a message to read or to be read, or exits.
PendingIsCarried ==
    \A r \in DOMAIN requests : Pending(r) =>
        \/ InDeferred(r) # {}
        \/ \E p \in InCallbacks(r) \cap Alive :
              toRunner[p] # << >> \/ toServer[p] # << >> \/ loader[p] = "exiting"
        \/ HasEnded(requests[r].appId)

\* No call of a patient client is forgotten: as long as it has no answer, either
\* something is under way that brings one, or a runner with its application has ended
\* (lunaservice.cpp:74-97, ipcserver.cpp:117-160, 164-225).
THEOREM NoCallForgotten == PatientClients => (Spec => []PendingIsCarried)
<1> SUFFICES ASSUME PatientClients PROVE Spec => []PendingIsCarried
  OBVIOUS
<1>1. Spec => [](DaemonInv /\ ClientInv)
  BY ClientsHold
<1>2. DaemonInv /\ ClientInv /\ HeldInv /\ [Next]_vars => HeldInv'
  BY ReachedNext, PendingHeldNext DEF HeldInv
<1>3. Spec => []HeldInv
  BY <1>1, <1>2, HeldInit, PTL DEF Spec
<1>4. DaemonInv /\ HeldInv /\ CallbackHasCarrier => PendingIsCarried
  <2> SUFFICES ASSUME DaemonInv, HeldInv, CallbackHasCarrier,
                      NEW r \in DOMAIN requests, Pending(r)
               PROVE  \/ InDeferred(r) # {}
                      \/ \E p \in InCallbacks(r) \cap Alive :
                            toRunner[p] # << >> \/ toServer[p] # << >> \/ loader[p] = "exiting"
                      \/ HasEnded(requests[r].appId)
    BY DEF PendingIsCarried
  <2>1. Held(r) \/ HasEnded(requests[r].appId)
    BY DEF HeldInv, PendingIsHeld
  <2>2. CASE \E m \in Waiting : m.callback = r
    BY <2>2 DEF Waiting, Elems, InDeferred
  <2>3. ASSUME NEW p \in Pids, m_launchCallbacks[p] = r
        PROVE  \/ p \in InCallbacks(r) \cap Alive
                  /\ (toRunner[p] # << >> \/ toServer[p] # << >> \/ loader[p] = "exiting")
               \/ HasEnded(requests[r].appId)
    <3>1. r # 0
      BY RequestNumbers DEF DaemonInv, Requests
    <3>2. CASE p \in Alive
      BY <2>3, <3>1, <3>2 DEF CallbackHasCarrier, InCallbacks
    <3>3. CASE p \notin Alive
      BY <2>3, <3>1, <3>3 DEF HasEnded, Gone, DaemonInv, CallInv, CallbackForApp
    <3> QED  BY <3>2, <3>3
  <2> QED  BY <2>1, <2>2, <2>3 DEF Held
<1> QED  BY <1>1, <1>3, <1>4, CallbackAlwaysHasCarrier, PTL
=============================================================================
