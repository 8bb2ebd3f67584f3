----------------------------- MODULE RunnerPool -----------------------------
(***************************************************************************)
(* What the booster promises about its pool of pre-started runners: the    *)
(* real LaunchManager, and of the IpcServer only which processes registered*)
(* and which of them wait in its pool.  Booster implements this module with*)
(* pooled <- the processes of m_runnerClients.                             *)
(***************************************************************************)
EXTENDS LaunchManager

VARIABLES
    seen,      \* processes whose REGISTER_REQUEST the server has read
    pooled     \* those of them that wait in m_runnerClients

poolVars == << lmVars, seen, pooled >>

PoolTypeOK ==
    /\ LMTypeOK
    /\ seen \subseteq Pids
    /\ pooled \subseteq Pids

PoolInit ==
    /\ LMInit
    /\ seen = {}
    /\ pooled = {}

\* A REGISTER_REQUEST can be read as long as its socket has data, so even when
\* the process that sent it is gone and cleaned up.
MayRegister(p) == p \notin seen /\ proc[p] \notin {"none", "failed"}

\* The server reads a REGISTER_REQUEST and nothing waits for a runner.
Register(p) ==
    /\ MayRegister(p)
    /\ seen' = seen \cup {p}
    /\ pooled' = pooled \cup {p}
    /\ CountChanged({p}, Cardinality(pooled'))

\* The server reads a REGISTER_REQUEST and gives the first runner of the pool
\* to a deferred launch in the same handler.
RegisterAndUse(p, q) ==
    /\ MayRegister(p)
    /\ q \in pooled \cup {p}
    /\ seen' = seen \cup {p}
    /\ pooled' = (pooled \cup {p}) \ {q}
    /\ CountChanged({p}, Cardinality(pooled'))

\* A runner leaves the pool: a launch takes it, or its socket disconnects.
Leave(p) ==
    /\ p \in pooled
    /\ pooled' = pooled \ {p}
    /\ CountChanged({}, Cardinality(pooled'))
    /\ UNCHANGED seen

\* A launch finds the pool empty and is deferred.
FindEmpty ==
    /\ pooled = {}
    /\ CountChanged({}, 0)
    /\ UNCHANGED << seen, pooled >>

\* Only a process that left the pool runs an application that can be closed.
Close(p) ==
    /\ p \in seen \ pooled
    /\ Terminate(p)
    /\ UNCHANGED << seen, pooled >>

ServerStep ==
    \/ \E p \in Pids : Register(p) \/ Leave(p) \/ Close(p)
    \/ \E p, q \in Pids : RegisterAndUse(p, q)
    \/ FindEmpty

ManagerStep ==
    /\ \/ \E p \in Pids : \/ ProcessEnds(p) \/ ExecFails(p) \/ LaunchTimeout(p)
                          \/ OnProcessFinished(p) \/ OnProcessError(p)
                          \/ OnProcessDestroyed(p)
       \/ Tick
       \/ CloseTimerFires
    /\ UNCHANGED << seen, pooled >>

PoolNext == ServerStep \/ ManagerStep

PoolSpec == PoolInit /\ [][PoolNext]_poolVars

(***************************************************************************)
(* Fairness.  The event loop handles every timer, notification and deferred*)
(* deletion that stays pending; a process that got SIGKILL ends; and a     *)
(* starting runner registers or ends (it blocks nowhere but in             *)
(* waitForConnected(20000), ipcclient.cpp:72).                             *)
(***************************************************************************)
ManagerFairness ==
    /\ WF_poolVars(Tick /\ UNCHANGED << seen, pooled >>)
    /\ WF_poolVars(CloseTimerFires /\ UNCHANGED << seen, pooled >>)
    /\ \A p \in Pids :
        /\ WF_poolVars(LaunchTimeout(p) /\ UNCHANGED << seen, pooled >>)
        /\ WF_poolVars(OnProcessFinished(p) /\ UNCHANGED << seen, pooled >>)
        /\ WF_poolVars(OnProcessError(p) /\ UNCHANGED << seen, pooled >>)
        /\ WF_poolVars(OnProcessDestroyed(p) /\ UNCHANGED << seen, pooled >>)
        /\ WF_poolVars(ProcessEnds(p) /\ signal[p] = "kill"
                         /\ UNCHANGED << seen, pooled >>)

RunnerFairness ==
    \A p \in Pids : WF_poolVars(/\ p \in m_startingUp
                                /\ \/ Register(p)
                                   \/ \E q \in Pids : RegisterAndUse(p, q)
                                   \/ ProcessEnds(p) /\ UNCHANGED << seen, pooled >>)

\* The disconnect of a process that is gone reaches the server.
ServerFairness == \A p \in Pids : WF_poolVars(Leave(p) /\ proc[p] # "alive")

FairPoolSpec == PoolSpec /\ ManagerFairness /\ RunnerFairness /\ ServerFairness

----------------------------------------------------------------------------
\* Runners that the daemon counts on: starting up, or waiting in the pool and
\* not reported as finished.
Idle == m_startingUp \cup {p \in pooled : proc[p] \in {"alive", "dead"}}

\* There are never more idle runners than the pool is meant to hold, whatever
\* order exits, registrations, launches and timers come in; the REGISTER_REQUEST
\* of a process that has already finished may be read late and does not count
\* (launchmanager.cpp:44, 102-124).
PoolBound == Cardinality(Idle) <= MaxPreCachedRunners

\* The launch timer is set only while there is room for one more: without this a
\* timer that outlives a registration would start a runner too many.
TimerMeansRoom == m_launchTimer => Cardinality(Idle) < MaxPreCachedRunners

\* "If it's less than m_maxPreCachedRunners we need to start more runners"
\* (launchmanager.cpp:41-43): a pool that is short of runners is being refilled,
\* by the timer or by a runner that is starting up.
ShortPoolIsRefilled ==
    Cardinality(m_startingUp) + Cardinality(pooled) < MaxPreCachedRunners =>
        m_launchTimer \/ m_startingUp # {}

\* The runner command can be executed whenever it is.
NoExecFails == \A p \in Pids : proc[p] # "failed"

\* Unless an exec fails, a short pool is being refilled, whatever order counts,
\* exits and timers come in (launchmanager.cpp:38-46, 108-111).
RefilledUnlessExecFails == []NoExecFails => []ShortPoolIsRefilled

\* No runner is both starting up and in the pool: each counts once.
CountedOnce == m_startingUp \cap seen = {}

\* A process asked to close is gone in the end, even if it ignores SIGTERM.
ClosedProcessGoes ==
    \A p \in Pids : p \in m_closing ~> proc[p] \in {"deleting", "destroyed"}

\* A pool that is short of runners is full again in the end, as long as no exec
\* fails and the kernel has pids left.
PoolFillsUp ==
    []NoExecFails =>
        ((Cardinality(Idle) < MaxPreCachedRunners) ~>
            \/ Cardinality(Idle) = MaxPreCachedRunners
            \/ \A p \in Pids : proc[p] # "none")
=============================================================================
