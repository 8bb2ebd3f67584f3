--------------------------- MODULE LaunchManager ---------------------------
(***************************************************************************)
(* The booster's LaunchManager (tools/booster/launchmanager.cpp): it keeps *)
(* a pool of pre-started runners full, one new process per firing of the   *)
(* launch timer, and it closes processes: SIGTERM first, SIGKILL when the  *)
(* close timer finds one that did not go in CLOSE_TIMEOUT.                 *)
(*                                                                         *)
(* This module holds the state and the handlers.  A handler is an action   *)
(* on this module's variables only; the number of runners waiting in the   *)
(* IpcServer's pool is a parameter of the handlers that read it.           *)
(* RunnerPool closes the module with an abstract IpcServer, Booster with   *)
(* the real one.                                                           *)
(***************************************************************************)
EXTENDS Processes

CONSTANTS
    MaxPreCachedRunners,    \* --max-cached: size of the pool
    CloseTimeout,           \* CLOSE_TIMEOUT, in ticks of the clock
    CommandMayFail          \* can exec of the runner command fail?

ASSUME MaxAssumption     == MaxPreCachedRunners \in Nat
ASSUME TimeoutAssumption == CloseTimeout \in Nat \ {0}
ASSUME MayFailAssumption == CommandMayFail \in BOOLEAN

VARIABLES
    m_startingUp,    \* pids started and not yet registered with the IpcServer
    m_running,       \* pids that have a QProcess object
    m_closing,       \* pids sent SIGTERM and not yet gone or killed
    m_launchTimer,   \* m_launchTimerId # -1
    m_closeTimer,    \* ticks until the close timer fires, -1 when it is not set
    closeAge,        \* ticks since the "timestamp" property of a closing process
    proc,            \* stages of a QProcess and of the process behind it
    signal           \* the strongest signal the process got

lmVars == << m_startingUp, m_running, m_closing, m_launchTimer, m_closeTimer,
             closeAge, proc, signal >>

(***************************************************************************)
(* Stages of a process: "none", not forked; "alive"; "dead", the process   *)
(* is gone and SIGCHLD is not handled; "failed", forked but exec failed;   *)
(* "deleting", its finished or error signal was handled and deleteLater is *)
(* pending; "destroyed", the QProcess object is gone.                      *)
(***************************************************************************)
Stages  == {"none", "alive", "dead", "failed", "deleting", "destroyed"}
Signals == {"none", "term", "kill"}

LMTypeOK ==
    /\ m_startingUp \subseteq Pids
    /\ m_running \subseteq Pids
    /\ m_closing \subseteq Pids
    /\ m_launchTimer \in BOOLEAN
    /\ m_closeTimer \in -1 .. CloseTimeout
    /\ closeAge \in [Pids -> 0 .. CloseTimeout]
    /\ proc \in [Pids -> Stages]
    /\ signal \in [Pids -> Signals]

\* Mutants: the runners that are starting up are not counted; one runner too few
\* is counted as missing.
PoolForgetsStarting(startingUp, number) == MaxPreCachedRunners - number > 0

PoolIsMissingTwo(startingUp, number) ==
    MaxPreCachedRunners - (Cardinality(startingUp) + number) > 1

\* onConnectedRunnersCountChanged: the launch timer after it ran with `number'
\* runners in the pool.  It is killed and set again, so when one handler of the
\* IpcServer reports several counts only the last report leaves a trace.
PoolIsMissingSome(startingUp, number) ==
    MaxPreCachedRunners - (Cardinality(startingUp) + number) > 0

\* main() reports the empty pool once, before the event loop runs.
LMInit ==
    /\ m_startingUp = {}
    /\ m_running = {}
    /\ m_closing = {}
    /\ m_launchTimer = PoolIsMissingSome({}, 0)
    /\ m_closeTimer = -1
    /\ closeAge = [p \in Pids |-> 0]
    /\ proc = [p \in Pids |-> "none"]
    /\ signal = [p \in Pids |-> "none"]

----------------------------------------------------------------------------
(***************************************************************************)
(* The kernel's part.                                                      *)
(***************************************************************************)

\* Pids are named in the order in which they are handed out; the code only
\* ever compares them for equality.
IsFreshPid(p) ==
    /\ proc[p] = "none"
    /\ \A q \in Pids : q < p => proc[q] # "none"

\* The process ends: it crashes, quits or dies from a signal.
ProcessEnds(p) ==
    /\ proc[p] = "alive"
    /\ proc' = [proc EXCEPT ![p] = "dead"]
    /\ UNCHANGED << m_startingUp, m_running, m_closing, m_launchTimer,
                    m_closeTimer, closeAge, signal >>

\* The forked child cannot exec the runner command: QProcess reports
\* FailedToStart, and never finished.
ExecFails(p) ==
    /\ CommandMayFail
    /\ proc[p] = "alive" /\ p \in m_startingUp
    /\ proc' = [proc EXCEPT ![p] = "failed"]
    /\ UNCHANGED << m_startingUp, m_running, m_closing, m_launchTimer,
                    m_closeTimer, closeAge, signal >>

\* A tick of the clock.  A timer that is due may be handled late.
Tick ==
    /\ m_closing # {} \/ m_closeTimer > 0
    /\ m_closeTimer' = IF m_closeTimer > 0 THEN m_closeTimer - 1 ELSE m_closeTimer
    /\ closeAge' = [p \in Pids |-> IF p \in m_closing /\ closeAge[p] < CloseTimeout
                                     THEN closeAge[p] + 1 ELSE closeAge[p]]
    /\ UNCHANGED << m_startingUp, m_running, m_closing, m_launchTimer, proc,
                    signal >>

----------------------------------------------------------------------------
(***************************************************************************)
(* Slots called by the IpcServer and the LunaService.                      *)
(***************************************************************************)

\* onRunnerReady for the processes in `ready', then the last of the
\* onConnectedRunnersCountChanged(number) calls of the same handler.
CountChanged(ready, number) ==
    /\ m_startingUp' = m_startingUp \ ready
    /\ m_launchTimer' = PoolIsMissingSome(m_startingUp', number)
    /\ UNCHANGED << m_running, m_closing, m_closeTimer, closeAge, proc, signal >>

CanTerminate(p) == p \notin m_closing /\ p \in m_running

StartClosing(p) ==
    /\ CanTerminate(p)
    /\ m_closing' = m_closing \cup {p}
    /\ closeAge' = [closeAge EXCEPT ![p] = 0]
    /\ signal' = [signal EXCEPT ![p] = IF proc[p] = "alive" /\ @ = "none"
                                         THEN "term" ELSE @]
    /\ UNCHANGED << m_startingUp, m_running, m_launchTimer, proc >>

\* Mutant: the deadline of the earlier processes is put off by a whole timeout.
TerminatePutsOffTimer(p) ==
    /\ StartClosing(p)
    /\ m_closeTimer' = IF m_closeTimer = -1 THEN CloseTimeout
                                            ELSE m_closeTimer + CloseTimeout

\* terminate() of a process it knows; otherwise it returns false and nothing
\* changes.  A process that has ended ignores the signal.
Terminate(p) ==
    /\ StartClosing(p)
    /\ m_closeTimer' = IF m_closeTimer = -1 THEN CloseTimeout ELSE m_closeTimer

----------------------------------------------------------------------------
(***************************************************************************)
(* Timers and the signals of QProcess.                                     *)
(***************************************************************************)

\* timerEvent of the launch timer: launchRunner(), and the timer is not set
\* again before the pool changes.
LaunchTimeout(p) ==
    /\ m_launchTimer
    /\ IsFreshPid(p)
    /\ m_launchTimer' = FALSE
    /\ proc' = [proc EXCEPT ![p] = "alive"]
    /\ m_startingUp' = m_startingUp \cup {p}
    /\ m_running' = m_running \cup {p}
    /\ UNCHANGED << m_closing, m_closeTimer, closeAge, signal >>

\* Mutant: the timer kills all that is closing, not only what is overdue.
AllClosing == m_closing

Overdue == {p \in m_closing : closeAge[p] >= CloseTimeout}

Waits == {CloseTimeout - closeAge[p] : p \in m_closing \ Overdue}

KillOverdue ==
    /\ m_closing' = m_closing \ Overdue
    /\ signal' = [p \in Pids |-> IF p \in Overdue /\ proc[p] = "alive"
                                   THEN "kill" ELSE signal[p]]
    /\ UNCHANGED << m_startingUp, m_running, m_launchTimer, closeAge, proc >>

\* Mutants: the timer is set for a whole timeout again, or not at all.
CloseTimerFiresAfresh ==
    /\ m_closeTimer = 0 /\ KillOverdue
    /\ m_closeTimer' = IF Waits = {} THEN -1 ELSE CloseTimeout

CloseTimerFiresOnce == m_closeTimer = 0 /\ KillOverdue /\ m_closeTimer' = -1

\* timerEvent of the close timer: closeTimeoutHandler() kills what is overdue
\* and sets the timer for the first of the others.
CloseTimerFires ==
    /\ m_closeTimer = 0
    /\ KillOverdue
    /\ \/ Waits = {} /\ m_closeTimer' = -1
       \/ m_closeTimer' \in Waits /\ \A w \in Waits : m_closeTimer' <= w

\* Mutant: a runner that quit without connecting is not retried.
OnProcessFinishedNoRetry(p) ==
    /\ proc[p] = "dead"
    /\ proc' = [proc EXCEPT ![p] = "deleting"]
    /\ m_startingUp' = m_startingUp \ {p}
    /\ UNCHANGED << m_running, m_closing, m_launchTimer, m_closeTimer, closeAge,
                    signal >>

\* onProcessFinished.  A crash reports onProcessError first, whose only effect
\* is the deleteLater that onProcessFinished asks for as well.
OnProcessFinished(p) ==
    /\ proc[p] = "dead"
    /\ proc' = [proc EXCEPT ![p] = "deleting"]
    /\ m_startingUp' = m_startingUp \ {p}
    /\ m_launchTimer' = (m_launchTimer \/ p \in m_startingUp)
    /\ UNCHANGED << m_running, m_closing, m_closeTimer, closeAge, signal >>

\* onProcessError alone: FailedToStart.
OnProcessError(p) ==
    /\ proc[p] = "failed"
    /\ proc' = [proc EXCEPT ![p] = "deleting"]
    /\ UNCHANGED << m_startingUp, m_running, m_closing, m_launchTimer,
                    m_closeTimer, closeAge, signal >>

\* Mutant: a process that was closing is not forgotten.
OnProcessDestroyedStillClosing(p) ==
    /\ proc[p] = "deleting"
    /\ proc' = [proc EXCEPT ![p] = "destroyed"]
    /\ m_startingUp' = m_startingUp \ {p}
    /\ m_running' = m_running \ {p}
    /\ UNCHANGED << m_closing, closeAge, m_launchTimer, m_closeTimer, signal >>

\* onProcessDestroyed, when the event loop carries out deleteLater.
OnProcessDestroyed(p) ==
    /\ proc[p] = "deleting"
    /\ proc' = [proc EXCEPT ![p] = "destroyed"]
    /\ m_startingUp' = m_startingUp \ {p}
    /\ m_running' = m_running \ {p}
    /\ m_closing' = m_closing \ {p}
    /\ closeAge' = [closeAge EXCEPT ![p] = 0]
    /\ UNCHANGED << m_launchTimer, m_closeTimer, signal >>

----------------------------------------------------------------------------
\* Every closing process still has its QProcess object, which
\* closeTimeoutHandler() dereferences without a test (launchmanager.cpp:184).
ClosingIsRunning == m_closing \subseteq m_running

\* As long as something is closing, the close timer is set and fires no later
\* than the first deadline, however SIGTERMs and exits interleave; and whatever
\* the timer then finds in m_closing it can look up and dereference (184).
CloseTimerCoversDeadlines ==
    /\ ClosingIsRunning
    /\ \A p \in m_closing : /\ m_closeTimer # -1
                            /\ m_closeTimer <= CloseTimeout - closeAge[p]

\* SIGKILL goes only to a process that had SIGTERM and the whole CLOSE_TIMEOUT
\* to go (launchmanager.cpp:187-193).
KillOnlyAfterTimeout ==
    [][\A p \in Pids : signal'[p] = "kill" /\ signal[p] # "kill" =>
          /\ signal[p] = "term"
          /\ p \in m_closing
          /\ closeAge[p] = CloseTimeout]_lmVars
=============================================================================
