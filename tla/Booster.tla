------------------------------- MODULE Booster ------------------------------
(***************************************************************************)
(* The whole booster: the daemon (LaunchManager, IpcServer, LunaService and*)
(* the connections main() makes between them), the runner processes, and   *)
(* the luna clients that launch and close applications.                    *)
(*                                                                         *)
(* The daemon is one event loop: each action of its part is one handler    *)
(* that runs to the end.  Runners and the kernel take steps between them.  *)
(***************************************************************************)
EXTENDS LaunchManager, IpcServer

CONSTANTS
    RunnersMayCrash,   \* may a runner end though nobody asked it to?
    PatientClients     \* does a client wait for what it asked before it asks
                       \* something else of the same application?

ASSUME CrashAssumption   == RunnersMayCrash \in BOOLEAN
ASSUME ClientsAssumption == PatientClients \in BOOLEAN

VARIABLES
    loader,      \* stage of a runner's AppLoader
    hosted,      \* [Pids -> the application the runner has loaded]
    requests,    \* sequence of the luna calls made: [kind, appId]
    replies,     \* [Requests -> answers sent: a pid, or 0 for reply_error]
    published    \* the running list last sent to the subscribers of "running"

vars == << lmVars, ipcVars, loader, hosted, requests, replies, published >>

runnerVars == << loader, hosted >>
lunaVars   == << requests, replies, published >>

\* "starting": not connected; "idle": registered, nothing loaded; "exiting":
\* QCoreApplication::exit(-1) was called, the socket is still open.
LoaderStages == {"starting", "idle", "loaded", "exiting"}

TypeOK ==
    /\ LMTypeOK
    /\ IpcTypeOK
    /\ loader \in [Pids -> LoaderStages]
    /\ hosted \in [Pids -> Apps \cup {NoApp}]
    /\ requests \in Seq([kind : {"launch", "close"}, appId : Apps])
    /\ Len(requests) <= MaxRequests
    /\ replies \in [Requests -> Seq(Pids \cup {0})]
    /\ published \in [Apps -> Pids \cup {0}]

Init ==
    /\ LMInit
    /\ IpcInit
    /\ loader = [p \in Pids |-> "starting"]
    /\ hosted = [p \in Pids |-> NoApp]
    /\ requests = << >>
    /\ replies = [r \in Requests |-> << >>]
    /\ published = [a \in Apps |-> 0]

Alive == {p \in Pids : proc[p] = "alive"}
Gone  == Pids \ Alive

----------------------------------------------------------------------------
(***************************************************************************)
(* Runners (tools/runner/main.cpp, interactive mode) and the kernel.       *)
(***************************************************************************)
RunnerConnects(p) ==
    /\ p \in Alive /\ loader[p] = "starting"
    /\ loader' = [loader EXCEPT ![p] = "idle"]
    /\ ConnectToServer(p)
    /\ UNCHANGED << lmVars, hosted, lunaVars >>

\* launchRequest: loadApplication() succeeds.
RunnerLoads(p) ==
    /\ p \in Alive /\ loader[p] # "exiting"
    /\ ReadRequest(p, "LAUNCH_REQUEST", "LAUNCH_OK")
    /\ loader' = [loader EXCEPT ![p] = "loaded"]
    /\ hosted' = [hosted EXCEPT ![p] = Head(toRunner[p]).appId]
    /\ UNCHANGED << lmVars, lunaVars >>

\* launchRequest: it fails, the runner replies with an error and exits.
RunnerFailsToLoad(p) ==
    /\ p \in Alive /\ loader[p] # "exiting"
    /\ ReadRequest(p, "LAUNCH_REQUEST", "LAUNCH_ERROR")
    /\ loader' = [loader EXCEPT ![p] = "exiting"]
    /\ UNCHANGED << lmVars, hosted, lunaVars >>

\* relaunchRequest: loader.ready() holds once an application was loaded.
RunnerReloads(p) ==
    /\ p \in Alive /\ loader[p] = "loaded"
    /\ ReadRequest(p, "RELAUNCH_REQUEST", "RELAUNCH_OK")
    /\ UNCHANGED << lmVars, runnerVars, lunaVars >>

\* A runner ends: it crashes or quits by itself, it leaves its event loop after
\* exit(-1), or a signal ends it.
RunnerEnds(p) ==
    /\ RunnersMayCrash \/ loader[p] = "exiting" \/ signal[p] # "none"
    /\ ProcessEnds(p)
    /\ SocketClosed(p)
    /\ UNCHANGED << runnerVars, lunaVars >>

RunnerExecFails(p) ==
    /\ loader[p] = "starting"
    /\ ExecFails(p)
    /\ UNCHANGED << ipcVars, runnerVars, lunaVars >>

----------------------------------------------------------------------------
(***************************************************************************)
(* LunaService: what its callbacks and update() do.                        *)
(***************************************************************************)
Answer(r, pid) == replies' = [replies EXCEPT ![r] = Append(@, pid)]

\* The callback the IpcServer took for socket s is called, if there is one: it
\* replies, and publishes the running list when the launch succeeded.  (For a
\* failed relaunch it also terminates process 0, which changes nothing.)
CallBack(s, pid) ==
    LET r == m_launchCallbacks[s]
    IN  /\ IF r = 0 THEN UNCHANGED replies ELSE Answer(r, pid)
        /\ published' = IF r # 0 /\ pid # 0 THEN m_runningApps' ELSE published
        /\ UNCHANGED requests

\* Bound, and the discipline of the clients.
Pending(r) == r <= Len(requests) /\ replies[r] = << >>

MayCall(a) ==
    /\ Len(requests) < MaxRequests
    /\ PatientClients =>
          /\ \A r \in DOMAIN requests : requests[r].appId = a => ~Pending(r)
          /\ \A p \in Pids : sockAppId[p] = a => signal[p] = "none" \/ p \notin m_running

Call(kind, a) ==
    /\ MayCall(a)
    /\ requests' = Append(requests, [kind |-> kind, appId |-> a])

\* Mutant: a running application is launched again.
LunaLaunchAgain(a) ==
    /\ Call("launch", a)
    /\ IpcLaunch(a, Len(requests'), Gone)
    /\ CountChanged({}, Len(m_runnerClients'))
    /\ UNCHANGED << runnerVars, replies, published >>

\* launch(): of an application in the running list it is a relaunch, and what
\* relaunch() returns is not looked at.
LunaLaunch(a) ==
    /\ Call("launch", a)
    /\ \/ /\ m_runningApps[a] = 0
          /\ IpcLaunch(a, Len(requests'), Gone)
          /\ CountChanged({}, Len(m_runnerClients'))
       \/ /\ m_runningApps[a] # 0 /\ CanRelaunch(a)
          /\ IpcRelaunch(a, Len(requests'), Gone)
          /\ UNCHANGED lmVars
       \/ /\ m_runningApps[a] # 0 /\ ~CanRelaunch(a)
          /\ UNCHANGED << lmVars, ipcVars >>
    /\ UNCHANGED << runnerVars, replies, published >>

\* close(): what terminate() returns is not looked at either.
LunaClose(a) ==
    LET pid == m_runningApps[a]
    IN  /\ Call("close", a)
        /\ Answer(Len(requests'), pid)
        /\ IF pid # 0 /\ CanTerminate(pid) THEN Terminate(pid) ELSE UNCHANGED lmVars
        /\ UNCHANGED << ipcVars, runnerVars, published >>

----------------------------------------------------------------------------
(***************************************************************************)
(* The daemon's sockets.                                                   *)
(***************************************************************************)
ServerReadsRegister(s) ==
    /\ ReadRegister(s, Gone)
    /\ CountChanged({s}, Len(m_runnerClients'))
    /\ UNCHANGED << runnerVars, lunaVars >>

ServerReadsLaunchOk(s) ==
    /\ ReadLaunchOk(s)
    /\ CallBack(s, s)
    /\ UNCHANGED << lmVars, runnerVars >>

ServerReadsOtherReply(s) ==
    /\ ReadOtherReply(s)
    /\ CallBack(s, IF Head(toServer[s]) = "RELAUNCH_OK" THEN s ELSE 0)
    /\ UNCHANGED << lmVars, runnerVars >>

\* Mutant: a runner dropped from the pool is not reported to the LaunchManager.
ServerSeesDisconnectQuietly(s) ==
    /\ s \in Gone
    /\ OnDisconnected(s)
    /\ UNCHANGED << lmVars, runnerVars, lunaVars >>

ServerSeesDisconnect(s) ==
    /\ s \in Gone
    /\ OnDisconnected(s)
    /\ IF m_runnerClients' # m_runnerClients
         THEN CountChanged({}, Len(m_runnerClients'))
         ELSE UNCHANGED lmVars
    /\ UNCHANGED << runnerVars, lunaVars >>

(***************************************************************************)
(* The daemon's processes and timers.                                      *)
(***************************************************************************)

\* Mutant: main()'s handler does not call update().
DaemonReapsQuietly(p) ==
    /\ OnProcessFinished(p)
    /\ RemoveProcess(p)
    /\ UNCHANGED << runnerVars, lunaVars >>

\* onProcessFinished and the handler main() connects to processFinished.
DaemonReapsProcess(p) ==
    /\ OnProcessFinished(p)
    /\ RemoveProcess(p)
    /\ published' = m_runningApps'
    /\ UNCHANGED << runnerVars, requests, replies >>

DaemonOwnStep ==
    /\ \/ \E p \in Pids : LaunchTimeout(p) \/ OnProcessError(p) \/ OnProcessDestroyed(p)
       \/ Tick
       \/ CloseTimerFires
    /\ UNCHANGED << ipcVars, runnerVars, lunaVars >>

----------------------------------------------------------------------------
RunnerStep(p) ==
    \/ RunnerConnects(p) \/ RunnerLoads(p) \/ RunnerFailsToLoad(p)
    \/ RunnerReloads(p) \/ RunnerEnds(p) \/ RunnerExecFails(p)

ServerStep(s) ==
    \/ ServerReadsRegister(s) \/ ServerReadsLaunchOk(s)
    \/ ServerReadsOtherReply(s) \/ ServerSeesDisconnect(s)
    \/ DaemonReapsProcess(s)

Next ==
    \/ \E p \in Pids : RunnerStep(p) \/ ServerStep(p)
    \/ \E a \in Apps : LunaLaunch(a) \/ LunaClose(a)
    \/ DaemonOwnStep

Spec == Init /\ [][Next]_vars

(***************************************************************************)
(* Fairness.  The daemon's event loop handles every readable socket, timer,*)
(* SIGCHLD and deferred deletion; a live runner connects and reads its     *)
(* socket, and leaves its event loop after exit(-1); SIGKILL works.        *)
(***************************************************************************)
Fairness ==
    /\ WF_vars(DaemonOwnStep)
    /\ WF_vars(/\ \E p \in Pids : LaunchTimeout(p)
               /\ UNCHANGED << ipcVars, runnerVars, lunaVars >>)
    /\ \A p \in Pids :
        /\ WF_vars(ServerStep(p))
        /\ WF_vars(\/ RunnerConnects(p) \/ RunnerReloads(p)
                   \/ RunnerLoads(p) \/ RunnerFailsToLoad(p))
        /\ WF_vars(RunnerEnds(p) /\ (loader[p] = "exiting" \/ signal[p] = "kill"))

FairSpec == Spec /\ Fairness

----------------------------------------------------------------------------
(***************************************************************************)
(* Requests and their answers.                                             *)
(***************************************************************************)
InDeferred(r) == {i \in DOMAIN m_deferredMessages : m_deferredMessages[i].callback = r}
InCallbacks(r) == {p \in Pids : m_launchCallbacks[p] = r}

\* The callback of a request is never in two places, and nowhere once it was
\* called: so no request is answered twice, although callbacks move between the
\* deferred queue, the map and the replies (ipcserver.cpp:118, 125, 185, 219).
CallbackInOnePlace ==
    \A r \in DOMAIN requests :
        Cardinality(InDeferred(r)) + Cardinality(InCallbacks(r)) + Len(replies[r]) <= 1

\* An answer that names a process names one that has loaded the application asked
\* for, although an overwritten or early taken callback may answer for another
\* call (ipcserver.cpp:125, 145, 185).
ReplyFromHost ==
    \A r \in DOMAIN requests : \A i \in DOMAIN replies[r] :
        replies[r][i] # 0 => hosted[replies[r][i]] = requests[r].appId

\* A callback that is held has something under way that will call it, unless its
\* runner is ending: messages lost in a coalesced read (ipcserver.cpp:84-92,
\* ipcclient.cpp:89-96) never strand the caller that is still registered.
CallbackHasCarrier ==
    \A p \in Alive : m_launchCallbacks[p] # 0 =>
        toRunner[p] # << >> \/ toServer[p] # << >> \/ loader[p] = "exiting"

\* Launches are deferred only while the pool is empty (ipcserver.cpp:117-120,
\* 194, 225): a registration serves one of them, and none is forgotten in the
\* queue while a runner idles.
DeferredOnlyWhenPoolEmpty == m_deferredMessages # << >> => m_runnerClients = << >>

\* A runner is never given to a launch while an earlier one is deferred.  (The
\* requests are numbered in the order in which they came.)
NoOvertaking ==
    [][\A p \in Pids : sockAppId'[p] # sockAppId[p] =>
          \A i \in DOMAIN m_deferredMessages :
              m_launchCallbacks'[p] <= m_deferredMessages[i].callback]_vars

----------------------------------------------------------------------------
(***************************************************************************)
(* Runners, sockets and the running list.                                  *)
(***************************************************************************)

\* The maps agree: a listed process has loaded the application it is listed for,
\* and the socket a relaunch would write to is connected and belongs to a runner
\* that was given the application.  Launches of one application may overlap, and
\* their processes reply, finish and disconnect in any order
\* (ipcserver.cpp:68-73, 136-137, 199, ipcserver.h:49-54).
MapsAgree ==
    \A a \in Apps :
        LET p == m_runningApps[a]
            s == m_runningSockets[a]
        IN  /\ p # 0 => m_runningProcesses[p] = a /\ hosted[p] = a
            /\ s # 0 => s \in sockOpen /\ sockAppId[s] = a

\* "we may already started new process for this appId" (ipcserver.h:51): an
\* application is dropped from the list exactly when the process it is listed
\* with is reported as finished, never for an older process of its.  (A
\* LAUNCH_REPLY that is read later still lists a finished process again.)
Reported(p) == proc[p] = "dead" /\ proc'[p] = "deleting"

ListedUntilExit ==
    [][\A a \in Apps : m_runningApps[a] # 0 =>
          (m_runningApps'[a] = 0 <=> Reported(m_runningApps[a]))]_vars

\* The subscribers of "running" have the list as it is: every handler that
\* changes it calls update(), also when callbacks were overwritten
\* (lunaservice.cpp:79, 95, main.cpp:79-81).
SubscribersUpToDate == published = m_runningApps

\* The daemon's pool does what RunnerPool says, whatever the sockets do.
Pool == INSTANCE RunnerPool WITH
            seen   <- sockPid,
            pooled <- {m_runnerClients[i] : i \in DOMAIN m_runnerClients}

\* Booster implements RunnerPool: each handler of the daemon, with all it calls,
\* is one step of the abstract pool or leaves it alone; in particular only a
\* process that was given an application is ever sent a signal.
ImplementsPool == Pool!PoolSpec

----------------------------------------------------------------------------
(***************************************************************************)
(* What clients that wait for their answers can rely on.                   *)
(***************************************************************************)

\* An application has at most one live runner.
OneRunnerPerApp ==
    \A p, q \in Alive : hosted[p] # NoApp /\ hosted[p] = hosted[q] => p = q

\* A runner whose launch was answered is in the running list, so that it can be
\* closed and relaunched.
AnsweredRunnerIsListed ==
    \A r \in DOMAIN requests : \A i \in DOMAIN replies[r] :
        LET p == replies[r][i] IN p \in Alive => m_runningApps[hosted[p]] = p

\* Every call is answered, from the pool or after a wait in the deferred queue,
\* unless a runner that was given the application ended meanwhile, or the kernel
\* has no pid left to refill the pool.
CallIsAnswered ==
    \A r \in Requests :
        r <= Len(requests) ~>
            \/ ~Pending(r)
            \/ \E p \in Gone : sockAppId[p] = requests[r].appId
            \/ \A p \in Pids : proc[p] # "none"
=============================================================================
