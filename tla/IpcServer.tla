----------------------------- MODULE IpcServer ------------------------------
(***************************************************************************)
(* The booster's IpcServer (tools/booster/ipcserver.cpp): the pool of      *)
(* registered runners, the launches deferred until a runner registers, and *)
(* the maps from applications to sockets and processes.                    *)
(*                                                                         *)
(* Each runner process opens one socket, so a socket is named by the pid of*)
(* its runner.  QMap::value() of a missing key is 0 (no process, null      *)
(* socket, null callback) or NoApp (the empty string).  A callback is named*)
(* by the request it answers.  The handlers are actions on this module's   *)
(* variables; what they emit to the LaunchManager and what the callbacks do*)
(* is composed in module Booster.                                          *)
(***************************************************************************)
EXTENDS Processes, Sequences

CONSTANTS
    Apps,          \* appIds
    NoApp,         \* the empty appId
    MaxRequests    \* bound: luna calls of one behaviour

ASSUME AppsAssumption     == NoApp \notin Apps
ASSUME RequestsAssumption == MaxRequests \in Nat

Requests == 1 .. MaxRequests

VARIABLES
    m_runnerClients,      \* sequence of sockets: the pool
    m_deferredMessages,   \* sequence of [appId, callback] waiting for a runner
    m_runningSockets,     \* [Apps -> socket of the runner given to the app]
    m_runningApps,        \* [Apps -> pid]
    m_runningProcesses,   \* [Pids -> app]
    m_launchCallbacks,    \* [Pids -> request]
    sockOpen,             \* sockets connected as far as the server knows
    sockPid,              \* sockets whose "pid" property is set
    sockAppId,            \* [Pids -> "appId" property of the socket]
    toServer,             \* [Pids -> unread messages of the runner]
    toRunner              \* [Pids -> messages the runner has not read]

queues  == << m_runnerClients, m_deferredMessages >>
lists   == << m_runningApps, m_runningProcesses >>
sockets == << sockOpen, sockPid, sockAppId >>
wires   == << toServer, toRunner >>
ipcVars == << queues, lists, sockets, wires, m_runningSockets, m_launchCallbacks >>

\* The messages of tools/common/ipccommon.h, with the errorCode of a reply in its
\* name.  Only LAUNCH_REQUEST carries an appId, and none names its callback.
Replies     == {"LAUNCH_OK", "LAUNCH_ERROR", "RELAUNCH_OK", "RELAUNCH_ERROR"}
ToServerMsg == Replies \cup {"REGISTER_REQUEST"}
ToRunnerMsg == [header : {"LAUNCH_REQUEST", "RELAUNCH_REQUEST"},
                appId : Apps \cup {NoApp}]

LaunchRequest(appId) == [header |-> "LAUNCH_REQUEST", appId |-> appId]
RelaunchRequest      == [header |-> "RELAUNCH_REQUEST", appId |-> NoApp]

Deferred == [appId : Apps, callback : Requests]

IpcTypeOK ==
    /\ m_runnerClients \in Seq(Pids)
    /\ m_deferredMessages \in Seq(Deferred)
    /\ m_runningSockets \in [Apps -> Pids \cup {0}]
    /\ m_runningApps \in [Apps -> Pids \cup {0}]
    /\ m_runningProcesses \in [Pids -> Apps \cup {NoApp}]
    /\ m_launchCallbacks \in [Pids -> Requests \cup {0}]
    /\ sockOpen \subseteq Pids
    /\ sockPid \subseteq Pids
    /\ sockAppId \in [Pids -> Apps \cup {NoApp}]
    /\ toServer \in [Pids -> Seq(ToServerMsg)]
    /\ toRunner \in [Pids -> Seq(ToRunnerMsg)]

IpcInit ==
    /\ m_runnerClients = << >>
    /\ m_deferredMessages = << >>
    /\ m_runningSockets = [a \in Apps |-> 0]
    /\ m_runningApps = [a \in Apps |-> 0]
    /\ m_runningProcesses = [p \in Pids |-> NoApp]
    /\ m_launchCallbacks = [p \in Pids |-> 0]
    /\ sockOpen = {}
    /\ sockPid = {}
    /\ sockAppId = [p \in Pids |-> NoApp]
    /\ toServer = [p \in Pids |-> << >>]
    /\ toRunner = [p \in Pids |-> << >>]

----------------------------------------------------------------------------
\* Mutant: the socket stays in the map.
WithDeadSocket(socks, s) == socks

\* The sockets an onDisconnected(s) leaves in a map of sockets: it erases the
\* first entry of s, and a socket is never in two.
WithoutSocket(socks, s) == [a \in Apps |-> IF socks[a] = s THEN 0 ELSE socks[a]]

\* Mutant: the runner stays in the pool (first() for takeFirst()).
LaunchOnKeepsRunner(clients, appId, callback, gone) ==
    LET s == Head(clients)
    IN  /\ m_runnerClients' = clients
        /\ m_runningSockets' = [m_runningSockets EXCEPT ![appId] = s]
        /\ sockAppId' = [sockAppId EXCEPT ![s] = appId]
        /\ toRunner' = [toRunner EXCEPT ![s] = Append(@, LaunchRequest(appId))]
        /\ m_launchCallbacks' = [m_launchCallbacks EXCEPT ![s] = callback]
        /\ UNCHANGED sockOpen

\* launch() with a runner in `clients': give the application and the callback
\* to the first one.  flush() to a runner that is gone (`gone') fails, closes
\* the socket and runs onDisconnected inside launch(): the entry just made in
\* m_runningSockets is erased again, the callback stays.
LaunchOn(clients, appId, callback, gone) ==
    LET s  == Head(clients)
        up == s \notin gone
    IN  /\ m_runnerClients' = Tail(clients)
        /\ m_runningSockets' = [m_runningSockets EXCEPT ![appId] = IF up THEN s ELSE 0]
        /\ sockAppId' = [sockAppId EXCEPT ![s] = appId]
        /\ toRunner' = [toRunner EXCEPT ![s] = IF up THEN Append(@, LaunchRequest(appId)) ELSE @]
        /\ m_launchCallbacks' = [m_launchCallbacks EXCEPT ![s] = callback]
        /\ sockOpen' = IF up THEN sockOpen ELSE sockOpen \ {s}

\* Mutant: the callback of a deferred launch is forgotten.
DeferNoCallback(appId, callback) ==
    /\ m_deferredMessages' =
           Append(m_deferredMessages, [appId |-> appId, callback |-> 0])
    /\ UNCHANGED << lists, sockets, wires, m_runnerClients, m_runningSockets,
                    m_launchCallbacks >>

\* launch() with no runner in the pool.
Defer(appId, callback) ==
    /\ m_deferredMessages' =
           Append(m_deferredMessages, [appId |-> appId, callback |-> callback])
    /\ UNCHANGED << lists, sockets, wires, m_runnerClients, m_runningSockets,
                    m_launchCallbacks >>

\* launch() called by the LunaService.
IpcLaunch(appId, callback, gone) ==
    \/ /\ m_runnerClients = << >>
       /\ Defer(appId, callback)
    \/ /\ m_runnerClients # << >>
       /\ LaunchOn(m_runnerClients, appId, callback, gone)
       /\ UNCHANGED << lists, m_deferredMessages, sockPid, toServer >>

\* relaunch() of an application that has a socket.  It overwrites a callback
\* that still waits for the same runner.  A write to a runner that is gone ends
\* in onDisconnected as in launch(), and what the socket still held is lost.
CanRelaunch(appId) == m_runningSockets[appId] # 0

IpcRelaunch(appId, callback, gone) ==
    LET s  == m_runningSockets[appId]
        up == s \notin gone
    IN  /\ CanRelaunch(appId)
        /\ m_launchCallbacks' = [m_launchCallbacks EXCEPT ![s] = callback]
        /\ \/ /\ up
              /\ toRunner' = [toRunner EXCEPT ![s] = Append(@, RelaunchRequest)]
              /\ UNCHANGED << m_runningSockets, sockOpen, toServer >>
           \/ /\ ~up
              /\ m_runningSockets' = WithoutSocket(m_runningSockets, s)
              /\ sockOpen' = sockOpen \ {s}
              /\ toServer' = [toServer EXCEPT ![s] = << >>]
              /\ UNCHANGED toRunner
        /\ UNCHANGED << queues, lists, sockPid, sockAppId >>

----------------------------------------------------------------------------
(***************************************************************************)
(* readSocket().  readAll() takes everything that has arrived, and only the*)
(* first message of the block is decoded: the others are lost.             *)
(***************************************************************************)
Arrived(s, header) ==
    /\ s \in sockOpen
    /\ toServer[s] # << >>
    /\ Head(toServer[s]) = header
    /\ toServer' = [toServer EXCEPT ![s] = << >>]

\* Mutants: the registration serves no deferred launch; the oldest is served but
\* stays in the queue; the newest is served.
ReadRegisterOnly(s, gone) ==
    /\ Arrived(s, "REGISTER_REQUEST")
    /\ sockPid' = sockPid \cup {s}
    /\ m_runnerClients' = Append(m_runnerClients, s)
    /\ UNCHANGED << lists, m_deferredMessages, m_runningSockets,
                    m_launchCallbacks, sockOpen, sockAppId, toRunner >>

ReadRegisterAndServe(s, gone, i, left) ==
    /\ Arrived(s, "REGISTER_REQUEST")
    /\ m_deferredMessages # << >>
    /\ sockPid' = sockPid \cup {s}
    /\ m_deferredMessages' = left
    /\ LaunchOn(Append(m_runnerClients, s), m_deferredMessages[i].appId,
                m_deferredMessages[i].callback, gone)
    /\ UNCHANGED << lists >>

ReadRegisterPeeks(s, gone) ==
    \/ m_deferredMessages = << >> /\ ReadRegisterOnly(s, gone)
    \/ ReadRegisterAndServe(s, gone, 1, m_deferredMessages)

ReadRegisterTakesLast(s, gone) ==
    LET n == Len(m_deferredMessages)
    IN  \/ n = 0 /\ ReadRegisterOnly(s, gone)
        \/ ReadRegisterAndServe(s, gone, n, SubSeq(m_deferredMessages, 1, n - 1))

\* REGISTER_REQUEST: the runner joins the pool, and if a launch was deferred
\* the oldest one is taken from the queue and launched.
ReadRegister(s, gone) ==
    /\ Arrived(s, "REGISTER_REQUEST")
    /\ sockPid' = sockPid \cup {s}
    /\ LET clients == Append(m_runnerClients, s)
       IN  \/ /\ m_deferredMessages = << >>
              /\ m_runnerClients' = clients
              /\ UNCHANGED << m_deferredMessages, m_runningSockets, sockAppId,
                              toRunner, m_launchCallbacks, sockOpen >>
           \/ /\ m_deferredMessages # << >>
              /\ m_deferredMessages' = Tail(m_deferredMessages)
              /\ LET message == Head(m_deferredMessages)
                 IN  LaunchOn(clients, message.appId, message.callback, gone)
    /\ UNCHANGED << lists >>

\* Mutant: the callback is read and left in the map (value() for take()).
ValueOfCallback(s) == UNCHANGED m_launchCallbacks

TakeCallback(s) == m_launchCallbacks' = [m_launchCallbacks EXCEPT ![s] = 0]

\* Mutant: the application is not listed.
ReadLaunchOkUnlisted(s) ==
    /\ Arrived(s, "LAUNCH_OK")
    /\ TakeCallback(s)
    /\ m_runningProcesses' = [m_runningProcesses EXCEPT ![s] = sockAppId[s]]
    /\ UNCHANGED << queues, sockets, m_runningSockets, m_runningApps, toRunner >>

\* LAUNCH_REPLY without an error.
ReadLaunchOk(s) ==
    /\ Arrived(s, "LAUNCH_OK")
    /\ TakeCallback(s)
    /\ m_runningApps' = [m_runningApps EXCEPT ![sockAppId[s]] = s]
    /\ m_runningProcesses' = [m_runningProcesses EXCEPT ![s] = sockAppId[s]]
    /\ UNCHANGED << queues, sockets, m_runningSockets, toRunner >>

\* The other replies only take the callback.
ReadOtherReply(s) ==
    /\ \E header \in Replies \ {"LAUNCH_OK"} : Arrived(s, header)
    /\ TakeCallback(s)
    /\ UNCHANGED << queues, lists, sockets, m_runningSockets, toRunner >>

\* removeOne(): the first s leaves the pool, if it is there.
RemoveOne(s) ==
    \/ /\ \A i \in DOMAIN m_runnerClients : m_runnerClients[i] # s
       /\ UNCHANGED m_runnerClients
    \/ \E i \in DOMAIN m_runnerClients :
          /\ m_runnerClients[i] = s
          /\ \A j \in 1 .. i - 1 : m_runnerClients[j] # s
          /\ m_runnerClients' = SubSeq(m_runnerClients, 1, i - 1) \o
                                 SubSeq(m_runnerClients, i + 1, Len(m_runnerClients))

\* onDisconnected, after all that the runner sent was read.
OnDisconnected(s) ==
    /\ s \in sockOpen
    /\ toServer[s] = << >>
    /\ sockOpen' = sockOpen \ {s}
    /\ RemoveOne(s)
    /\ m_runningSockets' = WithoutSocket(m_runningSockets, s)
    /\ UNCHANGED << lists, wires, m_deferredMessages, m_launchCallbacks, sockPid,
                    sockAppId >>

\* Mutant: the application is dropped from the list whatever process it has now.
RemoveProcessAlways(p) ==
    LET appId == m_runningProcesses[p]
    IN  /\ m_runningProcesses' = [m_runningProcesses EXCEPT ![p] = NoApp]
        /\ m_runningApps' = [a \in Apps |-> IF a = appId THEN 0 ELSE m_runningApps[a]]
        /\ UNCHANGED << queues, sockets, wires, m_runningSockets,
                        m_launchCallbacks >>

\* removeProcess(), called when a process has finished.
RemoveProcess(p) ==
    LET appId == m_runningProcesses[p]
    IN  /\ m_runningProcesses' = [m_runningProcesses EXCEPT ![p] = NoApp]
        /\ m_runningApps' = [a \in Apps |->
               IF a = appId /\ m_runningApps[a] = p THEN 0 ELSE m_runningApps[a]]
        /\ UNCHANGED << queues, sockets, wires, m_runningSockets,
                        m_launchCallbacks >>

----------------------------------------------------------------------------
(***************************************************************************)
(* The runner's end of the socket (tools/runner/ipcclient.cpp).            *)
(***************************************************************************)

\* connectToServer(): the server accepts the connection (setupConnection) and
\* REGISTER_REQUEST is the first thing on it.
ConnectToServer(s) ==
    /\ sockOpen' = sockOpen \cup {s}
    /\ toServer' = [toServer EXCEPT ![s] = << "REGISTER_REQUEST" >>]
    /\ UNCHANGED << queues, lists, m_runningSockets, m_launchCallbacks, sockPid,
                    sockAppId, toRunner >>

\* onSocketReadyRead(): it too decodes the first message of what readAll() took,
\* and the handler sends its reply.
ReadRequest(s, header, reply) ==
    /\ toRunner[s] # << >>
    /\ Head(toRunner[s]).header = header
    /\ toRunner' = [toRunner EXCEPT ![s] = << >>]
    /\ toServer' = IF s \in sockOpen THEN [toServer EXCEPT ![s] = Append(@, reply)]
                                     ELSE toServer
    /\ UNCHANGED << queues, lists, sockets, m_runningSockets, m_launchCallbacks >>

\* The process is gone: what it had not read is lost.
SocketClosed(s) ==
    /\ toRunner' = [toRunner EXCEPT ![s] = << >>]
    /\ UNCHANGED << queues, lists, sockets, m_runningSockets, m_launchCallbacks,
                    toServer >>
=============================================================================
