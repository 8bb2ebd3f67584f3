------------------------------ MODULE AppRunner ------------------------------
(***************************************************************************)
(* qml-runner as the application manager (SAM) starts it: main() without   *)
(* --interactive (src/tools/runner).  AppLoader has the application's      *)
(* window.  AppLifeCycleManager makes two calls on the Luna bus: m_bus is  *)
(* told whether SAM is there, m_appLifeCycleManager registers the          *)
(* application with SAM and hears of relaunches and of the request to      *)
(* close.  The LS2 handle is shared by the two LunaServiceWrappers.        *)
(*                                                                         *)
(* The bus and SAM are external.  What they send waits in status and in    *)
(* inbox until the event loop takes it; nothing orders the one to the      *)
(* other.  A call that is cancelled, or whose handle is unregistered, is   *)
(* not called back any more.                                               *)
(***************************************************************************)
EXTENDS Naturals, Sequences

CONSTANTS
    Params, Empty,   \* launch parameters; Empty is the object without any
    MaxCalls,        \* bound: calls made on the bus
    MaxFailures,     \* bound: calls that the bus refuses
    MaxRestarts,     \* bound: times SAM goes up or down
    MaxReports,      \* bound: reports of SAM's status that are on their way
    MaxMessages      \* bound: messages of SAM

ASSUME ParamsAssumption == Empty \in Params
ASSUME BoundsAssumption ==
    {MaxCalls, MaxFailures, MaxRestarts, MaxReports, MaxMessages} \subseteq Nat

Wrappers == {"bus", "app"}        \* m_bus, m_appLifeCycleManager
Methods  == {"registerApp", "registerNativeApp"}
Keys     == {"event", "message"}
Roots    == {"WebOSWindow", "Window", "Item", "Object"}
Tokens   == 1 .. MaxCalls
NoToken  == 0                     \* LSMESSAGE_TOKEN_INVALID

VARIABLES
    phase,         \* where main() is
    quitting,      \* has the event loop been told to end?
    exitCode,      \* how the process ended
    method,        \* the method of SAM the application registers by
    params,        \* the context property "params"
    m_window,      \* [handle, visible, launchParams, root] of the window
    lunaHandle,    \* is there an LS2 handle?
    attached,      \* is it attached to the main loop, so that callbacks come?
    wrappers,      \* the LunaServiceWrappers that exist
    m_token, m_isSubscribed,   \* of the wrappers
    connections,   \* connections of messageReceived to handleAppLifeCycle
    calls,         \* [token -> wrapper given as context], calls the bus has
    up,            \* is SAM running?
    registered,    \* the call by which the application is registered with SAM
    status,        \* reports of the bus that SAM is connected, or is not
    inbox,         \* messages of SAM
    made, failures, restarts, sent   \* what happened so far, for the bounds

main  == << phase, quitting, exitCode, method >>
app   == << params, m_window >>
luna  == << lunaHandle, attached, wrappers, m_token, m_isSubscribed, connections >>
sam   == << up, registered, restarts, sent >>
bus   == << calls, status, inbox, made, failures >>
vars  == << main, app, luna, sam, bus >>

Message == [token : Tokens, key : Keys, text : {"registered", "relaunch", "close"},
            params : Params]

AppRunnerTypeOK ==
    /\ phase \in {"init", "load", "signals", "loop", "left", "busLeft", "ended"}
    /\ quitting \in BOOLEAN
    /\ exitCode \in {"none", "0", "-1", "killed", "crashed"}
    /\ method \in Methods /\ params \in Params
    /\ m_window \in [handle : BOOLEAN, visible : BOOLEAN, launchParams : Params,
                     root : Roots \cup {"none"}]
    /\ {lunaHandle, attached} \subseteq BOOLEAN /\ wrappers \subseteq Wrappers
    /\ m_token \in [Wrappers -> Tokens \cup {NoToken}]
    /\ m_isSubscribed \in [Wrappers -> BOOLEAN]
    /\ connections \in Nat
    /\ DOMAIN calls \subseteq Tokens /\ \A t \in DOMAIN calls : calls[t] \in Wrappers
    /\ up \in BOOLEAN /\ registered \in Tokens \cup {NoToken}
    /\ status \in Seq(BOOLEAN) /\ inbox \in Seq(Message)
    /\ made \in 0 .. MaxCalls /\ failures \in 0 .. MaxFailures
    /\ restarts \in 0 .. MaxRestarts /\ sent \in 0 .. MaxMessages

\* main() has read its arguments: SAM names the interface method or leaves it
\* out, for registerApp; parameters that are no object become the empty one.
Init ==
    /\ phase = "init" /\ quitting = FALSE /\ exitCode = "none"
    /\ method \in Methods
    /\ params \in Params
    /\ m_window = [handle |-> FALSE, visible |-> FALSE, launchParams |-> Empty,
                   root |-> "none"]
    /\ lunaHandle = FALSE /\ attached = FALSE /\ wrappers = {}
    /\ m_token = [w \in Wrappers |-> NoToken]
    /\ m_isSubscribed = [w \in Wrappers |-> FALSE]
    /\ connections = 0
    /\ calls = << >>
    /\ up \in BOOLEAN /\ registered = NoToken
    /\ status = << >> /\ inbox = << >>
    /\ made = 0 /\ failures = 0 /\ restarts = 0 /\ sent = 0

Ends(code) == phase' = "ended" /\ exitCode' = code

----------------------------------------------------------------------------
(***************************************************************************)
(* LunaServiceWrapper                                                      *)
(***************************************************************************)

\* The bus forgets the calls ts and drops what is on its way to them.
Forgets(ts) ==
    /\ calls' = [t \in DOMAIN calls \ ts |-> calls[t]]
    /\ inbox' = SelectSeq(inbox, LAMBDA msg : msg.token \notin ts)
    /\ registered' = IF registered \in ts THEN NoToken ELSE registered

\* subscribe(): the bus takes the call, which reaches SAM when SAM is there.
Accepted(w) ==
    /\ made < MaxCalls
    /\ made' = made + 1
    /\ m_token' = [m_token EXCEPT ![w] = made']
    /\ m_isSubscribed' = [m_isSubscribed EXCEPT ![w] = TRUE]
    /\ calls' = [t \in DOMAIN calls \cup {made'} |-> IF t = made' THEN w ELSE calls[t]]
    /\ registered' = IF w = "app" /\ up THEN made' ELSE registered
    /\ UNCHANGED failures

\* subscribe(): the bus refuses the call, or there is no handle.
Refused ==
    /\ failures < MaxFailures
    /\ failures' = failures + 1
    /\ UNCHANGED << made, m_token, m_isSubscribed, calls, registered >>

Subscribe(w) == Accepted(w) \/ Refused

\* Mutant: m_isSubscribed is not reset.
CancelCallOnly(w) ==
    /\ IF lunaHandle THEN Forgets({m_token[w]}) ELSE UNCHANGED << calls, inbox, registered >>
    /\ m_token' = [m_token EXCEPT ![w] = NoToken]
    /\ UNCHANGED m_isSubscribed

\* cancel(): without a handle the bus has nothing to forget.
Cancel(w) ==
    /\ IF lunaHandle THEN Forgets({m_token[w]}) ELSE UNCHANGED << calls, inbox, registered >>
    /\ m_token' = [m_token EXCEPT ![w] = NoToken]
    /\ m_isSubscribed' = [m_isSubscribed EXCEPT ![w] = FALSE]

\* regist(), attachLoop() and subscribe() of the first wrapper, which gets the handle for
\* both; their failures are only logged.  Without a handle the second wrapper tries to
\* register again, but the main loop is set by then and is attached to no handle any more.
Regist ==
    \/ /\ lunaHandle' = TRUE /\ attached' \in BOOLEAN
       /\ Subscribe("bus")
    \/ /\ lunaHandle' \in BOOLEAN /\ attached' = FALSE
       /\ Refused

\* ~LunaServiceWrapper(): the first that is deleted unregisters the handle of both.
DeleteWrapper(w) ==
    /\ wrappers' = wrappers \ {w}
    /\ lunaHandle' = FALSE /\ attached' = FALSE

----------------------------------------------------------------------------
(***************************************************************************)
(* main() up to the event loop                                             *)
(***************************************************************************)

\* AppLifeCycleManager::init(): the first wrapper registers and attaches the handle;
\* only m_bus makes its call, and is told at once whether SAM is there, when the handle
\* is attached.
StartLifeCycle ==
    /\ phase = "init" /\ phase' = "load"
    /\ Regist /\ wrappers' = Wrappers
    /\ status' = IF attached' /\ m_isSubscribed'["bus"] THEN << up >> ELSE << >>
    /\ UNCHANGED << quitting, exitCode, method, app, connections, up, restarts,
                    sent, inbox >>

\* setLaunchParams(): the window keeps what it has when it has no platform window or
\* the parameters are empty.
LaunchParams(window, given) ==
    IF window.handle /\ given # Empty THEN given ELSE window.launchParams

\* loadApplication(): the top level object is a window, which may show itself while
\* it is created.  A WebOSQuickWindow has its platform window from the start.
LoadWindow ==
    /\ phase = "load" /\ phase' = "signals"
    /\ \E root \in {"WebOSWindow", "Window"}, visible \in BOOLEAN :
          LET window == [handle |-> visible \/ root = "WebOSWindow",
                         visible |-> visible, launchParams |-> Empty, root |-> root]
          IN  m_window' = [window EXCEPT !.launchParams = LaunchParams(window, params)]
    /\ UNCHANGED << quitting, exitCode, method, params, luna, sam, bus >>

\* An item gets a QQuickView; that has no platform window before show(), so the
\* launch parameters are not set.
LoadItem ==
    /\ phase = "load" /\ phase' = "signals"
    /\ m_window' = [handle |-> TRUE, visible |-> TRUE, launchParams |-> Empty,
                    root |-> "Item"]
    /\ UNCHANGED << quitting, exitCode, method, params, luna, sam, bus >>

\* The process ends at once: nothing is deleted, the bus forgets every call.
Dies(code) ==
    /\ phase' = "ended" /\ exitCode' = code
    /\ Forgets(DOMAIN calls)
    /\ status' = << >>
    /\ UNCHANGED << quitting, method, params, luna, up, restarts, sent, made, failures >>

\* The QML does not load, and main() returns; or it is neither a window nor an item,
\* and the null m_window is used.
FailToLoad ==
    /\ phase = "load"
    /\ \/ Dies("-1") /\ UNCHANGED m_window
       \/ Dies("crashed") /\ m_window' = [m_window EXCEPT !.root = "Object"]

\* The handlers of SIGTERM and SIGINT are installed, and app.exec() begins.
Exec ==
    /\ phase = "signals" /\ phase' = "loop"
    /\ UNCHANGED << quitting, exitCode, method, app, luna, sam, bus >>

----------------------------------------------------------------------------
(***************************************************************************)
(* The event loop.  What is ready when it is told to end may still be      *)
(* handled before it ends.                                                 *)
(***************************************************************************)

InLoop == phase = "loop"

\* Mutant: registers again when it is told again.
HandleConnectedAgain ==
    /\ InLoop /\ status # << >> /\ Head(status)
    /\ connections' = connections + 1
    /\ Subscribe("app")
    /\ status' = Tail(status)
    /\ UNCHANGED << main, app, lunaHandle, attached, wrappers, up, restarts, sent, inbox >>

\* handleServerStatus(): SAM is there.  The connection is made before the call, and
\* stays when the call is refused.
HandleConnected ==
    /\ InLoop /\ status # << >> /\ Head(status)
    /\ ~m_isSubscribed["app"]
    /\ connections' = connections + 1
    /\ Subscribe("app")
    /\ status' = Tail(status)
    /\ UNCHANGED << main, app, lunaHandle, attached, wrappers, up, restarts, sent, inbox >>

\* Mutant: the signal stays connected.
HandleDisconnectedOnlyCancels ==
    /\ InLoop /\ status # << >> /\ ~Head(status)
    /\ m_isSubscribed["app"]
    /\ Cancel("app")
    /\ status' = Tail(status)
    /\ UNCHANGED << main, app, lunaHandle, attached, wrappers, connections, up, restarts, sent,
                    made, failures >>

\* handleServerStatus(): SAM is gone.  disconnect() takes every connection away.
HandleDisconnected ==
    /\ InLoop /\ status # << >> /\ ~Head(status)
    /\ m_isSubscribed["app"]
    /\ connections' = 0
    /\ Cancel("app")
    /\ status' = Tail(status)
    /\ UNCHANGED << main, app, lunaHandle, attached, wrappers, up, restarts, sent, made, failures >>

\* handleServerStatus(): nothing new.
HandleNoChange ==
    /\ InLoop /\ status # << >> /\ Head(status) = m_isSubscribed["app"]
    /\ status' = Tail(status)
    /\ UNCHANGED << main, app, luna, sam, calls, inbox, made, failures >>

\* Mutant: the first interface's key, whichever interface is used.
KeyNameOfDefault(m) == "event"

\* handleAppLifeCycle(): where the interface has the message.
KeyName(m) == IF m = "registerApp" THEN "event" ELSE "message"

\* The next message of SAM, of the text that the handler reads.  Without a connection
\* nobody hears it.
TakesMessage ==
    /\ InLoop /\ inbox # << >>
    /\ inbox' = Tail(inbox)
    /\ UNCHANGED << luna, sam, calls, status, made, failures >>

Hears(text) ==
    connections > 0 /\ Head(inbox).key = KeyName(method) /\ Head(inbox).text = text

\* Mutant: the window is not shown.
ReloadHidden ==
    /\ TakesMessage /\ Hears("relaunch")
    /\ IF m_window.handle
       THEN /\ params' = Head(inbox).params
            /\ m_window' = [m_window EXCEPT
                                !.launchParams = LaunchParams(m_window, Head(inbox).params)]
       ELSE UNCHANGED app
    /\ UNCHANGED main

\* relaunchRequest: reloadApplication(), whose component is ready in the loop.  A
\* window without a platform window is taken for one that is being closed.  A second
\* connection does the same again.
Reload ==
    /\ TakesMessage /\ Hears("relaunch")
    /\ IF m_window.handle
       THEN /\ params' = Head(inbox).params
            /\ m_window' = [m_window EXCEPT
                                !.launchParams = LaunchParams(m_window, Head(inbox).params),
                                !.visible = TRUE]
       ELSE UNCHANGED app
    /\ UNCHANGED main

\* terminate(): QCoreApplication::quit().
Terminate == quitting' = TRUE /\ UNCHANGED << phase, exitCode, method >>

\* closeRequest
Close ==
    /\ TakesMessage /\ Hears("close")
    /\ Terminate
    /\ UNCHANGED app

IgnoreMessage ==
    /\ TakesMessage /\ ~Hears("relaunch") /\ ~Hears("close")
    /\ UNCHANGED << main, app >>

\* QML hides the window, or a close event does, of a keepAlive WebOSQuickWindow; the
\* platform window stays.
Hide ==
    /\ InLoop /\ m_window.visible
    /\ m_window' = [m_window EXCEPT !.visible = FALSE]
    /\ UNCHANGED << main, params, luna, sam, bus >>

\* QML shows the window.
Show ==
    /\ InLoop /\ ~quitting /\ ~m_window.visible
    /\ m_window' = [m_window EXCEPT !.visible = TRUE, !.handle = TRUE]
    /\ UNCHANGED << main, params, luna, sam, bus >>

\* A close event that QML does not refuse: the platform window goes, and the last
\* window that is closed ends the loop.
CloseWindow ==
    /\ InLoop /\ m_window.visible
    /\ m_window' = [m_window EXCEPT !.visible = FALSE, !.handle = FALSE]
    /\ Terminate
    /\ UNCHANGED << params, luna, sam, bus >>

\* The engine's quit signal, and SIGTERM or SIGINT once their handlers are there.
\* Before that the signals kill the process, and quit() has no loop to end.
Quit ==
    /\ InLoop /\ ~quitting /\ Terminate
    /\ UNCHANGED << app, luna, sam, bus >>

Killed ==
    /\ phase \in {"init", "load", "signals"}
    /\ Dies("killed") /\ UNCHANGED m_window

----------------------------------------------------------------------------
(***************************************************************************)
(* After the event loop                                                    *)
(***************************************************************************)

LeaveLoop ==
    /\ InLoop /\ quitting /\ phase' = "left"
    /\ UNCHANGED << quitting, exitCode, method, app, luna, sam, bus >>

\* ~AppLifeCycleManager(): m_appLifeCycleManager is cancelled and deleted, and the
\* handle goes with the calls of both wrappers.
DeleteApp ==
    /\ phase = "left" /\ phase' = "busLeft"
    /\ IF m_isSubscribed["app"]
       THEN /\ connections' = 0
            /\ m_token' = [m_token EXCEPT !["app"] = NoToken]
            /\ m_isSubscribed' = [m_isSubscribed EXCEPT !["app"] = FALSE]
       ELSE UNCHANGED << connections, m_token, m_isSubscribed >>
    /\ DeleteWrapper("app")
    /\ Forgets(DOMAIN calls)
    /\ status' = << >>
    /\ UNCHANGED << quitting, exitCode, method, app, up, restarts, sent, made, failures >>

\* m_bus is cancelled, with a handle that is null by now, and deleted.
DeleteBus ==
    /\ phase = "busLeft" /\ phase' = "ended" /\ exitCode' = "0"
    /\ Cancel("bus")
    /\ DeleteWrapper("bus")
    /\ UNCHANGED << quitting, method, app, connections, up, restarts, sent,
                    status, made, failures >>

----------------------------------------------------------------------------
(***************************************************************************)
(* SAM and the bus                                                         *)
(***************************************************************************)

Reports(connected) ==
    IF attached /\ \E t \in DOMAIN calls : calls[t] = "bus"
    THEN Len(status) < MaxReports /\ status' = Append(status, connected)
    ELSE UNCHANGED status

\* SAM goes and forgets the applications; what it sent stays on its way.
SamStops ==
    /\ up /\ restarts < MaxRestarts
    /\ up' = FALSE /\ restarts' = restarts + 1
    /\ registered' = NoToken
    /\ Reports(FALSE)
    /\ UNCHANGED << main, app, luna, sent, calls, inbox, made, failures >>

SamStarts ==
    /\ ~up /\ restarts < MaxRestarts
    /\ up' = TRUE /\ restarts' = restarts + 1
    /\ Reports(TRUE)
    /\ UNCHANGED << main, app, luna, registered, sent, calls, inbox, made, failures >>

\* The bus reports a status again.
BusRepeats ==
    /\ phase # "ended" /\ Reports(up) /\ status' # status
    /\ UNCHANGED << main, app, luna, sam, calls, inbox, made, failures >>

\* SAM tells the registered application something, in the form of its interface.
SamSends(text, given) ==
    /\ registered # NoToken /\ sent < MaxMessages
    /\ sent' = sent + 1
    /\ inbox' = Append(inbox,
                    [token |-> registered, text |-> text, params |-> given,
                     key |-> IF method = "registerApp" THEN "event" ELSE "message"])
    /\ UNCHANGED << main, app, luna, up, registered, restarts, calls, status, made,
                    failures >>

----------------------------------------------------------------------------
Starting == StartLifeCycle \/ LoadWindow \/ LoadItem \/ FailToLoad \/ Exec
HandleStatus  == HandleConnected \/ HandleDisconnected \/ HandleNoChange
HandleMessage == Reload \/ Close \/ IgnoreMessage
Ending == LeaveLoop \/ DeleteApp \/ DeleteBus
Outside ==
    \/ SamStops \/ SamStarts \/ BusRepeats
    \/ SamSends("registered", Empty) \/ SamSends("close", Empty)
    \/ \E given \in Params : SamSends("relaunch", given)

Next ==
    \/ Starting \/ HandleStatus \/ HandleMessage \/ Ending \/ Outside
    \/ Hide \/ Show \/ CloseWindow \/ Quit \/ Killed

\* main() runs on, and the event loop takes what has come from the bus.
Fairness ==
    WF_vars(Starting) /\ WF_vars(HandleStatus) /\ WF_vars(HandleMessage) /\ WF_vars(Ending)

Spec == Init /\ [][Next]_vars /\ Fairness

----------------------------------------------------------------------------
(***************************************************************************)
(* Properties                                                              *)
(***************************************************************************)

\* The bus calls back with a raw pointer to a wrapper: every call it still has is the
\* one call of a wrapper that exists, so cancel() reaches it and none outlives its
\* wrapper (lunaservicewrapper.cpp:64-75, 111-142; applifecyclemanager.cpp:35-56).
CallsAreOwned ==
    \A t \in DOMAIN calls :
        /\ calls[t] \in wrappers
        /\ m_token[calls[t]] = t /\ m_isSubscribed[calls[t]]

\* A registered application hears each message of SAM, and only a call that was
\* refused makes it hear one twice (applifecyclemanager.cpp:97-108).
HeardOnce ==
    /\ m_isSubscribed["app"] => connections \in 1 .. (failures + 1)
    /\ ~m_isSubscribed["app"] => connections <= failures

\* Whenever SAM comes back the application registers with it, unless a call was
\* refused, which is not made again, or the handle was not attached, so that the
\* runner hears of nothing (applifecyclemanager.cpp:87-109,
\* lunaservicewrapper.cpp:99-133).
RegistersAgain ==
    []<>(\/ phase # "loop" \/ ~up \/ failures > 0 \/ ~attached
         \/ registered # NoToken /\ registered = m_token["app"])

OnItsWay(t, text) ==
    registered = t /\ \E i \in 1 .. Len(inbox) : inbox[i].token = t /\ inbox[i].text = text

\* While SAM and the registration last, a close request ends the process, and a
\* relaunch shows a window that has a platform window, on either interface
\* (applifecyclemanager.cpp:111-128, main.cpp:206-228).
SamIsObeyed ==
    \A t \in Tokens :
        /\ OnItsWay(t, "close") ~> (phase = "ended" \/ registered # t)
        /\ OnItsWay(t, "relaunch") ~>
               (m_window.visible \/ ~m_window.handle \/ quitting \/ registered # t)
=============================================================================
