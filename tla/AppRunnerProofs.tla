--------------------------- MODULE AppRunnerProofs ---------------------------
(***************************************************************************)
(* What holds of the standalone runner however many calls it makes, however*)
(* often SAM goes and comes, and whatever is on its way.                   *)
(***************************************************************************)
EXTENDS AppRunner, TLAPS

\* The facts about the calls that CallsAreOwned rests on: tokens are used once, calls
\* need a handle, reports need one that is attached, and before and after the loop's time
\* there is none.
CallsInv ==
    /\ made \in Nat /\ \A t \in DOMAIN calls : t \in Nat /\ t <= made
    /\ m_token \in [Wrappers -> Nat]
    /\ m_isSubscribed \in [Wrappers -> BOOLEAN]
    /\ ~lunaHandle => DOMAIN calls = {}
    /\ lunaHandle => wrappers = Wrappers
    /\ phase \in {"load", "signals", "loop", "left"} => wrappers = Wrappers
    /\ attached => lunaHandle
    /\ status # << >> => attached
    /\ phase = "busLeft" => ~lunaHandle
    /\ phase = "init" => DOMAIN calls = {} /\ ~m_isSubscribed["bus"]

OwnedInv == CallsInv /\ CallsAreOwned

\* The counts that HeardOnce rests on.
HeardInv ==
    /\ connections \in Nat /\ failures \in Nat
    /\ m_isSubscribed \in [Wrappers -> BOOLEAN]
    /\ phase = "init" => ~m_isSubscribed["app"]
    /\ HeardOnce

\* A call that is made is owned by the wrapper that made it, if the wrapper had none.
LEMMA SubscribeOwns ==
    ASSUME OwnedInv, NEW w \in Wrappers, ~m_isSubscribed[w], Subscribe(w),
           wrappers' = Wrappers
    PROVE  /\ made' \in Nat /\ \A t \in DOMAIN calls' : t \in Nat /\ t <= made'
           /\ m_token' \in [Wrappers -> Nat]
           /\ m_isSubscribed' \in [Wrappers -> BOOLEAN]
           /\ CallsAreOwned'
<1>1. CASE UNCHANGED << made, m_token, m_isSubscribed, calls, registered >>
      <2>1. \A t \in DOMAIN calls : calls[t] \in Wrappers
            BY DEF OwnedInv, CallsInv, CallsAreOwned
      <2> QED  BY <1>1, <2>1 DEF OwnedInv, CallsInv, CallsAreOwned
<1>2. CASE /\ made' = made + 1
           /\ m_token' = [m_token EXCEPT ![w] = made']
           /\ m_isSubscribed' = [m_isSubscribed EXCEPT ![w] = TRUE]
           /\ calls' = [t \in DOMAIN calls \cup {made'} |->
                            IF t = made' THEN w ELSE calls[t]]
      <2>1. made \in Nat /\ made' = made + 1 /\ made' \in Nat
            BY <1>2 DEF OwnedInv, CallsInv
      <2>2. m_token' \in [Wrappers -> Nat] /\ m_isSubscribed' \in [Wrappers -> BOOLEAN]
            BY <1>2, <2>1 DEF OwnedInv, CallsInv
      <2>3. DOMAIN calls' = DOMAIN calls \cup {made'}
            BY <1>2
      <2>4. \A t \in DOMAIN calls' : t \in Nat /\ t <= made'
            BY <2>1, <2>3 DEF OwnedInv, CallsInv
      <2>5. ASSUME NEW t \in DOMAIN calls'
            PROVE  /\ calls'[t] \in wrappers'
                   /\ m_token'[calls'[t]] = t /\ m_isSubscribed'[calls'[t]]
            <3>1. CASE t = made'
                  <4>1. calls'[t] = w
                        BY <1>2, <3>1
                  <4>2. m_token'[w] = made' /\ m_isSubscribed'[w]
                        BY <1>2 DEF OwnedInv, CallsInv
                  <4> QED  BY <3>1, <4>1, <4>2
            <3>2. CASE t # made'
                  <4>1. t \in DOMAIN calls /\ calls'[t] = calls[t]
                        BY <1>2, <2>3, <3>2
                  <4>2. /\ calls[t] \in wrappers /\ m_token[calls[t]] = t
                        /\ m_isSubscribed[calls[t]]
                        BY <4>1 DEF OwnedInv, CallsAreOwned
                  <4>3. lunaHandle /\ wrappers = Wrappers
                        BY <4>1 DEF OwnedInv, CallsInv
                  <4>4. calls[t] # w
                        BY <4>2
                  <4>5. m_token'[calls[t]] = t /\ m_isSubscribed'[calls[t]]
                        BY <1>2, <4>2, <4>3, <4>4 DEF OwnedInv, CallsInv
                  <4> QED  BY <4>1, <4>2, <4>3, <4>5
            <3> QED  BY <3>1, <3>2
      <2> QED  BY <2>1, <2>2, <2>4, <2>5 DEF CallsAreOwned
<1> QED  BY <1>1, <1>2 DEF Subscribe, Accepted, Refused

\* Nothing is owned when there is no call.
LEMMA NoCallsAreOwned ==
    ASSUME OwnedInv, Forgets(DOMAIN calls)
    PROVE  DOMAIN calls' = {} /\ CallsAreOwned'
BY DEF Forgets, CallsAreOwned

\* cancel() with a handle takes the one call of the wrapper away.
LEMMA CancelTakesTheCall ==
    ASSUME OwnedInv, NEW w \in Wrappers, Cancel(w), wrappers' = wrappers
    PROVE  /\ \A t \in DOMAIN calls' : t \in DOMAIN calls
           /\ m_token' \in [Wrappers -> Nat]
           /\ m_isSubscribed' \in [Wrappers -> BOOLEAN]
           /\ CallsAreOwned'
<1>1. m_token' \in [Wrappers -> Nat] /\ m_isSubscribed' \in [Wrappers -> BOOLEAN]
      BY DEF Cancel, OwnedInv, CallsInv, NoToken
<1>2. CASE ~lunaHandle
      BY <1>1, <1>2 DEF Cancel, OwnedInv, CallsInv, CallsAreOwned
<1>3. CASE lunaHandle
      <2>1. calls' = [t \in DOMAIN calls \ {m_token[w]} |-> calls[t]]
            BY <1>3 DEF Cancel, Forgets
      <2>2. ASSUME NEW t \in DOMAIN calls'
            PROVE  /\ t \in DOMAIN calls /\ calls'[t] \in wrappers'
                   /\ m_token'[calls'[t]] = t /\ m_isSubscribed'[calls'[t]]
            <3>1. t \in DOMAIN calls /\ t # m_token[w] /\ calls'[t] = calls[t]
                  BY <2>1
            <3>2. /\ calls[t] \in wrappers /\ m_token[calls[t]] = t
                  /\ m_isSubscribed[calls[t]]
                  BY <3>1 DEF OwnedInv, CallsAreOwned
            <3>3. calls[t] \in Wrappers /\ calls[t] # w
                  BY <1>3, <3>1, <3>2 DEF OwnedInv, CallsInv
            <3>4. m_token'[calls[t]] = t /\ m_isSubscribed'[calls[t]]
                  BY <3>2, <3>3 DEF Cancel, OwnedInv, CallsInv
            <3> QED  BY <3>1, <3>2, <3>4
      <2> QED  BY <1>1, <2>2 DEF CallsAreOwned
<1> QED  BY <1>2, <1>3

\* Steps that touch neither the calls nor the wrappers.
Elsewhere == UNCHANGED << made, calls, luna >>

LEMMA ElsewhereKeepsOwned ==
    ASSUME OwnedInv, Elsewhere, phase' = phase, status' # << >> => attached
    PROVE  OwnedInv'
BY DEF OwnedInv, CallsInv, CallsAreOwned, Elsewhere, luna

LEMMA OwnedStep == OwnedInv /\ [Next]_vars => OwnedInv'
<1> SUFFICES ASSUME OwnedInv, [Next]_vars PROVE OwnedInv'
    OBVIOUS
<1> USE DEF Wrappers
<1>1. CASE StartLifeCycle
      <2>1. /\ phase' = "load" /\ wrappers' = Wrappers /\ Regist
            /\ status' = IF attached' /\ m_isSubscribed'["bus"] THEN << up >> ELSE << >>
            BY <1>1 DEF StartLifeCycle
      <2>2. ~m_isSubscribed["bus"] /\ DOMAIN calls = {}
            BY <1>1 DEF StartLifeCycle, OwnedInv, CallsInv
      <2>3. Subscribe("bus") /\ (attached' => lunaHandle')
            BY <2>1 DEF Regist, Subscribe
      <2>4. ~lunaHandle' => DOMAIN calls' = {}
            BY <2>1, <2>2 DEF Regist, Refused
      <2> QED  BY <2>1, <2>2, <2>3, <2>4, SubscribeOwns DEF OwnedInv, CallsInv
<1>2. CASE LoadWindow \/ LoadItem
      <2>1. phase = "load" /\ phase' = "signals" /\ UNCHANGED << made, calls, luna, status >>
            BY <1>2 DEF LoadWindow, LoadItem, bus
      <2> QED  BY <2>1 DEF OwnedInv, CallsInv, CallsAreOwned, luna
<1>3. CASE FailToLoad \/ Killed
      <2>1. /\ phase' = "ended" /\ Forgets(DOMAIN calls) /\ UNCHANGED << luna, made >>
            /\ status' = << >>
            BY <1>3 DEF FailToLoad, Killed, Dies
      <2> QED  BY <2>1, NoCallsAreOwned DEF OwnedInv, CallsInv, luna
<1>4. CASE Exec
      <2>1. phase = "signals" /\ phase' = "loop" /\ UNCHANGED << made, calls, luna, status >>
            BY <1>4 DEF Exec, bus
      <2> QED  BY <2>1 DEF OwnedInv, CallsInv, CallsAreOwned, luna
<1>5. CASE HandleConnected
      <2>1. /\ phase = "loop" /\ phase' = "loop" /\ Subscribe("app")
            /\ ~m_isSubscribed["app"] /\ UNCHANGED << lunaHandle, attached, wrappers >>
            /\ status # << >>
            BY <1>5 DEF HandleConnected, InLoop, main
      <2>2. lunaHandle /\ attached /\ wrappers = Wrappers
            BY <2>1 DEF OwnedInv, CallsInv
      <2> QED  BY <2>1, <2>2, SubscribeOwns DEF OwnedInv, CallsInv
<1>6. CASE HandleDisconnected
      <2>1. /\ phase = "loop" /\ phase' = "loop" /\ Cancel("app")
            /\ UNCHANGED << lunaHandle, attached, wrappers, made >>
            /\ status # << >>
            BY <1>6 DEF HandleDisconnected, InLoop, main
      <2>2. lunaHandle /\ attached
            BY <2>1 DEF OwnedInv, CallsInv
      <2> QED  BY <2>1, <2>2, CancelTakesTheCall DEF OwnedInv, CallsInv
<1>7. CASE HandleNoChange \/ HandleMessage
      <2>1. Elsewhere /\ phase' = phase /\ (status' # << >> => status # << >>)
            BY <1>7 DEF HandleNoChange, HandleMessage, Reload, Close, IgnoreMessage,
                        TakesMessage, Terminate, Elsewhere, main, luna
      <2> QED  BY <2>1, ElsewhereKeepsOwned DEF OwnedInv, CallsInv
<1>8. CASE Outside
      <2>1. Elsewhere /\ phase' = phase /\ (attached \/ status' = status)
            BY <1>8 DEF Outside, SamStops, SamStarts, BusRepeats, SamSends, Reports,
                        Elsewhere, main, luna
      <2> QED  BY <2>1, ElsewhereKeepsOwned DEF OwnedInv, CallsInv
<1>9. CASE Hide \/ Show \/ CloseWindow \/ Quit
      <2>1. Elsewhere /\ phase' = phase /\ status' = status
            BY <1>9 DEF Hide, Show, CloseWindow, Quit, Terminate, Elsewhere, main, luna, bus
      <2> QED  BY <2>1, ElsewhereKeepsOwned DEF OwnedInv, CallsInv
<1>10. CASE LeaveLoop
      <2>1. phase = "loop" /\ phase' = "left" /\ UNCHANGED << made, calls, luna, status >>
            BY <1>10 DEF LeaveLoop, InLoop, bus
      <2> QED  BY <2>1 DEF OwnedInv, CallsInv, CallsAreOwned, luna
<1>11. CASE DeleteApp
      <2>1. /\ phase' = "busLeft" /\ lunaHandle' = FALSE /\ attached' = FALSE
            /\ Forgets(DOMAIN calls) /\ made' = made /\ status' = << >>
            BY <1>11 DEF DeleteApp, DeleteWrapper
      <2>2. CASE m_isSubscribed["app"]
            <3>1. /\ m_token' = [m_token EXCEPT !["app"] = NoToken]
                  /\ m_isSubscribed' = [m_isSubscribed EXCEPT !["app"] = FALSE]
                  BY <1>11, <2>2 DEF DeleteApp
            <3> QED  BY <2>1, <3>1, NoCallsAreOwned DEF OwnedInv, CallsInv, NoToken
      <2>3. CASE ~m_isSubscribed["app"]
            <3>1. m_token' = m_token /\ m_isSubscribed' = m_isSubscribed
                  BY <1>11, <2>3 DEF DeleteApp
            <3> QED  BY <2>1, <3>1, NoCallsAreOwned DEF OwnedInv, CallsInv
      <2> QED  BY <2>2, <2>3
<1>12. CASE DeleteBus
      <2>1. /\ phase = "busLeft" /\ phase' = "ended" /\ Cancel("bus")
            /\ lunaHandle' = FALSE /\ attached' = FALSE /\ made' = made /\ status' = status
            BY <1>12 DEF DeleteBus, DeleteWrapper
      <2>2. /\ m_token' = [m_token EXCEPT !["bus"] = NoToken]
            /\ m_isSubscribed' = [m_isSubscribed EXCEPT !["bus"] = FALSE]
            BY <2>1 DEF Cancel
      <2>3. m_token' \in [Wrappers -> Nat] /\ m_isSubscribed' \in [Wrappers -> BOOLEAN]
            BY <2>2 DEF OwnedInv, CallsInv, NoToken
      <2>4. DOMAIN calls' = {}
            BY <2>1 DEF Cancel, OwnedInv, CallsInv
      <2> QED  BY <2>1, <2>3, <2>4 DEF OwnedInv, CallsInv, CallsAreOwned
<1>13. CASE UNCHANGED vars
      <2>1. Elsewhere /\ phase' = phase /\ status' = status
            BY <1>13 DEF vars, bus, luna, main, Elsewhere
      <2> QED  BY <2>1, ElsewhereKeepsOwned DEF OwnedInv, CallsInv
<1> QED  BY <1>1, <1>2, <1>3, <1>4, <1>5, <1>6, <1>7, <1>8, <1>9, <1>10, <1>11, <1>12,
             <1>13 DEF Next, Starting, HandleStatus, Ending

\* Every call that the bus has belongs to a wrapper that exists and that knows its
\* token: no callback reaches a wrapper that was deleted, and no call is beyond
\* cancel() (lunaservicewrapper.cpp:64-75, 111-142; applifecyclemanager.cpp:35-109).
THEOREM NoCallOutlivesItsWrapper == Spec => []CallsAreOwned
<1>1. Init => OwnedInv
      <2>1. Init => DOMAIN calls = {}
            BY DEF Init
      <2>2. Init => /\ m_token \in [Wrappers -> Nat]
                    /\ m_isSubscribed \in [Wrappers -> BOOLEAN] /\ ~m_isSubscribed["bus"]
            BY DEF Init, NoToken, Wrappers
      <2>3. Init => /\ made \in Nat /\ phase = "init" /\ lunaHandle = FALSE
                    /\ attached = FALSE /\ status = << >>
            BY DEF Init
      <2> QED  BY <2>1, <2>2, <2>3 DEF OwnedInv, CallsInv, CallsAreOwned
<1>2. OwnedInv => CallsAreOwned
      BY DEF OwnedInv
<1> QED  BY <1>1, <1>2, OwnedStep, PTL DEF Spec

LEMMA HeardStep == HeardInv /\ [Next]_vars => HeardInv'
<1> SUFFICES ASSUME HeardInv, [Next]_vars PROVE HeardInv'
    OBVIOUS
<1> USE DEF Wrappers
<1>1. CASE UNCHANGED << connections, failures, m_isSubscribed >> /\ phase' # "init"
      BY <1>1 DEF HeardInv, HeardOnce
<1>2. CASE StartLifeCycle
      <2>1. connections' = connections /\ phase = "init" /\ phase' = "load"
            BY <1>2 DEF StartLifeCycle
      <2>2. ~m_isSubscribed["app"]
            BY <2>1 DEF HeardInv
      <2>3. \/ failures' = failures
            \/ failures' = failures + 1
            BY <1>2 DEF StartLifeCycle, Regist, Subscribe, Accepted, Refused
      <2>4. /\ m_isSubscribed' \in [Wrappers -> BOOLEAN]
            /\ m_isSubscribed'["app"] = m_isSubscribed["app"]
            BY <1>2 DEF StartLifeCycle, Regist, Subscribe, Accepted, Refused, HeardInv
      <2> QED  BY <2>1, <2>2, <2>3, <2>4 DEF HeardInv, HeardOnce
<1>3. CASE HandleConnected
      <2>1. /\ connections' = connections + 1 /\ ~m_isSubscribed["app"]
            /\ phase' = "loop" /\ Subscribe("app")
            BY <1>3 DEF HandleConnected, InLoop, main
      <2>2. \/ /\ failures' = failures
               /\ m_isSubscribed' = [m_isSubscribed EXCEPT !["app"] = TRUE]
            \/ failures' = failures + 1 /\ m_isSubscribed' = m_isSubscribed
            BY <2>1 DEF Subscribe, Accepted, Refused
      <2>3. connections \in Nat /\ failures \in Nat /\ connections <= failures
            BY <2>1 DEF HeardInv, HeardOnce
      <2>4. CASE failures' = failures /\ m_isSubscribed' = [m_isSubscribed EXCEPT !["app"] = TRUE]
            <3>1. m_isSubscribed' \in [Wrappers -> BOOLEAN] /\ m_isSubscribed'["app"]
                  BY <2>4 DEF HeardInv
            <3>2. connections' \in 1 .. (failures' + 1)
                  BY <2>1, <2>3, <2>4
            <3> QED  BY <2>1, <2>3, <2>4, <3>1, <3>2 DEF HeardInv, HeardOnce
      <2>5. CASE failures' = failures + 1 /\ m_isSubscribed' = m_isSubscribed
            BY <2>1, <2>3, <2>5 DEF HeardInv, HeardOnce
      <2> QED  BY <2>2, <2>4, <2>5
<1>4. CASE HandleDisconnected
      <2>1. connections' = 0 /\ phase' = "loop" /\ failures' = failures
            BY <1>4 DEF HandleDisconnected, InLoop, main
      <2>2. m_isSubscribed' = [m_isSubscribed EXCEPT !["app"] = FALSE]
            BY <1>4 DEF HandleDisconnected, Cancel
      <2> QED  BY <2>1, <2>2 DEF HeardInv, HeardOnce
<1>5. CASE DeleteApp
      <2>1. phase' = "busLeft" /\ failures' = failures
            BY <1>5 DEF DeleteApp
      <2>2. CASE m_isSubscribed["app"]
            <3>1. /\ connections' = 0
                  /\ m_isSubscribed' = [m_isSubscribed EXCEPT !["app"] = FALSE]
                  BY <1>5, <2>2 DEF DeleteApp
            <3> QED  BY <2>1, <3>1 DEF HeardInv, HeardOnce
      <2>3. CASE ~m_isSubscribed["app"]
            BY <1>5, <2>1, <2>3 DEF DeleteApp, HeardInv, HeardOnce
      <2> QED  BY <2>2, <2>3
<1>6. CASE DeleteBus
      <2>1. connections' = connections /\ failures' = failures /\ phase' = "ended"
            BY <1>6 DEF DeleteBus
      <2>2. m_isSubscribed' = [m_isSubscribed EXCEPT !["bus"] = FALSE]
            BY <1>6 DEF DeleteBus, Cancel
      <2> QED  BY <2>1, <2>2 DEF HeardInv, HeardOnce
<1>7. CASE LoadWindow \/ LoadItem \/ FailToLoad \/ Exec \/ Killed \/ LeaveLoop
      BY <1>7, <1>1 DEF LoadWindow, LoadItem, FailToLoad, Exec, Killed, LeaveLoop, Dies, luna,
                        bus
<1>8. CASE Hide \/ Show \/ CloseWindow \/ Quit \/ Reload \/ Close \/ IgnoreMessage
      BY <1>8, <1>1 DEF Hide, Show, CloseWindow, Quit, Reload, Close, IgnoreMessage, luna, bus,
                        InLoop, TakesMessage, Terminate, main
<1>9. CASE HandleNoChange
      BY <1>9, <1>1 DEF HandleNoChange, InLoop, luna, main
<1>10. CASE Outside \/ UNCHANGED vars
      <2>1. UNCHANGED << connections, failures, m_isSubscribed, phase >>
            BY <1>10 DEF Outside, SamStops, SamStarts, BusRepeats, SamSends, vars, luna, bus,
                         main
      <2> QED  BY <2>1 DEF HeardInv, HeardOnce
<1> QED  BY <1>2, <1>3, <1>4, <1>5, <1>6, <1>7, <1>8, <1>9, <1>10
         DEF Next, Starting, HandleStatus, HandleMessage, Ending

\* A message of SAM is heard when the application is registered, and once when no
\* call was refused (applifecyclemanager.cpp:87-109).
THEOREM MessagesAreHeardOnce == Spec => []HeardOnce
<1>1. Init => HeardInv
      BY DEF Init, HeardInv, HeardOnce, Wrappers
<1>2. HeardInv => HeardOnce
      BY DEF HeardInv
<1> QED  BY <1>1, <1>2, HeardStep, PTL DEF Spec
=============================================================================
