------------------------------ MODULE WsStatus ------------------------------
(***************************************************************************)
(* The live status of the dashboards: the hook useWebSocket of a browser   *)
(* (packages/dashboard/src/hooks/useWebSocket.ts), the websocket endpoint  *)
(* of bench-web (packages/web/src/routes/ws-status.ts) with its limits,    *)
(* and the connection to benchd that each websocket gets of its own.       *)
(* Validation, upgrade and onOpen of one request are one step: nothing of  *)
(* another request runs in between.                                        *)
(*                                                                         *)
(* The hook's effect may be run anew at any time after it was left: its    *)
(* parameter "enabled" is the caller's, and React's StrictMode (main.tsx)  *)
(* runs each effect twice in development.                                  *)
(***************************************************************************)
EXTENDS Integers, FiniteSets

CONSTANTS
  Browsers,      \* dashboards
  Ip,            \* [Browsers -> the address their requests come from]
  Slots,         \* websockets: an object of the browser, its request, its client
  MaxTotal,      \* MAX_TOTAL_CONNECTIONS
  MaxPerIp,      \* MAX_PER_IP_CONNECTIONS
  MaxDrops,      \* bound: websockets lost, and deaths of benchd
  MaxSignIns     \* bound: how often the effect connects, over all dashboards

NoSlot == "no slot"

ASSUME WsAssumption ==
  /\ Browsers # {} /\ IsFiniteSet(Slots) /\ NoSlot \notin Slots
  /\ {MaxTotal, MaxPerIp, MaxDrops, MaxSignIns} \subseteq Nat

Ips == {Ip[b] : b \in Browsers}

VARIABLES
  enabled,    \* [browser -> the hook is enabled]
  session,    \* [browser -> its cookie holds a token that is good]
  ref,        \* [browser -> wsRef, or no slot]
  armed,      \* [browser -> the timer of reconnectTimerRef runs]
  stray,      \* [browser -> timers that run and that the ref has lost]
  up,         \* websockets neither side has closed, as far as the browser knows
  closing,    \* websockets that are closed, and whose onclose is to come
  openedBy,   \* [slot -> the browser that opened it]
  asked,      \* websockets whose request bench-web has not answered
  counted,    \* websockets between onOpen and onClose
  total, byIp,   \* activeConnections
  feed,       \* [slot -> the state of its BenchdClient]
  early,      \* websockets that closed before their client had connected
  drops, signIns,
  rejoined    \* history: dashboards whose effect connected before an old onclose

hookVars == <<enabled, session, ref, armed, stray, signIns, rejoined>>
serverVars == <<counted, total, byIp, feed, early>>
wsVars == <<hookVars, up, closing, openedBy, asked, serverVars, drops>>

\* The type invariant: the hooks, the counters and the clients of benchd.
WsTypeOK ==
  /\ enabled \in [Browsers -> BOOLEAN] /\ session \in [Browsers -> BOOLEAN]
  /\ ref \in [Browsers -> Slots \cup {NoSlot}]
  /\ armed \in [Browsers -> BOOLEAN] /\ stray \in [Browsers -> Nat]
  /\ openedBy \in [Slots -> Browsers]
  /\ up \subseteq Slots /\ closing \subseteq Slots \ up
  /\ asked \subseteq Slots \ counted /\ counted \subseteq Slots
  /\ total \in 0..MaxTotal
  /\ byIp \in [Ips -> 0..MaxPerIp]
  /\ feed \in [Slots -> {"none", "connecting", "asking", "live", "ended"}]
  /\ early \subseteq Slots \ counted
  /\ drops \in 0..MaxDrops /\ signIns \in 0..MaxSignIns
  /\ rejoined \subseteq Browsers

WsInit ==
  /\ enabled = [b \in Browsers |-> FALSE] /\ session = [b \in Browsers |-> FALSE]
  /\ ref = [b \in Browsers |-> NoSlot]
  /\ armed = [b \in Browsers |-> FALSE] /\ stray = [b \in Browsers |-> 0]
  /\ up = {} /\ closing = {} /\ asked = {}
  /\ openedBy = [s \in Slots |-> CHOOSE b \in Browsers : TRUE]
  /\ counted = {} /\ total = 0 /\ byIp = [i \in Ips |-> 0]
  /\ feed = [s \in Slots |-> "none"] /\ early = {} /\ drops = 0
  /\ signIns = 0 /\ rejoined = {}

-----------------------------------------------------------------------------
(* useWebSocket.                                                           *)

\* Slots without a websocket, a request or a client of an earlier one.
FreeSlots ==
  {s \in Slots \ (up \cup closing \cup asked \cup counted) : feed[s] \in {"none", "ended"}}

\* connect: a new websocket, whatever became of the one before.
Connect(b) ==
  /\ FreeSlots # {}
  /\ LET s == CHOOSE s \in FreeSlots : TRUE
     IN /\ up' = up \cup {s} /\ asked' = asked \cup {s}
        /\ openedBy' = [openedBy EXCEPT ![s] = b]
        /\ ref' = [ref EXCEPT ![b] = s]
  /\ UNCHANGED <<closing, serverVars, drops>>

\* The effect, when the hook gets enabled: a person has signed in, or the login
\* that the browser has kept is taken for good until the server says otherwise.
SignIn(b) ==
  /\ ~enabled[b] /\ signIns < MaxSignIns
  /\ Connect(b)
  /\ signIns' = signIns + 1
  /\ enabled' = [enabled EXCEPT ![b] = TRUE]
  /\ \E good \in BOOLEAN : session' = [session EXCEPT ![b] = good]
  /\ rejoined' = IF \E s \in closing : openedBy[s] = b THEN rejoined \cup {b} ELSE rejoined
  /\ UNCHANGED <<armed, stray>>

\* A timer of three seconds fires.  One that the ref has lost is not cleared by
\* anybody, and connects a user who has signed out, too.
Dial(b) ==
  /\ \/ armed[b] /\ armed' = [armed EXCEPT ![b] = FALSE] /\ UNCHANGED stray
     \/ stray[b] > 0 /\ stray' = [stray EXCEPT ![b] = @ - 1] /\ UNCHANGED armed
  /\ Connect(b)
  /\ UNCHANGED <<enabled, session, signIns, rejoined>>

\* Fault: connect looks at enabled as it was when the hook was first run.
EnabledAtMount(b) == FALSE

\* onclose looks at enabledRef.
Rearms(b) == enabled[b]

\* onclose forgets the websocket of now, its own or not, and arms the timer; a
\* timer that was armed already is lost sight of, and fires all the same.
HearClose(s) ==
  LET b == openedBy[s] IN
  /\ s \in closing
  /\ closing' = closing \ {s}
  /\ ref' = [ref EXCEPT ![b] = NoSlot]
  /\ armed' = [armed EXCEPT ![b] = @ \/ Rearms(b)]
  /\ stray' = [stray EXCEPT ![b] = IF armed[b] /\ Rearms(b) THEN @ + 1 ELSE @]
  /\ UNCHANGED <<enabled, session, signIns, rejoined, up, openedBy, asked, serverVars, drops>>

\* Websockets that are closed: onclose comes later, as does the server's notice.
Shut(ss) == up' = up \ ss /\ closing' = closing \cup (ss \cap up)

\* The connection is lost.
Drop(s) ==
  /\ s \in up /\ drops < MaxDrops
  /\ drops' = drops + 1
  /\ Shut({s})
  /\ UNCHANGED <<hookVars, openedBy, asked, serverVars>>

\* Fault: the effect clears its timer only.
NoWebsocket(b) == {}

\* The websocket the effect closes: the one of wsRef, if it is not null.
Current(b) == {ref[b]} \ {NoSlot}

\* The hook is disabled: the cookie was refused, or the user has logged out.
SignOut(b) ==
  /\ enabled[b]
  /\ enabled' = [enabled EXCEPT ![b] = FALSE]
  /\ \E good \in {FALSE, session[b]} : session' = [session EXCEPT ![b] = good]
  /\ armed' = [armed EXCEPT ![b] = FALSE]
  /\ ref' = [ref EXCEPT ![b] = NoSlot]
  /\ Shut(Current(b))
  /\ UNCHANGED <<stray, signIns, rejoined, openedBy, asked, serverVars, drops>>

\* A session expires, or is ended in another tab: no hook hears of it.
SessionEnds(b) ==
  /\ session[b]
  /\ session' = [session EXCEPT ![b] = FALSE]
  /\ UNCHANGED <<enabled, ref, armed, stray, signIns, rejoined, up, closing, openedBy, asked,
                 serverVars, drops>>

-----------------------------------------------------------------------------
(* The endpoint.                                                           *)

\* Fault: an address is counted, but nobody looks at the count.
CountOnly(b) == total < MaxTotal

\* validateWsConnection, after the token was found good.
Admits(b) == total < MaxTotal /\ byIp[Ip[b]] < MaxPerIp

\* The upgrade and onOpen: the websocket is counted and its client connects.
Upgrade(s) ==
  LET b == openedBy[s] IN
  /\ s \in asked /\ session[b] /\ Admits(b)
  /\ asked' = asked \ {s}
  /\ counted' = counted \cup {s}
  /\ total' = total + 1
  /\ byIp' = [byIp EXCEPT ![Ip[b]] = @ + 1]
  /\ feed' = [feed EXCEPT ![s] = "connecting"]
  /\ UNCHANGED <<hookVars, up, closing, openedBy, early, drops>>

\* 401 without a session that is good, 429 at a limit: for the hook either is a
\* websocket that has closed.
Refuse(s) ==
  LET b == openedBy[s] IN
  /\ s \in asked /\ ~(session[b] /\ Admits(b))
  /\ asked' = asked \ {s}
  /\ Shut({s})
  /\ UNCHANGED <<hookVars, openedBy, serverVars, drops>>

\* Fault: the client of a websocket that closed goes on.
LeaveClient(s) == UNCHANGED feed

\* onClose ends the client; one that has not connected yet has no socket to end.
EndClient(s) ==
  feed' = [feed EXCEPT ![s] = IF @ \in {"asking", "live"} THEN "ended" ELSE @]

\* Fault: the websocket is not taken off the count of its address.
ForgetIp(s) == UNCHANGED byIp

Uncount(s) == byIp' = [byIp EXCEPT ![Ip[openedBy[s]]] = @ - 1]

\* onClose, after the browser left or bench-web closed the websocket.
OnClose(s) ==
  /\ s \in counted \ up
  /\ counted' = counted \ {s}
  /\ total' = total - 1
  /\ Uncount(s)
  /\ EndClient(s)
  /\ early' = IF feed[s] = "connecting" THEN early \cup {s} ELSE early
  /\ UNCHANGED <<hookVars, up, closing, openedBy, asked, drops>>

\* connect resolves: the thermal history is asked for, also for a websocket
\* that is gone by now.
FeedConnects(s) ==
  /\ feed[s] = "connecting"
  /\ feed' = [feed EXCEPT ![s] = "asking"]
  /\ UNCHANGED <<hookVars, up, closing, openedBy, asked, counted, total, byIp, early, drops>>

\* connect rejects: an error is sent and the websocket closed.
FeedFails(s) ==
  /\ feed[s] = "connecting" /\ drops < MaxDrops
  /\ drops' = drops + 1
  /\ feed' = [feed EXCEPT ![s] = "ended"]
  /\ early' = early \ {s}
  /\ Shut({s})
  /\ UNCHANGED <<hookVars, openedBy, asked, counted, total, byIp>>

\* The history has come, or has not, and the updates are subscribed to.
FeedSubscribes(s) ==
  /\ feed[s] = "asking"
  /\ feed' = [feed EXCEPT ![s] = "live"]
  /\ UNCHANGED <<hookVars, up, closing, openedBy, asked, counted, total, byIp, early, drops>>

\* benchd dies: every client ends; its websocket stays open and hears nothing.
BenchdDies ==
  /\ drops < MaxDrops
  /\ \E s \in Slots : feed[s] \in {"asking", "live"}
  /\ drops' = drops + 1
  /\ feed' = [s \in Slots |-> IF feed[s] \in {"asking", "live"} THEN "ended" ELSE feed[s]]
  /\ early' = {s \in early : feed[s] = "connecting"}
  /\ UNCHANGED <<hookVars, up, closing, openedBy, asked, counted, total, byIp>>

-----------------------------------------------------------------------------

ServerStep ==
  \E s \in Slots : Refuse(s) \/ Upgrade(s) \/ OnClose(s) \/ FeedConnects(s) \/ FeedSubscribes(s)

WsNext ==
  \/ ServerStep
  \/ \E b \in Browsers : SignIn(b) \/ Dial(b) \/ SignOut(b) \/ SessionEnds(b)
  \/ \E s \in Slots : HearClose(s) \/ Drop(s) \/ FeedFails(s)
  \/ BenchdDies

\* bench-web answers and handles what happens to its websockets, a browser hears
\* of those that closed, and its timers fire.
WsSpec ==
  /\ WsInit /\ [][WsNext]_wsVars
  /\ \A s \in Slots :
       /\ WF_wsVars(Refuse(s) \/ Upgrade(s)) /\ WF_wsVars(HearClose(s))
       /\ WF_wsVars(OnClose(s) \/ FeedConnects(s) \/ FeedSubscribes(s))
  /\ \A b \in Browsers : WF_wsVars(Dial(b))

-----------------------------------------------------------------------------

\* The counters are the websockets that are open, whatever closes when: none
\* is counted twice or left behind, so that the limits neither lock users out
\* nor let more in.
CountsMatch ==
  /\ total = Cardinality(counted)
  /\ \A i \in Ips : byIp[i] = Cardinality({s \in counted : Ip[openedBy[s]] = i})

\* A client of benchd lives as long as its websocket, unless the websocket
\* closed before the client had connected: then nobody ends it any more.
NoStrayFeed ==
  \A s \in Slots : feed[s] \in {"asking", "live"} => s \in counted \cup early

\* A dashboard has one websocket at the most, and none once it is disabled,
\* however often it is refused, loses one or is enabled again: unless its effect
\* has connected before an earlier websocket's onclose.  That one forgets the new
\* websocket and arms a timer beside it.
WebsocketIsSole ==
  \A b \in Browsers \ rejoined : \A s, t \in up :
    openedBy[s] = b /\ openedBy[t] = b => s = t /\ enabled[b]

\* Every websocket is counted while it is open and has its own client of
\* benchd, and nothing else is counted or subscribed; a dashboard has but one.
SocketsAccounted == WsTypeOK /\ CountsMatch /\ NoStrayFeed /\ WebsocketIsSole

Connected(b) == \E s \in up \cap counted : openedBy[s] = b

\* A dashboard that stays enabled gets its websocket, and gets one again after
\* each that was refused, lost or closed by a client that failed, if its session
\* lasts and there comes to be room for it.  Where as many others as the limit
\* allows stay connected from its address, it is refused for ever.
DashboardReturns ==
  \A b \in Browsers :
    <>[](enabled[b] /\ session[b] /\ (Admits(b) \/ Connected(b))) => []<>Connected(b)
=============================================================================
