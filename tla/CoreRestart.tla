---------------------------- MODULE CoreRestart ----------------------------
(***************************************************************************)
(* CoreServer as one Dart client drives it (proxy_core_base_impl.dart,     *)
(* lines 69-115): start() first calls stop() and goes on to startCore only *)
(* if that returned.  Stops overlap, since the app, the notification and   *)
(* each callback of the VPN-status timer call stop().  That nothing but    *)
(* queries is beside a startCore (Awaited, NoStart) is an assumption about *)
(* the app, not code: theorem StartsAreAlone of ProxyCoreBaseProofs says   *)
(* when the client keeps to it, namely as long as no start ever crossed    *)
(* another user's call or a timer callback still under way.  Once one did, *)
(* a core that is not the active one may be up for good.                   *)
(***************************************************************************)
EXTENDS CoreServer

VARIABLES
    stopped,   \* history: a stopCore returned, and no start began since
    sawDown    \* history: the handlers of queries during which, at some
               \* moment, no core was up

restartVars == <<vars, stopped, sawDown>>

RestartInit == Init /\ stopped = FALSE /\ sawDown = {}

Awaited == \A h \in Handlers : pc[h] \in {"idle"} \cup AskPcs

(* Assumed: nothing in the client keeps another flow's stop away. *)
NoStart == \A h \in Handlers : pc[h] \notin StartPcs

AllDown == \A k \in Cores : running[k] = Off

Watch == sawDown' = {h \in Handlers : pc'[h] \in AskPcs /\ (h \in sawDown \/ AllDown')}

(* Mutant: start() trusts the app to have called stop(). *)
ClientStartsOver(h) == Awaited /\ StartCore(h) /\ stopped' = FALSE

(* Mutant: start() overtakes the stop of a timer callback. *)
ClientStartsBeside(h) == NoStart /\ stopped /\ StartCore(h) /\ stopped' = FALSE

(* _start, lines 91-94: startCore comes after a stop() that did not throw *)
ClientStarts(h) == Awaited /\ stopped /\ StartCore(h) /\ stopped' = FALSE

(* stop, line 107: the app's, the notification's or a timer callback's *)
ClientStops(h) == NoStart /\ StopCore(h) /\ UNCHANGED stopped

ClientAsks(h) == Ask(h) /\ UNCHANGED stopped

ServerStarts(h) == StartStep(h) /\ UNCHANGED stopped
ServerStops(h) ==
    StopStep(h) /\ stopped' = (stopped \/ (pc'[h] = "idle" /\ reply'[h] = "ok"))
ServerAnswers(h) == AskStep(h) /\ UNCHANGED stopped

RestartNext ==
    /\ \E h \in Handlers :
        \/ ClientStarts(h) \/ ClientStops(h) \/ ClientAsks(h)
        \/ ServerStarts(h) \/ ServerStops(h) \/ ServerAnswers(h)
    /\ Watch

RestartSpec == RestartInit /\ [][RestartNext]_restartVars
-----------------------------------------------------------------------------
(* stopCore, when it succeeds, leaves nothing behind: no core that runs and, *)
(* once the other stops have returned too, no engine on a descriptor Android *)
(* is about to close - although it looks at the active core only, and skips  *)
(* the engine when that is down, as when another stop has just stopped it.   *)
StopLeavesNothing == stopped => AllDown /\ (Awaited => tun = Off)

(* No second core is ever up, whatever starts failed on the way. *)
OneCore == \A k \in Cores : running[k] # Off => k = activeCore

(* The engine that runs carries the packets of the core that runs: its      *)
(* descriptor and its port are those of that core's own request.            *)
TunServesTheCore == Awaited /\ tun # Off => running[activeCore] = tun

(* A startCore that succeeds has the engine on its link in VPN mode, and no *)
(* engine in proxy mode: the mode it reads back from the global is its own. *)
StartDelivers ==
    [][\A h \in Handlers :
         pc[h] \in StartPcs /\ pc'[h] = "idle" /\ reply'[h] = "ok" =>
            /\ running'[core[h]] = req[h].link
            /\ tun' = IF req[h].vpn THEN req[h].link ELSE Off]_restartVars

(* IsCoreRunning and FetchLogs look at the core that was active when they    *)
(* began, and a restart may select another before they ask it               *)
(* (server.go:142-182).  They still tell the truth: a core that answers as   *)
(* running is up, and "not running" was so at some moment of the call.       *)
AnswersAreTrue ==
    [][\A h \in Handlers :
         pc[h] \in {"isRunning", "logs"} /\ pc'[h] = "idle" =>
            IF reply'[h] \in {"yes", "ok"} THEN ~AllDown ELSE h \in sawDown]_restartVars

(* The proxy as that client sees it.  A start counts when it returns, *)
(* a stop from CoreStop on.                                                  *)
Serving ==
    IF \E h \in Handlers : pc[h] \in {"started", "isStarted", "startTun"} THEN {}
    ELSE {<<k, running[k]>> : k \in {j \in Cores : running[j] # Off}}

Engine == IF \E h \in Handlers : pc[h] \in {"stopped", "stopTun"} THEN Off ELSE tun

CallOf(h) ==
    CASE pc[h] \in StartPcs -> "start"
      [] pc[h] \in {"active", "isUp", "stop"} -> "stop"
      [] pc[h] \in {"stopped", "stopTun"} -> "down"
      [] pc[h] \in AskPcs -> "query"
      [] OTHER -> "idle"

Inside == [h \in Handlers |-> CallOf(h)]

Proxy == INSTANCE ProxyService WITH
    Callers <- Handlers,
    serving <- Serving, engine <- Engine, call <- Inside, wanted <- req, ret <- reply

(* To a client whose starts have nothing beside them, registry, active core, *)
(* mode and the parts that start and stop one after the other are one proxy, *)
(* however many of its stops overlap.                                        *)
ImplementsProxy == Proxy!Spec
=============================================================================
