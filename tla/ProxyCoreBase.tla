--------------------------- MODULE ProxyCoreBase ---------------------------
(***************************************************************************)
(* ProxyCoreBaseImpl on Android                                            *)
(* (lib/platforms/proxy_core_base_impl.dart), with the VPN service it      *)
(* drives through the method channel and the gRPC server.                  *)
(*                                                                         *)
(* Dart runs the code between two awaits without interruption: one action  *)
(* each.  The flows that interleave at the awaits are the calls of the app *)
(* and of the notification's Disconnect button, and the ticks of the       *)
(* VPN-status timer, which no later tick waits for.  The VPN service takes *)
(* its intents one by one on Android's main thread.  A gRPC call is one    *)
(* action here, with what server.go leaves behind of the registered cores  *)
(* and of activeCoreName; CoreServer looks inside.                         *)
(***************************************************************************)
EXTENDS Naturals

CONSTANTS
    Users,       \* the flows of the app and of the notification
    Ticks,       \* the timer callbacks that can be under way at a time
    Cores,       \* the names in coreRegistry
    DefaultCore, \* the initial activeCoreName: xray
    HalfStarting, \* the cores whose Start may fail after they came up
    MaxStarts    \* bound: how often start or simpleStart is called

ASSUME FlowAssumption == Users \cap Ticks = {}
ASSUME CoreAssumption == DefaultCore \in Cores /\ HalfStarting \subseteq Cores
ASSUME StartAssumption == MaxStarts \in Nat

Flows == Users \cup Ticks

VARIABLES
    vpn,         \* ProxyCoreVpnService: vpnState = START_VPN
    activeCore,  \* the server's activeCoreName
    running,     \* running[k]: core k is "down", or the mode it was started in
    timer,       \* _vpnStatusTimer # null
    pc,          \* pc[f]: what flow f does next
    op,          \* op[f]: the method f runs: "start" in either form, "stop", "tick"
    mode,        \* mode[f]: the mode of f's ProxyCoreConfig; which core it names
                 \* matters to startCore only, and is chosen there
    fd,          \* fd[f]: f's startVPN got the descriptor of an interface that
                 \* the system has not taken away since
    starts,      \* how many starts were called
    crossed,     \* history: the users at work whose call another's start
                 \* crossed, or whose start another's call crossed
    behind,      \* history: since the last call of a user, a start cancelled the
                 \* timer with a callback still under way
    met,         \* history: what any start ever crossed: another user's "start"
                 \* or "stop", or a callback still under way, a "tick"
    promised     \* history: what the last user call to return promised, if no
                 \* user call began and the system took no VPN away since

server == <<activeCore, running>>
call == <<op, mode, fd, crossed>>
history == <<starts, behind, met>>
vars == <<vpn, server, timer, pc, call, history, promised>>

Modes == {"proxy", "vpn"}
Pcs == {"idle", "permission", "simple", "stopVpn", "stopCore", "stopped",
        "prepare", "startVpn", "startCore", "started", "poll"}

TypeOK ==
    /\ vpn \in BOOLEAN /\ timer \in BOOLEAN
    /\ activeCore \in Cores
    /\ running \in [Cores -> {"down"} \cup Modes]
    /\ pc \in [Flows -> Pcs]
    /\ op \in [Flows -> {"none", "start", "stop", "tick"}]
    /\ mode \in [Flows -> Modes]
    /\ fd \in [Flows -> BOOLEAN]
    /\ starts \in 0..MaxStarts
    /\ crossed \subseteq Users /\ behind \in BOOLEAN
    /\ met \subseteq {"start", "stop", "tick"}
    /\ promised \in {"nothing", "stop"} \cup Modes

Init ==
    /\ vpn = FALSE /\ timer = FALSE
    /\ activeCore = DefaultCore /\ running = [k \in Cores |-> "down"]
    /\ pc = [f \in Flows |-> "idle"]
    /\ op = [f \in Flows |-> "none"]
    /\ mode = [f \in Flows |-> "proxy"]
    /\ fd = [f \in Flows |-> FALSE]
    /\ starts = 0
    /\ crossed = {} /\ behind = FALSE /\ met = {}
    /\ promised = "nothing"
-----------------------------------------------------------------------------
Goto(f, from, to) == pc[f] = from /\ pc' = [pc EXCEPT ![f] = to]

(* The users at work whose call and u's new one are not just two stops. *)
Crossed(u, method) ==
    {v \in Users \ {u} : pc[v] # "idle" /\ "start" \in {method, op[v]}}

Call(u, method, m, first) ==
    /\ Goto(u, "idle", first)
    /\ op' = [op EXCEPT ![u] = method]
    /\ mode' = [mode EXCEPT ![u] = m]
    /\ LET others == Crossed(u, method) IN
       /\ crossed' = crossed \cup others \cup {v \in {u} : others # {}}
       /\ met' = met \cup {o \in {"start", "stop"} :
                            \E v \in others : {method, op[v]} = {"start", o}}
    /\ promised' = "nothing" /\ behind' = FALSE
    /\ UNCHANGED <<vpn, server, timer, fd>>

(* The flow returns, or throws. *)
End(f, promise) ==
    /\ pc' = [pc EXCEPT ![f] = "idle"]
    /\ op' = [op EXCEPT ![f] = "none"]
    /\ mode' = [mode EXCEPT ![f] = "proxy"]
    /\ fd' = [fd EXCEPT ![f] = FALSE]
    /\ crossed' = crossed \ {f}
    /\ promised' = IF f \in Ticks THEN promised
                   ELSE IF f \in crossed THEN "nothing"
                   ELSE promise

Throw(f) == End(f, "nothing")

Start(u) ==
    /\ starts < MaxStarts /\ starts' = starts + 1
    /\ \E m \in Modes : \/ Call(u, "start", m, "permission")
                        \/ Call(u, "start", m, "simple")

Stop(u) == Call(u, "stop", "proxy", "stopVpn") /\ UNCHANGED starts

(* start: may the notification be shown? *)
RequestPermissions(f) ==
    /\ \/ Goto(f, "permission", "stopVpn") /\ UNCHANGED <<call, promised>>
       \/ pc[f] = "permission" /\ Throw(f)
    /\ UNCHANGED <<vpn, server, timer, history>>

(* simpleStart: stopAnyRunningVPN, whose dialog the user may leave open *)
StopAnyRunningVPN(f) ==
    /\ Goto(f, "simple", "stopVpn")
    /\ vpn' = FALSE
    /\ UNCHANGED <<server, timer, call, history, promised>>
-----------------------------------------------------------------------------
(* stop, which _start calls too *)

(* Mutant: stop cancels the timer before it stops anything. *)
StopVPNAndTimer(f) ==
    /\ Goto(f, "stopVpn", "stopCore")
    /\ vpn' = FALSE /\ timer' = FALSE
    /\ UNCHANGED <<server, call, history, promised>>

(* The intent is taken before the service answers f's setVpnStatus. *)
StopVPN(f) ==
    /\ Goto(f, "stopVpn", "stopCore")
    /\ vpn' = FALSE
    /\ UNCHANGED <<server, timer, call, history, promised>>

(* startService refuses an app in the background: the intent is not sent, or *)
(* it was and only the status that is asked for next throws.                 *)
StopVPNFails(f) ==
    /\ pc[f] \in {"simple", "stopVpn"}
    /\ vpn' \in {vpn, FALSE}
    /\ Throw(f)
    /\ UNCHANGED <<server, timer, history>>

(* Mutant: a server that stopped its core forgets which one was active. *)
StopForgetsActive(f) ==
    /\ Goto(f, "stopCore", "stopped")
    /\ running' = [running EXCEPT ![activeCore] = "down"]
    /\ activeCore' = "none"
    /\ UNCHANGED <<vpn, timer, call, history, promised>>

(* Only the active core is asked; when it is down, that is a success too. *)
StopCoreOk(f) ==
    /\ Goto(f, "stopCore", "stopped")
    /\ running' = [running EXCEPT ![activeCore] = "down"]
    /\ UNCHANGED <<vpn, activeCore, timer, call, history, promised>>

(* Mutant: stop goes on when stopCore failed. *)
StopCoreSwallowed(f) ==
    /\ Goto(f, "stopCore", "stopped")
    /\ UNCHANGED <<vpn, server, timer, call, history, promised>>

(* The core's Stop fails, or the request: a torn activeCoreName, no server. *)
StopCoreFails(f) ==
    /\ pc[f] = "stopCore"
    /\ Throw(f)
    /\ UNCHANGED <<vpn, server, timer, history>>

(* isRunning, onCoreStateChanged or the notification throws: what was done *)
(* stays done, and the timer is left as it is.                             *)
CallbackThrows(f) ==
    /\ pc[f] \in {"stopped", "started"}
    /\ Throw(f)
    /\ UNCHANGED <<vpn, server, timer, history>>

(* Mutant: _stopVpnStatusPolling forgets the timer without cancelling it. *)
StopKeepsPolling(f) ==
    /\ UNCHANGED timer
    /\ \/ /\ op[f] = "start"
          /\ Goto(f, "stopped", IF mode[f] = "vpn" THEN "prepare" ELSE "startCore")
          /\ behind' = (\E t \in Ticks : pc[t] # "idle")
          /\ met' = met \cup {o \in {"tick"} : behind'}
          /\ UNCHANGED <<call, promised>>
       \/ /\ op[f] # "start" /\ pc[f] = "stopped"
          /\ End(f, "stop")
          /\ UNCHANGED <<behind, met>>
    /\ UNCHANGED <<vpn, server, starts>>

(* The callback and the notification were awaited in between. *)
StopVpnStatusPolling(f) ==
    /\ timer' = FALSE
    /\ \/ /\ op[f] = "start"
          /\ Goto(f, "stopped", IF mode[f] = "vpn" THEN "prepare" ELSE "startCore")
          /\ behind' = (\E t \in Ticks : pc[t] # "idle")
          /\ met' = met \cup {o \in {"tick"} : behind'}
          /\ UNCHANGED <<call, promised>>
       \/ /\ op[f] # "start" /\ pc[f] = "stopped"
          /\ End(f, "stop")
          /\ UNCHANGED <<behind, met>>
    /\ UNCHANGED <<vpn, server, starts>>
-----------------------------------------------------------------------------
(* _start, after its stop *)

(* Nobody looks at the answer; the user may never give one. *)
PrepareVpnProfile(f) ==
    /\ Goto(f, "prepare", "startVpn")
    /\ UNCHANGED <<vpn, server, timer, call, history, promised>>

(* Established, or not and the descriptor is -1, which passes for one. *)
StartVPN(f) ==
    /\ Goto(f, "startVpn", "startCore")
    /\ vpn' \in BOOLEAN
    /\ fd' = [fd EXCEPT ![f] = vpn']
    /\ UNCHANGED <<server, timer, op, mode, crossed, history, promised>>

(* VPN_PERMISSION_REQUIRED *)
StartVPNRefused(f) ==
    /\ pc[f] = "startVpn"
    /\ Throw(f)
    /\ UNCHANGED <<vpn, server, timer, history>>

(* parcelFileId is late final: a config that was started before throws here *)
ConfigReused(f) ==
    /\ pc[f] = "startVpn"
    /\ vpn' = TRUE
    /\ Throw(f)
    /\ UNCHANGED <<server, timer, history>>

(* StartCore makes its core the active one whatever becomes of it, and looks *)
(* at that core only: another one that is up stays up.                       *)
StartCoreOk(f) ==
    /\ Goto(f, "startCore", "started")
    /\ activeCore' \in {k \in Cores : running[k] = "down"}
    /\ running' = [running EXCEPT ![activeCore'] = mode[f]]
    /\ UNCHANGED <<vpn, timer, call, history, promised>>

(* The core runs already or fails, or the request does, even before it is   *)
(* sent.  The VPN, if any, stays.                                            *)
StartCoreFails(f) ==
    /\ pc[f] = "startCore"
    /\ activeCore' \in Cores
    /\ Throw(f)
    /\ UNCHANGED <<vpn, running, timer, history>>

(* The core's Start fails late, or the engine's: the core is up. *)
StartCoreHalf(f) ==
    /\ pc[f] = "startCore"
    /\ activeCore' \in {k \in IF mode[f] = "vpn" THEN Cores ELSE HalfStarting :
                          running[k] = "down"}
    /\ running' = [running EXCEPT ![activeCore'] = mode[f]]
    /\ Throw(f)
    /\ UNCHANGED <<vpn, timer, history>>

StartVpnStatusPolling(f) ==
    /\ pc[f] = "started"
    /\ timer' = (timer \/ mode[f] = "vpn")
    /\ End(f, IF mode[f] = "proxy" \/ fd[f] THEN mode[f] ELSE "nothing")
    /\ UNCHANGED <<vpn, server, history>>
-----------------------------------------------------------------------------
(* Timer.periodic does not wait for the callback before. *)
Tick(t) ==
    /\ timer
    /\ Goto(t, "idle", "poll")
    /\ op' = [op EXCEPT ![t] = "tick"]
    /\ UNCHANGED <<vpn, server, timer, mode, fd, crossed, history, promised>>

(* setVpnStatus: the service answers, and stop comes an await later. *)
SetVpnStatus(t) ==
    /\ \/ ~vpn /\ Goto(t, "poll", "stopVpn") /\ UNCHANGED <<call, promised>>
       \/ vpn /\ pc[t] = "poll" /\ End(t, "nothing")
    /\ UNCHANGED <<vpn, server, timer, history>>

SetVpnStatusFails(t) ==
    /\ pc[t] = "poll"
    /\ Throw(t)
    /\ UNCHANGED <<vpn, server, timer, history>>

(* onRevoke, or onDestroy: another VPN app, or the system *)
Revoke ==
    /\ vpn /\ vpn' = FALSE
    /\ fd' = [f \in Flows |-> FALSE]
    /\ promised' = IF promised = "vpn" THEN "nothing" ELSE promised
    /\ UNCHANGED <<server, timer, pc, op, mode, crossed, history>>
-----------------------------------------------------------------------------
StopStep(f) ==
    \/ StopVPN(f) \/ StopVPNFails(f) \/ StopCoreOk(f) \/ StopCoreFails(f)
    \/ StopVpnStatusPolling(f)

StartStep(f) ==
    \/ RequestPermissions(f) \/ StopAnyRunningVPN(f) \/ PrepareVpnProfile(f)
    \/ StartVPN(f) \/ StartVPNRefused(f) \/ ConfigReused(f)
    \/ StartCoreOk(f) \/ StartCoreFails(f) \/ StartCoreHalf(f)
    \/ StartVpnStatusPolling(f)

Next ==
    \/ \E u \in Users : Start(u) \/ Stop(u) \/ StartStep(u)
    \/ \E f \in Flows : StopStep(f) \/ CallbackThrows(f)
    \/ \E t \in Ticks : Tick(t) \/ SetVpnStatus(t) \/ SetVpnStatusFails(t)
    \/ Revoke

Spec == Init /\ [][Next]_vars

(* Fairness.  A timer that is set fires, and what its callbacks try again   *)
(* and again succeeds in the end: to ask for the status, to send the stop    *)
(* intent, to stop the core - Dart's event loop gets to every message, and   *)
(* the rest is an assumption about service and cores.  Users owe nobody a    *)
(* call, an answer, or an end of what they began.                            *)
FairSpec ==
    /\ Spec
    /\ WF_vars(\E t \in Ticks : Tick(t))
    /\ \A t \in Ticks :
          SF_vars(SetVpnStatus(t)) /\ SF_vars(StopVPN(t)) /\ SF_vars(StopCoreOk(t))
-----------------------------------------------------------------------------
AllDown == \A k \in Cores : running[k] = "down"

(* When a stop() has returned that no start crossed, and nobody called      *)
(* anything since, the VPN and the active core are down, whatever ticks and *)
(* stops it crossed (base_impl.stop, which the timer calls too).  StopCore  *)
(* asks the active core only (server.go:119-127), so another one may still  *)
(* be up: but only after two starts crossed each other.                     *)
StopIsFinal ==
    promised = "stop" =>
        ~vpn /\ running[activeCore] = "down" /\ ("start" \notin met => AllDown)

(* The active core has lost its VPN, the timer watches, and no earlier *)
(* stop() is left that is about to cancel it.                          *)
Orphaned ==
    /\ timer /\ running[activeCore] = "vpn" /\ ~vpn
    /\ \A f \in Flows : pc[f] # "stopped"

(* "VPN status polling will auto-stop the core if VPN disconnects"          *)
(* (README.md:246): such a core is stopped, even if callbacks throw now and *)
(* then - or a start makes a core the active one that is not in that state. *)
AutoStop == Orphaned ~> running[activeCore] # "vpn" \/ vpn

(* "Calling start() with a new configuration or mode will act as a restart  *)
(* ... This ensures a clean start" (README.md:212-215): what start() has    *)
(* returned with stays until the app, the user or the system ends it.       *)
RestartIsClean ==
    promised \in Modes => running[activeCore] = promised /\ (promised = "vpn" => vpn)

(* A callback under way when start() cancelled the timer is all that can     *)
(* undo it: without one, what start() returned with stays, the timer watches *)
(* a core in VPN mode, no timer is left that would stop one in proxy mode,   *)
(* whose VPN is down, and unless starts crossed before no second core is up  *)
(* beside it (base_impl.dart:89-115, 164-175).                               *)
OnlyStaleTicksUndo ==
    promised \in Modes /\ ~behind =>
        /\ running[activeCore] = promised /\ (promised = "vpn" => vpn)
        /\ timer = (promised = "vpn")
        /\ "start" \notin met => \A k \in Cores \ {activeCore} : running[k] = "down"
=============================================================================
