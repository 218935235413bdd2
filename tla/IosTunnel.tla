----------------------------- MODULE IosTunnel -----------------------------
(***************************************************************************)
(* The iOS side: ProxyCoreIosVpnImpl                                       *)
(* (lib/platforms/proxy_core_ios_vpn_impl.dart), the plugin and VpnService *)
(* it calls (ios/Classes), and the packet tunnel, a process of its own     *)
(* (PacketTunnelProvider.sample.swift).  The app's calls interleave at     *)
(* their awaits, with the messages that unordered Tasks carry to the       *)
(* tunnel and with the system's session, which connects and disconnects in *)
(* its own time.  Network Extension is modelled as the code uses it.       *)
(***************************************************************************)
EXTENDS Naturals

CONSTANTS
    Users,     \* the calls of the app that can be under way at a time
    MaxStarts  \* bound: how often start or simpleStart is called

ASSUME StartAssumption == MaxStarts \in Nat

VARIABLES
    saved,     \* the VPN configuration is in the system's preferences
    manager,   \* VpnService._vpnManager # nil
    status,    \* manager.connection.status
    stopAsked, \* stopVPNTunnel was called and the session has yet to follow
    asked,     \* the options of the startVPNTunnel calls it has yet to follow
    options,   \* startVPNTunnel's: the config of a normal start, 0 in simple mode
    provider,  \* the tunnel's process: "off", applying its "settings", or "up"
    core,      \* the config the core in the tunnel runs, 0 when it is down
    stops,     \* the start calls whose SIMPLE_STOP_CORE is still under way
    pc,        \* pc[u]: what call u does next; "reply": its SIMPLE_START_CORE is
               \* under way
    config,    \* config[u]: which start call u is, 0 for any other call
    starts,    \* how many starts were called
    promised,  \* history: what the last call to return promised, if nobody called
               \* since: {c} for config c as long as its tunnel runs, {0} for a
               \* stop, or {}
    pending,   \* history: when that stop looked at the session a start was under
               \* way, or one that had returned was yet to be followed
    spoiled    \* history: what came in the way of the last call's update, if
               \* anything: it "crossed" another call, its SIMPLE_STOP_CORE or an
               \* earlier one was "late", a message or the core "failed", the tunnel
               \* started its "own" config

session == <<status, stopAsked, asked, options>>
tunnel == <<provider, core>>
history == <<starts, promised, pending, spoiled>>
vars == <<saved, manager, session, tunnel, stops, pc, config, history>>

Configs == 1..MaxStarts
StartPcs == {"askStatus", "prepare", "startVPN", "sleep"}
SimplePcs == {"simpleStop", "askAgain", "prepareSimple", "simpleStartVpn", "sleepSimple",
              "simpleStart", "reply"}
PreparedPcs == {"startVPN", "sleep", "simpleStartVpn", "sleepSimple", "simpleStart", "reply"}

TypeOK ==
    /\ saved \in BOOLEAN /\ manager \in BOOLEAN /\ stopAsked \in BOOLEAN
    /\ status \in {"disconnected", "connecting", "connected", "reasserting", "disconnecting"}
    /\ asked \subseteq 0..MaxStarts /\ options \in 0..MaxStarts
    /\ provider \in {"off", "settings", "up"}
    /\ core \in 0..MaxStarts
    /\ stops \subseteq Configs
    /\ pc \in [Users -> {"idle", "stop"} \cup StartPcs \cup SimplePcs]
    /\ config \in [Users -> 0..MaxStarts]
    /\ starts \in 0..MaxStarts
    /\ promised \subseteq 0..MaxStarts /\ pending \in BOOLEAN
    /\ spoiled \subseteq {"crossed", "late", "failed", "own"}
    /\ \A u \in Users : pc[u] \in PreparedPcs => manager

Init ==
    /\ saved \in BOOLEAN /\ manager = FALSE
    /\ status = "disconnected" /\ stopAsked = FALSE /\ asked = {} /\ options = 0
    /\ provider = "off" /\ core = 0
    /\ stops = {}
    /\ pc = [u \in Users |-> "idle"]
    /\ config = [u \in Users |-> 0]
    /\ starts = 0
    /\ promised = {} /\ pending = FALSE /\ spoiled = {}
-----------------------------------------------------------------------------
(* Calls of the app *)

Goto(u, from, to) == pc[u] = from /\ pc' = [pc EXCEPT ![u] = to]

Begin(u, first, c) ==
    /\ Goto(u, "idle", first)
    /\ config' = [config EXCEPT ![u] = c]
    /\ promised' = {}
    /\ spoiled' = {s \in {"crossed"} : \E v \in Users \ {u} : pc[v] # "idle"}
    /\ UNCHANGED <<saved, manager, session, tunnel, stops, pending>>

(* The call returns, or throws. *)
Return(u, promise) ==
    /\ pc' = [pc EXCEPT ![u] = "idle"]
    /\ config' = [config EXCEPT ![u] = 0]
    /\ promised' = promise
    /\ UNCHANGED starts

(* start, and simpleStart called by the app *)
Start(u) ==
    /\ starts < MaxStarts /\ starts' = starts + 1
    /\ \/ Begin(u, "askStatus", starts + 1)
       \/ Begin(u, "simpleStop", starts + 1)

Stop(u) == Begin(u, "stop", 0) /\ UNCHANGED starts

(* initialize, and onListen and appDidBecomeActive, which load it too *)
LoadManager ==
    /\ saved /\ ~manager /\ manager' = TRUE
    /\ UNCHANGED <<saved, session, tunnel, stops, pc, config, history>>

(* getTunnelStatus loads the manager when there is none, and may fail to. *)
GetTunnelStatus(u) ==
    /\ manager' \in {manager, manager \/ saved}
    /\ LET connected == manager' /\ status = "connected" IN
       \/ Goto(u, "askStatus", IF connected THEN "simpleStop" ELSE "prepare")
       \/ Goto(u, "askAgain", IF connected THEN "simpleStart" ELSE "prepareSimple")
    /\ UNCHANGED <<saved, session, tunnel, stops, config, history>>

(* Mutant: prepareVPN saves the configuration and keeps no manager of it. *)
PrepareUnkept(u) ==
    /\ Goto(u, "prepare", "startVPN") \/ Goto(u, "prepareSimple", "simpleStartVpn")
    /\ saved' = TRUE
    /\ UNCHANGED <<manager, session, tunnel, stops, config, history>>

(* prepareVPN: the user may have to allow the configuration *)
Prepare(u) ==
    /\ Goto(u, "prepare", "startVPN") \/ Goto(u, "prepareSimple", "simpleStartVpn")
    /\ saved' = TRUE /\ manager' = TRUE
    /\ UNCHANGED <<session, tunnel, stops, config, history>>

(* Denied or failed, before or after _vpnManager was set. *)
PrepareFails(u) ==
    /\ pc[u] \in {"prepare", "prepareSimple"}
    /\ manager' \in {manager, TRUE}
    /\ Return(u, {})
    /\ UNCHANGED <<saved, session, tunnel, stops, pending, spoiled>>

(* VpnService.startVPN until it sleeps, lines 205-219 *)
StopExisting(u) ==
    /\ Goto(u, "startVPN", "sleep") \/ Goto(u, "simpleStartVpn", "sleepSimple")
    /\ manager
    /\ saved' = TRUE
    /\ stopAsked' = (stopAsked \/ status \in {"connecting", "connected"})
    /\ UNCHANGED <<manager, status, asked, options, tunnel, stops, config, history>>

(* The session is asked to start with these options; one that is not down *)
(* ignores it.                                                            *)
AskToStart(c) ==
    asked' = IF status = "disconnected" THEN asked \cup {c} ELSE asked

StartVPNTunnel(u) ==
    /\ \/ pc[u] = "sleep" /\ AskToStart(config[u]) /\ Return(u, {})
       \/ /\ Goto(u, "sleepSimple", "simpleStart")
          /\ AskToStart(0)
          /\ UNCHANGED <<config, starts, promised>>
    /\ UNCHANGED <<saved, manager, status, stopAsked, options, tunnel, stops, pending, spoiled>>

(* No manager, or Network Extension reports an error. *)
StartVPNFails(u) ==
    /\ pc[u] \in {"startVPN", "sleep", "simpleStartVpn", "sleepSimple"}
    /\ Return(u, {})
    /\ UNCHANGED <<saved, manager, session, tunnel, stops, pending, spoiled>>

Pending == asked # {} \/ \E v \in Users : config[v] # 0

(* Mutant: stopVpnTunnel looks for the states startVPN looks for. *)
StopUnlessReasserting(u) ==
    /\ pc[u] = "stop" /\ manager
    /\ stopAsked' = (stopAsked \/ status \in {"connecting", "connected"})
    /\ pending' = Pending
    /\ Return(u, {0})
    /\ UNCHANGED <<saved, manager, status, asked, options, tunnel, stops, spoiled>>

(* stopVPN: a session that looks disconnected passes for stopped. *)
StopVPN(u) ==
    /\ pc[u] = "stop" /\ manager
    /\ stopAsked' = (stopAsked \/ status \in {"connecting", "connected", "reasserting"})
    /\ pending' = Pending
    /\ Return(u, {0})
    /\ UNCHANGED <<saved, manager, status, asked, options, tunnel, stops, spoiled>>

(* managerNotInitialized, or the preferences cannot be loaded *)
StopFails(u) ==
    /\ pc[u] = "stop"
    /\ Return(u, {})
    /\ UNCHANGED <<saved, manager, session, tunnel, stops, pending, spoiled>>
-----------------------------------------------------------------------------
(* Messages to the tunnel *)

(* Mutant: the stop is answered and never sent. *)
SimpleStopUnsent(u) ==
    /\ Goto(u, "simpleStop", "askAgain")
    /\ UNCHANGED <<saved, manager, session, tunnel, stops, config, history>>

(* handleSimpleStop answers before the message is on its way. *)
SimpleStop(u) ==
    /\ Goto(u, "simpleStop", "askAgain")
    /\ stops' = stops \cup {config[u]}
    /\ UNCHANGED <<saved, manager, session, tunnel, config, history>>

SimpleStart(u) ==
    /\ Goto(u, "simpleStart", "reply")
    /\ UNCHANGED <<saved, manager, session, tunnel, stops, config, history>>

Spoil(what) == spoiled' = spoiled \cup what

(* Whatever StartCore says, the answer is "true".  A core that is up stays, *)
(* of the same name or not: port 2080 is taken.                             *)
DeliverStart(u) ==
    /\ pc[u] = "reply" /\ manager /\ provider # "off"
    /\ core' \in IF core = 0 THEN {0, config[u]} ELSE {core}
    /\ Spoil({s \in {"failed"} : core' = 0} \cup {s \in {"late"} : stops # {}})
    /\ Return(u, {config[u]})
    /\ UNCHANGED <<saved, manager, session, provider, stops, pending>>

(* StopCore may fail, or ask a core other than the one that runs (CoreServer, *)
(* StopCoreStops); nobody in the tunnel looks at its answer.                  *)
DeliverStop(c) ==
    /\ c \in stops
    /\ manager /\ provider # "off"
    /\ stops' = stops \ {c}
    /\ core' \in {0, core}
    /\ Spoil({s \in {"failed"} : core' # 0})
    /\ UNCHANGED <<saved, manager, session, provider, pc, config, starts, promised, pending>>

(* Mutant: a message that cannot be sent is dropped, its completion too. *)
StartDropped(u) ==
    /\ pc[u] = "reply"
    /\ UNCHANGED vars

(* completion(nil): simpleStart returns as if the core had been started *)
StartUndelivered(u) ==
    /\ pc[u] = "reply"
    /\ Return(u, {})
    /\ UNCHANGED <<saved, manager, session, tunnel, stops, pending, spoiled>>

StopUndelivered(c) ==
    /\ c \in stops
    /\ stops' = stops \ {c}
    /\ Spoil({"failed"})
    /\ UNCHANGED <<saved, manager, session, tunnel, pc, config, starts, promised, pending>>
-----------------------------------------------------------------------------
(* The session and the tunnel *)

(* The session follows startVPNTunnel, in its own time. *)
StartSession ==
    /\ status = "disconnected" /\ options' \in asked
    /\ status' = "connecting" /\ asked' = {}
    /\ UNCHANGED <<saved, manager, stopAsked, tunnel, stops, pc, config, history>>

startTunnel ==
    /\ status = "connecting" /\ provider = "off"
    /\ provider' = "settings"
    /\ UNCHANGED <<saved, manager, session, core, stops, pc, config, history>>

(* The settings are applied; in normal mode the core is started, or is not, *)
(* and the tunnel comes up all the same.                                    *)
TunnelStarted ==
    /\ provider = "settings" /\ provider' = "up"
    /\ status' = IF status = "connecting" THEN "connected" ELSE status
    /\ core' \in IF core = 0 THEN {0, options} ELSE {core}
    /\ Spoil({s \in {"own"} : core' # core})
    /\ UNCHANGED <<saved, manager, stopAsked, asked, options, stops, pc, config,
                   starts, promised, pending>>

(* The network of a session changes under it. *)
Reassert ==
    /\ \/ status = "connected" /\ status' = "reasserting"
       \/ status = "reasserting" /\ status' = "connected"
    /\ UNCHANGED <<saved, manager, stopAsked, asked, options, tunnel, stops, pc, config, history>>

(* The session is over, and the tunnel's process with it. *)
TunnelGone ==
    /\ status' = "disconnected" /\ stopAsked' = FALSE /\ options' = 0
    /\ provider' = "off"
    /\ promised' = promised \cap {0}
    /\ UNCHANGED <<saved, manager, asked, stops, pc, config, starts, pending, spoiled>>

(* Settings refused, a crash, or the user's switch in the system settings. *)
TunnelDies ==
    /\ status \in {"connecting", "connected", "reasserting"}
    /\ TunnelGone /\ core' = 0

Disconnect ==
    /\ stopAsked /\ status \in {"connecting", "connected", "reasserting"}
    /\ stopAsked' = FALSE /\ status' = "disconnecting"
    /\ UNCHANGED <<saved, manager, asked, options, tunnel, stops, pc, config, history>>

(* Mutant: stopTunnel ends the socks tunnel only. *)
StopSocksOnly == status = "disconnecting" /\ TunnelGone /\ UNCHANGED core

stopTunnel == status = "disconnecting" /\ TunnelGone /\ core' = 0

(* The app is killed; the tunnel is not, nor what the preferences hold. *)
AppDies ==
    /\ manager /\ manager' = FALSE
    /\ stops' = {}
    /\ pc' = [u \in Users |-> "idle"]
    /\ config' = [u \in Users |-> 0]
    /\ promised' = {} /\ pending' = FALSE /\ spoiled' = {}
    /\ UNCHANGED <<saved, session, tunnel, starts>>
-----------------------------------------------------------------------------
(* What goes on by itself once a call has begun, but for the user's consent. *)
Step(u) ==
    \/ GetTunnelStatus(u) \/ StopExisting(u) \/ StartVPNTunnel(u) \/ StartVPNFails(u)
    \/ StopVPN(u) \/ StopFails(u) \/ SimpleStop(u) \/ SimpleStart(u)
    \/ DeliverStart(u) \/ StartUndelivered(u)

Session == StartSession \/ startTunnel \/ TunnelStarted \/ Disconnect \/ stopTunnel

Next ==
    \/ \E u \in Users : Start(u) \/ Stop(u) \/ Step(u) \/ Prepare(u) \/ PrepareFails(u)
    \/ \E c \in stops : DeliverStop(c) \/ StopUndelivered(c)
    \/ LoadManager \/ Session \/ Reassert \/ TunnelDies \/ AppDies

Spec == Init /\ [][Next]_vars

(* Tasks run, a message is answered or given up, and the system follows up  *)
(* what it was asked to do.  Nobody has to call, to consent, or to kill.    *)
FairSpec ==
    /\ Spec
    /\ \A u \in Users : WF_vars(Step(u))
    /\ WF_vars(Session)
-----------------------------------------------------------------------------
(* A stop() that returned without an error is undone by nothing but a start: *)
(* one that was still under way when stop() looked at the session, in        *)
(* startVPN's second of sleep for one (VpnService.swift:215-233), or one that*)
(* had returned before the session followed it (lines 346-352).  Otherwise   *)
(* the session goes down, also one that is connecting or reasserting, and    *)
(* stays down until the app calls again, whatever other stops, Tasks and     *)
(* messages are under way.                                                   *)
OnlyPendingStartsUndo ==
    promised = {0} /\ ~pending => stopAsked \/ status \in {"disconnecting", "disconnected"}

(* "Start or restart the core with new configuration without stopping VPN    *)
(* tunnel" (README.md:58): a simpleStart that crossed no other call, of which *)
(* no message was lost and no StartCore or StopCore failed, and which the     *)
(* tunnel has answered with "true", runs its config.                          *)
UpdateApplies ==
    promised \cap Configs # {} /\ spoiled \subseteq {"late"} => promised = {core}

(* It does if also no SIMPLE_STOP_CORE, its own or an earlier one's, is still *)
(* under way when the tunnel takes its SIMPLE_START_CORE: from its own stop   *)
(* on, nothing else brings a core up before it, and nothing takes its core    *)
(* down while the tunnel lives (ProxyCorePluginImpl.swift:192-225,            *)
(* PacketTunnelProvider.sample.swift:98-113).                                 *)
OnlyLateStopsUndo ==
    promised \cap Configs # {} /\ spoiled = {} => promised = {core}

(* Such a stop() is carried out: tunnel and core are down in the end. *)
StopTakesEffect ==
    promised = {0} /\ ~pending ~> (status = "disconnected" /\ core = 0) \/ promised # {0}

(* The app's futures complete: no guard, error or lost message between the  *)
(* plugin and the tunnel swallows the answer (VpnService.swift:262-303).    *)
Waiting(u) == pc[u] \notin {"idle", "prepare", "prepareSimple"}
EveryCallReturns == \A u \in Users : Waiting(u) ~> ~Waiting(u)
=============================================================================
