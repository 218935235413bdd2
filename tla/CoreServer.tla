----------------------------- MODULE CoreServer -----------------------------
(***************************************************************************)
(* The gRPC service of src/src/server/server.go over the registered cores  *)
(* and the tun2socks engine (libtun.go).  Every request, and every call    *)
(* through the iOS delegate wrappers, is a goroutine in the same handler   *)
(* methods; they share activeCoreName, isVpnMode, the cores and the        *)
(* engine.  One action per access to one of these.                         *)
(*                                                                         *)
(* A call into a core is one action, with the outcomes CoreService         *)
(* promises (XrayService implements it).                                   *)
(***************************************************************************)
CONSTANTS
    Handlers,     \* the goroutines that serve requests
    Cores,        \* the names in coreRegistry
    DefaultCore,  \* the initial activeCoreName: xray
    HalfStarting, \* the cores whose Start may fail after they came up
    Unregistered, \* a name, or a torn read of one, that no core has
    Links,        \* the (TunFD, ProxyPort) pairs of the requests
    Off           \* no link: a core that is down, an engine that is stopped

ASSUME CoreAssumption ==
    DefaultCore \in Cores /\ HalfStarting \subseteq Cores /\ Unregistered \notin Cores
ASSUME OffAssumption == Off \notin Links

VARIABLES
    activeCore,   \* activeCoreName
    isVpnMode,    \* the global of server.go:26
    running,      \* running[k]: the link core k serves, or Off
    tun,          \* the link libtun's engine was started on, or Off
    pc,           \* pc[h]: what h does next
    req,          \* req[h]: the StartCoreRequest h serves, or NoRequest
    core,         \* core[h]: the core h got from getCore
    reply         \* reply[h]: the answer to h's last request

shared == <<activeCore, isVpnMode, running, tun>>
vars == <<shared, pc, req, core, reply>>

Requests == [core : Cores \cup {Unregistered}, vpn : BOOLEAN, link : Links]
NoRequest == [core |-> Unregistered, vpn |-> FALSE, link |-> Off]

StartPcs == {"select", "mode", "start", "started", "isStarted", "startTun"}
StopPcs == {"active", "isUp", "stop", "stopped", "stopTun"}
AskPcs == {"ask", "isRunning", "logs", "ping", "version"}
Pcs == {"idle"} \cup StartPcs \cup StopPcs \cup AskPcs

TypeOK ==
    /\ activeCore \in Cores
    /\ isVpnMode \in BOOLEAN
    /\ running \in [Cores -> Links \cup {Off}]
    /\ tun \in Links \cup {Off}
    /\ pc \in [Handlers -> Pcs]
    /\ req \in [Handlers -> Requests \cup {NoRequest}]
    /\ core \in [Handlers -> Cores]
    /\ reply \in [Handlers -> {"none", "ok", "error", "yes", "no"}]


Init ==
    /\ activeCore = DefaultCore
    /\ isVpnMode = FALSE
    /\ running = [k \in Cores |-> Off]
    /\ tun = Off
    /\ pc = [h \in Handlers |-> "idle"]
    /\ req = [h \in Handlers |-> NoRequest]
    /\ core = [h \in Handlers |-> DefaultCore]
    /\ reply = [h \in Handlers |-> "none"]
-----------------------------------------------------------------------------
Goto(h, from, to) == pc[h] = from /\ pc' = [pc EXCEPT ![h] = to]

Answer(h, r) ==
    /\ pc' = [pc EXCEPT ![h] = "idle"]
    /\ reply' = [reply EXCEPT ![h] = r]
    /\ req' = [req EXCEPT ![h] = NoRequest]
    /\ core' = [core EXCEPT ![h] = DefaultCore]

Arrive(h, first) ==
    /\ Goto(h, "idle", first)
    /\ reply' = [reply EXCEPT ![h] = "none"]
    /\ UNCHANGED <<shared, core>>

(* getActiveCore reads activeCoreName without coreLock.  A write under way   *)
(* can be seen half done, the pointer of one string with the length of the   *)
(* other: a name no core is registered under.                                *)
ActiveReads(h, name) ==
    \/ name = activeCore
    \/ /\ name = Unregistered
       /\ \E g \in Handlers \ {h} :
            pc[g] = "select" /\ req[g].core \in Cores \ {activeCore}

GetActiveCore(h, from, to) ==
    \E name \in Cores \cup {Unregistered} :
        /\ ActiveReads(h, name)
        /\ \/ /\ name \in Cores
              /\ Goto(h, from, to)
              /\ core' = [core EXCEPT ![h] = name]
              /\ UNCHANGED <<req, reply>>
           \/ /\ name \notin Cores
              /\ pc[h] = from
              /\ Answer(h, "error")
        /\ UNCHANGED shared
-----------------------------------------------------------------------------
(* StartCore *)

StartCore(h) == Arrive(h, "select") /\ req' \in {[req EXCEPT ![h] = r] : r \in Requests}

UnknownCore(h) ==
    /\ pc[h] = "select" /\ req[h].core \notin Cores
    /\ Answer(h, "error")
    /\ UNCHANGED shared

(* Mutant: activeCoreName is written before getCore was asked. *)
SelectUnchecked(h) ==
    /\ Goto(h, "select", "mode")
    /\ activeCore' = req[h].core
    /\ UNCHANGED <<isVpnMode, running, tun, req, core, reply>>

(* lines 85-92: before anything is known of the start that follows *)
SelectCore(h) ==
    /\ req[h].core \in Cores
    /\ Goto(h, "select", "mode")
    /\ activeCore' = req[h].core
    /\ core' = [core EXCEPT ![h] = req[h].core]
    /\ UNCHANGED <<isVpnMode, running, tun, req, reply>>

(* Mutant: a request in proxy mode leaves isVpnMode alone. *)
SetModeSticky(h) ==
    /\ Goto(h, "mode", "start")
    /\ isVpnMode' = (isVpnMode \/ req[h].vpn)
    /\ UNCHANGED <<activeCore, running, tun, req, core, reply>>

SetMode(h) ==
    /\ Goto(h, "mode", "start")
    /\ isVpnMode' = req[h].vpn
    /\ UNCHANGED <<activeCore, running, tun, req, core, reply>>

CoreStartOk(h) ==
    /\ running[core[h]] = Off
    /\ Goto(h, "start", "started")
    /\ running' = [running EXCEPT ![core[h]] = req[h].link]
    /\ UNCHANGED <<activeCore, isVpnMode, tun, req, core, reply>>

(* Refused because the core runs already, or failed and down. *)
CoreStartFails(h) ==
    /\ pc[h] = "start"
    /\ Answer(h, "error")
    /\ UNCHANGED shared

CoreStartHalf(h) ==
    /\ pc[h] = "start" /\ running[core[h]] = Off /\ core[h] \in HalfStarting
    /\ running' = [running EXCEPT ![core[h]] = req[h].link]
    /\ Answer(h, "error")
    /\ UNCHANGED <<activeCore, isVpnMode, tun>>

(* line 109: the global, not the request *)
ReadMode(h) ==
    /\ \/ isVpnMode /\ Goto(h, "started", "isStarted") /\ UNCHANGED <<req, core, reply>>
       \/ ~isVpnMode /\ pc[h] = "started" /\ Answer(h, "ok")
    /\ UNCHANGED shared

TunIsStarted(h) ==
    /\ \/ tun = Off /\ Goto(h, "isStarted", "startTun") /\ UNCHANGED <<req, core, reply>>
       \/ tun # Off /\ pc[h] = "isStarted" /\ Answer(h, "ok")
    /\ UNCHANGED shared

(* Mutant: libtun.Start does not look at started. *)
TunStartUnchecked(h) ==
    /\ pc[h] = "startTun"
    /\ tun' = req[h].link /\ Answer(h, "ok")
    /\ UNCHANGED <<activeCore, isVpnMode, running>>

(* libtun.Start, under libtun's own mutex *)
TunStart(h) ==
    /\ pc[h] = "startTun"
    /\ \/ tun = Off /\ tun' = req[h].link /\ Answer(h, "ok")
       \/ tun # Off /\ UNCHANGED tun /\ Answer(h, "error")
    /\ UNCHANGED <<activeCore, isVpnMode, running>>
-----------------------------------------------------------------------------
(* StopCore *)

StopCore(h) == Arrive(h, "active") /\ UNCHANGED req

StopGetsCore(h) == GetActiveCore(h, "active", "isUp")

(* line 125: nothing to stop, the engine included *)
StopSeesCore(h) ==
    /\ \/ running[core[h]] # Off /\ Goto(h, "isUp", "stop") /\ UNCHANGED <<req, core, reply>>
       \/ running[core[h]] = Off /\ pc[h] = "isUp" /\ Answer(h, "ok")
    /\ UNCHANGED shared

CoreStop(h) ==
    /\ Goto(h, "stop", "stopped")
    /\ running' = [running EXCEPT ![core[h]] = Off]
    /\ UNCHANGED <<activeCore, isVpnMode, tun, req, core, reply>>

CoreStopFails(h) ==
    /\ pc[h] = "stop" /\ running[core[h]] # Off
    /\ Answer(h, "error")
    /\ UNCHANGED shared

(* Mutant: StopCore leaves the engine to the VPN service. *)
StopForgetsTun(h) ==
    /\ pc[h] = "stopped" /\ Answer(h, "ok")
    /\ UNCHANGED shared

StopSeesTun(h) ==
    /\ \/ tun # Off /\ Goto(h, "stopped", "stopTun") /\ UNCHANGED <<req, core, reply>>
       \/ tun = Off /\ pc[h] = "stopped" /\ Answer(h, "ok")
    /\ UNCHANGED shared

TunStop(h) ==
    /\ pc[h] = "stopTun"
    /\ tun' = Off
    /\ Answer(h, "ok")
    /\ UNCHANGED <<activeCore, isVpnMode, running>>
-----------------------------------------------------------------------------
(* The requests that only ask: IsCoreRunning, GetVersion, MeasurePing, *)
(* FetchLogs and ClearLogs.                                            *)

Ask(h) == Arrive(h, "ask") /\ UNCHANGED req

AskGetsCore(h) ==
    \E op \in AskPcs \ {"ask"} : GetActiveCore(h, "ask", op)

AskCore(h) ==
    /\ \/ pc[h] = "isRunning" /\ Answer(h, IF running[core[h]] # Off THEN "yes" ELSE "no")
       \/ pc[h] = "logs" /\ Answer(h, IF running[core[h]] # Off THEN "ok" ELSE "error")
       \/ pc[h] = "ping" /\ \E r \in {"ok", "error"} : Answer(h, r)
       \/ pc[h] = "version" /\ Answer(h, "ok")
    /\ UNCHANGED shared
-----------------------------------------------------------------------------
StartStep(h) ==
    \/ UnknownCore(h) \/ SelectCore(h) \/ SetMode(h)
    \/ CoreStartOk(h) \/ CoreStartFails(h) \/ CoreStartHalf(h)
    \/ ReadMode(h) \/ TunIsStarted(h) \/ TunStart(h)

StopStep(h) ==
    \/ StopGetsCore(h) \/ StopSeesCore(h) \/ CoreStop(h) \/ CoreStopFails(h)
    \/ StopSeesTun(h) \/ TunStop(h)

AskStep(h) == AskGetsCore(h) \/ AskCore(h)

Next ==
    \E h \in Handlers :
        \/ StartCore(h) \/ StopCore(h) \/ Ask(h)
        \/ StartStep(h) \/ StopStep(h) \/ AskStep(h)

Spec == Init /\ [][Next]_vars
-----------------------------------------------------------------------------
(* A running engine is never handed another descriptor or port, whichever  *)
(* requests race for it between IsStarted and libtun.Start: it goes off     *)
(* first (libtun.go:17-43).                                                 *)
TunNeverReplaced == [][tun # Off => tun' \in {tun, Off}]_vars

(* "StopCoreIOS stops the currently running core" (ios.go:49): when a stop *)
(* reports success, no core runs any more.                                 *)
StopCoreStops ==
    [][\A h \in Handlers :
         pc[h] \in StopPcs /\ pc'[h] = "idle" /\ reply'[h] = "ok" =>
            \A k \in Cores : running'[k] = Off]_vars
=============================================================================
