---------------------------- MODULE ProxyService ----------------------------
(***************************************************************************)
(* What the gRPC service of server.go promises a client that has nothing   *)
(* beside its starts: one proxy, which a call brings up or takes down as a *)
(* whole.  No active core, no mode, no order of core and engine: those     *)
(* belong to CoreRestart, which implements this specification.             *)
(***************************************************************************)
CONSTANTS
    Callers,      \* the handlers, of the client's calls and of queries
    Cores,        \* the names a core is registered under
    HalfStarting, \* the cores whose Start may fail after they came up
    Requests,     \* what a start may ask for: a core, the mode, a link
    NoRequest,
    Off           \* no link

VARIABLES
    serving,      \* the core that serves and its link, as a set of pairs
    engine,       \* the link whose packets the engine forwards, or Off
    call,         \* call[c]: the call c is inside of, or "idle"
    wanted,       \* wanted[c]: the request of c's start, or NoRequest
    ret           \* ret[c]: how c's last call ended, "none" while it runs

proxyVars == <<serving, engine, call, wanted, ret>>

Init ==
    /\ serving = {} /\ engine = Off
    /\ call = [c \in Callers |-> "idle"]
    /\ wanted = [c \in Callers |-> NoRequest]
    /\ ret = [c \in Callers |-> "none"]

Invoke(c, op) ==
    /\ call[c] = "idle" /\ call' = [call EXCEPT ![c] = op]
    /\ ret' = [ret EXCEPT ![c] = "none"]
    /\ UNCHANGED <<serving, engine>>

Finish(c, r) ==
    /\ call' = [call EXCEPT ![c] = "idle"]
    /\ wanted' = [wanted EXCEPT ![c] = NoRequest]
    /\ ret' = [ret EXCEPT ![c] = r]

Alone == \A c \in Callers : call[c] \in {"idle", "query"}

(* The client starts nothing over what is up: it has seen a stop succeed. *)
Start(c) ==
    /\ Alone /\ serving = {} /\ engine = Off
    /\ Invoke(c, "start")
    /\ \E r \in Requests : wanted' = [wanted EXCEPT ![c] = r]

(* Stops may overlap. *)
Stop(c) ==
    /\ \A d \in Callers : call[d] # "start"
    /\ Invoke(c, "stop")
    /\ UNCHANGED wanted

(* The core the request names, on its link, with the engine in VPN mode only *)
StartOk(c) ==
    /\ call[c] = "start" /\ wanted[c].core \in Cores
    /\ serving' = {<<wanted[c].core, wanted[c].link>>}
    /\ engine' = IF wanted[c].vpn THEN wanted[c].link ELSE Off
    /\ Finish(c, "ok")

StartFail(c) == call[c] = "start" /\ Finish(c, "error") /\ UNCHANGED <<serving, engine>>

StartHalf(c) ==
    /\ call[c] = "start" /\ wanted[c].core \in HalfStarting
    /\ serving' = {<<wanted[c].core, wanted[c].link>>}
    /\ Finish(c, "error")
    /\ UNCHANGED engine

(* A stop takes everything down at one instant, and then returns; or it fails *)
(* with everything as it was, and only if there was something to stop.        *)
Down(c) ==
    /\ call[c] = "stop" /\ call' = [call EXCEPT ![c] = "down"]
    /\ serving' = {} /\ engine' = Off
    /\ UNCHANGED <<wanted, ret>>

StopOk(c) ==
    /\ call[c] = "down" \/ (call[c] = "stop" /\ serving = {} /\ engine = Off)
    /\ Finish(c, "ok")
    /\ UNCHANGED <<serving, engine>>

StopFail(c) ==
    /\ call[c] = "stop" /\ serving # {}
    /\ Finish(c, "error")
    /\ UNCHANGED <<serving, engine>>

(* Queries come at any time, change nothing and here promise nothing. *)
Ask(c) == Invoke(c, "query") /\ UNCHANGED wanted

Tell(c) ==
    /\ call[c] = "query"
    /\ \E r \in {"ok", "error", "yes", "no"} : Finish(c, r)
    /\ UNCHANGED <<serving, engine>>

Next ==
    \E c \in Callers :
        \/ Start(c) \/ StartOk(c) \/ StartFail(c) \/ StartHalf(c)
        \/ Stop(c) \/ Down(c) \/ StopOk(c) \/ StopFail(c)
        \/ Ask(c) \/ Tell(c)

Spec == Init /\ [][Next]_proxyVars
-----------------------------------------------------------------------------
(* At any moment, in the middle of a start or a stop too, at most one core    *)
(* serves, and an engine that forwards does so on the link of that core.      *)
Sound ==
    /\ \A p, q \in serving : p = q
    /\ engine # Off => \E k \in Cores : serving = {<<k, engine>>}
=============================================================================
