---------------------------- MODULE CoreService ----------------------------
(***************************************************************************)
(* What a proxy core promises to the gRPC server: the Core interface of    *)
(* server.go:36-45 with every call taking effect at one instant, the one   *)
(* at which it returns.  Nothing is said of how a call gets there: locks,  *)
(* channels, contexts and goroutines belong to the implementations.        *)
(*                                                                         *)
(* XrayService implements this specification with HalfStarts = TRUE,       *)
(* OutlineService with HalfStarts = FALSE (its pings are left out, they    *)
(* make no promise).  CoreServer uses both through it.                     *)
(***************************************************************************)
CONSTANTS
    Callers,     \* the goroutines that call the core
    HalfStarts   \* BOOLEAN: may Start fail after the core came up?

VARIABLES
    up,          \* what IsRunning answers
    call,        \* call[c]: the operation c is inside of, or "idle"
    ret          \* ret[c]: how c's last call ended, "none" while it runs

coreVars == <<up, call, ret>>

Ops == {"start", "stop", "query", "ping", "logs"}
Init ==
    /\ up = FALSE
    /\ call = [c \in Callers |-> "idle"]
    /\ ret = [c \in Callers |-> "none"]

Invoke(c) ==
    /\ call[c] = "idle"
    /\ \E op \in Ops : call' = [call EXCEPT ![c] = op]
    /\ ret' = [ret EXCEPT ![c] = "none"]
    /\ UNCHANGED up

Finish(c, op, r) ==
    /\ call[c] = op
    /\ call' = [call EXCEPT ![c] = "idle"]
    /\ ret' = [ret EXCEPT ![c] = r]

(* Only a core that is down starts, and the caller that started it is the *)
(* only one told so.                                                      *)
StartOk(c) == ~up /\ up' = TRUE /\ Finish(c, "start", "ok")
StartFail(c) == Finish(c, "start", "error") /\ UNCHANGED up
StartHalf(c) == HalfStarts /\ ~up /\ up' = TRUE /\ Finish(c, "start", "error")

(* A Stop that reports success leaves the core down. *)
StopOk(c) == up' = FALSE /\ Finish(c, "stop", "ok")
StopFail(c) == up /\ Finish(c, "stop", "error") /\ UNCHANGED up

Query(c) == Finish(c, "query", IF up THEN "yes" ELSE "no") /\ UNCHANGED up

(* A measured delay is a delay through a core that is up. *)
PingOk(c) == up /\ Finish(c, "ping", "ok") /\ UNCHANGED up
PingFail(c) == Finish(c, "ping", "error") /\ UNCHANGED up

Logs(c) == (\E r \in {"ok", "yes", "no"} : Finish(c, "logs", r)) /\ UNCHANGED up

Next ==
    \E c \in Callers :
        \/ Invoke(c)
        \/ StartOk(c) \/ StartFail(c) \/ StartHalf(c)
        \/ StopOk(c) \/ StopFail(c)
        \/ Query(c)
        \/ PingOk(c) \/ PingFail(c)
        \/ Logs(c)

Spec == Init /\ [][Next]_coreVars
=============================================================================
