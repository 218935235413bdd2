----------------------------- MODULE ClientBoot -----------------------------
(***************************************************************************)
(* ProxyCoreBaseImpl.initialize (lib/platforms/proxy_core_base_impl.dart)  *)
(* in the Dart isolates of one process, over the Go library they share.    *)
(* An isolate is lost and begun anew, with none of its state, while the    *)
(* process and the server in it go on (a relaunched activity, a hot        *)
(* restart).  The call into Go blocks its isolate; calls of initialize     *)
(* interleave at the awaits.                                               *)
(***************************************************************************)
EXTENDS GrpcBoot

CONSTANT Flows  \* bound: the calls of initialize that an isolate can have under way

VARIABLES
    callback,    \* callback[i]: the late final _onCoreStateChanged is assigned
    client,      \* client[i]: _isGrpcServerInitialized, _grpcClient is assigned
    initialized, \* initialized[i]: _isInitialized
    pc           \* pc[i][f]: where call f of initialize is, in isolate i

dartVars == <<callback, client, initialized, pc>>
vars == <<bootVars, dartVars>>

TypeOK ==
    /\ BootTypeOK
    /\ callback \in [Callers -> BOOLEAN]
    /\ client \in [Callers -> BOOLEAN]
    /\ initialized \in [Callers -> BOOLEAN]
    /\ pc \in [Callers -> [Flows -> {"idle", "ffi", "notifications", "isRunning"}]]

Fresh == [f \in Flows |-> "idle"]

Init ==
    /\ BootInit
    /\ callback = [i \in Callers |-> FALSE]
    /\ client = [i \in Callers |-> FALSE]
    /\ initialized = [i \in Callers |-> FALSE]
    /\ pc = [i \in Callers |-> Fresh]
-----------------------------------------------------------------------------
Goto(i, f, from, to) == pc[i][f] = from /\ pc' = [pc EXCEPT ![i][f] = to]

(* Inside the call into Go nothing else of the isolate runs. *)
Blocked(i) == \E f \in Flows : pc[i][f] = "ffi"

(* Mutant: the callback may be assigned again. *)
InitializeAgain(i, f) ==
    /\ ~Blocked(i) /\ ~initialized[i]
    /\ Goto(i, f, "idle", "ffi")
    /\ callback' = [callback EXCEPT ![i] = TRUE]
    /\ Enter(i)
    /\ UNCHANGED <<client, initialized>>

(* lines 32-44; a second call throws at line 33 and changes nothing *)
Initialize(i, f) ==
    /\ ~Blocked(i) /\ ~initialized[i] /\ ~callback[i]
    /\ Goto(i, f, "idle", "ffi")
    /\ callback' = [callback EXCEPT ![i] = TRUE]
    /\ Enter(i)
    /\ UNCHANGED <<client, initialized>>

(* lines 45-51 *)
BootOk(i, f) ==
    /\ Goto(i, f, "ffi", "notifications")
    /\ Leave(i, "true")
    /\ client' = [client EXCEPT ![i] = TRUE]
    /\ UNCHANGED <<callback, initialized>>

BootRefused(i, f) ==
    /\ Goto(i, f, "ffi", "idle")
    /\ Leave(i, "false")
    /\ UNCHANGED <<callback, client, initialized>>

(* lines 35-38 *)
Notifications(i, f) ==
    /\ ~Blocked(i)
    /\ Goto(i, f, "notifications", "isRunning")
    /\ initialized' = [initialized EXCEPT ![i] = TRUE]
    /\ UNCHANGED <<bootVars, callback, client>>

NotificationsFail(i, f) ==
    /\ ~Blocked(i)
    /\ Goto(i, f, "notifications", "idle")
    /\ UNCHANGED <<bootVars, callback, client, initialized>>

(* line 39: the answer, or the error of a server that is not there *)
Finish(i, f) ==
    /\ ~Blocked(i)
    /\ Goto(i, f, "isRunning", "idle")
    /\ UNCHANGED <<bootVars, callback, client, initialized>>

(* The isolate goes, and another one is begun with the same library. *)
Relaunch(i) ==
    /\ ~Blocked(i) /\ callback[i]
    /\ callback' = [callback EXCEPT ![i] = FALSE]
    /\ client' = [client EXCEPT ![i] = FALSE]
    /\ initialized' = [initialized EXCEPT ![i] = FALSE]
    /\ pc' = [pc EXCEPT ![i] = Fresh]
    /\ UNCHANGED bootVars
-----------------------------------------------------------------------------
Isolate(i) ==
    \/ \E f \in Flows :
        Initialize(i, f) \/ BootOk(i, f) \/ BootRefused(i, f) \/ Notifications(i, f)
            \/ NotificationsFail(i, f) \/ Finish(i, f)
    \/ Relaunch(i)

Next ==
    /\ ~panicked
    /\ \/ \E i \in Callers : Isolate(i)
       \/ BootStep /\ UNCHANGED dartVars

Spec == Init /\ [][Next]_vars

(* Threads and goroutines that can run do.  Nothing makes a user call, an   *)
(* isolate end, Serve fail or another process give up the port.             *)
Running(s) == ~panicked /\ Serving(s) /\ UNCHANGED dartVars
Calling(c) == ~panicked /\ InCall(c) /\ UNCHANGED dartVars

FairSpec ==
    /\ Spec
    /\ \A c \in Callers : WF_vars(Calling(c))
    /\ \A s \in Servers : WF_vars(Running(s))
-----------------------------------------------------------------------------
(* _grpcClient is late final: a boot that ends well never finds it          *)
(* assigned, since line 33 lets one call per isolate past it, however calls *)
(* cross and whether the boot worked or not.                                *)
OneBootPerIsolate ==
    \A i \in Callers : client[i] => \A f \in Flows : pc[i][f] # "ffi"

(* A raised flag does not stay up on a mere promise: a server answers for   *)
(* it, or it comes down and the next boot tries again (server.go:240, 253). *)
BootIsDecided ==
    isServerStarted ~> (\E s \in Servers : server[s] = "serve") \/ ~isServerStarted \/ panicked
=============================================================================
