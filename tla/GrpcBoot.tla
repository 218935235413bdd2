------------------------------ MODULE GrpcBoot ------------------------------
(***************************************************************************)
(* The boot of the gRPC server (src/src/server/server.go:225-286): threads *)
(* that call StartGRPCServer and the goroutines it spawns, all of which    *)
(* read and write isServerStarted without a lock.  One action per access   *)
(* to the flag, the wait group or the port.                                *)
(***************************************************************************)
CONSTANTS
    Callers,   \* the threads that call StartGRPCServer (one per Dart isolate)
    Servers,   \* bound: the serving goroutines that can be alive at a time
    Free,      \* the owner of a port nobody listens on
    Other      \* another process

ASSUME BootAssumption ==
    /\ Free \notin Servers /\ Other \notin Servers
    /\ Free # Other

VARIABLES
    isServerStarted,
    port,      \* who listens on 127.0.0.1:30051: Free, Other or a goroutine
    call,      \* call[c]: where caller c is in StartGRPCServer, or its answer
    server,    \* server[s]: where goroutine s is, "none" if there is none
    waiters,   \* where goroutines are in waitForServer: before Wait, in it, woken
    panicked,  \* the process died of a reused WaitGroup
    raced      \* history: line 240 set a flag that another boot had just set

bootVars == <<isServerStarted, port, call, server, waiters, panicked, raced>>

Inside == {"check", "set", "spawn", "return"}

BootTypeOK ==
    /\ isServerStarted \in BOOLEAN /\ panicked \in BOOLEAN /\ raced \in BOOLEAN
    /\ port \in {Free, Other} \cup Servers
    /\ call \in [Callers -> Inside \cup {"out", "true", "false"}]
    /\ server \in [Servers -> {"none", "listen", "serve", "failed", "done"}]
    /\ waiters \subseteq {"ready", "blocked", "woken"}

BootInit ==
    /\ isServerStarted = FALSE
    /\ port \in {Free, Other}
    /\ call = [c \in Callers |-> "out"]
    /\ server = [s \in Servers |-> "none"]
    /\ waiters = {}
    /\ panicked = FALSE
    /\ raced = FALSE

(* wg counts the goroutines from before the go statement to wg.Done *)
Alive == {s \in Servers : server[s] # "none"}
-----------------------------------------------------------------------------
(* StartGRPCServer and startGRPCServer, in the caller's thread *)

CallGoto(c, from, to) == call[c] = from /\ call' = [call EXCEPT ![c] = to]

(* line 277 *)
Enter(c) ==
    /\ CallGoto(c, "out", IF isServerStarted THEN "return" ELSE "check")
    /\ UNCHANGED <<isServerStarted, port, server, waiters, panicked, raced>>

(* line 283: go waitForServer() *)
GoWait == waiters' = waiters \cup {"ready"}

(* lines 236-239 *)
AlreadyRunning(c) ==
    /\ isServerStarted
    /\ CallGoto(c, "check", "return")
    /\ GoWait
    /\ UNCHANGED <<isServerStarted, port, server, panicked, raced>>

NotRunning(c) ==
    /\ ~isServerStarted
    /\ CallGoto(c, "check", "set")
    /\ UNCHANGED <<isServerStarted, port, server, waiters, panicked, raced>>

(* Mutant: the flag is left to the goroutine. *)
SetNothing(c) ==
    /\ CallGoto(c, "set", "spawn")
    /\ raced' = (raced \/ isServerStarted)
    /\ UNCHANGED <<isServerStarted, port, server, waiters, panicked>>

SetStarted(c) ==
    /\ CallGoto(c, "set", "spawn")
    /\ isServerStarted' = TRUE
    /\ raced' = (raced \/ isServerStarted)
    /\ UNCHANGED <<port, server, waiters, panicked>>

Spawn(c) ==
    /\ CallGoto(c, "spawn", "return")
    /\ \E s \in Servers \ Alive : server' = [server EXCEPT ![s] = "listen"]
    /\ GoWait
    /\ UNCHANGED <<isServerStarted, port, panicked, raced>>

(* line 285: the flag is read a third time *)
Return(c) ==
    /\ CallGoto(c, "return", IF isServerStarted THEN "true" ELSE "false")
    /\ UNCHANGED <<isServerStarted, port, server, waiters, panicked, raced>>

(* The caller takes the answer. *)
Leave(c, answer) ==
    /\ CallGoto(c, answer, "out")
    /\ UNCHANGED <<isServerStarted, port, server, waiters, panicked, raced>>
-----------------------------------------------------------------------------
(* The goroutine: Listen, Serve, wg.Done *)

GoOn(s, from, to) == server[s] = from /\ server' = [server EXCEPT ![s] = to]

Listen(s) ==
    /\ port = Free
    /\ GoOn(s, "listen", "serve")
    /\ port' = s
    /\ UNCHANGED <<isServerStarted, call, waiters, panicked, raced>>

(* Mutant: a port in use is tried again and again. *)
ListenRetries(s) == server[s] = "listen" /\ UNCHANGED bootVars

(* Mutant: Serve gets the nil listener of a Listen that failed. *)
ServeNil(s) ==
    /\ GoOn(s, "listen", "serve")
    /\ port' = "nil"
    /\ UNCHANGED <<isServerStarted, call, waiters, panicked, raced>>

ListenFails(s) ==
    /\ GoOn(s, "listen", "failed")
    /\ UNCHANGED <<isServerStarted, port, call, waiters, panicked, raced>>

(* Serve gives up on its listener, and closes it *)
ServeFails(s) ==
    /\ GoOn(s, "serve", "failed")
    /\ port' = Free
    /\ UNCHANGED <<isServerStarted, call, waiters, panicked, raced>>

(* Mutant: serverError is all that a failure leaves behind. *)
KeepStarted(s) ==
    /\ GoOn(s, "failed", "done")
    /\ UNCHANGED <<isServerStarted, port, call, waiters, panicked, raced>>

ClearStarted(s) ==
    /\ GoOn(s, "failed", "done")
    /\ isServerStarted' = FALSE
    /\ UNCHANGED <<port, call, waiters, panicked, raced>>

(* The deferred wg.Done; the last one wakes whoever waits. *)
Done(s) ==
    /\ GoOn(s, "done", "none")
    /\ waiters' = IF Alive = {s} /\ "blocked" \in waiters
                  THEN (waiters \ {"blocked"}) \cup {"woken"} ELSE waiters
    /\ UNCHANGED <<isServerStarted, port, call, panicked, raced>>

WaitForServer ==
    /\ "ready" \in waiters
    /\ waiters' = (waiters \ {"ready"}) \cup IF Alive = {} THEN {} ELSE {"blocked"}
    /\ UNCHANGED <<isServerStarted, port, call, server, panicked, raced>>

(* A woken Wait that finds the counter in use again panics ("WaitGroup is   *)
(* reused before previous Wait has returned").                              *)
WaitReturns ==
    /\ "woken" \in waiters
    /\ panicked' = (Alive # {})
    /\ waiters' = waiters \ {"woken"}
    /\ UNCHANGED <<isServerStarted, port, call, server, raced>>

(* Another process takes the port or gives it back. *)
OtherProcess ==
    /\ port' \in {Free, Other} /\ port \in {Free, Other} \ {port'}
    /\ UNCHANGED <<isServerStarted, call, server, waiters, panicked, raced>>
-----------------------------------------------------------------------------
InCall(c) ==
    AlreadyRunning(c) \/ NotRunning(c) \/ SetStarted(c) \/ Spawn(c) \/ Return(c)

(* What a serving goroutine does in its own time. *)
Serving(s) == Listen(s) \/ ListenFails(s) \/ ClearStarted(s) \/ Done(s)

BootStep ==
    \/ \E c \in Callers : InCall(c)
    \/ \E s \in Servers : Serving(s) \/ ServeFails(s)
    \/ WaitForServer \/ WaitReturns \/ OtherProcess
-----------------------------------------------------------------------------
(* isServerStarted answers for a goroutine that serves or is on its way, or *)
(* for a caller about to spawn one, whatever boots race: a server that      *)
(* failed (server.go:250-255, 262-266) can be booted again, none is         *)
(* reported for ever by a flag that nobody is left to clear.                *)
FlagMeansServing ==
    isServerStarted =>
        \/ \E c \in Callers : call[c] = "spawn"
        \/ \E s \in Servers : server[s] \in {"listen", "serve", "failed"}

(* As long as no two boots raced through lines 236-240, one goroutine at a  *)
(* time has anything to do with the port, and while it has, the flag keeps  *)
(* others away.                                                             *)
Busy == {s \in Servers : server[s] \in {"listen", "serve", "failed"}}

OneServer ==
    ~raced => /\ \A s, t \in Busy : s = t
              /\ Busy # {} => isServerStarted
=============================================================================
