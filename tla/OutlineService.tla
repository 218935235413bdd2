--------------------------- MODULE OutlineService ---------------------------
(***************************************************************************)
(* liboutline.OutlineService (src/src/liboutline/liboutline.go): callers   *)
(* under osrv.mu, and the two that do without it, the goroutine Start      *)
(* spawns to serve and MeasurePing.                                        *)
(*                                                                         *)
(* The socks5 library and net are external: Serve accepts until Accept     *)
(* reports an error, then closes the listener it was given.                *)
(***************************************************************************)
CONSTANTS
    Callers,     \* the goroutines that call the service
    NoCaller,    \* the owner of an unlocked mutex
    Listeners,   \* the sockets Listen can return
    NoListener   \* a nil net.Listener

ASSUME CallerAssumption == NoCaller \notin Callers
ASSUME ListenerAssumption == Listeners \cap {NoListener, "none", "spawned"} = {}

VARIABLES
    mutex,       \* the caller that holds osrv.mu, or NoCaller
    isRunning,   \* osrv.isRunning
    listener,    \* osrv.listener
    dialer,      \* osrv.ssStreamDialer # nil; Start and Stop set the packet
                 \* listener and the SOCKS5 server along with it
    open,        \* the sockets that accept connections
    accept,      \* accept[l]: the goroutine spawned with l: "none", "spawned"
                 \* before it reads osrv.listener, then the socket it accepts on
    logged,      \* logWriter holds messages nobody fetched
    panicked,    \* what killed the process: "no", "serve", "ping"
    pc,          \* pc[c]: what c does next
    ret          \* ret[c]: how c's last call ended, pings aside

vars == <<mutex, isRunning, listener, dialer, open, accept, logged, panicked, pc, ret>>

Pcs == {"idle", "start", "listen", "stop", "reset", "query", "ping", "fetch", "clear"}
Holding == {"listen", "reset"}

TypeOK ==
    /\ mutex \in Callers \cup {NoCaller}
    /\ isRunning \in BOOLEAN /\ dialer \in BOOLEAN /\ logged \in BOOLEAN
    /\ listener \in Listeners \cup {NoListener}
    /\ open \subseteq Listeners
    /\ accept \in [Listeners -> {"none", "spawned"} \cup Listeners]
    /\ panicked \in {"no", "serve", "ping"}
    /\ pc \in [Callers -> Pcs]
    /\ ret \in [Callers -> {"none", "ok", "error", "yes", "no"}]

Init ==
    /\ mutex = NoCaller
    /\ isRunning = FALSE /\ dialer = FALSE /\ logged = FALSE
    /\ listener = NoListener /\ open = {}
    /\ accept = [l \in Listeners |-> "none"]
    /\ panicked = "no"
    /\ pc = [c \in Callers |-> "idle"]
    /\ ret = [c \in Callers |-> "none"]
-----------------------------------------------------------------------------
Goto(c, from, to) == pc[c] = from /\ pc' = [pc EXCEPT ![c] = to]

Return(c, from, r) ==
    /\ Goto(c, from, "idle")
    /\ ret' = [ret EXCEPT ![c] = r]
    /\ mutex' = IF mutex = c THEN NoCaller ELSE mutex

Call(c) ==
    /\ \/ \E op \in {"start", "stop", "query", "fetch", "clear"} :
            Goto(c, "idle", op) /\ ret' = [ret EXCEPT ![c] = "none"]
       \/ Goto(c, "idle", "ping") /\ UNCHANGED ret
    /\ UNCHANGED <<mutex, isRunning, listener, dialer, open, accept, logged, panicked>>

Lock(c) == mutex = NoCaller /\ mutex' = c
-----------------------------------------------------------------------------
(* Start *)

(* lines 101-112 and 146-157: running already, or the configuration is bad *)
StartRefused(c) ==
    /\ mutex = NoCaller
    /\ Return(c, "start", "error")
    /\ UNCHANGED <<isRunning, listener, dialer, open, accept, logged, panicked>>

(* Mutant: Start does not look at isRunning. *)
InitDialersAgain(c) ==
    /\ Lock(c) /\ Goto(c, "start", "listen")
    /\ dialer' = TRUE
    /\ UNCHANGED <<isRunning, listener, open, accept, logged, panicked, ret>>

(* lines 113-125: the dialers are in place before anything listens *)
InitDialers(c) ==
    /\ ~isRunning
    /\ Lock(c) /\ Goto(c, "start", "listen")
    /\ dialer' = TRUE
    /\ UNCHANGED <<isRunning, listener, open, accept, logged, panicked, ret>>

(* lines 129-131: the port is taken; the dialers stay *)
ListenFails(c) ==
    /\ Return(c, "listen", "error")
    /\ UNCHANGED <<isRunning, listener, dialer, open, accept, logged, panicked>>

(* A socket of its own, which no goroutine was given before. *)
Fresh == {l \in Listeners \ open : accept[l] = "none" /\ \A k \in Listeners : accept[k] # l}

(* Mutant: Start spawns the goroutine only when no other is left. *)
ListenSpawnsOnce(c) ==
    /\ \E l \in Fresh :
        /\ listener' = l
        /\ open' = open \cup {l}
        /\ accept' = IF \E k \in Listeners : accept[k] # "none" THEN accept
                     ELSE [accept EXCEPT ![l] = "spawned"]
    /\ isRunning' = TRUE
    /\ logged' = TRUE
    /\ Return(c, "listen", "ok")
    /\ UNCHANGED <<dialer, panicked>>

Listen(c) ==
    /\ \E l \in Fresh :
        /\ listener' = l
        /\ open' = open \cup {l}
        /\ accept' = [accept EXCEPT ![l] = "spawned"]
    /\ isRunning' = TRUE
    /\ logged' = TRUE
    /\ Return(c, "listen", "ok")
    /\ UNCHANGED <<dialer, panicked>>
-----------------------------------------------------------------------------
(* Stop *)

StopIdle(c) ==
    /\ mutex = NoCaller /\ ~isRunning
    /\ Return(c, "stop", "ok")
    /\ UNCHANGED <<isRunning, listener, dialer, open, accept, logged, panicked>>

(* Mutant: Stop cancels serveCtx and leaves the listener to it. *)
CancelOnly(c) ==
    /\ isRunning
    /\ Lock(c) /\ Goto(c, "stop", "reset")
    /\ isRunning' = FALSE
    /\ UNCHANGED <<open, listener, dialer, accept, logged, panicked, ret>>

(* lines 247-257; serveCtx was for Listen only, cancelling it closes nothing *)
CloseListener(c) ==
    /\ isRunning
    /\ Lock(c) /\ Goto(c, "stop", "reset")
    /\ isRunning' = FALSE
    /\ open' = open \ {listener}
    /\ UNCHANGED <<listener, dialer, accept, logged, panicked, ret>>

(* lines 260-266 *)
Reset(c) ==
    /\ listener' = NoListener /\ dialer' = FALSE
    /\ logged' = TRUE
    /\ Return(c, "reset", "ok")
    /\ UNCHANGED <<isRunning, open, accept, panicked>>
-----------------------------------------------------------------------------
(* Mutant: Serve takes a nil listener for one that was closed. *)
ServeBeginsNil(l) ==
    /\ accept[l] = "spawned"
    /\ accept' = [accept EXCEPT ![l] = listener]
    /\ UNCHANGED <<mutex, isRunning, listener, dialer, open, logged, panicked, pc, ret>>

(* The goroutine of lines 136-139: it evaluates osrv.listener when it runs, *)
(* not when it is spawned, and a nil listener is dereferenced at once.      *)
ServeBegins(l) ==
    /\ accept[l] = "spawned"
    /\ IF listener = NoListener
         THEN panicked' = "serve" /\ UNCHANGED accept
         ELSE accept' = [accept EXCEPT ![l] = listener] /\ UNCHANGED panicked
    /\ UNCHANGED <<mutex, isRunning, listener, dialer, open, logged, pc, ret>>

ServeEnds(l) ==
    /\ accept[l] \in Listeners \ open
    /\ accept' = [accept EXCEPT ![l] = "none"]
    /\ UNCHANGED <<mutex, isRunning, listener, dialer, open, logged, panicked, pc, ret>>

(* Accept fails for another reason, such as no descriptor left: Serve *)
(* returns, its error is dropped, and the service still runs.         *)
AcceptFails(l) ==
    /\ accept[l] \in open
    /\ open' = open \ {accept[l]}
    /\ accept' = [accept EXCEPT ![l] = "none"]
    /\ UNCHANGED <<mutex, isRunning, listener, dialer, logged, panicked, pc, ret>>
-----------------------------------------------------------------------------
(* MeasurePing takes no lock and asks nobody whether the service runs. *)

PingNothing(c) ==   \* no URL: "no results"
    /\ Goto(c, "ping", "idle")
    /\ UNCHANGED <<mutex, isRunning, listener, dialer, open, accept, logged, panicked, ret>>

PingDials(c) ==
    /\ IF dialer
         THEN Goto(c, "ping", "idle") /\ logged' \in {logged, TRUE} /\ UNCHANGED panicked
         ELSE pc[c] = "ping" /\ panicked' = "ping" /\ UNCHANGED <<pc, logged>>
    /\ UNCHANGED <<mutex, isRunning, listener, dialer, open, accept, ret>>

IsRunning(c) ==
    /\ mutex = NoCaller
    /\ Return(c, "query", IF isRunning THEN "yes" ELSE "no")
    /\ UNCHANGED <<isRunning, listener, dialer, open, accept, logged, panicked>>

FetchLogs(c) ==
    /\ Return(c, "fetch", IF logged THEN "yes" ELSE "no")
    /\ logged' = FALSE
    /\ UNCHANGED <<isRunning, listener, dialer, open, accept, panicked>>

ClearLogs(c) ==
    /\ Return(c, "clear", "ok")
    /\ logged' = FALSE
    /\ UNCHANGED <<isRunning, listener, dialer, open, accept, panicked>>
-----------------------------------------------------------------------------
Step(c) ==
    \/ StartRefused(c) \/ InitDialers(c) \/ ListenFails(c) \/ Listen(c)
    \/ StopIdle(c) \/ CloseListener(c) \/ Reset(c)
    \/ PingNothing(c) \/ PingDials(c)
    \/ IsRunning(c) \/ FetchLogs(c) \/ ClearLogs(c)

Next ==
    /\ panicked = "no"
    /\ \/ \E c \in Callers : Call(c) \/ Step(c)
       \/ \E l \in Listeners : ServeBegins(l) \/ ServeEnds(l) \/ AcceptFails(l)

Spec == Init /\ [][Next]_vars
-----------------------------------------------------------------------------
(* Whoever holds the mutex or not, a socket that accepts connections is the *)
(* one osrv.listener names: Stop never forgets one, and a failed Start      *)
(* never leaves one behind.                                                 *)
NoLeakedListener == open \subseteq {listener}

(* A running service whose socket is open has a goroutine that accepts on   *)
(* it or is about to, whichever sockets the goroutines of earlier Starts    *)
(* came to read from osrv.listener (line 138).                              *)
Served ==
    isRunning /\ listener \in open =>
        \E l \in Listeners : accept[l] \in {"spawned", listener}

(* "Accept loop unblocks on listener.Close()" (line 137): a Stop that comes *)
(* early ends the goroutine, not the process.                               *)
ServeSurvivesStop == panicked # "serve"

(* The service as its callers see it: Stop takes effect when it returns. *)
Up == isRunning \/ \E c \in Callers : pc[c] = "reset"

CallOf(c) ==
    CASE pc[c] \in {"start", "listen"} -> "start"
      [] pc[c] \in {"stop", "reset"} -> "stop"
      [] pc[c] \in {"fetch", "clear"} -> "logs"
      [] pc[c] = "query" -> "query"
      [] OTHER -> "idle"

Inside == [c \in Callers |-> CallOf(c)]

Core == INSTANCE CoreService WITH HalfStarts <- FALSE, up <- Up, call <- Inside

(* OutlineService implements the core the gRPC server relies on; its pings *)
(* make no promise, they are no step of the core.                          *)
ImplementsCore == Core!Spec
=============================================================================
