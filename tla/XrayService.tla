---------------------------- MODULE XrayService ----------------------------
(***************************************************************************)
(* libxray.XrayService (src/src/libxray/libxray.go, utils.go) with any     *)
(* number of goroutines inside it: every gRPC request and every iOS        *)
(* delegate call runs in a goroutine of its own, with a context that may   *)
(* end at any moment.                                                      *)
(*                                                                         *)
(* One action per stretch of code between two points another goroutine can *)
(* tell apart: taking the mutex, testing the context, waiting on           *)
(* readyChan, calling into the Xray core.  The deferred Unlock is part of  *)
(* the action that returns.                                                *)
(***************************************************************************)
CONSTANTS
    Callers,     \* the goroutines that call the service
    NoCaller,    \* the owner of an unlocked mutex
    Chans,       \* the channels make() can return
    NoChan,      \* what a caller that is not waiting waits on
    Calls,       \* the operations in use, of AllCalls
    Detached     \* the callers with a Background context (ios.go); the others
                 \* run with the context of a gRPC request

ASSUME CallerAssumption == NoCaller \notin Callers
ASSUME ChanAssumption == Chans # {} /\ NoChan \notin Chans
AllCalls == {"start", "stop", "query", "wait", "fetch", "clear"}

ASSUME CallsAssumption == Calls \subseteq AllCalls
ASSUME DetachedAssumption == Detached \subseteq Callers

VARIABLES
    mutex,       \* the caller that holds xs.mutex, or NoCaller
    instance,    \* xs.instance # nil
    isRunning,   \* xs.isRunning
    readyChan,   \* xs.readyChan
    closed,      \* the channels that are closed
    panicked,    \* the process died of close() on a closed channel
    late,        \* history: the channels left open by a Start that failed in
                 \* its last step, after the service had come up
    loggerAdded, \* slog's flag: the next StartLogger leaves the buffer alone
    logged,      \* whose lines slog's buffer holds: of the run that is (or was
                 \* attempted) last, or of one that a Stop has ended
    pc,          \* pc[c]: what c does next
    waits,       \* waits[c]: the channel c's ping selects on
    ctxDone,     \* ctxDone[c]: the context of c's running call is over
    ticker,      \* ticker[c]: FreeMemory's goroutine of c's last Start
    ret          \* ret[c]: how c's last call ended, "none" while it runs

coreVars == <<instance, isRunning, readyChan, closed, panicked, late>>
logVars == <<loggerAdded, logged>>
vars == <<mutex, coreVars, logVars, pc, waits, ctxDone, ticker, ret>>

StartPcs == {"start", "setenv", "maxmem", "load", "boot", "free"}
StopPcs == {"stop", "close"}
PingPcs == {"wait", "lock", "http"}
Holding == {"setenv", "maxmem", "load", "boot", "free", "close", "http"}
Pcs == StartPcs \cup StopPcs \cup PingPcs \cup {"idle", "query", "fetch", "fetching", "clear"}

TypeOK ==
    /\ mutex \in Callers \cup {NoCaller}
    /\ instance \in BOOLEAN /\ isRunning \in BOOLEAN /\ panicked \in BOOLEAN
    /\ readyChan \in Chans /\ closed \subseteq Chans /\ late \subseteq Chans
    /\ loggerAdded \in BOOLEAN /\ logged \subseteq {"old", "new"}
    /\ pc \in [Callers -> Pcs]
    /\ waits \in [Callers -> Chans \cup {NoChan}]
    /\ ctxDone \in [Callers -> BOOLEAN]
    /\ ticker \in [Callers -> {"off", "on", "ending"}]
    /\ ret \in [Callers -> {"none", "ok", "error", "yes", "no"}]

Init ==
    /\ mutex = NoCaller
    /\ instance = FALSE /\ isRunning = FALSE /\ panicked = FALSE
    /\ readyChan \in Chans /\ closed = {} /\ late = {}
    /\ loggerAdded = FALSE /\ logged = {}
    /\ pc = [c \in Callers |-> "idle"]
    /\ waits = [c \in Callers |-> NoChan]
    /\ ctxDone = [c \in Callers |-> FALSE]
    /\ ticker = [c \in Callers |-> "off"]
    /\ ret = [c \in Callers |-> "none"]
-----------------------------------------------------------------------------
(* Control: calls, the mutex, contexts, returns *)

Goto(c, from, to) == pc[c] = from /\ pc' = [pc EXCEPT ![c] = to]

(* The context of c's Start ends: FreeMemory's goroutine will see it. *)
CtxEnds(c) == ticker' = [ticker EXCEPT ![c] = IF @ = "on" THEN "ending" ELSE @]

(* A request's context also ends when its handler returns; Background never ends. *)
Return(c, r) ==
    /\ pc' = [pc EXCEPT ![c] = "idle"]
    /\ ret' = [ret EXCEPT ![c] = r]
    /\ waits' = [waits EXCEPT ![c] = NoChan]
    /\ mutex' = IF mutex = c THEN NoCaller ELSE mutex
    /\ ctxDone' = [ctxDone EXCEPT ![c] = FALSE]
    /\ IF c \in Detached THEN UNCHANGED ticker ELSE CtxEnds(c)

(* Every call but MeasurePing starts at its mutex.  MeasurePing first reads *)
(* readyChan, without the mutex.                                            *)
Call(c) ==
    /\ \E op \in Calls :
        /\ Goto(c, "idle", op)
        /\ waits' = [waits EXCEPT ![c] = IF op = "wait" THEN readyChan ELSE NoChan]
    /\ ret' = [ret EXCEPT ![c] = "none"]
    /\ UNCHANGED <<mutex, coreVars, logVars, ctxDone, ticker>>

Lock(c, from, to) ==
    /\ mutex = NoCaller
    /\ mutex' = c
    /\ Goto(c, from, to)
    /\ UNCHANGED <<waits, ctxDone, ticker, ret>>

(* The client goes away or cancels; server.go:164 gives every ping a deadline. *)
EndCtx(c) ==
    /\ pc[c] # "idle" /\ ~ctxDone[c]
    /\ c \in Detached => pc[c] \in PingPcs
    /\ ctxDone' = [ctxDone EXCEPT ![c] = TRUE]
    /\ IF pc[c] \in StartPcs THEN CtxEnds(c) ELSE UNCHANGED ticker
    /\ UNCHANGED <<mutex, coreVars, logVars, pc, waits, ret>>

FreeMemoryExit(c) ==
    /\ ticker[c] = "ending"
    /\ ticker' = [ticker EXCEPT ![c] = "off"]
    /\ UNCHANGED <<mutex, coreVars, logVars, pc, waits, ctxDone, ret>>
-----------------------------------------------------------------------------
(* Start *)

StartRefused(c) ==
    /\ pc[c] = "start" /\ mutex = NoCaller /\ isRunning
    /\ Return(c, "error")
    /\ UNCHANGED <<coreVars, logVars>>

(* Mutant: StartLogger does not empty the buffer. *)
StartLoggerKeeps(c) ==
    /\ ~isRunning
    /\ Lock(c, "start", "setenv")
    /\ loggerAdded' = TRUE
    /\ UNCHANGED <<coreVars, logged>>

(* lines 50-58; StartLogger empties the buffer when the handler is not added *)
StartLogger(c) ==
    /\ ~isRunning
    /\ Lock(c, "start", "setenv")
    /\ loggerAdded' = TRUE
    /\ logged' = IF loggerAdded THEN logged ELSE {}
    /\ UNCHANGED coreVars

(* Every early return of Start before line 85: the context is over, or the  *)
(* environment, the configuration or the Xray core reports an error.        *)
StartFails(c) ==
    /\ pc[c] \in {"setenv", "maxmem", "load", "boot"}
    /\ pc[c] = "maxmem" => ctxDone[c]
    /\ Return(c, "error")
    /\ UNCHANGED <<coreVars, logVars>>

Proceed(c, from, to) ==
    /\ ~ctxDone[c]
    /\ Goto(c, from, to)
    /\ UNCHANGED <<mutex, logVars, waits, ctxDone, ret>>

SetEnv(c) == Proceed(c, "setenv", "maxmem") /\ UNCHANGED <<coreVars, ticker>>

MaxMemory(c) ==
    /\ Proceed(c, "maxmem", "load")
    /\ ticker' = [ticker EXCEPT ![c] = "on"]
    /\ UNCHANGED coreVars

LoadServer(c) == Proceed(c, "load", "boot") /\ UNCHANGED <<coreVars, ticker>>

(* lines 79-86: the Xray core runs from here on *)
Boot(c) ==
    /\ Proceed(c, "boot", "free")
    /\ instance' = TRUE /\ isRunning' = TRUE
    /\ UNCHANGED <<readyChan, closed, panicked, late, ticker>>

(* lines 88-90: the call fails, the Xray core keeps running, nobody is told *)
FreeFails(c) ==
    /\ pc[c] = "free" /\ ctxDone[c]
    /\ late' = late \cup {readyChan}
    /\ Return(c, "error")
    /\ UNCHANGED <<instance, isRunning, readyChan, closed, panicked, logVars>>

CloseReady(c) ==
    /\ pc[c] = "free" /\ ~ctxDone[c]
    /\ panicked' = (readyChan \in closed)
    /\ closed' = closed \cup {readyChan}
    /\ Return(c, "ok")
    /\ UNCHANGED <<instance, isRunning, readyChan, late, logVars>>
-----------------------------------------------------------------------------
(* Stop *)

(* Mutants: Stop sets readyChan to nil; Stop leaves readyChan alone. *)
MakeNil == readyChan' = NoChan /\ UNCHANGED <<closed, late>>
MakeNothing == UNCHANGED <<readyChan, closed, late>>

(* make(chan struct{}): a channel nobody holds a reference to, open *)
MakeChan ==
    /\ readyChan' \in Chans \ ({readyChan} \cup {waits[c] : c \in Callers})
    /\ closed' = closed \ {readyChan'} /\ late' = late \ {readyChan'}

(* Mutant: Stop replaces readyChan before it looks at isRunning. *)
StopIdleResets(c) ==
    /\ pc[c] = "stop" /\ mutex = NoCaller /\ ~isRunning
    /\ MakeChan
    /\ Return(c, "ok")
    /\ UNCHANGED <<instance, isRunning, panicked, logVars>>

StopIdle(c) ==
    /\ pc[c] = "stop" /\ mutex = NoCaller /\ ~isRunning
    /\ Return(c, "ok")
    /\ UNCHANGED <<coreVars, logVars>>

(* Mutant: Stop does without the mutex. *)
StopLoggerUnlocked(c) ==
    /\ isRunning
    /\ Goto(c, "stop", "close")
    /\ loggerAdded' = FALSE /\ logged' = {}
    /\ UNCHANGED <<mutex, coreVars, waits, ctxDone, ticker, ret>>

StopLogger(c) ==
    /\ isRunning
    /\ Lock(c, "stop", "close")
    /\ loggerAdded' = FALSE /\ logged' = {}
    /\ UNCHANGED coreVars

(* instance.Close() reports an error: the service still counts as running *)
CloseFails(c) ==
    /\ pc[c] = "close" /\ instance
    /\ Return(c, "error")
    /\ UNCHANGED <<coreVars, logVars>>

CloseInstance(c) ==
    /\ pc[c] = "close"
    /\ instance' = FALSE /\ isRunning' = FALSE
    /\ MakeChan
    /\ logged' = IF logged = {} THEN {} ELSE {"old"}
    /\ Return(c, "ok")
    /\ UNCHANGED <<panicked, loggerAdded>>
-----------------------------------------------------------------------------
(* IsRunning and MeasurePing *)

(* Mutant: IsRunning reads the flag without the mutex. *)
IsRunningUnlocked(c) ==
    /\ pc[c] = "query"
    /\ Return(c, IF isRunning THEN "yes" ELSE "no")
    /\ UNCHANGED <<coreVars, logVars>>

IsRunning(c) ==
    /\ pc[c] = "query" /\ mutex = NoCaller
    /\ Return(c, IF isRunning THEN "yes" ELSE "no")
    /\ UNCHANGED <<coreVars, logVars>>

(* select: the channel is closed, or the context is over; either when both *)
PingReady(c) ==
    /\ waits[c] \in closed
    /\ Goto(c, "wait", "lock")
    /\ UNCHANGED <<mutex, coreVars, logVars, waits, ctxDone, ticker, ret>>

(* Mutant: the context is looked at after the channel, not along with it. *)
PingExpiresLate(c) ==
    /\ pc[c] = "wait" /\ ctxDone[c] /\ waits[c] \in closed
    /\ Return(c, "error")
    /\ UNCHANGED <<coreVars, logVars>>

PingExpires(c) ==
    /\ pc[c] = "wait" /\ ctxDone[c]
    /\ Return(c, "error")
    /\ UNCHANGED <<coreVars, logVars>>

PingRefused(c) ==
    /\ pc[c] = "lock" /\ mutex = NoCaller
    /\ ~isRunning \/ ~instance
    /\ Return(c, "error")
    /\ UNCHANGED <<coreVars, logVars>>

PingLock(c) ==
    /\ isRunning /\ instance
    /\ Lock(c, "lock", "http")
    /\ UNCHANGED <<coreVars, logVars>>

(* lines 199-241: the requests go through the instance, the mutex held *)
PingDone(c) ==
    /\ pc[c] = "http"
    /\ \E r \in {"ok", "error"} : Return(c, r)
    /\ UNCHANGED <<coreVars, logVars>>
-----------------------------------------------------------------------------
(* The log buffer: FetchLogs takes the mutex for IsRunning only *)

FetchChecks(c) ==
    /\ pc[c] = "fetch" /\ mutex = NoCaller
    /\ IF isRunning THEN /\ Goto(c, "fetch", "fetching")
                         /\ UNCHANGED <<mutex, waits, ctxDone, ticker, ret>>
                    ELSE Return(c, "no")
    /\ UNCHANGED <<coreVars, logVars>>

FetchLogs(c) ==
    /\ pc[c] = "fetching"
    /\ Return(c, IF logged # {} THEN "yes" ELSE "no")
    /\ logged' = {}
    /\ UNCHANGED <<coreVars, loggerAdded>>

ClearLogs(c) ==
    /\ pc[c] = "clear"
    /\ Return(c, "ok")
    /\ logged' = {}
    /\ UNCHANGED <<coreVars, loggerAdded>>

(* The Xray core logs while it is created, runs or is being closed. *)
WriteLog ==
    /\ instance \/ \E c \in Callers : pc[c] \in {"load", "boot", "close"}
    /\ logged' = logged \cup {"new"}
    /\ UNCHANGED <<mutex, coreVars, loggerAdded, pc, waits, ctxDone, ticker, ret>>
-----------------------------------------------------------------------------
Start(c) ==
    \/ StartRefused(c) \/ StartLogger(c) \/ SetEnv(c) \/ MaxMemory(c) \/ LoadServer(c)
    \/ Boot(c) \/ StartFails(c) \/ FreeFails(c) \/ CloseReady(c)

Stop(c) == StopIdle(c) \/ StopLogger(c) \/ CloseFails(c) \/ CloseInstance(c)

MeasurePing(c) ==
    PingReady(c) \/ PingExpires(c) \/ PingRefused(c) \/ PingLock(c) \/ PingDone(c)

Logs(c) == FetchChecks(c) \/ FetchLogs(c) \/ ClearLogs(c)

Step(c) == Start(c) \/ Stop(c) \/ IsRunning(c) \/ MeasurePing(c) \/ Logs(c)

Next ==
    /\ ~panicked
    /\ \/ \E c \in Callers : Call(c) \/ Step(c) \/ EndCtx(c) \/ FreeMemoryExit(c)
       \/ WriteLog

Spec == Init /\ [][Next]_vars

(* Fairness.  A goroutine that can run does (WF); sync.Mutex hands the lock *)
(* to a waiter that keeps losing it (starvation mode), hence SF on the      *)
(* steps of a call, which are disabled now and then by the mutex only; the  *)
(* 15 s deadline of a ping passes.  Nothing makes a client cancel, call     *)
(* again or write a log line.                                               *)
Deadline(c) == pc[c] \in PingPcs /\ EndCtx(c)

FairSpec ==
    /\ Spec
    /\ \A c \in Callers :
        /\ SF_vars(~panicked /\ Step(c))
        /\ WF_vars(~panicked /\ Deadline(c))
        /\ WF_vars(~panicked /\ FreeMemoryExit(c))
-----------------------------------------------------------------------------
(* Start never closes readyChan twice: every way from one successful Start  *)
(* to the next, failed Starts and failed Stops included, goes through the   *)
(* make() of libxray.go:118.  A second close() would kill the process.      *)
NoDoubleClose == ~panicked

(* While a ping's requests go through the instance, no Stop is closing it   *)
(* or has dropped it: libxray.go:153-242 keeps the mutex over all of them.  *)
PingUsesLiveInstance ==
    \A c \in Callers : pc[c] = "http" => mutex = c /\ isRunning /\ instance

(* What FetchLogs can return of a running core was never logged by a run    *)
(* that a Stop has ended.  StopLogger (libxray.go:108) empties the buffer   *)
(* before the instance is closed, and a closing instance logs: the reset is *)
(* left to the next StartLogger, which skips it when loggerAdded is set.    *)
NoStaleLogs == isRunning => "old" \notin logged

(* A ping that waits "for service to be ready" (libxray.go:145) waits for a *)
(* channel that is closed or that the next Start to succeed will close.     *)
NoLostWakeup ==
    \A c \in Callers : pc[c] = "wait" => waits[c] \in closed \cup {readyChan}

(* The only waiters left behind wait for a channel that a Start left open    *)
(* when the service had come up and its last step failed (libxray.go:88-90): *)
(* no other failure, restart or cancelled call drops a channel somebody      *)
(* waits for and nobody closed.                                              *)
OnlyLateFailuresStrand ==
    \A c \in Callers : pc[c] = "wait" => waits[c] \in closed \cup late \cup {readyChan}

(* No call hangs: not on readyChan, not on the mutex. *)
EveryCallReturns == \A c \in Callers : pc[c] # "idle" ~> pc[c] = "idle"

(* The service as its callers see it: one operation at a time, each at the  *)
(* moment it returns.  Between Boot and its end, Start owns the mutex and   *)
(* the instance is nobody else's business yet.                              *)
Up == isRunning /\ \A c \in Callers : pc[c] # "free"

CallOf(c) ==
    CASE pc[c] \in StartPcs -> "start"
      [] pc[c] \in StopPcs -> "stop"
      [] pc[c] \in PingPcs -> "ping"
      [] pc[c] \in {"fetch", "fetching", "clear"} -> "logs"
      [] OTHER -> pc[c]

Inside == [c \in Callers |-> CallOf(c)]

Core == INSTANCE CoreService WITH
    HalfStarts <- Detached # Callers, up <- Up, call <- Inside

(* XrayService implements the core the gRPC server relies on. *)
ImplementsCore == Core!Spec
=============================================================================
