------------------------- MODULE XrayServiceProofs -------------------------
(* What XrayService guarantees for any number of callers and channels. *)
EXTENDS XrayService, TLAPS

(* XrayService's variables keep their types (libxray.go:21-26). *)
THEOREM TypeCorrect == Spec => []TypeOK
<1>1. Init => TypeOK
  BY DEF Init, TypeOK, Pcs
<1>2. TypeOK /\ [Next]_vars => TypeOK'
  <2> SUFFICES ASSUME TypeOK, [Next]_vars PROVE TypeOK'
    OBVIOUS
  <2> USE CallerAssumption, ChanAssumption, CallsAssumption
      DEF TypeOK, Goto, coreVars, logVars, StartPcs, StopPcs, PingPcs, Pcs
  <2>1. ASSUME NEW c \in Callers, Call(c) PROVE TypeOK'
    BY <2>1 DEF Call, AllCalls
  <2>2. ASSUME NEW c \in Callers, EndCtx(c) PROVE TypeOK'
    BY <2>2 DEF EndCtx, CtxEnds
  <2>3. ASSUME NEW c \in Callers, FreeMemoryExit(c) PROVE TypeOK'
    BY <2>3 DEF FreeMemoryExit
  <2>4. ASSUME NEW c \in Callers, Start(c) PROVE TypeOK'
    <3> USE DEF Return, CtxEnds, Lock, Proceed
    <3>1. CASE StartRefused(c) BY <3>1 DEF StartRefused
    <3>2. CASE StartLogger(c) BY <3>2 DEF StartLogger
    <3>3. CASE SetEnv(c) BY <3>3 DEF SetEnv
    <3>4. CASE MaxMemory(c) BY <3>4 DEF MaxMemory
    <3>5. CASE LoadServer(c) BY <3>5 DEF LoadServer
    <3>6. CASE Boot(c) BY <3>6 DEF Boot
    <3>7. CASE StartFails(c) BY <3>7 DEF StartFails
    <3>8. CASE FreeFails(c) BY <3>8 DEF FreeFails
    <3>9. CASE CloseReady(c) BY <3>9 DEF CloseReady
    <3> QED BY <2>4, <3>1, <3>2, <3>3, <3>4, <3>5, <3>6, <3>7, <3>8, <3>9 DEF Start
  <2>5. ASSUME NEW c \in Callers, Stop(c) PROVE TypeOK'
    <3> USE DEF Return, CtxEnds, Lock
    <3>1. CASE StopIdle(c) BY <3>1 DEF StopIdle
    <3>2. CASE StopLogger(c) BY <3>2 DEF StopLogger
    <3>3. CASE CloseFails(c) BY <3>3 DEF CloseFails
    <3>4. CASE CloseInstance(c) BY <3>4 DEF CloseInstance, MakeChan
    <3> QED BY <2>5, <3>1, <3>2, <3>3, <3>4 DEF Stop
  <2>6. ASSUME NEW c \in Callers, IsRunning(c) PROVE TypeOK'
    BY <2>6 DEF IsRunning, Return, CtxEnds
  <2>7. ASSUME NEW c \in Callers, MeasurePing(c) PROVE TypeOK'
    <3> USE DEF Return, CtxEnds, Lock
    <3>1. CASE PingReady(c) BY <3>1 DEF PingReady
    <3>2. CASE PingExpires(c) BY <3>2 DEF PingExpires
    <3>3. CASE PingRefused(c) BY <3>3 DEF PingRefused
    <3>4. CASE PingLock(c) BY <3>4 DEF PingLock
    <3>5. CASE PingDone(c) BY <3>5 DEF PingDone
    <3> QED BY <2>7, <3>1, <3>2, <3>3, <3>4, <3>5 DEF MeasurePing
  <2>8. ASSUME NEW c \in Callers, Logs(c) PROVE TypeOK'
    <3> USE DEF Return, CtxEnds
    <3>1. CASE FetchChecks(c) BY <3>1 DEF FetchChecks
    <3>2. CASE FetchLogs(c) BY <3>2 DEF FetchLogs
    <3>3. CASE ClearLogs(c) BY <3>3 DEF ClearLogs
    <3> QED BY <2>8, <3>1, <3>2, <3>3 DEF Logs
  <2>9. CASE WriteLog
    BY <2>9 DEF WriteLog
  <2>10. CASE UNCHANGED vars
    BY <2>10 DEF vars
  <2> QED
    BY <2>1, <2>2, <2>3, <2>4, <2>5, <2>6, <2>7, <2>8, <2>9, <2>10 DEF Next, Step
<1> QED BY <1>1, <1>2, PTL DEF Spec
-----------------------------------------------------------------------------
(* The inductive invariant: who holds the mutex, what the holder knows of   *)
(* the service, and that a closed readyChan belongs to a running service.   *)
Owner == \A c \in Callers : pc[c] \in Holding <=> mutex = c
Instance == instance = isRunning
Ready == readyChan \in closed => isRunning
HolderKnows ==
    \A c \in Callers :
        /\ pc[c] \in {"setenv", "maxmem", "load", "boot"} => ~isRunning
        /\ pc[c] \in {"free", "close", "http"} => isRunning
        /\ pc[c] = "free" => readyChan \notin closed

(* A Background context ends for no call but a ping, by its deadline. *)
Undisturbed == \A c \in Detached : pc[c] \notin PingPcs => ~ctxDone[c]

IInv ==
    TypeOK /\ Owner /\ Instance /\ Ready /\ HolderKnows /\ Undisturbed /\ ~panicked

(* Whoever holds xs.mutex finds the service as it left it: instance and      *)
(* isRunning change together, readyChan is open until Start is done with it. *)
THEOREM Inductive == Spec => []IInv
<1>1. Init => IInv
  BY CallerAssumption, DetachedAssumption
  DEF Init, IInv, TypeOK, Pcs, Owner, Instance, Ready, HolderKnows, Holding, Undisturbed
<1>2. TypeOK' /\ IInv /\ [Next]_vars => IInv'
  <2> SUFFICES ASSUME TypeOK', IInv, [Next]_vars PROVE IInv'
    OBVIOUS
  <2> USE CallerAssumption, DetachedAssumption
      DEF IInv, TypeOK, Owner, Instance, Ready, HolderKnows, Holding, Undisturbed,
          PingPcs, Goto, coreVars, logVars, Return, Lock, Proceed
  <2>1. ASSUME NEW c \in Callers, Call(c) PROVE IInv'
    BY <2>1, CallsAssumption DEF Call, AllCalls
  <2>2. ASSUME NEW c \in Callers, EndCtx(c) PROVE IInv'
    BY <2>2 DEF EndCtx
  <2>3. ASSUME NEW c \in Callers, FreeMemoryExit(c) PROVE IInv'
    BY <2>3 DEF FreeMemoryExit
  <2>4. ASSUME NEW c \in Callers, Start(c) PROVE IInv'
    <3>1. CASE StartRefused(c) BY <3>1 DEF StartRefused
    <3>2. CASE StartLogger(c) BY <3>2 DEF StartLogger
    <3>3. CASE SetEnv(c) BY <3>3 DEF SetEnv
    <3>4. CASE MaxMemory(c) BY <3>4 DEF MaxMemory
    <3>5. CASE LoadServer(c) BY <3>5 DEF LoadServer
    <3>6. CASE Boot(c) BY <3>6 DEF Boot
    <3>7. CASE StartFails(c) BY <3>7 DEF StartFails
    <3>8. CASE FreeFails(c) BY <3>8 DEF FreeFails
    <3>9. CASE CloseReady(c) BY <3>9 DEF CloseReady
    <3> QED BY <2>4, <3>1, <3>2, <3>3, <3>4, <3>5, <3>6, <3>7, <3>8, <3>9 DEF Start
  <2>5. ASSUME NEW c \in Callers, Stop(c) PROVE IInv'
    <3>1. CASE StopIdle(c) BY <3>1 DEF StopIdle
    <3>2. CASE StopLogger(c) BY <3>2 DEF StopLogger
    <3>3. CASE CloseFails(c) BY <3>3 DEF CloseFails
    <3>4. CASE CloseInstance(c) BY <3>4 DEF CloseInstance, MakeChan
    <3> QED BY <2>5, <3>1, <3>2, <3>3, <3>4 DEF Stop
  <2>6. ASSUME NEW c \in Callers, IsRunning(c) PROVE IInv'
    BY <2>6 DEF IsRunning
  <2>7. ASSUME NEW c \in Callers, MeasurePing(c) PROVE IInv'
    <3>1. CASE PingReady(c) BY <3>1 DEF PingReady
    <3>2. CASE PingExpires(c) BY <3>2 DEF PingExpires
    <3>3. CASE PingRefused(c) BY <3>3 DEF PingRefused
    <3>4. CASE PingLock(c) BY <3>4 DEF PingLock
    <3>5. CASE PingDone(c) BY <3>5 DEF PingDone
    <3> QED BY <2>7, <3>1, <3>2, <3>3, <3>4, <3>5 DEF MeasurePing
  <2>8. ASSUME NEW c \in Callers, Logs(c) PROVE IInv'
    <3>1. CASE FetchChecks(c) BY <3>1 DEF FetchChecks
    <3>2. CASE FetchLogs(c) BY <3>2 DEF FetchLogs
    <3>3. CASE ClearLogs(c) BY <3>3 DEF ClearLogs
    <3> QED BY <2>8, <3>1, <3>2, <3>3 DEF Logs
  <2>9. CASE WriteLog
    BY <2>9 DEF WriteLog
  <2>10. CASE UNCHANGED vars
    BY <2>10 DEF vars
  <2> QED
    BY <2>1, <2>2, <2>3, <2>4, <2>5, <2>6, <2>7, <2>8, <2>9, <2>10 DEF Next, Step
<1> QED BY <1>1, <1>2, TypeCorrect, PTL DEF Spec

(* Whatever the calls, Start closes a channel that is still open. *)
THEOREM NeverClosesTwice == Spec => []NoDoubleClose
<1>1. IInv => NoDoubleClose
  BY DEF IInv, NoDoubleClose
<1> QED BY <1>1, Inductive, PTL

(* No Stop closes the instance a ping is using. *)
THEOREM PingsAreSafe == Spec => []PingUsesLiveInstance
<1>1. IInv => PingUsesLiveInstance
  BY DEF IInv, PingUsesLiveInstance, Owner, Instance, HolderKnows, Holding
<1> QED BY <1>1, Inductive, PTL
-----------------------------------------------------------------------------
(* A Start that boots the core also closes readyChan or fails late: so a *)
(* channel that Stop replaces is closed, or one of the late ones.         *)
LateInv ==
    /\ isRunning => readyChan \in closed \cup late \/ \E c \in Callers : pc[c] = "free"
    /\ OnlyLateFailuresStrand

(* Whatever ends whose context when, a ping is left waiting only by a Start  *)
(* that fails after the service has come up (libxray.go:88-90).              *)
THEOREM LateFailuresStrand == Spec => []OnlyLateFailuresStrand
<1>1. Init => LateInv
  BY DEF Init, LateInv, OnlyLateFailuresStrand
<1>2. IInv /\ IInv' /\ LateInv /\ [Next]_vars => LateInv'
  <2> SUFFICES ASSUME IInv, IInv', LateInv, [Next]_vars PROVE LateInv'
    OBVIOUS
  <2> USE CallerAssumption, ChanAssumption
      DEF IInv, TypeOK, Owner, HolderKnows, Holding, Undisturbed, LateInv, OnlyLateFailuresStrand, PingPcs,
          Goto, coreVars, logVars, Return, Lock, Proceed
  <2>1. ASSUME NEW c \in Callers, Call(c) PROVE LateInv'
    BY <2>1, CallsAssumption DEF Call, AllCalls
  <2>2. ASSUME NEW c \in Callers, EndCtx(c) PROVE LateInv'
    BY <2>2 DEF EndCtx
  <2>3. ASSUME NEW c \in Callers, FreeMemoryExit(c) PROVE LateInv'
    BY <2>3 DEF FreeMemoryExit
  <2>4. ASSUME NEW c \in Callers, Start(c) PROVE LateInv'
    <3>1. CASE StartRefused(c) BY <3>1 DEF StartRefused
    <3>2. CASE StartLogger(c) BY <3>2 DEF StartLogger
    <3>3. CASE SetEnv(c) BY <3>3 DEF SetEnv
    <3>4. CASE MaxMemory(c) BY <3>4 DEF MaxMemory
    <3>5. CASE LoadServer(c) BY <3>5 DEF LoadServer
    <3>6. CASE Boot(c) BY <3>6 DEF Boot
    <3>7. CASE StartFails(c) BY <3>7 DEF StartFails
    <3>8. CASE FreeFails(c) BY <3>8 DEF FreeFails
    <3>9. CASE CloseReady(c) BY <3>9 DEF CloseReady
    <3> QED BY <2>4, <3>1, <3>2, <3>3, <3>4, <3>5, <3>6, <3>7, <3>8, <3>9 DEF Start
  <2>5. ASSUME NEW c \in Callers, Stop(c) PROVE LateInv'
    <3>1. CASE StopIdle(c) BY <3>1 DEF StopIdle
    <3>2. CASE StopLogger(c) BY <3>2 DEF StopLogger
    <3>3. CASE CloseFails(c) BY <3>3 DEF CloseFails
    <3>4. CASE CloseInstance(c)
      <4>1. readyChan \in closed \cup late
        BY <3>4 DEF CloseInstance
      <4>2. ASSUME NEW d \in Callers, pc'[d] = "wait" PROVE waits'[d] \in closed' \cup late'
        BY <3>4, <4>1, <4>2 DEF CloseInstance, MakeChan
      <4> QED BY <3>4, <4>2 DEF CloseInstance
    <3> QED BY <2>5, <3>1, <3>2, <3>3, <3>4 DEF Stop
  <2>6. ASSUME NEW c \in Callers, IsRunning(c) PROVE LateInv'
    BY <2>6 DEF IsRunning
  <2>7. ASSUME NEW c \in Callers, MeasurePing(c) PROVE LateInv'
    <3>1. CASE PingReady(c) BY <3>1 DEF PingReady
    <3>2. CASE PingExpires(c) BY <3>2 DEF PingExpires
    <3>3. CASE PingRefused(c) BY <3>3 DEF PingRefused
    <3>4. CASE PingLock(c) BY <3>4 DEF PingLock
    <3>5. CASE PingDone(c) BY <3>5 DEF PingDone
    <3> QED BY <2>7, <3>1, <3>2, <3>3, <3>4, <3>5 DEF MeasurePing
  <2>8. ASSUME NEW c \in Callers, Logs(c) PROVE LateInv'
    <3>1. CASE FetchChecks(c) BY <3>1 DEF FetchChecks
    <3>2. CASE FetchLogs(c) BY <3>2 DEF FetchLogs
    <3>3. CASE ClearLogs(c) BY <3>3 DEF ClearLogs
    <3> QED BY <2>8, <3>1, <3>2, <3>3 DEF Logs
  <2>9. CASE WriteLog
    BY <2>9 DEF WriteLog
  <2>10. CASE UNCHANGED vars
    BY <2>10 DEF vars
  <2> QED
    BY <2>1, <2>2, <2>3, <2>4, <2>5, <2>6, <2>7, <2>8, <2>9, <2>10 DEF Next, Step
<1>3. LateInv => OnlyLateFailuresStrand
  BY DEF LateInv
<1> QED BY <1>1, <1>2, <1>3, Inductive, PTL DEF Spec

(* Without request contexts no Start fails that late: on the iOS path no ping *)
(* is left waiting for a channel that nothing will close any more.            *)
THEOREM DelegatesLoseNoWakeup ==
    ASSUME Detached = Callers PROVE Spec => []NoLostWakeup
<1>1. Init => late = {}
  BY DEF Init
<1>2. IInv /\ late = {} /\ [Next]_vars => (late = {})'
  <2> SUFFICES ASSUME IInv, late = {}, [Next]_vars PROVE late' = {}
    OBVIOUS
  <2> USE DEF coreVars
  <2>1. ASSUME NEW c \in Callers, Call(c) \/ EndCtx(c) \/ FreeMemoryExit(c) PROVE late' = {}
    BY <2>1 DEF Call, EndCtx, FreeMemoryExit
  <2>2. ASSUME NEW c \in Callers, Start(c) PROVE late' = {}
    <3>1. ~FreeFails(c)
      BY Detached = Callers DEF FreeFails, IInv, Undisturbed, PingPcs
    <3> QED
      BY <2>2, <3>1 DEF Start, StartRefused, StartLogger, SetEnv, MaxMemory, LoadServer,
                        Boot, StartFails, CloseReady
  <2>3. ASSUME NEW c \in Callers, Stop(c) PROVE late' = {}
    BY <2>3 DEF Stop, StopIdle, StopLogger, CloseFails, CloseInstance, MakeChan
  <2>4. ASSUME NEW c \in Callers, IsRunning(c) \/ MeasurePing(c) \/ Logs(c) PROVE late' = {}
    BY <2>4 DEF IsRunning, MeasurePing, PingReady, PingExpires, PingRefused, PingLock,
                PingDone, Logs, FetchChecks, FetchLogs, ClearLogs
  <2>5. CASE WriteLog \/ UNCHANGED vars
    BY <2>5 DEF WriteLog, vars
  <2> QED BY <2>1, <2>2, <2>3, <2>4, <2>5 DEF Next, Step
<1>3. OnlyLateFailuresStrand /\ late = {} => NoLostWakeup
  BY DEF OnlyLateFailuresStrand, NoLostWakeup
<1> QED BY <1>1, <1>2, <1>3, Inductive, LateFailuresStrand, PTL DEF Spec
-----------------------------------------------------------------------------
(* Lines of an ended run survive Stop only as long as StartLogger has yet to *)
(* look at the buffer: whoever is past it has the handler added, whoever     *)
(* closes the instance has taken it away.                                    *)
LogInv ==
    /\ "old" \in logged => ~loggerAdded /\ ~isRunning
    /\ \A c \in Callers :
        /\ pc[c] \in {"setenv", "maxmem", "load", "boot"} => loggerAdded
        /\ pc[c] = "close" => ~loggerAdded

(* A running core's log never holds what an earlier run wrote, though Stop   *)
(* empties the buffer before the instance's last lines (libxray.go:108).     *)
THEOREM LogsAreFresh == Spec => []NoStaleLogs
<1>1. Init => LogInv
  BY DEF Init, LogInv
<1>2. IInv /\ LogInv /\ [Next]_vars => LogInv'
  <2> SUFFICES ASSUME IInv, LogInv, [Next]_vars PROVE LogInv'
    OBVIOUS
  <2> USE CallerAssumption
      DEF IInv, TypeOK, Owner, HolderKnows, Holding, LogInv,
          Goto, coreVars, logVars, Return, Lock, Proceed
  <2>1. ASSUME NEW c \in Callers, Call(c) PROVE LogInv'
    BY <2>1, CallsAssumption DEF Call, AllCalls
  <2>2. ASSUME NEW c \in Callers, EndCtx(c) PROVE LogInv'
    BY <2>2 DEF EndCtx
  <2>3. ASSUME NEW c \in Callers, FreeMemoryExit(c) PROVE LogInv'
    BY <2>3 DEF FreeMemoryExit
  <2>4. ASSUME NEW c \in Callers, Start(c) PROVE LogInv'
    <3>1. CASE StartRefused(c) BY <3>1 DEF StartRefused
    <3>2. CASE StartLogger(c) BY <3>2 DEF StartLogger
    <3>3. CASE SetEnv(c) BY <3>3 DEF SetEnv
    <3>4. CASE MaxMemory(c) BY <3>4 DEF MaxMemory
    <3>5. CASE LoadServer(c) BY <3>5 DEF LoadServer
    <3>6. CASE Boot(c) BY <3>6 DEF Boot
    <3>7. CASE StartFails(c) BY <3>7 DEF StartFails
    <3>8. CASE FreeFails(c) BY <3>8 DEF FreeFails
    <3>9. CASE CloseReady(c) BY <3>9 DEF CloseReady
    <3> QED BY <2>4, <3>1, <3>2, <3>3, <3>4, <3>5, <3>6, <3>7, <3>8, <3>9 DEF Start
  <2>5. ASSUME NEW c \in Callers, Stop(c) PROVE LogInv'
    <3>1. CASE StopIdle(c) BY <3>1 DEF StopIdle
    <3>2. CASE StopLogger(c) BY <3>2 DEF StopLogger
    <3>3. CASE CloseFails(c) BY <3>3 DEF CloseFails
    <3>4. CASE CloseInstance(c) BY <3>4 DEF CloseInstance, MakeChan
    <3> QED BY <2>5, <3>1, <3>2, <3>3, <3>4 DEF Stop
  <2>6. ASSUME NEW c \in Callers, IsRunning(c) PROVE LogInv'
    BY <2>6 DEF IsRunning
  <2>7. ASSUME NEW c \in Callers, MeasurePing(c) PROVE LogInv'
    <3>1. CASE PingReady(c) BY <3>1 DEF PingReady
    <3>2. CASE PingExpires(c) BY <3>2 DEF PingExpires
    <3>3. CASE PingRefused(c) BY <3>3 DEF PingRefused
    <3>4. CASE PingLock(c) BY <3>4 DEF PingLock
    <3>5. CASE PingDone(c) BY <3>5 DEF PingDone
    <3> QED BY <2>7, <3>1, <3>2, <3>3, <3>4, <3>5 DEF MeasurePing
  <2>8. ASSUME NEW c \in Callers, Logs(c) PROVE LogInv'
    <3>1. CASE FetchChecks(c) BY <3>1 DEF FetchChecks
    <3>2. CASE FetchLogs(c) BY <3>2 DEF FetchLogs
    <3>3. CASE ClearLogs(c) BY <3>3 DEF ClearLogs
    <3> QED BY <2>8, <3>1, <3>2, <3>3 DEF Logs
  <2>9. CASE WriteLog
    BY <2>9 DEF WriteLog
  <2>10. CASE UNCHANGED vars
    BY <2>10 DEF vars
  <2> QED
    BY <2>1, <2>2, <2>3, <2>4, <2>5, <2>6, <2>7, <2>8, <2>9, <2>10 DEF Next, Step
<1>3. LogInv => NoStaleLogs
  BY DEF LogInv, NoStaleLogs
<1> QED BY <1>1, <1>2, <1>3, Inductive, PTL DEF Spec
-----------------------------------------------------------------------------
(* A step of c's call either stays inside the operation, and nobody can     *)
(* tell, or is the instant at which the operation takes effect.             *)

(* A step of c moves c alone from one operation to another. *)
LEMMA InsideMoves ==
    ASSUME TypeOK, NEW c \in Callers, NEW q, pc' = [pc EXCEPT ![c] = q]
    PROVE  Inside' = [Inside EXCEPT ![c] = CallOf(c)']
<1>1. ASSUME NEW d \in Callers, d # c PROVE CallOf(d)' = CallOf(d)
  <2>1. pc'[d] = pc[d]
    BY <1>1 DEF TypeOK
  <2> QED BY <2>1 DEF CallOf
<1> QED BY <1>1 DEF Inside

(* A step that keeps the operation, the answers and Up is none of the core. *)
LEMMA HiddenStep ==
    ASSUME TypeOK, NEW c \in Callers, NEW q, pc' = [pc EXCEPT ![c] = q],
           CallOf(c)' = CallOf(c), Up' = Up, ret' = ret
    PROVE  UNCHANGED Core!coreVars
<1>1. Inside' = [Inside EXCEPT ![c] = CallOf(c)]
  BY InsideMoves
<1>2. Inside' = Inside
  BY <1>1 DEF Inside
<1> QED BY <1>2 DEF Core!coreVars

(* A return ends the operation with the answer it gave. *)
LEMMA FinishStep ==
    ASSUME TypeOK, NEW c \in Callers, NEW r, Return(c, r), NEW op, CallOf(c) = op
    PROVE  Core!Finish(c, op, r)
<1>1. Inside' = [Inside EXCEPT ![c] = CallOf(c)']
  BY InsideMoves DEF Return
<1>2. CallOf(c)' = "idle"
  BY DEF TypeOK, Return, CallOf, StartPcs, StopPcs, PingPcs
<1>3. Inside[c] = op
  BY DEF Inside
<1> QED BY <1>1, <1>2, <1>3 DEF Core!Finish, Return

(* A step inside a call that leaves the answer to IsRunning as it was. *)
LEMMA StutterStep ==
    ASSUME TypeOK, UNCHANGED <<pc, isRunning, ret>>
    PROVE  UNCHANGED Core!coreVars
BY DEF Core!coreVars, Inside, CallOf, Up

(* XrayService is the core that server.go relies on: each of its calls      *)
(* takes effect at one instant, and only a request's context, ending at the *)
(* wrong moment, makes a Start fail that brought the service up.            *)
THEOREM Implements == Spec => ImplementsCore
<1>1. Init => Core!Init
  BY DEF Init, Core!Init, Inside, CallOf, Up, StartPcs, StopPcs, PingPcs
<1>2. IInv /\ IInv' /\ [Next]_vars => [Core!Next]_(Core!coreVars)
  <2> SUFFICES ASSUME IInv, IInv', [Next]_vars PROVE [Core!Next]_(Core!coreVars)
    OBVIOUS
  <2>0. TypeOK
    BY DEF IInv
  <2> USE DEF StartPcs, StopPcs, PingPcs
  <2>1. ASSUME NEW c \in Callers, Call(c) PROVE Core!Invoke(c)
    <3>1. PICK op \in Calls : Goto(c, "idle", op)
      BY <2>1 DEF Call
    <3>2. Inside' = [Inside EXCEPT ![c] = CallOf(c)']
      BY <2>0, <3>1, InsideMoves DEF Goto
    <3>3. CallOf(c)' \in Core!Ops
      BY <2>0, <3>1, CallsAssumption DEF TypeOK, Goto, AllCalls, CallOf, Core!Ops
    <3>4. Inside[c] = "idle"
      BY <3>1 DEF Goto, Inside, CallOf
    <3>5. Up' = Up
      BY <2>0, <2>1, <3>1, CallsAssumption DEF TypeOK, Call, Goto, coreVars, Up, AllCalls
    <3> QED BY <2>1, <3>2, <3>3, <3>4, <3>5 DEF Call, Core!Invoke
  <2>2. ASSUME NEW c \in Callers, EndCtx(c) \/ FreeMemoryExit(c)
        PROVE UNCHANGED Core!coreVars
    BY <2>0, <2>2, StutterStep DEF EndCtx, FreeMemoryExit, coreVars
  <2>3. ASSUME NEW c \in Callers, Start(c) PROVE [Core!Next]_(Core!coreVars)
    <3>1. CASE StartRefused(c) \/ StartFails(c)
      <4>1. Core!Finish(c, "start", "error")
        BY <2>0, <3>1, FinishStep DEF StartRefused, StartFails, CallOf
      <4>2. Up' = Up
        BY <2>0, <3>1 DEF TypeOK, StartRefused, StartFails, Return, Up, coreVars
      <4> QED BY <4>1, <4>2 DEF Core!Next, Core!StartFail
    <3>2. CASE StartLogger(c) \/ SetEnv(c) \/ MaxMemory(c) \/ LoadServer(c)
      <4>1. PICK q : q \in {"setenv", "maxmem", "load", "boot"}
                     /\ pc' = [pc EXCEPT ![c] = q]
        BY <3>2 DEF StartLogger, Lock, SetEnv, MaxMemory, LoadServer, Proceed, Goto
      <4>2. CallOf(c)' = CallOf(c)
        BY <2>0, <3>2, <4>1
        DEF TypeOK, CallOf, StartLogger, Lock, SetEnv, MaxMemory, LoadServer, Proceed, Goto
      <4>3. Up' = Up /\ ret' = ret
        BY <2>0, <3>2, <4>1
        DEF TypeOK, Up, coreVars, StartLogger, Lock, SetEnv, MaxMemory, LoadServer,
            Proceed, Goto
      <4> QED BY <2>0, <4>1, <4>2, <4>3, HiddenStep
    <3>3. CASE Boot(c)
      <4>1. pc' = [pc EXCEPT ![c] = "free"] /\ pc[c] = "boot"
        BY <3>3 DEF Boot, Proceed, Goto
      <4>2. CallOf(c)' = CallOf(c)
        BY <2>0, <4>1 DEF TypeOK, CallOf
      <4>3. Up' = Up /\ ret' = ret
        BY <2>0, <3>3, <4>1 DEF IInv, HolderKnows, TypeOK, Up, Boot, Proceed
      <4> QED BY <2>0, <4>1, <4>2, <4>3, HiddenStep
    <3>4. CASE FreeFails(c)
      <4>1. Core!Finish(c, "start", "error")
        BY <2>0, <3>4, FinishStep DEF FreeFails, CallOf
      <4>2. c \notin Detached
        BY <3>4 DEF FreeFails, IInv, Undisturbed
      <4>3. ~Up /\ Up'
        BY <2>0, <3>4 DEF IInv, TypeOK, Owner, HolderKnows, Holding, FreeFails, Return,
                          Up, coreVars
      <4> QED BY <4>1, <4>2, <4>3 DEF Core!Next, Core!StartHalf, Up
    <3>5. CASE CloseReady(c)
      <4>1. Core!Finish(c, "start", "ok")
        BY <2>0, <3>5, FinishStep DEF CloseReady, CallOf
      <4>2. ~Up /\ Up'
        BY <2>0, <3>5 DEF IInv, TypeOK, Owner, HolderKnows, Holding, CloseReady, Return, Up
      <4> QED BY <4>1, <4>2 DEF Core!Next, Core!StartOk, Up
    <3> QED BY <2>3, <3>1, <3>2, <3>3, <3>4, <3>5 DEF Start
  <2>4. ASSUME NEW c \in Callers, Stop(c) PROVE [Core!Next]_(Core!coreVars)
    <3>1. CASE StopIdle(c)
      <4>1. Core!Finish(c, "stop", "ok")
        BY <2>0, <3>1, FinishStep DEF StopIdle, CallOf
      <4>2. Up' = FALSE
        BY <3>1 DEF StopIdle, Up, coreVars
      <4> QED BY <4>1, <4>2 DEF Core!Next, Core!StopOk
    <3>2. CASE StopLogger(c)
      <4>1. pc' = [pc EXCEPT ![c] = "close"] /\ pc[c] = "stop"
        BY <3>2 DEF StopLogger, Lock, Goto
      <4>2. CallOf(c)' = CallOf(c)
        BY <2>0, <4>1 DEF TypeOK, CallOf
      <4>3. Up' = Up /\ ret' = ret
        BY <2>0, <3>2, <4>1 DEF TypeOK, Up, StopLogger, Lock, coreVars
      <4> QED BY <2>0, <4>1, <4>2, <4>3, HiddenStep
    <3>3. CASE CloseFails(c)
      <4>1. Core!Finish(c, "stop", "error")
        BY <2>0, <3>3, FinishStep DEF CloseFails, CallOf
      <4>2. Up /\ Up'
        BY <2>0, <3>3 DEF IInv, TypeOK, Owner, HolderKnows, Holding, CloseFails, Return,
                          Up, coreVars
      <4> QED BY <4>1, <4>2 DEF Core!Next, Core!StopFail
    <3>4. CASE CloseInstance(c)
      <4>1. Core!Finish(c, "stop", "ok")
        BY <2>0, <3>4, FinishStep DEF CloseInstance, CallOf
      <4>2. Up' = FALSE
        BY <3>4 DEF CloseInstance, Up
      <4> QED BY <4>1, <4>2 DEF Core!Next, Core!StopOk
    <3> QED BY <2>4, <3>1, <3>2, <3>3, <3>4 DEF Stop
  <2>5. ASSUME NEW c \in Callers, IsRunning(c) PROVE Core!Query(c)
    <3>1. Core!Finish(c, "query", IF isRunning THEN "yes" ELSE "no")
      BY <2>0, <2>5, FinishStep DEF IsRunning, CallOf
    <3>2. Up = isRunning /\ Up' = Up
      BY <2>0, <2>5, CallerAssumption
      DEF IInv, TypeOK, Owner, Holding, IsRunning, Return, Up, coreVars
    <3> QED BY <3>1, <3>2 DEF Core!Query
  <2>6. ASSUME NEW c \in Callers, MeasurePing(c) PROVE [Core!Next]_(Core!coreVars)
    <3>1. CASE PingReady(c) \/ PingLock(c)
      <4>1. PICK q \in {"lock", "http"} : pc' = [pc EXCEPT ![c] = q]
        BY <3>1 DEF PingReady, PingLock, Lock, Goto
      <4>2. CallOf(c)' = CallOf(c)
        BY <2>0, <3>1, <4>1 DEF TypeOK, CallOf, PingReady, PingLock, Lock, Goto
      <4>3. Up' = Up /\ ret' = ret
        BY <2>0, <3>1, <4>1 DEF TypeOK, Up, PingReady, PingLock, Lock, Goto, coreVars
      <4> QED BY <2>0, <4>1, <4>2, <4>3, HiddenStep
    <3>2. CASE PingExpires(c) \/ PingRefused(c)
      <4>1. Core!Finish(c, "ping", "error")
        BY <2>0, <3>2, FinishStep DEF PingExpires, PingRefused, CallOf
      <4>2. Up' = Up
        BY <2>0, <3>2 DEF TypeOK, PingExpires, PingRefused, Return, Up, coreVars
      <4> QED BY <4>1, <4>2 DEF Core!Next, Core!PingFail
    <3>3. CASE PingDone(c)
      <4>1. PICK r \in {"ok", "error"} : Return(c, r)
        BY <3>3 DEF PingDone
      <4>2. Core!Finish(c, "ping", r)
        BY <2>0, <3>3, <4>1, FinishStep DEF PingDone, CallOf
      <4>3. Up /\ Up' = Up
        BY <2>0, <3>3, <4>1
        DEF IInv, TypeOK, Owner, HolderKnows, Holding, PingDone, Return, Up, coreVars
      <4> QED BY <4>1, <4>2, <4>3 DEF Core!Next, Core!PingOk, Core!PingFail
    <3> QED BY <2>6, <3>1, <3>2, <3>3 DEF MeasurePing
  <2>7. ASSUME NEW c \in Callers, Logs(c) PROVE [Core!Next]_(Core!coreVars)
    <3>1. CASE pc' = [pc EXCEPT ![c] = "fetching"] /\ FetchChecks(c) /\ ret' = ret
      <4>1. CallOf(c)' = CallOf(c)
        BY <2>0, <3>1 DEF TypeOK, CallOf, FetchChecks
      <4>2. Up' = Up
        BY <2>0, <3>1 DEF TypeOK, Up, FetchChecks, coreVars
      <4> QED BY <2>0, <3>1, <4>1, <4>2, HiddenStep
    <3>2. CASE \E r \in {"ok", "yes", "no"} : Return(c, r)
      <4>1. PICK r \in {"ok", "yes", "no"} : Return(c, r)
        BY <3>2
      <4>2. CallOf(c) = "logs" /\ pc[c] # "free"
        BY <2>7 DEF Logs, FetchChecks, FetchLogs, ClearLogs, CallOf
      <4>3. Core!Finish(c, "logs", r)
        BY <2>0, <4>1, <4>2, FinishStep
      <4>4. Up' = Up
        BY <2>0, <2>7, <4>1, <4>2
        DEF TypeOK, Logs, FetchChecks, FetchLogs, ClearLogs, Return, Up, coreVars
      <4> QED BY <4>3, <4>4 DEF Core!Next, Core!Logs
    <3> QED BY <2>7, <3>1, <3>2 DEF Logs, FetchChecks, FetchLogs, ClearLogs, Goto
  <2>8. CASE WriteLog
    BY <2>0, <2>8, StutterStep DEF WriteLog, coreVars
  <2>9. CASE UNCHANGED vars
    BY <2>0, <2>9, StutterStep DEF vars, coreVars
  <2> QED
    BY <2>1, <2>2, <2>3, <2>4, <2>5, <2>6, <2>7, <2>8, <2>9
    DEF Next, Step, Core!Next
<1> QED BY <1>1, <1>2, Inductive, PTL DEF Spec, ImplementsCore, Core!Spec
=============================================================================
