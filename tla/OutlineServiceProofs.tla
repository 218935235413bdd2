------------------------ MODULE OutlineServiceProofs ------------------------
(* What OutlineService guarantees for any number of callers and sockets. *)
EXTENDS OutlineService, TLAPS

(* OutlineService's variables keep their types (liboutline.go:66-76). *)
THEOREM TypeCorrect == Spec => []TypeOK
<1>1. Init => TypeOK
  BY DEF Init, TypeOK, Pcs
<1>2. TypeOK /\ [Next]_vars => TypeOK'
  <2> SUFFICES ASSUME TypeOK, [Next]_vars PROVE TypeOK'
    OBVIOUS
  <2> USE DEF TypeOK, Goto, Return, Lock, Pcs
  <2>1. ASSUME NEW c \in Callers, Call(c) PROVE TypeOK'
    BY <2>1 DEF Call
  <2>2. ASSUME NEW c \in Callers, Step(c) PROVE TypeOK'
    <3>1. CASE StartRefused(c) BY <3>1 DEF StartRefused
    <3>2. CASE InitDialers(c) BY <3>2 DEF InitDialers
    <3>3. CASE ListenFails(c) BY <3>3 DEF ListenFails
    <3>4. CASE Listen(c) BY <3>4 DEF Listen, Fresh
    <3>5. CASE StopIdle(c) BY <3>5 DEF StopIdle
    <3>6. CASE CloseListener(c) BY <3>6 DEF CloseListener
    <3>7. CASE Reset(c) BY <3>7 DEF Reset
    <3>8. CASE PingNothing(c) BY <3>8 DEF PingNothing
    <3>9. CASE PingDials(c) BY <3>9 DEF PingDials
    <3>10. CASE IsRunning(c) BY <3>10 DEF IsRunning
    <3>11. CASE FetchLogs(c) BY <3>11 DEF FetchLogs
    <3>12. CASE ClearLogs(c) BY <3>12 DEF ClearLogs
    <3> QED
      BY <2>2, <3>1, <3>2, <3>3, <3>4, <3>5, <3>6, <3>7, <3>8, <3>9, <3>10, <3>11, <3>12
      DEF Step
  <2>3. ASSUME NEW l \in Listeners, ServeBegins(l) \/ ServeEnds(l) \/ AcceptFails(l)
        PROVE TypeOK'
    BY <2>3 DEF ServeBegins, ServeEnds, AcceptFails
  <2>4. CASE UNCHANGED vars
    BY <2>4 DEF vars
  <2> QED BY <2>1, <2>2, <2>3, <2>4 DEF Next
<1> QED BY <1>1, <1>2, PTL DEF Spec
-----------------------------------------------------------------------------
(* The mutex is held by whoever is between InitDialers and Listen or        *)
(* between CloseListener and Reset, and then the service does not run.      *)
Owner == \A c \in Callers : pc[c] \in Holding => mutex = c /\ ~isRunning

(* A service that does not run has no socket: Listen forgets none. *)
ClosedWhenDown == ~isRunning => open = {}

IInv == TypeOK /\ Owner /\ ClosedWhenDown /\ NoLeakedListener /\ Served

(* A socket is opened and named, or closed and forgotten, under one hold of *)
(* osrv.mu (liboutline.go:129-133, 247-261).                                *)
THEOREM Inductive == Spec => []IInv
<1>1. Init => IInv
  BY ListenerAssumption
  DEF Init, IInv, TypeOK, Pcs, Owner, Holding, ClosedWhenDown, NoLeakedListener, Served
<1>2. IInv /\ TypeOK' /\ [Next]_vars => IInv'
  <2> SUFFICES ASSUME IInv, TypeOK', [Next]_vars PROVE IInv'
    OBVIOUS
  <2> USE CallerAssumption, ListenerAssumption
      DEF IInv, TypeOK, Owner, Holding, ClosedWhenDown, NoLeakedListener, Served, Goto,
          Return, Lock
  <2>1. ASSUME NEW c \in Callers, Call(c) PROVE IInv'
    BY <2>1 DEF Call
  <2>2. ASSUME NEW c \in Callers, Step(c) PROVE IInv'
    <3>1. CASE StartRefused(c) BY <3>1 DEF StartRefused
    <3>2. CASE InitDialers(c) BY <3>2 DEF InitDialers
    <3>3. CASE ListenFails(c) BY <3>3 DEF ListenFails
    <3>4. CASE Listen(c)
      <4>0. open = {}
        BY <3>4 DEF Listen
      <4>1. PICK l \in Listeners :
              /\ listener' = l /\ open' = open \cup {l}
              /\ accept' = [accept EXCEPT ![l] = "spawned"]
        BY <3>4 DEF Listen, Fresh
      <4>2. Served'
        BY <4>0, <4>1
      <4>3. \A d \in Callers : pc'[d] \notin Holding
        BY <3>4 DEF Listen
      <4> QED BY <3>4, <4>0, <4>1, <4>2, <4>3 DEF Listen
    <3>5. CASE StopIdle(c) BY <3>5 DEF StopIdle
    <3>6. CASE CloseListener(c) BY <3>6 DEF CloseListener
    <3>7. CASE Reset(c) BY <3>7 DEF Reset
    <3>8. CASE PingNothing(c) BY <3>8 DEF PingNothing
    <3>9. CASE PingDials(c) BY <3>9 DEF PingDials
    <3>10. CASE IsRunning(c) BY <3>10 DEF IsRunning
    <3>11. CASE FetchLogs(c) BY <3>11 DEF FetchLogs
    <3>12. CASE ClearLogs(c) BY <3>12 DEF ClearLogs
    <3> QED
      BY <2>2, <3>1, <3>2, <3>3, <3>4, <3>5, <3>6, <3>7, <3>8, <3>9, <3>10, <3>11, <3>12
      DEF Step
  <2>3. ASSUME NEW l \in Listeners, ServeBegins(l) PROVE IInv'
    BY <2>3 DEF ServeBegins
  <2>4. ASSUME NEW l \in Listeners, ServeEnds(l) PROVE IInv'
    BY <2>4 DEF ServeEnds
  <2>5. ASSUME NEW l \in Listeners, AcceptFails(l) PROVE IInv'
    BY <2>5 DEF AcceptFails
  <2>6. CASE UNCHANGED vars
    BY <2>6 DEF vars
  <2> QED BY <2>1, <2>2, <2>3, <2>4, <2>5, <2>6 DEF Next
<1> QED BY <1>1, <1>2, TypeCorrect, PTL DEF Spec

(* The only socket that accepts connections is the one Stop will close. *)
THEOREM NothingLeaks == Spec => []NoLeakedListener
<1>1. IInv => NoLeakedListener
  BY DEF IInv
<1> QED BY <1>1, Inductive, PTL

(* No Start leaves its socket without a goroutine to serve it. *)
THEOREM OpenMeansServed == Spec => []Served
<1>1. IInv => Served
  BY DEF IInv
<1> QED BY <1>1, Inductive, PTL
-----------------------------------------------------------------------------
(* A service that runs has its dialers and its listener, and Start has the  *)
(* dialers before it listens.                                               *)
Equipped ==
    /\ isRunning => dialer /\ listener # NoListener
    /\ \A c \in Callers : pc[c] = "listen" => dialer
    /\ panicked # "no" => ~isRunning

(* Neither of the two nil dereferences, of osrv.listener in the goroutine    *)
(* (line 138) and of osrv.ssStreamDialer in MeasurePing (line 295), can hit  *)
(* a service that runs: they are left to what comes before a Start or after  *)
(* a Stop, and no crossing of the six operations adds another way.           *)
THEOREM OnlyWhenDown == Spec => [](panicked # "no" => ~isRunning)
<1>1. Init => Equipped
  BY DEF Init, Equipped
<1>2. IInv /\ Equipped /\ [Next]_vars => Equipped'
  <2> SUFFICES ASSUME IInv, Equipped, [Next]_vars PROVE Equipped'
    OBVIOUS
  <2> USE ListenerAssumption
      DEF IInv, TypeOK, Owner, Holding, Equipped, Goto, Return, Lock
  <2>1. ASSUME NEW c \in Callers, Call(c) PROVE Equipped'
    BY <2>1 DEF Call
  <2>2. ASSUME NEW c \in Callers, Step(c), panicked = "no" PROVE Equipped'
    <3>1. CASE StartRefused(c) BY <3>1 DEF StartRefused
    <3>2. CASE InitDialers(c) BY <3>2 DEF InitDialers
    <3>3. CASE ListenFails(c) BY <3>3 DEF ListenFails
    <3>4. CASE Listen(c) BY <2>2, <3>4 DEF Listen, Fresh
    <3>5. CASE StopIdle(c) BY <3>5 DEF StopIdle
    <3>6. CASE CloseListener(c) BY <3>6 DEF CloseListener
    <3>7. CASE Reset(c) BY <3>7 DEF Reset
    <3>8. CASE PingNothing(c) BY <3>8 DEF PingNothing
    <3>9. CASE PingDials(c) BY <3>9 DEF PingDials
    <3>10. CASE IsRunning(c) BY <3>10 DEF IsRunning
    <3>11. CASE FetchLogs(c) BY <3>11 DEF FetchLogs
    <3>12. CASE ClearLogs(c) BY <3>12 DEF ClearLogs
    <3> QED
      BY <2>2, <3>1, <3>2, <3>3, <3>4, <3>5, <3>6, <3>7, <3>8, <3>9, <3>10, <3>11, <3>12
      DEF Step
  <2>3. ASSUME NEW l \in Listeners, ServeBegins(l) \/ ServeEnds(l) \/ AcceptFails(l)
        PROVE Equipped'
    BY <2>3 DEF ServeBegins, ServeEnds, AcceptFails
  <2>4. CASE UNCHANGED vars
    BY <2>4 DEF vars
  <2> QED
    BY <2>1, <2>2, <2>3, <2>4 DEF Next
<1>3. Equipped => (panicked # "no" => ~isRunning)
  BY DEF Equipped
<1> QED BY <1>1, <1>2, <1>3, Inductive, PTL DEF Spec
-----------------------------------------------------------------------------
(* A step of c moves c alone from one operation to another. *)
LEMMA InsideMoves ==
    ASSUME TypeOK, NEW c \in Callers, NEW q, pc' = [pc EXCEPT ![c] = q]
    PROVE  Inside' = [Inside EXCEPT ![c] = CallOf(c)']
<1>1. ASSUME NEW d \in Callers, d # c PROVE CallOf(d)' = CallOf(d)
  <2>1. pc'[d] = pc[d]
    BY <1>1 DEF TypeOK
  <2> QED BY <2>1 DEF CallOf
<1> QED BY <1>1 DEF Inside

(* A return ends the operation with the answer it gave. *)
LEMMA FinishStep ==
    ASSUME TypeOK, NEW c \in Callers, NEW r, NEW from, Return(c, from, r),
           NEW op, CallOf(c) = op
    PROVE  Core!Finish(c, op, r)
<1>1. Inside' = [Inside EXCEPT ![c] = CallOf(c)']
  BY InsideMoves DEF Return, Goto
<1>2. CallOf(c)' = "idle"
  BY DEF TypeOK, Return, Goto, CallOf
<1>3. Inside[c] = op
  BY DEF Inside
<1> QED BY <1>1, <1>2, <1>3 DEF Core!Finish, Return

(* A step that keeps the operation, the answers and Up is none of the core. *)
LEMMA HiddenStep ==
    ASSUME TypeOK, NEW c \in Callers, NEW q, pc' = [pc EXCEPT ![c] = q],
           CallOf(c)' = CallOf(c), Up' = Up, ret' = ret
    PROVE  UNCHANGED Core!coreVars
<1>1. Inside' = [Inside EXCEPT ![c] = CallOf(c)]
  BY InsideMoves
<1>2. Inside' = Inside
  BY <1>1 DEF Inside
<1> QED BY <1>2 DEF Core!coreVars

(* OutlineService is the core that server.go relies on, and a Start of its *)
(* that fails leaves it down.                                              *)
THEOREM Implements == Spec => ImplementsCore
<1>1. Init => Core!Init
  BY DEF Init, Core!Init, Inside, CallOf, Up
<1>2. IInv /\ IInv' /\ [Next]_vars => [Core!Next]_(Core!coreVars)
  <2> SUFFICES ASSUME IInv, IInv', [Next]_vars PROVE [Core!Next]_(Core!coreVars)
    OBVIOUS
  <2>0. TypeOK /\ Owner
    BY DEF IInv
  <2>1. ASSUME NEW c \in Callers, Call(c) PROVE [Core!Next]_(Core!coreVars)
    <3>1. PICK op \in {"start", "stop", "query", "fetch", "clear", "ping"} :
            /\ Goto(c, "idle", op)
            /\ ret' = IF op = "ping" THEN ret ELSE [ret EXCEPT ![c] = "none"]
      BY <2>1 DEF Call
    <3>2. Up' = Up
      BY <2>0, <2>1, <3>1 DEF TypeOK, Call, Goto, Up
    <3>3. CASE op = "ping"
      <4>1. CallOf(c)' = CallOf(c)
        BY <2>0, <3>1, <3>3 DEF TypeOK, Goto, CallOf
      <4> QED BY <2>0, <3>1, <3>2, <3>3, <4>1, HiddenStep DEF Goto
    <3>4. CASE op # "ping"
      <4>1. Inside' = [Inside EXCEPT ![c] = CallOf(c)']
        BY <2>0, <3>1, InsideMoves DEF Goto
      <4>2. CallOf(c)' \in Core!Ops
        BY <2>0, <3>1, <3>4 DEF TypeOK, Goto, CallOf, Core!Ops
      <4>3. Inside[c] = "idle"
        BY <3>1 DEF Goto, Inside, CallOf
      <4> QED BY <3>1, <3>2, <3>4, <4>1, <4>2, <4>3 DEF Core!Next, Core!Invoke
    <3> QED BY <3>3, <3>4
  <2>2. ASSUME NEW c \in Callers, Step(c) PROVE [Core!Next]_(Core!coreVars)
    <3>1. CASE StartRefused(c) \/ ListenFails(c)
      <4>1. Core!Finish(c, "start", "error")
        BY <2>0, <3>1, FinishStep DEF StartRefused, ListenFails, Return, Goto, CallOf
      <4>2. Up' = Up
        BY <2>0, <3>1 DEF TypeOK, StartRefused, ListenFails, Return, Goto, Up
      <4> QED BY <4>1, <4>2 DEF Core!Next, Core!StartFail
    <3>2. CASE InitDialers(c)
      <4>1. pc' = [pc EXCEPT ![c] = "listen"] /\ pc[c] = "start"
        BY <3>2 DEF InitDialers, Goto
      <4>2. CallOf(c)' = CallOf(c)
        BY <2>0, <4>1 DEF TypeOK, CallOf
      <4>3. Up' = Up /\ ret' = ret
        BY <2>0, <3>2, <4>1 DEF TypeOK, Up, InitDialers
      <4> QED BY <2>0, <4>1, <4>2, <4>3, HiddenStep
    <3>3. CASE Listen(c)
      <4>1. Core!Finish(c, "start", "ok")
        BY <2>0, <3>3, FinishStep DEF Listen, Return, Goto, CallOf
      <4>2. ~Up /\ Up'
        BY <2>0, <3>3 DEF Owner, Holding, Listen, Return, Goto, Up
      <4> QED BY <4>1, <4>2 DEF Core!Next, Core!StartOk
    <3>4. CASE StopIdle(c)
      <4>1. Core!Finish(c, "stop", "ok")
        BY <2>0, <3>4, FinishStep DEF StopIdle, Return, Goto, CallOf
      <4>2. Up' = FALSE
        BY <2>0, <3>4, CallerAssumption DEF TypeOK, Owner, Holding, StopIdle, Return, Goto, Up
      <4> QED BY <4>1, <4>2 DEF Core!Next, Core!StopOk
    <3>5. CASE CloseListener(c)
      <4>1. pc' = [pc EXCEPT ![c] = "reset"] /\ pc[c] = "stop"
        BY <3>5 DEF CloseListener, Goto
      <4>2. CallOf(c)' = CallOf(c)
        BY <2>0, <4>1 DEF TypeOK, CallOf
      <4>3. Up' = Up /\ ret' = ret
        BY <2>0, <3>5, <4>1 DEF TypeOK, Up, CloseListener
      <4> QED BY <2>0, <4>1, <4>2, <4>3, HiddenStep
    <3>6. CASE Reset(c)
      <4>1. Core!Finish(c, "stop", "ok")
        BY <2>0, <3>6, FinishStep DEF Reset, Return, Goto, CallOf
      <4>2. Up' = FALSE
        BY <2>0, <3>6 DEF TypeOK, Owner, Holding, Reset, Return, Goto, Up
      <4> QED BY <4>1, <4>2 DEF Core!Next, Core!StopOk
    <3>7. CASE PingNothing(c) \/ PingDials(c)
      <4>1. \/ pc[c] = "ping" /\ pc' = [pc EXCEPT ![c] = "idle"]
            \/ UNCHANGED pc
        BY <3>7 DEF PingNothing, PingDials, Goto
      <4>2. Up' = Up /\ ret' = ret
        BY <2>0, <3>7, <4>1 DEF TypeOK, Up, PingNothing, PingDials
      <4>3. CASE UNCHANGED pc
        BY <4>2, <4>3 DEF Core!coreVars, Inside, CallOf
      <4>4. CASE pc[c] = "ping" /\ pc' = [pc EXCEPT ![c] = "idle"]
        <5>1. CallOf(c)' = CallOf(c)
          BY <2>0, <4>4 DEF TypeOK, CallOf
        <5> QED BY <2>0, <4>2, <4>4, <5>1, HiddenStep
      <4> QED BY <4>1, <4>3, <4>4
    <3>8. CASE IsRunning(c)
      <4>1. Core!Finish(c, "query", IF isRunning THEN "yes" ELSE "no")
        BY <2>0, <3>8, FinishStep DEF IsRunning, Return, Goto, CallOf
      <4>2. isRunning = Up /\ Up' = Up
        BY <2>0, <3>8, CallerAssumption DEF TypeOK, Owner, Holding, IsRunning, Return, Goto, Up
      <4> QED BY <4>1, <4>2 DEF Core!Next, Core!Query
    <3>9. CASE FetchLogs(c) \/ ClearLogs(c)
      <4>1. \E r \in {"ok", "yes", "no"} : Core!Finish(c, "logs", r)
        BY <2>0, <3>9, FinishStep DEF FetchLogs, ClearLogs, Return, Goto, CallOf
      <4>2. Up' = Up
        BY <2>0, <3>9 DEF TypeOK, FetchLogs, ClearLogs, Return, Goto, Up
      <4> QED BY <4>1, <4>2 DEF Core!Next, Core!Logs
    <3> QED BY <2>2, <3>1, <3>2, <3>3, <3>4, <3>5, <3>6, <3>7, <3>8, <3>9 DEF Step
  <2>3. ASSUME NEW l \in Listeners, ServeBegins(l) \/ ServeEnds(l) \/ AcceptFails(l)
        PROVE UNCHANGED Core!coreVars
    BY <2>3 DEF ServeBegins, ServeEnds, AcceptFails, Core!coreVars, Inside, CallOf, Up
  <2>4. CASE UNCHANGED vars
    BY <2>4 DEF vars, Core!coreVars, Inside, CallOf, Up
  <2> QED BY <2>1, <2>2, <2>3, <2>4 DEF Next
<1> QED BY <1>1, <1>2, Inductive, PTL DEF Spec, ImplementsCore, Core!Spec
=============================================================================
