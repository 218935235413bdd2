-------------------------- MODULE ClientBootProofs --------------------------
(* What the boot of the gRPC server guarantees for any number of isolates,  *)
(* goroutines and calls of initialize.                                      *)
EXTENDS ClientBoot, TLAPS

Pcs == {"idle", "ffi", "notifications", "isRunning"}

(* One flow of one isolate moves. *)
LEMMA Move ==
    ASSUME NEW g \in [Callers -> [Flows -> Pcs]], NEW i \in Callers, NEW f \in Flows, NEW v \in Pcs
    PROVE  /\ [g EXCEPT ![i][f] = v] \in [Callers -> [Flows -> Pcs]]
           /\ \A j \in Callers, h \in Flows :
                [g EXCEPT ![i][f] = v][j][h] = IF j = i /\ h = f THEN v ELSE g[j][h]
<1> DEFINE row == [g[i] EXCEPT ![f] = v]
<1>1. row \in [Flows -> Pcs] /\ \A h \in Flows : row[h] = IF h = f THEN v ELSE g[i][h]
  OBVIOUS
<1>2. [g EXCEPT ![i][f] = v] = [g EXCEPT ![i] = row]
  OBVIOUS
<1> HIDE DEF row
<1>3. /\ [g EXCEPT ![i] = row] \in [Callers -> [Flows -> Pcs]]
      /\ \A j \in Callers : [g EXCEPT ![i] = row][j] = IF j = i THEN row ELSE g[j]
  BY <1>1
<1> QED BY <1>1, <1>2, <1>3

(* The variables of server.go:25-31 and of ProxyCoreBaseImpl keep their types. *)
THEOREM TypeCorrect == Spec => []TypeOK
<1>1. Init => TypeOK
  <2>1. Fresh \in [Flows -> Pcs]
    BY DEF Fresh, Pcs
  <2>2. BootInit => BootTypeOK
    BY DEF BootInit, BootTypeOK, Inside
  <2>3. Init => pc \in [Callers -> [Flows -> Pcs]]
    BY <2>1 DEF Init
  <2> QED BY <2>2, <2>3 DEF Init, TypeOK, Pcs
<1>2. TypeOK /\ [Next]_vars => TypeOK'
  <2> SUFFICES ASSUME TypeOK, [Next]_vars PROVE TypeOK'
    OBVIOUS
  <2> USE DEF TypeOK, BootTypeOK, Inside, dartVars, bootVars
  <2>1. ASSUME NEW i \in Callers, Isolate(i) PROVE TypeOK'
    <3>0. ASSUME NEW f \in Flows, NEW from, NEW to \in Pcs, Goto(i, f, from, to)
          PROVE  pc' \in [Callers -> [Flows -> Pcs]]
      BY <3>0, Move DEF Goto, Pcs
    <3> USE DEF Pcs
    <3>1. ASSUME NEW f \in Flows, Initialize(i, f) PROVE TypeOK'
      BY <3>1, <3>0 DEF Initialize, Enter, CallGoto
    <3>2. ASSUME NEW f \in Flows, BootOk(i, f) \/ BootRefused(i, f) PROVE TypeOK'
      BY <3>2, <3>0 DEF BootOk, BootRefused, Leave, CallGoto
    <3>3. ASSUME NEW f \in Flows, Notifications(i, f) \/ NotificationsFail(i, f) \/ Finish(i, f)
          PROVE TypeOK'
      BY <3>3, <3>0 DEF Notifications, NotificationsFail, Finish
    <3>4. CASE Relaunch(i)
      <4>1. Fresh \in [Flows -> Pcs]
        BY DEF Fresh
      <4> QED BY <3>4, <4>1 DEF Relaunch
    <3> QED BY <2>1, <3>1, <3>2, <3>3, <3>4 DEF Isolate
  <2>2. ASSUME NEW c \in Callers, InCall(c), UNCHANGED dartVars PROVE TypeOK'
    BY <2>2 DEF InCall, AlreadyRunning, NotRunning, SetStarted, Spawn, Return, CallGoto, GoWait
  <2>3. ASSUME NEW s \in Servers, Serving(s) \/ ServeFails(s), UNCHANGED dartVars PROVE TypeOK'
    <3> USE DEF GoOn
    <3>1. CASE Listen(s) \/ ListenFails(s) \/ ServeFails(s)
      BY <2>3, <3>1 DEF Listen, ListenFails, ServeFails
    <3>2. CASE ClearStarted(s) \/ Done(s)
      BY <2>3, <3>2 DEF ClearStarted, Done
    <3> QED BY <2>3, <3>1, <3>2 DEF Serving
  <2>4. ASSUME WaitForServer \/ WaitReturns \/ OtherProcess, UNCHANGED dartVars PROVE TypeOK'
    BY <2>4 DEF WaitForServer, WaitReturns, OtherProcess
  <2>5. CASE UNCHANGED vars
    BY <2>5 DEF vars
  <2> QED
    BY <2>1, <2>2, <2>3, <2>4, <2>5 DEF Next, BootStep
<1> QED BY <1>1, <1>2, PTL DEF Spec
-----------------------------------------------------------------------------
(* The flag's promise holds as it stands; that only one goroutine is busy   *)
(* also needs that nobody is about to spawn beside it.                      *)
OneSpawner ==
    ~raced => \A c \in Callers : call[c] = "spawn" =>
        /\ \A d \in Callers : call[d] = "spawn" => c = d
        /\ isServerStarted /\ Busy = {}

BootInv == FlagMeansServing /\ OneServer /\ OneSpawner

(* Who holds the flag up, whatever the callers and goroutines do. *)
THEOREM BootInductive == Spec => []BootInv
<1>1. Init => BootInv
  BY DEF Init, BootInit, BootInv, FlagMeansServing, OneServer, OneSpawner, Busy
<1>2. TypeOK /\ BootInv /\ [Next]_vars => BootInv'
  <2> SUFFICES ASSUME TypeOK, BootInv, [Next]_vars PROVE BootInv'
    OBVIOUS
  <2> USE DEF TypeOK, BootTypeOK, Inside, BootInv, FlagMeansServing, OneServer, OneSpawner, Busy,
              bootVars
  <2>1. ASSUME NEW i \in Callers, Isolate(i) PROVE BootInv'
    <3>1. ASSUME NEW f \in Flows, Initialize(i, f) PROVE BootInv'
      BY <3>1 DEF Initialize, Enter, CallGoto
    <3>2. ASSUME NEW f \in Flows, BootOk(i, f) \/ BootRefused(i, f) PROVE BootInv'
      BY <3>2 DEF BootOk, BootRefused, Leave, CallGoto
    <3>3. ASSUME NEW f \in Flows, Notifications(i, f) \/ NotificationsFail(i, f) \/ Finish(i, f)
          PROVE BootInv'
      BY <3>3 DEF Notifications, NotificationsFail, Finish
    <3>4. CASE Relaunch(i)
      BY <3>4 DEF Relaunch
    <3> QED BY <2>1, <3>1, <3>2, <3>3, <3>4 DEF Isolate
  <2>2. ASSUME NEW c \in Callers, InCall(c) PROVE BootInv'
    <3> USE DEF CallGoto, GoWait
    <3>1. CASE AlreadyRunning(c) BY <3>1 DEF AlreadyRunning
    <3>2. CASE NotRunning(c) BY <3>2 DEF NotRunning
    <3>3. CASE SetStarted(c) BY <3>3 DEF SetStarted
    <3>4. CASE Spawn(c) BY <3>4 DEF Spawn, Alive
    <3>5. CASE Return(c) BY <3>5 DEF Return
    <3> QED BY <2>2, <3>1, <3>2, <3>3, <3>4, <3>5 DEF InCall
  <2>3. ASSUME NEW s \in Servers, Serving(s) \/ ServeFails(s) PROVE BootInv'
    <3> USE DEF GoOn
    <3>1. CASE Listen(s) BY <3>1 DEF Listen
    <3>2. CASE ListenFails(s) BY <3>2 DEF ListenFails
    <3>3. CASE ServeFails(s) BY <3>3 DEF ServeFails
    <3>4. CASE ClearStarted(s) BY <3>4 DEF ClearStarted
    <3>5. CASE Done(s) BY <3>5 DEF Done
    <3> QED BY <2>3, <3>1, <3>2, <3>3, <3>4, <3>5 DEF Serving
  <2>4. CASE WaitForServer \/ WaitReturns \/ OtherProcess
    BY <2>4 DEF WaitForServer, WaitReturns, OtherProcess
  <2>5. CASE UNCHANGED vars
    BY <2>5 DEF vars
  <2> QED
    BY <2>1, <2>2, <2>3, <2>4, <2>5 DEF Next, BootStep
<1> QED BY <1>1, <1>2, TypeCorrect, PTL DEF Spec

(* A raised flag always has somebody who will serve or take it down again. *)
THEOREM FlagIsAnswered == Spec => []FlagMeansServing
<1>1. BootInv => FlagMeansServing
  BY DEF BootInv
<1> QED BY <1>1, BootInductive, PTL

(* Boots that do not race for the flag never make two goroutines contend    *)
(* for the port, however often the server fails and is booted again.        *)
THEOREM BootsAreSerial == Spec => []OneServer
<1>1. BootInv => OneServer
  BY DEF BootInv
<1> QED BY <1>1, BootInductive, PTL

(* Who races for the flag: with one caller nobody raises it between its look *)
(* at the flag and its own write.                                            *)
Unraced == ~raced /\ \A c \in Callers : call[c] = "set" => ~isServerStarted

(* The usual process has one isolate, and then nothing at all is raced for:  *)
(* however often the isolate is begun anew, the server fails and initialize  *)
(* is called again, one goroutine at a time deals with the port, and while   *)
(* it does the flag is up (server.go:236-270).                               *)
THEOREM OneIsolateOneServer ==
    ASSUME \A c, d \in Callers : c = d
    PROVE  Spec => []((\A s, t \in Busy : s = t) /\ (Busy # {} => isServerStarted))
<1>1. Init => Unraced
  BY DEF Init, BootInit, Unraced
<1>2. TypeOK /\ Unraced /\ [Next]_vars => Unraced'
  <2> SUFFICES ASSUME TypeOK, Unraced, [Next]_vars PROVE Unraced'
    OBVIOUS
  <2> USE DEF TypeOK, BootTypeOK, Unraced, bootVars
  <2>1. ASSUME NEW i \in Callers, Isolate(i) PROVE Unraced'
    BY <2>1 DEF Isolate, Initialize, Enter, BootOk, BootRefused, Leave, CallGoto,
                Notifications, NotificationsFail, Finish, Relaunch
  <2>2. ASSUME NEW c \in Callers, InCall(c) PROVE Unraced'
    BY <2>2, \A d \in Callers : c = d
    DEF InCall, AlreadyRunning, NotRunning, SetStarted, Spawn, Return, CallGoto
  <2>3. ASSUME NEW s \in Servers, Serving(s) \/ ServeFails(s) PROVE Unraced'
    BY <2>3 DEF Serving, Listen, ListenFails, ServeFails, ClearStarted, Done
  <2>4. CASE WaitForServer \/ WaitReturns \/ OtherProcess
    BY <2>4 DEF WaitForServer, WaitReturns, OtherProcess
  <2>5. CASE UNCHANGED vars
    BY <2>5 DEF vars
  <2> QED BY <2>1, <2>2, <2>3, <2>4, <2>5 DEF Next, BootStep
<1>3. Unraced /\ OneServer => (\A s, t \in Busy : s = t) /\ (Busy # {} => isServerStarted)
  BY DEF Unraced, OneServer
<1> QED BY <1>1, <1>2, <1>3, TypeCorrect, BootsAreSerial, PTL DEF Spec
-----------------------------------------------------------------------------
(* The late final callback makes one call per isolate pass line 33. *)
FlowInv ==
    \A i \in Callers :
        /\ client[i] => callback[i]
        /\ \A f \in Flows : pc[i][f] = "ffi" => callback[i]
        /\ \A f, g \in Flows : pc[i][f] = "ffi" /\ pc[i][g] = "ffi" => f = g
        /\ client[i] => \A f \in Flows : pc[i][f] # "ffi"

(* _grpcClient is never assigned a second time in an isolate. *)
THEOREM ClientIsFinal == Spec => []OneBootPerIsolate
<1>1. Init => FlowInv
  BY DEF Init, FlowInv, Fresh
<1>2. TypeOK /\ FlowInv /\ [Next]_vars => FlowInv'
  <2> SUFFICES ASSUME TypeOK, FlowInv, [Next]_vars PROVE FlowInv'
    OBVIOUS
  <2> USE DEF TypeOK, FlowInv, dartVars
  <2>1. ASSUME NEW i \in Callers, Isolate(i) PROVE FlowInv'
    <3>0. ASSUME NEW f \in Flows, NEW from, NEW to \in Pcs, Goto(i, f, from, to)
          PROVE  \A j \in Callers, h \in Flows :
                    pc'[j][h] = IF j = i /\ h = f THEN to ELSE pc[j][h]
      BY <3>0, Move DEF Goto, Pcs
    <3> USE DEF Blocked, Pcs
    <3>1. ASSUME NEW f \in Flows, Initialize(i, f) PROVE FlowInv'
      BY <3>1, <3>0 DEF Initialize, Goto
    <3>2. ASSUME NEW f \in Flows, BootOk(i, f) PROVE FlowInv'
      BY <3>2, <3>0 DEF BootOk, Goto
    <3>3. ASSUME NEW f \in Flows, BootRefused(i, f) PROVE FlowInv'
      BY <3>3, <3>0 DEF BootRefused, Goto
    <3>4. ASSUME NEW f \in Flows, Notifications(i, f) \/ NotificationsFail(i, f) \/ Finish(i, f)
          PROVE FlowInv'
      <4>1. PICK from \in Pcs, to \in Pcs \ {"ffi"} : Goto(i, f, from, to)
        BY <3>4 DEF Notifications, NotificationsFail, Finish
      <4>2. \A j \in Callers, h \in Flows :
                pc'[j][h] = IF j = i /\ h = f THEN to ELSE pc[j][h]
        BY <4>1, <3>0
      <4>3. UNCHANGED <<callback, client>>
        BY <3>4 DEF Notifications, NotificationsFail, Finish
      <4> QED BY <4>2, <4>3
    <3>5. CASE Relaunch(i)
      BY <3>5 DEF Relaunch, Fresh
    <3> QED BY <2>1, <3>1, <3>2, <3>3, <3>4, <3>5 DEF Isolate
  <2>2. CASE UNCHANGED dartVars
    BY <2>2
  <2>3. CASE UNCHANGED vars
    BY <2>3 DEF vars
  <2> QED
    BY <2>1, <2>2, <2>3 DEF Next
<1>3. FlowInv => OneBootPerIsolate
  BY DEF FlowInv, OneBootPerIsolate
<1> QED BY <1>1, <1>2, <1>3, TypeCorrect, PTL DEF Spec
=============================================================================
