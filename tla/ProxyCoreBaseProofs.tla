------------------------ MODULE ProxyCoreBaseProofs ------------------------
(* What the Dart client guarantees for any number of users, of overlapping *)
(* timer callbacks and of starts.                                          *)
EXTENDS ProxyCoreBase, TLAPS

(* What a call that begins, or ends, leaves of its own state. *)
LEMMA CallTyped ==
    ASSUME TypeOK, NEW u \in Users, NEW method \in {"start", "stop"}, NEW m \in Modes,
           NEW first \in Pcs, Call(u, method, m, first)
    PROVE  /\ pc' \in [Flows -> Pcs] /\ op' \in [Flows -> {"none", "start", "stop", "tick"}]
           /\ mode' \in [Flows -> Modes] /\ fd' \in [Flows -> BOOLEAN]
           /\ crossed' \subseteq Users /\ behind' \in BOOLEAN
           /\ met' \subseteq {"start", "stop", "tick"} /\ promised' = "nothing"
           /\ UNCHANGED <<vpn, server, timer>>
<1>1. Crossed(u, method) \subseteq Users
  BY DEF Crossed
<1>2. crossed' \subseteq Users
  BY <1>1 DEF Call, TypeOK
<1>3. met' \subseteq {"start", "stop", "tick"}
  BY DEF Call, TypeOK
<1>4. u \in Flows
  BY DEF Flows
<1> QED BY <1>2, <1>3, <1>4 DEF Call, Goto, TypeOK

LEMMA EndTyped ==
    ASSUME TypeOK, NEW f \in Flows, NEW promise \in {"nothing", "stop"} \cup Modes,
           End(f, promise)
    PROVE  /\ pc' \in [Flows -> Pcs] /\ op' \in [Flows -> {"none", "start", "stop", "tick"}]
           /\ mode' \in [Flows -> Modes] /\ fd' \in [Flows -> BOOLEAN]
           /\ crossed' \subseteq Users
           /\ promised' \in {"nothing", "stop"} \cup Modes
BY DEF End, TypeOK, Pcs, Modes

(* The state of the client and of the VPN service keeps its types. *)
THEOREM TypeCorrect == Spec => []TypeOK
<1>1. Init => TypeOK
  <2> SUFFICES ASSUME Init PROVE TypeOK
    OBVIOUS
  <2>1. pc \in [Flows -> Pcs]
    BY DEF Init, Pcs
  <2>2. op \in [Flows -> {"none", "start", "stop", "tick"}]
    BY DEF Init
  <2>3. mode \in [Flows -> Modes] /\ fd \in [Flows -> BOOLEAN]
    BY DEF Init, Modes
  <2>4. starts \in 0..MaxStarts
    BY StartAssumption DEF Init
  <2>5. activeCore \in Cores /\ running \in [Cores -> {"down"} \cup Modes]
    BY CoreAssumption DEF Init
  <2> QED BY <2>1, <2>2, <2>3, <2>4, <2>5 DEF Init, TypeOK
<1>2. TypeOK /\ [Next]_vars => TypeOK'
  <2> SUFFICES ASSUME TypeOK, [Next]_vars PROVE TypeOK'
    OBVIOUS
  <2> USE StartAssumption, CoreAssumption
      DEF TypeOK, Goto, Throw, Pcs, Flows, Modes, server, call, history
  <2>0. ASSUME NEW f \in Flows, NEW promise \in {"nothing", "stop"} \cup Modes,
               End(f, promise)
        PROVE  /\ pc' \in [Flows -> Pcs]
               /\ op' \in [Flows -> {"none", "start", "stop", "tick"}]
               /\ mode' \in [Flows -> Modes] /\ fd' \in [Flows -> BOOLEAN]
               /\ crossed' \subseteq Users
               /\ promised' \in {"nothing", "stop"} \cup Modes
    BY <2>0, EndTyped
  <2>1. ASSUME NEW u \in Users, Start(u) PROVE TypeOK'
    <3>1. PICK m \in Modes, first \in {"permission", "simple"} : Call(u, "start", m, first)
      BY <2>1 DEF Start
    <3>2. starts' \in 0..MaxStarts
      BY <2>1 DEF Start
    <3> HIDE DEF Modes, Pcs
    <3>3. first \in Pcs
      BY DEF Pcs
    <3> QED BY <3>1, <3>2, <3>3, CallTyped
  <2>2. ASSUME NEW u \in Users, Stop(u) PROVE TypeOK'
    <3>1. Call(u, "stop", "proxy", "stopVpn") /\ UNCHANGED starts
      BY <2>2 DEF Stop
    <3>2. "stopVpn" \in Pcs /\ "proxy" \in Modes
      OBVIOUS
    <3> HIDE DEF Modes, Pcs
    <3> QED BY <3>1, <3>2, CallTyped
  <2>3. ASSUME NEW u \in Users, StartStep(u) PROVE TypeOK'
    <3>1. CASE RequestPermissions(u) BY <3>1, <2>0 DEF RequestPermissions
    <3>2. CASE StopAnyRunningVPN(u) BY <3>2 DEF StopAnyRunningVPN
    <3>3. CASE PrepareVpnProfile(u) BY <3>3 DEF PrepareVpnProfile
    <3>4. CASE StartVPN(u) BY <3>4 DEF StartVPN
    <3>5. CASE StartVPNRefused(u) BY <3>5, <2>0 DEF StartVPNRefused
    <3>6. CASE ConfigReused(u) BY <3>6, <2>0 DEF ConfigReused
    <3>7. CASE StartCoreOk(u) BY <3>7 DEF StartCoreOk
    <3>8. CASE StartCoreFails(u) BY <3>8, <2>0 DEF StartCoreFails
    <3>9. CASE StartCoreHalf(u) BY <3>9, <2>0 DEF StartCoreHalf
    <3>10. CASE StartVpnStatusPolling(u) BY <3>10, <2>0 DEF StartVpnStatusPolling
    <3> QED
      BY <2>3, <3>1, <3>2, <3>3, <3>4, <3>5, <3>6, <3>7, <3>8, <3>9, <3>10 DEF StartStep
  <2>4. ASSUME NEW f \in Flows, StopStep(f) \/ CallbackThrows(f) PROVE TypeOK'
    <3>1. CASE StopVPN(f) BY <3>1 DEF StopVPN
    <3>2. CASE StopCoreOk(f) BY <3>2 DEF StopCoreOk
    <3>3. CASE StopCoreFails(f) BY <3>3, <2>0 DEF StopCoreFails
    <3>4. CASE StopVpnStatusPolling(f) BY <3>4, <2>0 DEF StopVpnStatusPolling
    <3>5. CASE CallbackThrows(f) BY <3>5, <2>0 DEF CallbackThrows
    <3>6. CASE StopVPNFails(f) BY <3>6, <2>0 DEF StopVPNFails
    <3> QED BY <2>4, <3>1, <3>2, <3>3, <3>4, <3>5, <3>6 DEF StopStep
  <2>5. ASSUME NEW t \in Ticks, Tick(t) \/ SetVpnStatus(t) \/ SetVpnStatusFails(t)
        PROVE  TypeOK'
    BY <2>5, <2>0 DEF Tick, SetVpnStatus, SetVpnStatusFails
  <2>6. CASE Revoke
    BY <2>6 DEF Revoke
  <2>7. CASE UNCHANGED vars
    BY <2>7 DEF vars
  <2> QED BY <2>1, <2>2, <2>3, <2>4, <2>5, <2>6, <2>7 DEF Next
<1> QED BY <1>1, <1>2, PTL DEF Spec
-----------------------------------------------------------------------------
StartPcs == {"permission", "simple", "prepare", "startVpn", "startCore", "started"}

(* Only a user's start runs the steps of start; a tick runs stop. *)
Roles ==
    /\ \A f \in Flows : pc[f] = "idle" <=> op[f] = "none"
    /\ \A f \in Flows : pc[f] \in StartPcs => op[f] = "start"
    /\ \A u \in Users : op[u] # "tick"
    /\ \A t \in Ticks : op[t] \in {"none", "tick"}

(* A call that no start crossed has no other start beside it. *)
Apart == \A u \in Users \ crossed : pc[u] # "idle" => \A v \in Users \ {u} : op[v] # "start"

(* What such a stop has achieved so far is not undone, and such a start has  *)
(* nobody who brings the active core up between its stop and its startCore.  *)
Achieved ==
    \A u \in Users \ crossed :
        /\ op[u] = "stop" /\ pc[u] \in {"stopCore", "stopped"} => ~vpn
        /\ pc[u] \in {"stopped", "prepare", "startVpn", "startCore"} =>
              running[activeCore] = "down"

(* As long as no two starts crossed, a start is the only one, and no core is *)
(* up but the active one.                                                    *)
OneCore ==
    "start" \notin met =>
        /\ \A u, v \in Users : op[u] = "start" /\ op[v] = "start" => u = v
        /\ \A u \in Users :
              op[u] = "start" /\ pc[u] \in {"stopped", "prepare", "startVpn", "startCore"} =>
                  running[activeCore] = "down"
        /\ \A k \in Cores : running[k] # "down" => k = activeCore

(* The history of what starts crossed misses nothing. *)
Remembered == met = {} => crossed = {} /\ ~behind

Final ==
    promised = "stop" =>
        ~vpn /\ running[activeCore] = "down" /\ \A u \in Users : op[u] # "start"

IInv == TypeOK /\ Roles /\ Apart /\ Achieved /\ OneCore /\ Remembered /\ Final

(* No flow but a start brings the VPN or a core up, and a start beside a     *)
(* stop shows: what stop did so far holds until it returns and after         *)
(* (base_impl.dart:103-115, 164-170), and of the cores only crossing starts  *)
(* can leave one up that is not the active one (server.go:85-107).           *)
THEOREM Inductive == Spec => []IInv
<1>1. Init /\ TypeOK => IInv
  BY DEF Init, IInv, Roles, Apart, Achieved, OneCore, Remembered, Final, Flows, StartPcs
<1>2. IInv /\ TypeOK' /\ [Next]_vars => IInv'
  <2> SUFFICES ASSUME IInv, TypeOK', [Next]_vars PROVE IInv'
    OBVIOUS
  <2> USE FlowAssumption
      DEF IInv, TypeOK, Roles, Apart, Achieved, OneCore, Remembered, Final, Goto, Throw, Flows,
          StartPcs, server, call, history
  <2>1. ASSUME NEW u \in Users, Start(u) PROVE IInv'
    BY <2>1 DEF Start, Call, Crossed
  <2>2. ASSUME NEW u \in Users, Stop(u) PROVE IInv'
    BY <2>2 DEF Stop, Call, Crossed
  <2>3. ASSUME NEW u \in Users, StartStep(u) PROVE IInv'
    <3>0. ASSUME pc[u] \in StartPcs PROVE op[u] = "start" /\ promised # "stop"
      BY <3>0
    <3>1. CASE RequestPermissions(u) BY <3>0, <3>1 DEF RequestPermissions, End
    <3>2. CASE StopAnyRunningVPN(u) BY <3>0, <3>2 DEF StopAnyRunningVPN
    <3>3. CASE PrepareVpnProfile(u) BY <3>0, <3>3 DEF PrepareVpnProfile
    <3>4. CASE StartVPN(u) BY <3>0, <3>4 DEF StartVPN
    <3>5. CASE StartVPNRefused(u) BY <3>0, <3>5 DEF StartVPNRefused, End
    <3>6. CASE ConfigReused(u) BY <3>0, <3>6 DEF ConfigReused, End
    <3>7. CASE StartCoreOk(u) BY <3>0, <3>7 DEF StartCoreOk
    <3>8. CASE StartCoreFails(u) BY <3>0, <3>8 DEF StartCoreFails, End
    <3>9. CASE StartCoreHalf(u) BY <3>0, <3>9 DEF StartCoreHalf, End
    <3>10. CASE StartVpnStatusPolling(u)
      BY <3>0, <3>10 DEF StartVpnStatusPolling, End, Modes
    <3> QED
      BY <2>3, <3>1, <3>2, <3>3, <3>4, <3>5, <3>6, <3>7, <3>8, <3>9, <3>10 DEF StartStep
  <2>4. ASSUME NEW f \in Flows, StopStep(f) \/ CallbackThrows(f) PROVE IInv'
    <3>1. CASE StopVPN(f) BY <3>1 DEF StopVPN
    <3>2. CASE StopCoreOk(f) BY <3>2 DEF StopCoreOk
    <3>3. CASE StopCoreFails(f) BY <3>3 DEF StopCoreFails, End
    <3>4. CASE StopVpnStatusPolling(f)
      <4>1. CASE op[f] = "start"
        BY <3>4, <4>1 DEF StopVpnStatusPolling
      <4>2. CASE op[f] # "start" /\ f \in Ticks
        <5>1. End(f, "stop") /\ UNCHANGED <<vpn, server, behind, met>>
          BY <3>4, <4>2 DEF StopVpnStatusPolling
        <5> QED BY <4>2, <5>1 DEF End
      <4>3. CASE op[f] # "start" /\ f \in Users
        <5>1. op[f] = "stop"
          BY <3>4, <4>3 DEF StopVpnStatusPolling
        <5>2. f \notin crossed =>
                 ~vpn /\ running[activeCore] = "down" /\ \A v \in Users : op[v] # "start"
          BY <3>4, <4>3, <5>1 DEF StopVpnStatusPolling
        <5> QED BY <3>4, <4>3, <5>1, <5>2 DEF StopVpnStatusPolling, End
      <4> QED BY <4>1, <4>2, <4>3
    <3>5. CASE CallbackThrows(f) BY <3>5 DEF CallbackThrows, End
    <3>6. CASE StopVPNFails(f)
      <4>1. End(f, "nothing") /\ (vpn' = vpn \/ vpn' = FALSE) /\ UNCHANGED <<server, history>>
        BY <3>6 DEF StopVPNFails
      <4> QED BY <4>1 DEF End
    <3> QED BY <2>4, <3>1, <3>2, <3>3, <3>4, <3>5, <3>6 DEF StopStep
  <2>5. ASSUME NEW t \in Ticks, Tick(t) \/ SetVpnStatus(t) \/ SetVpnStatusFails(t) PROVE IInv'
    BY <2>5 DEF Tick, SetVpnStatus, SetVpnStatusFails, End
  <2>6. CASE Revoke
    BY <2>6 DEF Revoke
  <2>7. CASE UNCHANGED vars
    BY <2>7 DEF vars
  <2> QED BY <2>1, <2>2, <2>3, <2>4, <2>5, <2>6, <2>7 DEF Next
<1> QED BY <1>1, <1>2, TypeCorrect, PTL DEF Spec

(* A stop that no start crossed is final, however many timer callbacks,      *)
(* other stops and earlier starts there were: the VPN and the active core    *)
(* stay down, and every other core if no two starts ever crossed             *)
(* (base_impl.dart:103-115, server.go:119-127).                              *)
THEOREM StopsAreFinal == Spec => []StopIsFinal
<1>1. IInv => StopIsFinal
  BY DEF IInv, OneCore, Final, StopIsFinal, AllDown
<1> QED BY <1>1, Inductive, PTL
-----------------------------------------------------------------------------
(* A start that nobody crossed is the only call of a user under way. *)
Sole == \A u \in Users \ crossed : op[u] = "start" => \A v \in Users \ {u} : op[v] = "none"

(* If such a start found no callback under way then there is none, and no    *)
(* timer that could begin one; what it has brought up stays up.              *)
Fresh ==
    \A u \in Users \ crossed :
        op[u] = "start" =>
            /\ pc[u] \in {"prepare", "startVpn", "startCore", "started"} /\ ~behind =>
                  ~timer /\ \A t \in Ticks : op[t] = "none"
            /\ pc[u] \in {"startCore", "started"} /\ mode[u] = "vpn" /\ fd[u] /\ ~behind => vpn
            /\ pc[u] = "started" /\ ~behind => running[activeCore] = mode[u]

(* What it promised stays: the only callbacks are those of its own timer, *)
(* and they find the VPN up.                                              *)
Kept ==
    promised \in Modes =>
        /\ \A u \in Users : op[u] = "none"
        /\ ~behind => /\ running[activeCore] = promised
                      /\ promised = "vpn" => vpn
                      /\ timer = (promised = "vpn")
                      /\ \A t \in Ticks :
                            pc[t] \in {"idle", "poll"} /\ (pc[t] = "poll" => promised = "vpn")

RestartInv == Sole /\ Fresh /\ Kept

(* A start that crosses no other call and finds no timer callback under way  *)
(* works alone: nothing undoes a step of it, nor what it leaves, until the   *)
(* app, the user or the system does (base_impl.dart:89-115, 164-175).        *)
THEOREM RestartInductive == Spec => []RestartInv
<1>1. Init /\ TypeOK => RestartInv
  BY DEF Init, RestartInv, Sole, Fresh, Kept, TypeOK, Modes, Flows
<1>2. IInv /\ RestartInv /\ IInv' /\ [Next]_vars => RestartInv'
  <2> SUFFICES ASSUME IInv, RestartInv, IInv', [Next]_vars PROVE RestartInv'
    OBVIOUS
  <2> USE FlowAssumption
      DEF IInv, TypeOK, Roles, Achieved, RestartInv, Sole, Fresh, Kept, Goto, Throw, Flows,
          StartPcs, Modes, server, call, history
  <2>1. ASSUME NEW u \in Users, Start(u) PROVE RestartInv'
    BY <2>1 DEF Start, Call, Crossed
  <2>2. ASSUME NEW u \in Users, Stop(u) PROVE RestartInv'
    BY <2>2 DEF Stop, Call, Crossed
  <2>3. ASSUME NEW u \in Users, StartStep(u) PROVE RestartInv'
    <3>0. ASSUME pc[u] \in StartPcs PROVE op[u] = "start" /\ promised \notin Modes
      BY <3>0
    <3>1. CASE RequestPermissions(u) BY <3>0, <3>1 DEF RequestPermissions, End
    <3>2. CASE StopAnyRunningVPN(u) BY <3>0, <3>2 DEF StopAnyRunningVPN
    <3>3. CASE PrepareVpnProfile(u) BY <3>0, <3>3 DEF PrepareVpnProfile
    <3>4. CASE StartVPN(u) BY <3>0, <3>4 DEF StartVPN
    <3>5. CASE StartVPNRefused(u) BY <3>0, <3>5 DEF StartVPNRefused, End
    <3>6. CASE ConfigReused(u) BY <3>0, <3>6 DEF ConfigReused, End
    <3>7. CASE StartCoreOk(u) BY <3>0, <3>7 DEF StartCoreOk
    <3>8. CASE StartCoreFails(u) BY <3>0, <3>8 DEF StartCoreFails, End
    <3>9. CASE StartCoreHalf(u) BY <3>0, <3>9 DEF StartCoreHalf, End
    <3>10. CASE StartVpnStatusPolling(u) BY <3>0, <3>10 DEF StartVpnStatusPolling, End
    <3> QED
      BY <2>3, <3>1, <3>2, <3>3, <3>4, <3>5, <3>6, <3>7, <3>8, <3>9, <3>10 DEF StartStep
  <2>4. ASSUME NEW f \in Flows, StopStep(f) \/ CallbackThrows(f) PROVE RestartInv'
    <3>1. CASE StopVPN(f) BY <3>1 DEF StopVPN
    <3>2. CASE StopCoreOk(f) BY <3>2 DEF StopCoreOk
    <3>3. CASE StopCoreFails(f) BY <3>3 DEF StopCoreFails, End
    <3>4. CASE StopVpnStatusPolling(f)
      <4>1. CASE op[f] = "start"
        BY <3>4, <4>1 DEF StopVpnStatusPolling
      <4>2. CASE op[f] # "start"
        <5>1. End(f, "stop") /\ pc[f] = "stopped" /\ timer' = FALSE
              /\ UNCHANGED <<vpn, server, behind>>
          BY <3>4, <4>2 DEF StopVpnStatusPolling
        <5> QED BY <4>2, <5>1 DEF End
      <4> QED BY <4>1, <4>2
    <3>5. CASE CallbackThrows(f) BY <3>5 DEF CallbackThrows, End
    <3>6. CASE StopVPNFails(f) BY <3>6 DEF StopVPNFails, End
    <3> QED BY <2>4, <3>1, <3>2, <3>3, <3>4, <3>5, <3>6 DEF StopStep
  <2>5. ASSUME NEW t \in Ticks, Tick(t) PROVE RestartInv'
    <3>1. Sole'
      BY <2>5 DEF Tick
    <3>2. Fresh'
      BY <2>5 DEF Tick
    <3>3. Kept'
      <4>1. promised \in Modes /\ ~behind => promised = "vpn"
        BY <2>5 DEF Tick
      <4> QED BY <2>5, <4>1 DEF Tick
    <3> QED BY <3>1, <3>2, <3>3
  <2>6. ASSUME NEW t \in Ticks, SetVpnStatus(t) \/ SetVpnStatusFails(t) PROVE RestartInv'
    BY <2>6 DEF SetVpnStatus, SetVpnStatusFails, End
  <2>7. CASE Revoke
    BY <2>7 DEF Revoke
  <2>8. CASE UNCHANGED vars
    BY <2>8 DEF vars
  <2> QED BY <2>1, <2>2, <2>3, <2>4, <2>5, <2>6, <2>7, <2>8 DEF Next
<1> QED BY <1>1, <1>2, TypeCorrect, Inductive, PTL DEF Spec

(* As long as no start ever crossed another call or a callback still under   *)
(* way, a start calls startCore when every core is down, and until startCore  *)
(* returns nobody else is inside stopCore or startCore (base_impl.dart:91-95):*)
(* the client that CoreRestart composes with the server.                      *)
StartAlone ==
    met = {} =>
        \A u \in Users :
            pc[u] = "startCore" =>
                AllDown /\ \A f \in Flows \ {u} : pc[f] \notin {"stopCore", "startCore"}

THEOREM StartsAreAlone == Spec => []StartAlone
<1>1. IInv /\ RestartInv => StartAlone
  <2> SUFFICES ASSUME IInv, RestartInv, met = {}, NEW u \in Users, pc[u] = "startCore"
               PROVE  /\ AllDown
                      /\ \A f \in Flows \ {u} : pc[f] \notin {"stopCore", "startCore"}
    BY DEF StartAlone
  <2>1. u \in Flows /\ op[u] = "start" /\ u \notin crossed /\ ~behind
    BY DEF Flows, IInv, Roles, StartPcs, Remembered
  <2>2. \A v \in Users \ {u} : op[v] = "none"
    BY <2>1 DEF RestartInv, Sole
  <2>3. \A t \in Ticks : op[t] = "none"
    BY <2>1 DEF RestartInv, Fresh
  <2>4. AllDown
    <3>1. running[activeCore] = "down"
      BY <2>1 DEF IInv, Achieved
    <3> QED BY <3>1 DEF IInv, OneCore, AllDown
  <2> QED BY <2>2, <2>3, <2>4 DEF Flows, IInv, Roles
<1> QED BY <1>1, Inductive, RestartInductive, PTL

(* What start() returned with stays, and its timer watches it, for any       *)
(* number of users and of overlapping callbacks, unless one was under way    *)
(* when it cancelled the timer before.                                       *)
THEOREM RestartsStay == Spec => []OnlyStaleTicksUndo
<1>1. IInv /\ RestartInv => OnlyStaleTicksUndo
  BY DEF IInv, OneCore, RestartInv, Kept, OnlyStaleTicksUndo
<1> QED BY <1>1, Inductive, RestartInductive, PTL
=============================================================================
