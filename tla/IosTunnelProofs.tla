-------------------------- MODULE IosTunnelProofs --------------------------
(* What a stop and an update of the iOS client achieve, for any number of   *)
(* calls under way and any number of starts.                                *)
EXTENDS IosTunnel, TLAPS

(* The two halves of TypeOK, apart because no prover takes both at once, and *)
(* what makes a SIMPLE_STOP_CORE one of a start call's.                      *)
Flags ==
    /\ saved \in BOOLEAN /\ manager \in BOOLEAN /\ stopAsked \in BOOLEAN
    /\ pending \in BOOLEAN

Data ==
    /\ status \in {"disconnected", "connecting", "connected", "reasserting", "disconnecting"}
    /\ asked \subseteq 0..MaxStarts /\ options \in 0..MaxStarts
    /\ provider \in {"off", "settings", "up"}
    /\ core \in 0..MaxStarts
    /\ stops \subseteq Configs
    /\ pc \in [Users -> {"idle", "stop"} \cup StartPcs \cup SimplePcs]
    /\ config \in [Users -> 0..MaxStarts]
    /\ starts \in 0..MaxStarts
    /\ promised \subseteq 0..MaxStarts

Spoilers == spoiled \subseteq {"crossed", "late", "failed", "own"}

(* Nothing takes the manager from a call that prepareVPN gave it to. *)
Prepared == \A u \in Users : pc[u] \in PreparedPcs => manager

StartsHaveConfigs == \A u \in Users : pc[u] \notin {"idle", "stop"} => config[u] \in Configs

TypeInv == Flags /\ Data /\ Spoilers /\ Prepared /\ StartsHaveConfigs

(* Types, and that every start call carries a config, hold throughout. *)
THEOREM TypeInductive == Spec => []TypeInv
<1> USE StartAssumption
<1>1. Init => TypeInv
  <2>1. Init => Flags
    BY Zenon DEF Init, Flags
  <2>2. Init => Data /\ StartsHaveConfigs
    BY SMT DEF Init, Data, StartsHaveConfigs
  <2>3. Init => Spoilers /\ Prepared
    BY DEF Init, Spoilers, Prepared, PreparedPcs
  <2> QED BY <2>1, <2>2, <2>3 DEF TypeInv
<1>2. TypeInv /\ [Next]_vars => TypeInv'
  <2> SUFFICES ASSUME Flags, Data, Spoilers, Prepared, StartsHaveConfigs, [Next]_vars
               PROVE  Flags' /\ Data' /\ Spoilers' /\ Prepared' /\ StartsHaveConfigs'
    BY DEF TypeInv
  <2> USE DEF session, tunnel, history, Goto
  <2>1. Flags'
    <3> USE DEF Flags
    <3>1. ASSUME NEW u \in Users, Start(u) \/ Stop(u) \/ Prepare(u) \/ PrepareFails(u) PROVE Flags'
      BY <3>1, Zenon DEF Start, Stop, Begin, Prepare, PrepareFails, Return
    <3>2. ASSUME NEW u \in Users, Step(u) PROVE Flags'
      BY <3>2, Zenon DEF Step, GetTunnelStatus, StopExisting, StartVPNTunnel,
         StartVPNFails, StopVPN, StopFails, SimpleStop, SimpleStart, DeliverStart,
         StartUndelivered, Return, Pending
    <3>3. ASSUME NEW c \in stops, DeliverStop(c) \/ StopUndelivered(c) PROVE Flags'
      BY <3>3, Zenon DEF DeliverStop, StopUndelivered
    <3>4. CASE LoadManager \/ Session \/ Reassert \/ TunnelDies \/ AppDies
      BY <3>4, Zenon DEF LoadManager, Session, StartSession, startTunnel, TunnelStarted,
         Disconnect, stopTunnel, TunnelGone, Reassert, TunnelDies, AppDies
    <3>5. CASE UNCHANGED vars
      BY <3>5, Zenon DEF vars
    <3> QED BY <3>1, <3>2, <3>3, <3>4, <3>5 DEF Next
  <2>2. Data' /\ StartsHaveConfigs'
    <3> USE DEF Data, StartsHaveConfigs, Configs, StartPcs, SimplePcs
    <3>1. ASSUME NEW u \in Users,
                 Start(u) \/ Stop(u) \/ Prepare(u) \/ PrepareFails(u) \/ Step(u)
          PROVE  Data' /\ StartsHaveConfigs'
      <4>1. CASE Start(u)
        <5>1. ASSUME NEW first \in {"askStatus", "simpleStop"}, Begin(u, first, starts + 1),
                     starts < MaxStarts, starts' = starts + 1
              PROVE  Data' /\ StartsHaveConfigs'
          BY <5>1, SMT DEF Begin
        <5> QED BY <4>1, <5>1, Zenon DEF Start
      <4>2. CASE Stop(u) BY <4>2, SMT DEF Stop, Begin
      <4>3. CASE Prepare(u) BY <4>3, SMT DEF Prepare
      <4>4. CASE PrepareFails(u) BY <4>4, SMT DEF PrepareFails, Return
      <4>5. CASE GetTunnelStatus(u) BY <4>5, SMT DEF GetTunnelStatus
      <4>6. CASE StopExisting(u) BY <4>6, SMT DEF StopExisting
      <4>7. CASE StartVPNTunnel(u)
        <5>1. CASE pc[u] = "sleep"
          <6>1. Return(u, {}) /\ AskToStart(config[u]) BY <4>7, <5>1, SMT DEF StartVPNTunnel
          <6>2. asked' \subseteq 0..MaxStarts BY <6>1 DEF AskToStart
          <6>3. UNCHANGED <<status, options, provider, core, stops>>
            BY <4>7, Zenon DEF StartVPNTunnel
          <6> QED BY <6>1, <6>2, <6>3, SMT DEF Return
        <5>2. CASE pc[u] # "sleep"
          <6>1. Goto(u, "sleepSimple", "simpleStart") /\ UNCHANGED <<config, starts, promised>>
            BY <4>7, <5>2, SMT DEF StartVPNTunnel
          <6>2. AskToStart(0) BY <4>7, <5>2, SMT DEF StartVPNTunnel
          <6>3. asked' \subseteq 0..MaxStarts BY <6>2 DEF AskToStart
          <6>4. UNCHANGED <<status, options, provider, core, stops>>
            BY <4>7, Zenon DEF StartVPNTunnel
          <6> QED BY <6>1, <6>3, <6>4, SMT
        <5> QED BY <5>1, <5>2
      <4>8. CASE StartVPNFails(u) BY <4>8, SMT DEF StartVPNFails, Return
      <4>9. CASE StopVPN(u) BY <4>9, SMT DEF StopVPN, Return
      <4>10. CASE StopFails(u) BY <4>10, SMT DEF StopFails, Return
      <4>11. CASE SimpleStop(u)
        <5>1. config[u] \in Configs BY <4>11, SMT DEF SimpleStop
        <5>2. stops' \subseteq Configs BY <4>11, <5>1, Zenon DEF SimpleStop
        <5>3. pc' = [pc EXCEPT ![u] = "askAgain"] /\ pc[u] = "simpleStop"
          BY <4>11 DEF SimpleStop
        <5>4. UNCHANGED <<status, asked, options, provider, core, config, starts, promised>>
          BY <4>11, Zenon DEF SimpleStop
        <5> QED BY <5>2, <5>3, <5>4, SMT
      <4>12. CASE SimpleStart(u) BY <4>12, SMT DEF SimpleStart
      <4>13. CASE DeliverStart(u) BY <4>13, SMT DEF DeliverStart, Return
      <4>14. CASE StartUndelivered(u) BY <4>14, SMT DEF StartUndelivered, Return
      <4> QED BY <3>1, <4>1, <4>2, <4>3, <4>4, <4>5, <4>6, <4>7, <4>8, <4>9, <4>10, <4>11, <4>12, <4>13, <4>14 DEF Step
    <3>2. ASSUME NEW c \in stops, DeliverStop(c) PROVE Data' /\ StartsHaveConfigs'
      BY <3>2, SMT DEF DeliverStop
    <3>3. ASSUME NEW c \in stops, StopUndelivered(c) PROVE Data' /\ StartsHaveConfigs'
      BY <3>3, SMT DEF StopUndelivered
    <3>4. CASE LoadManager BY <3>4, SMT DEF LoadManager
    <3>5. CASE startTunnel BY <3>5, SMT DEF startTunnel
    <3>6. CASE TunnelStarted BY <3>6, SMT DEF TunnelStarted
    <3>7. CASE Disconnect BY <3>7, SMT DEF Disconnect
    <3>8. CASE stopTunnel BY <3>8, SMT DEF stopTunnel, TunnelGone
    <3>9. CASE TunnelDies BY <3>9, SMT DEF TunnelDies, TunnelGone
    <3>10. CASE AppDies BY <3>10, SMT DEF AppDies
    <3>11. CASE StartSession BY <3>11, SMT DEF StartSession
    <3>12. CASE Reassert BY <3>12, SMT DEF Reassert
    <3>13. CASE UNCHANGED vars BY <3>13, SMT DEF vars
    <3> QED
      BY <3>1, <3>2, <3>3, <3>4, <3>5, <3>6, <3>7, <3>8, <3>9, <3>10, <3>11, <3>12, <3>13
      DEF Next, Session
  <2>3. Spoilers'
    <3> USE DEF Spoilers
    <3>1. ASSUME NEW u \in Users, Start(u) \/ Stop(u) \/ Prepare(u) \/ PrepareFails(u) PROVE Spoilers'
      BY <3>1 DEF Start, Stop, Begin, Prepare, PrepareFails
    <3>2. ASSUME NEW u \in Users, Step(u) PROVE Spoilers'
      <4>1. CASE DeliverStart(u) BY <4>1 DEF DeliverStart, Spoil
      <4>2. CASE ~DeliverStart(u)
        <5>1. UNCHANGED spoiled
          BY <3>2, <4>2, Zenon DEF Step, GetTunnelStatus, StopExisting, StartVPNTunnel,
             StartVPNFails, StopVPN, StopFails, SimpleStop, SimpleStart, StartUndelivered
        <5> QED BY <5>1
      <4> QED BY <4>1, <4>2
    <3>3. ASSUME NEW c \in stops, DeliverStop(c) \/ StopUndelivered(c) PROVE Spoilers'
      BY <3>3 DEF DeliverStop, StopUndelivered, Spoil
    <3>4. CASE LoadManager \/ Session \/ Reassert \/ TunnelDies \/ AppDies
      BY <3>4 DEF LoadManager, Session, StartSession, startTunnel, TunnelStarted, Spoil,
         Disconnect, stopTunnel, TunnelGone, Reassert, TunnelDies, AppDies
    <3>5. CASE UNCHANGED vars
      BY <3>5 DEF vars
    <3> QED BY <3>1, <3>2, <3>3, <3>4, <3>5 DEF Next
  <2>4. Prepared'
    <3> USE DEF Prepared, PreparedPcs, Flags, Data
    <3>1. ASSUME NEW u \in Users, Start(u) \/ Stop(u) PROVE Prepared'
      BY <3>1 DEF Start, Stop, Begin
    <3>2. ASSUME NEW u \in Users, Prepare(u) \/ PrepareFails(u) PROVE Prepared'
      BY <3>2 DEF Prepare, PrepareFails, Return
    <3>3. ASSUME NEW u \in Users, GetTunnelStatus(u) PROVE Prepared'
      BY <3>3 DEF GetTunnelStatus
    <3>4. ASSUME NEW u \in Users, Step(u), ~GetTunnelStatus(u) PROVE Prepared'
      BY <3>4 DEF Step, StopExisting, StartVPNTunnel, StartVPNFails, StopVPN, StopFails,
         SimpleStop, SimpleStart, DeliverStart, StartUndelivered, Return
    <3>5. ASSUME NEW c \in stops, DeliverStop(c) \/ StopUndelivered(c) PROVE Prepared'
      BY <3>5 DEF DeliverStop, StopUndelivered
    <3>6. CASE LoadManager \/ Session \/ Reassert \/ TunnelDies \/ AppDies
      BY <3>6 DEF LoadManager, Session, StartSession, startTunnel, TunnelStarted,
         Disconnect, stopTunnel, TunnelGone, Reassert, TunnelDies, AppDies
    <3>7. CASE UNCHANGED vars
      BY <3>7 DEF vars
    <3> QED BY <3>1, <3>2, <3>3, <3>4, <3>5, <3>6, <3>7 DEF Next
  <2> QED BY <2>1, <2>2, <2>3, <2>4
<1> QED BY <1>1, <1>2, PTL DEF Spec

(* The calls of the app, the plugin and the tunnel keep their types. *)
THEOREM TypeCorrect == Spec => []TypeOK
<1>1. TypeInv => TypeOK
  BY DEF TypeInv, TypeOK, Flags, Data, Spoilers, Prepared
<1> QED BY <1>1, TypeInductive, PTL
-----------------------------------------------------------------------------
(* After a stop that no start was beside, none is until the app calls one;  *)
(* so nobody asks the session to start.                                     *)
Stopped ==
    0 \in promised /\ ~pending =>
        /\ asked = {} /\ \A u \in Users : config[u] = 0
        /\ stopAsked \/ status \in {"disconnecting", "disconnected"}

(* While the last call crossed no other one, it is the only one.  Once its   *)
(* stop is delivered the core stays down until its start is, and what that   *)
(* has brought up stays up: nobody is left to send a stop.                   *)
LatePcs == {"askAgain", "prepareSimple", "simpleStartVpn", "sleepSimple", "simpleStart", "reply"}

Alone ==
    "crossed" \notin spoiled =>
        \A u, v \in Users : pc[u] # "idle" /\ pc[v] # "idle" => u = v

Cleared ==
    spoiled = {} /\ stops = {} => \A u \in Users : pc[u] \in LatePcs => core = 0

Settled ==
    spoiled = {} /\ promised \cap Configs # {} =>
        promised = {core} /\ stops = {} /\ \A u \in Users : pc[u] = "idle"

PromiseInv == Stopped /\ Alone /\ Cleared /\ Settled

(* What a stop or an update has achieved outlives every message and session  *)
(* still under way, but for those the properties name.                       *)
THEOREM PromiseInductive == Spec => []PromiseInv
<1> USE StartAssumption
<1>1. Init => PromiseInv
  BY DEF Init, PromiseInv, Stopped, Alone, Cleared, Settled, LatePcs
<1>2. TypeInv /\ PromiseInv /\ [Next]_vars => PromiseInv'
  <2> SUFFICES ASSUME Flags, Data, StartsHaveConfigs, PromiseInv, [Next]_vars PROVE PromiseInv'
    BY DEF TypeInv
  <2> USE DEF session, tunnel, history, Goto, Flags, Data, StartsHaveConfigs, PromiseInv, Stopped,
              Alone, Cleared, Settled, LatePcs, Configs, StartPcs, SimplePcs
  <2>1. ASSUME NEW u \in Users,
               Start(u) \/ Stop(u) \/ Prepare(u) \/ PrepareFails(u) \/ Step(u)
        PROVE  PromiseInv'
    <3>0. ASSUME NEW first \in {"askStatus", "simpleStop", "stop"}, NEW c, Begin(u, first, c)
          PROVE  PromiseInv'
      <4>1. promised' = {} /\ pc' = [pc EXCEPT ![u] = first] /\ UNCHANGED core
        BY <3>0 DEF Begin
      <4>2. "crossed" \notin spoiled' => \A v \in Users \ {u} : pc[v] = "idle"
        BY <3>0 DEF Begin
      <4>3. Stopped' /\ Settled'
        BY <4>1
      <4>4. Alone' /\ Cleared'
        BY <4>1, <4>2
      <4> QED BY <4>3, <4>4
    <3>1. CASE Start(u) BY <3>1, <3>0, Zenon DEF Start
    <3>2. CASE Stop(u) BY <3>2, <3>0, Zenon DEF Stop
    <3>3. CASE Prepare(u) BY <3>3, SMT DEF Prepare
    <3>4. CASE PrepareFails(u) BY <3>4, SMT DEF PrepareFails, Return
    <3>5. CASE GetTunnelStatus(u) BY <3>5, SMT DEF GetTunnelStatus
    <3>6. CASE StopExisting(u) BY <3>6, SMT DEF StopExisting
    <3>7. CASE StartVPNTunnel(u) BY <3>7, SMT DEF StartVPNTunnel, AskToStart, Return
    <3>8. CASE StartVPNFails(u) BY <3>8, SMT DEF StartVPNFails, Return
    <3>9. CASE StopVPN(u)
      <4>1. ~pending' => asked = {} /\ \A v \in Users : config[v] = 0
        BY <3>9, Zenon DEF StopVPN, Pending
      <4>2. stopAsked' \/ status \in {"disconnecting", "disconnected"}
        BY <3>9 DEF StopVPN
      <4>3. Return(u, {0}) /\ UNCHANGED <<status, asked, core, stops, spoiled>>
        BY <3>9 DEF StopVPN
      <4> QED BY <4>1, <4>2, <4>3, SMT DEF Return
    <3>10. CASE StopFails(u) BY <3>10, SMT DEF StopFails, Return
    <3>11. CASE SimpleStop(u) BY <3>11, SMT DEF SimpleStop
    <3>12. CASE SimpleStart(u) BY <3>12, SMT DEF SimpleStart
    <3>13. CASE DeliverStart(u) BY <3>13, SMT DEF DeliverStart, Spoil, Return
    <3>14. CASE StartUndelivered(u) BY <3>14, SMT DEF StartUndelivered, Return
    <3> QED
      BY <2>1, <3>1, <3>2, <3>3, <3>4, <3>5, <3>6, <3>7, <3>8, <3>9, <3>10, <3>11, <3>12, <3>13, <3>14 DEF Step
  <2>2. ASSUME NEW c \in stops, DeliverStop(c) PROVE PromiseInv'
    BY <2>2, SMT DEF DeliverStop, Spoil
  <2>3. ASSUME NEW c \in stops, StopUndelivered(c) PROVE PromiseInv'
    BY <2>3, SMT DEF StopUndelivered, Spoil
  <2>4. CASE LoadManager BY <2>4, SMT DEF LoadManager
  <2>5. CASE startTunnel BY <2>5, SMT DEF startTunnel
  <2>6. CASE TunnelStarted BY <2>6, SMT DEF TunnelStarted, Spoil
  <2>7. CASE Disconnect BY <2>7, SMT DEF Disconnect
  <2>8. CASE stopTunnel BY <2>8, SMT DEF stopTunnel, TunnelGone
  <2>9. CASE TunnelDies BY <2>9, SMT DEF TunnelDies, TunnelGone
  <2>10. CASE AppDies BY <2>10, SMT DEF AppDies
  <2>11. CASE StartSession BY <2>11, SMT DEF StartSession
  <2>12. CASE Reassert BY <2>12, SMT DEF Reassert
  <2>13. CASE UNCHANGED vars BY <2>13, SMT DEF vars
  <2> QED
    BY <2>1, <2>2, <2>3, <2>4, <2>5, <2>6, <2>7, <2>8, <2>9, <2>10, <2>11, <2>12, <2>13
    DEF Next, Session
<1> QED BY <1>1, <1>2, TypeInductive, PTL DEF Spec

(* A stop() that returned is undone by no other stop, message or session,    *)
(* only by a start that was pending when it looked (VpnService.swift:215-260,*)
(* 345-354).                                                                 *)
THEOREM StopsAreFinal == Spec => []OnlyPendingStartsUndo
<1>1. PromiseInv => OnlyPendingStartsUndo
  BY DEF PromiseInv, Stopped, OnlyPendingStartsUndo
<1> QED BY <1>1, PromiseInductive, PTL

(* An update that was answered "true" is what the core runs, if the stops    *)
(* were no later than its start, nothing failed and nobody crossed it        *)
(* (ProxyCorePluginImpl.swift:192-225).                                      *)
THEOREM UpdatesApply == Spec => []OnlyLateStopsUndo
<1>1. PromiseInv => OnlyLateStopsUndo
  BY DEF PromiseInv, Settled, OnlyLateStopsUndo
<1> QED BY <1>1, PromiseInductive, PTL
=============================================================================
