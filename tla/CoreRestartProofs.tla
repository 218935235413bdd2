------------------------- MODULE CoreRestartProofs -------------------------
(* What a client that has nothing beside its starts gets from the gRPC     *)
(* server, for any number of cores, links, overlapping stops and queries.  *)
EXTENDS CoreRestart, TLAPS

(* The types of CoreServer's variables and of the client's history. *)
TypeInv == TypeOK /\ stopped \in BOOLEAN /\ sawDown \subseteq Handlers

(* What a handler's request holds, be it one of a client's or none. *)
LEMMA LinksOfRequests ==
    ASSUME NEW r \in Requests \cup {NoRequest} PROVE r.link \in Links \cup {Off} /\ r.vpn \in BOOLEAN
<1>1. CASE r \in Requests
  <2>1. r.link \in Links
    BY <1>1 DEF Requests
  <2>2. r.vpn \in BOOLEAN
    BY <1>1 DEF Requests
  <2> QED BY <2>1, <2>2
<1>2. CASE r = NoRequest
  <2>1. r.link = Off
    BY <1>2 DEF NoRequest
  <2>2. r.vpn = FALSE
    BY <1>2 DEF NoRequest
  <2> QED BY <2>1, <2>2
<1> QED BY <1>1, <1>2

(* The program starts in a well-typed state. *)
LEMMA InitType == RestartInit => TypeInv
<1> SUFFICES ASSUME RestartInit PROVE TypeInv
  OBVIOUS
<1> USE CoreAssumption DEF RestartInit, Init
<1>1. pc \in [Handlers -> Pcs]
  BY DEF Pcs
<1>2. req \in [Handlers -> Requests \cup {NoRequest}]
  OBVIOUS
<1>3. core \in [Handlers -> Cores] /\ activeCore \in Cores
  OBVIOUS
<1>4. running \in [Cores -> Links \cup {Off}] /\ tun \in Links \cup {Off}
  OBVIOUS
<1>5. reply \in [Handlers -> {"none", "ok", "error", "yes", "no"}]
  OBVIOUS
<1> QED BY <1>1, <1>2, <1>3, <1>4, <1>5 DEF TypeInv, TypeOK

(* The variables of server.go keep their types; no torn name is ever stored. *)
THEOREM RestartTypeCorrect == RestartSpec => []TypeInv
<1>1. TypeInv /\ [RestartNext]_restartVars => TypeInv'
  <2> SUFFICES ASSUME TypeInv, [RestartNext]_restartVars PROVE TypeInv'
    OBVIOUS
  <2>0. \A h \in Handlers : req[h].link \in Links \cup {Off} /\ req[h].vpn \in BOOLEAN
    BY LinksOfRequests DEF TypeInv, TypeOK
  <2>00. sawDown' \subseteq Handlers
    BY DEF TypeInv, RestartNext, Watch, restartVars
  <2> USE CoreAssumption, <2>0, <2>00
      DEF TypeInv, TypeOK, Goto, Answer, Arrive, shared, Pcs, StartPcs, StopPcs, AskPcs
  <2>1. ASSUME NEW h \in Handlers, ClientStarts(h) PROVE TypeInv'
    BY <2>1 DEF ClientStarts, StartCore
  <2>2. ASSUME NEW h \in Handlers, ClientStops(h) PROVE TypeInv'
    BY <2>2 DEF ClientStops, StopCore
  <2>3. ASSUME NEW h \in Handlers, ClientAsks(h) PROVE TypeInv'
    BY <2>3 DEF ClientAsks, Ask
  <2>4. ASSUME NEW h \in Handlers, ServerStarts(h) PROVE TypeInv'
    <3> USE <2>4 DEF ServerStarts
    <3>1. CASE UnknownCore(h) BY <3>1 DEF UnknownCore
    <3>2. CASE SelectCore(h) BY <3>2 DEF SelectCore
    <3>3. CASE SetMode(h) BY <3>3 DEF SetMode
    <3>4. CASE CoreStartOk(h) BY <3>4 DEF CoreStartOk
    <3>5. CASE CoreStartFails(h) BY <3>5 DEF CoreStartFails
    <3>6. CASE CoreStartHalf(h) BY <3>6 DEF CoreStartHalf
    <3>7. CASE ReadMode(h) BY <3>7 DEF ReadMode
    <3>8. CASE TunIsStarted(h) BY <3>8 DEF TunIsStarted
    <3>9. CASE TunStart(h) BY <3>9 DEF TunStart
    <3> QED BY <3>1, <3>2, <3>3, <3>4, <3>5, <3>6, <3>7, <3>8, <3>9 DEF StartStep
  <2>5. ASSUME NEW h \in Handlers, ServerStops(h) PROVE TypeInv'
    <3> USE <2>5 DEF ServerStops
    <3>1. CASE StopGetsCore(h) BY <3>1 DEF StopGetsCore, GetActiveCore, ActiveReads
    <3>2. CASE StopSeesCore(h) BY <3>2 DEF StopSeesCore
    <3>3. CASE CoreStop(h) BY <3>3 DEF CoreStop
    <3>4. CASE CoreStopFails(h) BY <3>4 DEF CoreStopFails
    <3>5. CASE StopSeesTun(h) BY <3>5 DEF StopSeesTun
    <3>6. CASE TunStop(h) BY <3>6 DEF TunStop
    <3> QED BY <3>1, <3>2, <3>3, <3>4, <3>5, <3>6 DEF StopStep
  <2>6. ASSUME NEW h \in Handlers, ServerAnswers(h) PROVE TypeInv'
    <3> USE <2>6 DEF ServerAnswers
    <3>1. CASE AskGetsCore(h) BY <3>1 DEF AskGetsCore, GetActiveCore, ActiveReads
    <3>2. CASE AskCore(h) BY <3>2 DEF AskCore
    <3> QED BY <3>1, <3>2 DEF AskStep
  <2>7. CASE UNCHANGED restartVars
    BY <2>7 DEF restartVars, vars
  <2> QED BY <2>1, <2>2, <2>3, <2>4, <2>5, <2>6, <2>7 DEF RestartNext
<1> QED BY InitType, <1>1, PTL DEF RestartSpec
-----------------------------------------------------------------------------
Quiet == {"idle"} \cup AskPcs
(* A handler inside StartCore is the only one inside StartCore or StopCore. *)
Serial == \A g, h \in Handlers : pc[g] \in StartPcs /\ g # h => pc[h] \in Quiet

(* What a handler can rely on, line by line. *)
Knows(h) ==
    /\ pc[h] \in {"select", "mode", "start"} => AllDown /\ tun = Off
    /\ pc[h] \in StartPcs => req[h] \in Requests
    /\ pc[h] \in {"mode", "start", "started", "isStarted", "startTun"} =>
          core[h] = activeCore /\ req[h].core = activeCore
    /\ pc[h] \in {"start", "started"} => isVpnMode = req[h].vpn
    /\ pc[h] \in {"isStarted", "startTun"} => req[h].vpn = TRUE
    /\ pc[h] \in {"started", "isStarted", "startTun"} =>
          tun = Off /\ running[core[h]] = req[h].link
    /\ pc[h] \in {"isUp", "stop"} => core[h] = activeCore
    /\ pc[h] \in {"stopped", "stopTun"} => AllDown

TunMatches ==
    tun # Off => \/ running[activeCore] = tun
                 \/ \E h \in Handlers : pc[h] \in {"stopped", "stopTun"}

Clean == stopped => AllDown /\ NoStart

RInv ==
    TypeInv /\ Serial /\ Clean /\ OneCore /\ TunMatches /\ \A h \in Handlers : Knows(h)

(* While one handler starts, the others only ask. *)
LEMMA OthersQuiet ==
    ASSUME RInv, NEW h \in Handlers, pc[h] \in StartPcs, NEW q \in Pcs,
           pc' = [pc EXCEPT ![h] = q]
    PROVE  /\ Serial'
           /\ pc'[h] = q
           /\ \A g \in Handlers \ {h} : pc'[g] \in Quiet /\ Knows(g)'
<1>1. \A g \in Handlers \ {h} : pc'[g] \in Quiet
  BY DEF RInv, TypeInv, TypeOK, Serial
<1>2. Serial'
  BY <1>1 DEF Serial, Quiet, AskPcs, StartPcs
<1>3. \A g \in Handlers \ {h} : Knows(g)'
  BY <1>1 DEF Knows, Quiet, AskPcs, StartPcs
<1> QED BY <1>1, <1>2, <1>3 DEF RInv, TypeInv, TypeOK

(* A handler that starts knows all of the state, since nobody but it writes   *)
(* activeCoreName, isVpnMode, the cores or libtun; handlers that stop agree   *)
(* on the active core and only take down (server.go:77-140).                  *)
THEOREM Inductive == RestartSpec => []RInv
<1>1. RestartInit => RInv
  BY InitType, CoreAssumption
  DEF RestartInit, Init, RInv, Serial, Clean, OneCore, TunMatches, Knows, Quiet,
      StartPcs, AllDown
<1>2. RInv /\ TypeInv' /\ [RestartNext]_restartVars => RInv'
  <2> SUFFICES ASSUME RInv, TypeInv', [RestartNext]_restartVars PROVE RInv'
    OBVIOUS
  <2> USE CoreAssumption, OffAssumption
  <2>1. ASSUME NEW h \in Handlers, ClientStarts(h) PROVE RInv'
    <3>1. pc' = [pc EXCEPT ![h] = "select"] /\ pc[h] = "idle"
      BY <2>1 DEF ClientStarts, StartCore, Arrive, Goto
    <3>2. pc'[h] = "select" /\ \A g \in Handlers \ {h} : pc'[g] \in Quiet
      BY <2>1, <3>1 DEF ClientStarts, Awaited, Quiet, RInv, TypeInv, TypeOK
    <3>3. req'[h] \in Requests
      BY <2>1 DEF ClientStarts, StartCore, RInv, TypeInv, TypeOK
    <3>4. AllDown' /\ tun' = Off /\ ~stopped'
      BY <2>1 DEF ClientStarts, StartCore, Arrive, shared, RInv, Clean, TunMatches, Awaited,
                  AllDown, AskPcs, TypeInv, TypeOK
    <3>5. \A g \in Handlers : Knows(g)'
      BY <3>2, <3>3, <3>4 DEF Knows, Quiet, AskPcs, StartPcs
    <3>6. Serial'
      BY <3>2 DEF Serial, Quiet, AskPcs, StartPcs
    <3> QED BY <3>4, <3>5, <3>6 DEF RInv, Clean, OneCore, TunMatches, AllDown
  <2>2. ASSUME NEW h \in Handlers, ClientStops(h) PROVE RInv'
    <3>1. pc' = [pc EXCEPT ![h] = "active"] /\ pc[h] = "idle"
      BY <2>2 DEF ClientStops, StopCore, Arrive, Goto
    <3>2. pc'[h] = "active" /\ \A g \in Handlers \ {h} : pc'[g] = pc[g]
      BY <3>1 DEF RInv, TypeInv, TypeOK
    <3>3. UNCHANGED <<shared, stopped, req, core>> /\ NoStart
      BY <2>2 DEF ClientStops, StopCore, Arrive
    <3>4. NoStart'
      BY <3>2, <3>3 DEF NoStart, StartPcs
    <3>5. \A g \in Handlers : Knows(g)'
      <4>1. Knows(h)'
        BY <3>2 DEF Knows, StartPcs
      <4>2. ASSUME NEW g \in Handlers \ {h} PROVE Knows(g)'
        BY <3>2, <3>3 DEF Knows, RInv, AllDown, shared
      <4> QED BY <4>1, <4>2
    <3>6. TunMatches'
      BY <3>1, <3>2, <3>3 DEF RInv, TunMatches, shared
    <3> QED BY <3>3, <3>4, <3>5, <3>6
      DEF RInv, Serial, NoStart, Clean, OneCore, AllDown, shared
  <2>3. ASSUME NEW h \in Handlers, ClientAsks(h) \/ ServerAnswers(h) PROVE RInv'
    <3>1. PICK q \in Quiet : pc' = [pc EXCEPT ![h] = q]
      BY <2>3 DEF ClientAsks, Ask, Arrive, ServerAnswers, AskStep, AskGetsCore,
                  GetActiveCore, AskCore, Answer, Goto, Quiet, AskPcs
    <3>2. pc[h] \in Quiet
      BY <2>3 DEF ClientAsks, Ask, Arrive, ServerAnswers, AskStep, AskGetsCore,
                  GetActiveCore, AskCore, Answer, Goto, Quiet, AskPcs
    <3>3. UNCHANGED <<shared, stopped>>
      BY <2>3 DEF ClientAsks, Ask, Arrive, ServerAnswers, AskStep, AskGetsCore,
                  GetActiveCore, AskCore, shared
    <3>4. \A g \in Handlers \ {h} :
            pc'[g] = pc[g] /\ req'[g] = req[g] /\ core'[g] = core[g]
      BY <2>3 DEF ClientAsks, Ask, Arrive, ServerAnswers, AskStep, AskGetsCore,
                  GetActiveCore, AskCore, Answer, Goto, RInv, TypeInv, TypeOK
    <3>5. pc'[h] \in Quiet
      BY <3>1 DEF RInv, TypeInv, TypeOK
    <3>6. \A g \in Handlers : Knows(g)'
      <4>1. Knows(h)'
        BY <3>5 DEF Knows, Quiet, AskPcs, StartPcs
      <4>2. ASSUME NEW g \in Handlers \ {h} PROVE Knows(g)'
        BY <3>3, <3>4 DEF Knows, RInv, AllDown, shared
      <4> QED BY <4>1, <4>2
    <3>7. Serial' /\ Clean'
      BY <3>2, <3>3, <3>4, <3>5
      DEF RInv, Serial, Clean, NoStart, AllDown, Quiet, AskPcs, StartPcs, shared
    <3>8. OneCore' /\ TunMatches'
      BY <3>2, <3>3, <3>4 DEF RInv, OneCore, TunMatches, shared, Quiet, AskPcs
    <3> QED BY <3>6, <3>7, <3>8 DEF RInv
  <2>4. ASSUME NEW h \in Handlers, ServerStarts(h) PROVE RInv'
    <3>0. pc[h] \in StartPcs
      BY <2>4 DEF ServerStarts, StartStep, UnknownCore, SelectCore, SetMode, CoreStartOk,
                  CoreStartFails, CoreStartHalf, ReadMode, TunIsStarted, TunStart, Goto,
                  StartPcs
    <3>1. PICK q \in Pcs : pc' = [pc EXCEPT ![h] = q]
      BY <2>4 DEF ServerStarts, StartStep, UnknownCore, SelectCore, SetMode, CoreStartOk,
                  CoreStartFails, CoreStartHalf, ReadMode, TunIsStarted, TunStart, Goto,
                  Answer, StartPcs, Pcs
    <3>2. Serial' /\ pc'[h] = q /\ \A g \in Handlers \ {h} : pc'[g] \in Quiet /\ Knows(g)'
      BY <3>0, <3>1, OthersQuiet
    <3>3. ~stopped /\ ~stopped'
      BY <2>4, <3>0 DEF RInv, Clean, NoStart, ServerStarts
    <3> SUFFICES OneCore' /\ TunMatches' /\ Knows(h)'
      BY <3>2, <3>3 DEF RInv, Clean
    <3> USE <3>2 DEF RInv, TypeInv, TypeOK, OneCore, TunMatches, Knows, AllDown, Goto,
                     Answer, shared, StartPcs
    <3>11. CASE UnknownCore(h) BY <3>11 DEF UnknownCore
    <3>12. CASE SelectCore(h) BY <3>12 DEF SelectCore
    <3>13. CASE SetMode(h) BY <3>13 DEF SetMode
    <3>14. CASE CoreStartOk(h) BY <3>14 DEF CoreStartOk
    <3>15. CASE CoreStartFails(h) BY <3>15 DEF CoreStartFails
    <3>16. CASE CoreStartHalf(h) BY <3>16 DEF CoreStartHalf
    <3>17. CASE ReadMode(h) BY <3>17 DEF ReadMode
    <3>18. CASE TunIsStarted(h) BY <3>18 DEF TunIsStarted
    <3>19. CASE TunStart(h) BY <3>19 DEF TunStart
    <3> QED BY <2>4, <3>11, <3>12, <3>13, <3>14, <3>15, <3>16, <3>17, <3>18, <3>19
      DEF StartStep, ServerStarts
  <2>5. ASSUME NEW h \in Handlers, ServerStops(h) PROVE RInv'
    <3>0. pc[h] \in StopPcs
      BY <2>5 DEF ServerStops, StopStep, StopGetsCore, GetActiveCore, StopSeesCore, CoreStop,
                  CoreStopFails, StopSeesTun, TunStop, Goto, StopPcs
    <3>1. PICK q \in StopPcs \cup {"idle"} : pc' = [pc EXCEPT ![h] = q]
      BY <2>5 DEF ServerStops, StopStep, StopGetsCore, GetActiveCore, StopSeesCore, CoreStop,
                  CoreStopFails, StopSeesTun, TunStop, Goto, Answer, StopPcs
    <3>2. pc'[h] = q /\ \A g \in Handlers \ {h} : pc'[g] = pc[g]
      BY <3>1 DEF RInv, TypeInv, TypeOK
    <3>3. NoStart /\ NoStart' /\ Serial'
      <4>1. NoStart
        BY <3>0 DEF RInv, Serial, NoStart, StartPcs, StopPcs, Quiet, AskPcs
      <4>2. NoStart'
        BY <3>2, <4>1 DEF NoStart, StartPcs, StopPcs
      <4> QED BY <4>1, <4>2 DEF NoStart, Serial
    <3>4. /\ activeCore' = activeCore
          /\ \A k \in Cores : running[k] = Off => running'[k] = Off
          /\ tun' \in {tun, Off}
          /\ \A g \in Handlers \ {h} : core'[g] = core[g]
      BY <2>5
      DEF ServerStops, StopStep, StopGetsCore, GetActiveCore, StopSeesCore, CoreStop,
          CoreStopFails, StopSeesTun, TunStop, Goto, Answer, shared, RInv, TypeInv, TypeOK
    <3>5. ASSUME NEW g \in Handlers \ {h} PROVE Knows(g)'
      BY <3>2, <3>3, <3>4 DEF RInv, Knows, AllDown, NoStart, StartPcs
    <3>6. OneCore'
      BY <3>4 DEF RInv, OneCore
    <3> SUFFICES TunMatches' /\ Knows(h)' /\ Clean'
      BY <3>3, <3>5, <3>6 DEF RInv
    <3>8. stopped => AllDown'
      BY <3>4 DEF RInv, Clean, AllDown
    <3>9. ~(pc'[h] = "idle" /\ reply'[h] = "ok") => Clean'
      BY <2>5, <3>3, <3>8 DEF ServerStops, Clean
    <3>10. AllDown' => Clean'
      BY <3>3 DEF Clean
    <3> USE <3>2, <3>3, <3>4
        DEF RInv, TypeInv, TypeOK, OneCore, TunMatches, Knows, AllDown, Goto, Answer, shared,
            StartPcs
    <3>11. CASE StopGetsCore(h)
      <4>1. \A name : ActiveReads(h, name) => name = activeCore
        BY DEF ActiveReads, NoStart
      <4>2. Goto(h, "active", "isUp") /\ core' = [core EXCEPT ![h] = activeCore]
            /\ UNCHANGED <<shared, req, reply>>
        BY <3>11, <4>1 DEF StopGetsCore, GetActiveCore
      <4> QED BY <3>9, <4>2
    <3>12. CASE StopSeesCore(h)
      <4>1. core[h] = activeCore /\ UNCHANGED shared
        BY <3>12 DEF StopSeesCore
      <4>2. CASE Goto(h, "isUp", "stop")
        BY <3>9, <3>12, <4>1, <4>2 DEF StopSeesCore
      <4>3. CASE running[core[h]] = Off /\ pc[h] = "isUp" /\ Answer(h, "ok")
        BY <3>10, <4>1, <4>3
      <4> QED BY <3>12, <4>2, <4>3 DEF StopSeesCore
    <3>13. CASE CoreStop(h)
      BY <3>9, <3>13 DEF CoreStop
    <3>14. CASE CoreStopFails(h)
      BY <3>9, <3>14 DEF CoreStopFails
    <3>15. CASE StopSeesTun(h)
      BY <3>10, <3>15 DEF StopSeesTun
    <3>16. CASE TunStop(h)
      BY <3>10, <3>16 DEF TunStop
    <3> QED BY <2>5, <3>11, <3>12, <3>13, <3>14, <3>15, <3>16 DEF ServerStops, StopStep
  <2>6. CASE UNCHANGED restartVars
    BY <2>6 DEF restartVars, vars, shared, RInv, Serial, Clean, NoStart, OneCore, TunMatches,
                Knows, AllDown
  <2> QED BY <2>1, <2>2, <2>3, <2>4, <2>5, <2>6 DEF RestartNext
<1> QED BY <1>1, <1>2, RestartTypeCorrect, PTL DEF RestartSpec
-----------------------------------------------------------------------------
(* A stopCore that succeeds leaves no core running and, with the stops beside *)
(* it, no engine.                                                             *)
THEOREM StopIsComplete == RestartSpec => []StopLeavesNothing
<1>1. RInv => StopLeavesNothing
  BY DEF RInv, TypeInv, TypeOK, Clean, AllDown, Awaited, AskPcs, TunMatches, StopLeavesNothing
<1> QED BY <1>1, Inductive, PTL

(* At most the active core runs. *)
THEOREM OneCoreOnly == RestartSpec => []OneCore
<1>1. RInv => OneCore
  BY DEF RInv
<1> QED BY <1>1, Inductive, PTL

(* Between calls the engine's link is the link of the running core. *)
THEOREM TunFitsCore == RestartSpec => []TunServesTheCore
<1>1. RInv => TunServesTheCore
  BY DEF RInv, TunMatches, TunServesTheCore, Awaited, AskPcs
<1> QED BY <1>1, Inductive, PTL

(* A startCore that succeeds delivers what its request asked for. *)
THEOREM StartsDeliver == RestartSpec => StartDelivers
<1>1. RInv /\ TypeInv' /\ [RestartNext]_restartVars =>
        [\A h \in Handlers :
           pc[h] \in StartPcs /\ pc'[h] = "idle" /\ reply'[h] = "ok" =>
              /\ running'[core[h]] = req[h].link
              /\ tun' = IF req[h].vpn THEN req[h].link ELSE Off]_restartVars
  <2> SUFFICES ASSUME RInv, TypeInv', [RestartNext]_restartVars,
                      NEW h \in Handlers,
                      pc[h] \in StartPcs, pc'[h] = "idle", reply'[h] = "ok"
               PROVE  /\ running'[core[h]] = req[h].link
                      /\ tun' = IF req[h].vpn THEN req[h].link ELSE Off
    OBVIOUS
  <2> USE DEF RInv, TypeInv, TypeOK, StartPcs, Goto, Answer
  <2>1. ClientStarts(h) \/ ClientStops(h) \/ ClientAsks(h)
        \/ ServerStarts(h) \/ ServerStops(h) \/ ServerAnswers(h)
    BY DEF RestartNext, restartVars, vars, ClientStarts, ClientStops, ClientAsks, StartCore,
           StopCore, Ask, Arrive, ServerStarts, StartStep, UnknownCore, SelectCore, SetMode,
           CoreStartOk, CoreStartFails, CoreStartHalf, ReadMode, TunIsStarted, TunStart,
           ServerStops, StopStep, StopGetsCore, GetActiveCore, StopSeesCore, CoreStop,
           CoreStopFails, StopSeesTun, TunStop, ServerAnswers, AskStep, AskGetsCore, AskCore
  <2>2. ReadMode(h) \/ TunIsStarted(h) \/ TunStart(h)
    BY <2>1
    DEF ClientStarts, ClientStops, ClientAsks, StartCore,
           StopCore, Ask, Arrive, ServerStarts, StartStep, UnknownCore, SelectCore, SetMode,
           CoreStartOk, CoreStartFails, CoreStartHalf,
           ServerStops, StopStep, StopGetsCore, GetActiveCore, StopSeesCore, CoreStop,
           CoreStopFails, StopSeesTun, TunStop, ServerAnswers, AskStep, AskGetsCore, AskCore,
           AskPcs
  <2>3. CASE ReadMode(h)
    BY <2>3 DEF ReadMode, Knows, shared
  <2>4. CASE TunIsStarted(h)
    BY <2>4 DEF TunIsStarted, Knows, shared
  <2>5. CASE TunStart(h)
    BY <2>5 DEF TunStart, Knows
  <2> QED BY <2>2, <2>3, <2>4, <2>5
<1> QED BY <1>1, Inductive, RestartTypeCorrect, PTL DEF RestartSpec, StartDelivers
-----------------------------------------------------------------------------
(* What a query knows of the core it asks: it got it as the active one, and  *)
(* another is selected only while none is up.                                *)
Asked ==
    \A h \in Handlers :
        /\ pc[h] \in AskPcs /\ AllDown => h \in sawDown
        /\ pc[h] \in AskPcs \ {"ask"} => core[h] = activeCore \/ h \in sawDown

(* A step of h leaves the lines, cores and answers of the others alone. *)
LEMMA OneActs ==
    ASSUME TypeInv, RestartNext
    PROVE  \E h \in Handlers :
             /\ \/ ClientStarts(h) \/ ClientStops(h) \/ ClientAsks(h)
                \/ ServerStarts(h) \/ ServerStops(h) \/ ServerAnswers(h)
             /\ \A g \in Handlers \ {h} :
                  pc'[g] = pc[g] /\ core'[g] = core[g] /\ reply'[g] = reply[g]
<1>1. PICK h \in Handlers :
        \/ ClientStarts(h) \/ ClientStops(h) \/ ClientAsks(h)
        \/ ServerStarts(h) \/ ServerStops(h) \/ ServerAnswers(h)
  BY DEF RestartNext
<1> SUFFICES ASSUME NEW g \in Handlers \ {h}
             PROVE  pc'[g] = pc[g] /\ core'[g] = core[g] /\ reply'[g] = reply[g]
  BY <1>1
<1> USE DEF TypeInv, TypeOK, Goto, Answer, Arrive
<1>2. CASE ClientStarts(h) \/ ClientStops(h) \/ ClientAsks(h)
  BY <1>2 DEF ClientStarts, ClientStops, ClientAsks, StartCore, StopCore, Ask
<1>3. CASE ServerStarts(h)
  BY <1>3 DEF ServerStarts, StartStep, UnknownCore, SelectCore, SetMode, CoreStartOk,
              CoreStartFails, CoreStartHalf, ReadMode, TunIsStarted, TunStart
<1>4. CASE ServerStops(h)
  BY <1>4 DEF ServerStops, StopStep, StopGetsCore, GetActiveCore, StopSeesCore, CoreStop,
              CoreStopFails, StopSeesTun, TunStop
<1>5. CASE ServerAnswers(h)
  BY <1>5 DEF ServerAnswers, AskStep, AskGetsCore, GetActiveCore, AskCore
<1> QED BY <1>1, <1>2, <1>3, <1>4, <1>5

(* A query's core is the active one, or a moment without any core has passed. *)
THEOREM QueriesKnow == RestartSpec => []Asked
<1>1. RestartInit => Asked
  BY DEF RestartInit, Init, Asked, AskPcs
<1>2. RInv /\ Asked /\ [RestartNext]_restartVars => Asked'
  <2> SUFFICES ASSUME RInv, Asked, RestartNext PROVE Asked'
    BY DEF restartVars, vars, shared, Asked, AllDown
  <2>1. PICK h \in Handlers :
          /\ \/ ClientStarts(h) \/ ClientStops(h) \/ ClientAsks(h)
             \/ ServerStarts(h) \/ ServerStops(h) \/ ServerAnswers(h)
          /\ \A g \in Handlers \ {h} :
               pc'[g] = pc[g] /\ core'[g] = core[g] /\ reply'[g] = reply[g]
    BY OneActs DEF RInv
  <2>2. \A g \in Handlers : pc'[g] \in AskPcs /\ (g \in sawDown \/ AllDown') => g \in sawDown'
    BY DEF RestartNext, Watch
  <2>3. activeCore' = activeCore \/ AllDown'
    <3>1. CASE SelectCore(h)
      BY <3>1 DEF SelectCore, Goto, RInv, Knows, AllDown
    <3>2. CASE ~SelectCore(h)
      BY <2>1, <3>2
      DEF ClientStarts, ClientStops, ClientAsks, StartCore, StopCore, Ask, Arrive,
          ServerStarts, StartStep, UnknownCore, SetMode, CoreStartOk, CoreStartFails,
          CoreStartHalf, ReadMode, TunIsStarted, TunStart, ServerStops, StopStep,
          StopGetsCore, GetActiveCore, StopSeesCore, CoreStop, CoreStopFails, StopSeesTun,
          TunStop, ServerAnswers, AskStep, AskGetsCore, AskCore, shared
    <3> QED BY <3>1, <3>2
  <2>4. ASSUME NEW g \in Handlers, pc'[g] \in AskPcs \ {"ask"}
        PROVE  core'[g] = activeCore' \/ g \in sawDown'
    <3>1. CASE g # h
      BY <2>1, <2>2, <2>3, <2>4, <3>1 DEF Asked
    <3>2. CASE g = h
      <4>1. AskGetsCore(h)
        BY <2>1, <2>4, <3>2
        DEF RInv, TypeInv, TypeOK, Goto, Answer, Arrive, AskPcs,
            ClientStarts, ClientStops, ClientAsks, StartCore, StopCore, Ask,
            ServerStarts, StartStep, UnknownCore, SelectCore, SetMode, CoreStartOk,
            CoreStartFails, CoreStartHalf, ReadMode, TunIsStarted, TunStart, ServerStops,
            StopStep, StopGetsCore, GetActiveCore, StopSeesCore, CoreStop, CoreStopFails,
            StopSeesTun, TunStop, ServerAnswers, AskStep, AskCore
      <4>2. core'[h] = activeCore /\ activeCore' = activeCore
        BY <2>4, <3>2, <4>1, CoreAssumption
        DEF AskGetsCore, GetActiveCore, ActiveReads, Goto, Answer, AskPcs, shared,
            RInv, TypeInv, TypeOK
      <4> QED BY <3>2, <4>2
    <3> QED BY <3>1, <3>2
  <2> QED BY <2>2, <2>4 DEF Asked
<1> QED BY <1>1, <1>2, Inductive, PTL DEF RestartSpec

(* A query answers with what was true at some moment of the call, whatever   *)
(* restart, of the same core or of another, it crosses.                      *)
THEOREM QueriesAreTrue == RestartSpec => AnswersAreTrue
<1>1. RInv /\ Asked /\ [RestartNext]_restartVars =>
        [\A h \in Handlers :
           pc[h] \in {"isRunning", "logs"} /\ pc'[h] = "idle" =>
              IF reply'[h] \in {"yes", "ok"} THEN ~AllDown ELSE h \in sawDown]_restartVars
  <2> SUFFICES ASSUME RInv, Asked, RestartNext,
                      NEW g \in Handlers, pc[g] \in {"isRunning", "logs"}, pc'[g] = "idle"
               PROVE  IF reply'[g] \in {"yes", "ok"} THEN ~AllDown ELSE g \in sawDown
    OBVIOUS
  <2>1. AskCore(g)
    <3>1. PICK h \in Handlers :
            /\ \/ ClientStarts(h) \/ ClientStops(h) \/ ClientAsks(h)
               \/ ServerStarts(h) \/ ServerStops(h) \/ ServerAnswers(h)
            /\ \A d \in Handlers \ {h} :
                 pc'[d] = pc[d] /\ core'[d] = core[d] /\ reply'[d] = reply[d]
      BY OneActs DEF RInv
    <3>2. g = h
      BY <3>1
    <3> QED
      BY <3>1, <3>2
      DEF Goto, Arrive,
          ClientStarts, ClientStops, ClientAsks, StartCore, StopCore, Ask,
          ServerStarts, StartStep, UnknownCore, SelectCore, SetMode, CoreStartOk,
          CoreStartFails, CoreStartHalf, ReadMode, TunIsStarted, TunStart, ServerStops,
          StopStep, StopGetsCore, GetActiveCore, StopSeesCore, CoreStop, CoreStopFails,
          StopSeesTun, TunStop, ServerAnswers, AskStep, AskGetsCore
  <2>2. reply'[g] \in {"yes", "ok"} <=> running[core[g]] # Off
    BY <2>1 DEF AskCore, Answer, RInv, TypeInv, TypeOK
  <2>3. CASE running[core[g]] # Off
    BY <2>2, <2>3 DEF AllDown, RInv, TypeInv, TypeOK
  <2>4. CASE running[core[g]] = Off
    <3>1. core[g] = activeCore => AllDown
      BY <2>4 DEF AllDown, RInv, OneCore
    <3>2. g \in sawDown
      BY <3>1 DEF Asked, AskPcs
    <3> QED BY <2>2, <2>4, <3>2
  <2> QED BY <2>3, <2>4
<1> QED BY <1>1, Inductive, QueriesKnow, PTL DEF RestartSpec, AnswersAreTrue
-----------------------------------------------------------------------------
(* The refinement.  A handler that only asks does not show in the mapping.  *)

Ran == {<<k, running[k]>> : k \in {j \in Cores : running[j] # Off}}
Hidden == {"started", "isStarted", "startTun"}
Undone == {"stopped", "stopTun"}

(* With one core up at most, that core is all there is to see. *)
LEMMA RanIsOne ==
    ASSUME NEW r, NEW a \in Cores, \A k \in Cores : r[k] # Off => k = a
    PROVE  {<<k, r[k]>> : k \in {j \in Cores : r[j] # Off}}
              = IF r[a] = Off THEN {} ELSE {<<a, r[a]>>}
OBVIOUS

(* A step that moves h moves the abstract h alone. *)
LEMMA InsideMoves ==
    ASSUME TypeInv, NEW h \in Handlers, NEW q \in Pcs, pc' = [pc EXCEPT ![h] = q]
    PROVE  Inside[h] = CallOf(h) /\ Inside' = [Inside EXCEPT ![h] = CallOf(h)']
<1>1. ASSUME NEW g \in Handlers, g # h PROVE CallOf(g)' = CallOf(g)
  <2>1. pc'[g] = pc[g]
    BY <1>1 DEF TypeInv, TypeOK
  <2> QED BY <2>1 DEF CallOf
<1> QED BY <1>1 DEF Inside

(* While h starts, its line alone says what is seen of core and engine. *)
LEMMA Lone ==
    ASSUME RInv, NEW h \in Handlers, pc[h] \in StartPcs, NEW q \in Pcs \ Undone,
           pc' = [pc EXCEPT ![h] = q]
    PROVE  /\ Serving = IF pc[h] \in Hidden THEN {} ELSE Ran
           /\ Serving' = IF q \in Hidden THEN {} ELSE Ran'
           /\ Engine = tun /\ Engine' = tun'
<1>1. \A g \in Handlers \ {h} : pc[g] \in Quiet /\ pc'[g] \in Quiet
  BY DEF RInv, TypeInv, TypeOK, Serial
<1>2. pc'[h] = q
  BY DEF RInv, TypeInv, TypeOK
<1>3. (\E g \in Handlers : pc[g] \in Hidden) <=> pc[h] \in Hidden
  BY <1>1 DEF Quiet, AskPcs, Hidden
<1>4. (\E g \in Handlers : pc'[g] \in Hidden) <=> q \in Hidden
  BY <1>1, <1>2 DEF Quiet, AskPcs, Hidden
<1>5. \A g \in Handlers : pc[g] \notin Undone /\ pc'[g] \notin Undone
  BY <1>1, <1>2 DEF Quiet, AskPcs, StartPcs, Undone
<1> QED BY <1>3, <1>4, <1>5 DEF Serving, Engine, Ran, Hidden, Undone

(* A step of a query, and the first step of any call, shows nothing of core *)
(* and engine.                                                              *)
LEMMA Unseen ==
    ASSUME TypeInv, NEW h \in Handlers, NEW q \in Pcs, pc' = [pc EXCEPT ![h] = q],
           pc[h] \in Quiet, q \notin Hidden \cup Undone, UNCHANGED shared
    PROVE  UNCHANGED <<Serving, Engine>>
<1>1. \A g \in Handlers : pc'[g] \in Hidden <=> pc[g] \in Hidden
  BY DEF TypeInv, TypeOK, Quiet, AskPcs, Hidden
<1>2. \A g \in Handlers : pc'[g] \in Undone <=> pc[g] \in Undone
  BY DEF TypeInv, TypeOK, Quiet, AskPcs, Undone
<1>3. Serving' = Serving
  BY <1>1 DEF Serving, Hidden, shared
<1>4. Engine' = Engine
  BY <1>2 DEF Engine, Undone, shared
<1> QED BY <1>3, <1>4

(* An answer of h ends the abstract call. *)
LEMMA Finished ==
    ASSUME TypeInv, NEW h \in Handlers, NEW r, Answer(h, r)
    PROVE  Proxy!Finish(h, r)
<1>1. Inside' = [Inside EXCEPT ![h] = CallOf(h)']
  BY InsideMoves DEF Answer, Pcs
<1>2. CallOf(h)' = "idle"
  BY DEF TypeInv, TypeOK, Answer, CallOf, StartPcs, AskPcs
<1> QED BY <1>1, <1>2 DEF Proxy!Finish, Answer

(* A step within a call, with nothing to see of core and engine. *)
LEMMA Within ==
    ASSUME TypeInv, NEW h \in Handlers, NEW q \in Pcs, pc' = [pc EXCEPT ![h] = q],
           CallOf(h)' = CallOf(h), UNCHANGED <<Serving, Engine, req, reply>>
    PROVE  UNCHANGED Proxy!proxyVars
<1>1. Inside' = Inside
  BY InsideMoves DEF Inside
<1> QED BY <1>1 DEF Proxy!proxyVars

(* The client's own steps and the queries, of which only calls and answers show. *)
LEMMA ClientMaps ==
    ASSUME RInv, NEW h \in Handlers,
           ClientStarts(h) \/ ClientStops(h) \/ ClientAsks(h) \/ ServerAnswers(h)
    PROVE  [Proxy!Next]_(Proxy!proxyVars)
<1>0. TypeInv /\ Quiet \subseteq Pcs
  BY DEF RInv, Quiet, Pcs
<1>1. Awaited => Proxy!Alone
  BY DEF Awaited, Proxy!Alone, Inside, CallOf, StartPcs, StopPcs, AskPcs
<1>2. CASE ClientStarts(h)
  <2>1. pc[h] = "idle" /\ pc' = [pc EXCEPT ![h] = "select"] /\ UNCHANGED shared
    BY <1>2 DEF ClientStarts, StartCore, Arrive, Goto
  <2>2. UNCHANGED <<Serving, Engine>>
    BY <1>0, <2>1, Unseen DEF Quiet, Pcs, StartPcs, Hidden, Undone
  <2>3. Serving = {} /\ Engine = Off
    BY <1>2 DEF ClientStarts, RInv, TypeInv, TypeOK, Clean, TunMatches, Awaited, AllDown, AskPcs,
                Serving, Engine
  <2>4. Inside[h] = "idle" /\ Inside' = [Inside EXCEPT ![h] = "start"]
    <3>1. CallOf(h) = "idle" /\ CallOf(h)' = "start"
      BY <1>0, <2>1 DEF TypeInv, TypeOK, CallOf, StartPcs, AskPcs
    <3> QED BY <1>0, <2>1, <3>1, InsideMoves DEF Pcs, StartPcs
  <2>5. Proxy!Start(h)
    BY <1>1, <1>2, <2>2, <2>3, <2>4
    DEF ClientStarts, StartCore, Arrive, Proxy!Start, Proxy!Invoke
  <2> QED BY <2>5 DEF Proxy!Next
<1>3. CASE ClientStops(h)
  <2>1. pc[h] = "idle" /\ pc' = [pc EXCEPT ![h] = "active"] /\ UNCHANGED shared
    BY <1>3 DEF ClientStops, StopCore, Arrive, Goto
  <2>2. UNCHANGED <<Serving, Engine>>
    BY <1>0, <2>1, Unseen DEF Quiet, Pcs, StopPcs, Hidden, Undone
  <2>3. Inside[h] = "idle" /\ Inside' = [Inside EXCEPT ![h] = "stop"]
    <3>1. CallOf(h) = "idle" /\ CallOf(h)' = "stop"
      BY <1>0, <2>1 DEF TypeInv, TypeOK, CallOf, StartPcs, AskPcs
    <3> QED BY <1>0, <2>1, <3>1, InsideMoves DEF Pcs, StopPcs
  <2>4. \A g \in Handlers : Inside[g] # "start"
    BY <1>3 DEF ClientStops, NoStart, Inside, CallOf
  <2>5. Proxy!Stop(h)
    BY <1>3, <2>2, <2>3, <2>4 DEF ClientStops, StopCore, Arrive, Proxy!Stop, Proxy!Invoke
  <2> QED BY <2>5 DEF Proxy!Next
<1>4. CASE ClientAsks(h)
  <2>1. pc[h] = "idle" /\ pc' = [pc EXCEPT ![h] = "ask"] /\ UNCHANGED shared
    BY <1>4 DEF ClientAsks, Ask, Arrive, Goto
  <2>2. UNCHANGED <<Serving, Engine>>
    BY <1>0, <2>1, Unseen DEF Quiet, Pcs, AskPcs, Hidden, Undone
  <2>3. Inside[h] = "idle" /\ Inside' = [Inside EXCEPT ![h] = "query"]
    <3>1. CallOf(h) = "idle" /\ CallOf(h)' = "query"
      BY <1>0, <2>1 DEF TypeInv, TypeOK, CallOf, StartPcs, AskPcs
    <3> QED BY <1>0, <2>1, <3>1, InsideMoves DEF Pcs, AskPcs
  <2>4. Proxy!Ask(h)
    BY <1>4, <2>2, <2>3 DEF ClientAsks, Ask, Arrive, Proxy!Ask, Proxy!Invoke
  <2> QED BY <2>4 DEF Proxy!Next
<1>5. CASE ServerAnswers(h)
  <2>1. pc[h] \in AskPcs /\ UNCHANGED shared
    BY <1>5 DEF ServerAnswers, AskStep, AskGetsCore, GetActiveCore, AskCore, Goto, AskPcs
  <2>2. CallOf(h) = "query" /\ Inside[h] = "query"
    BY <2>1 DEF CallOf, Inside, StartPcs, AskPcs
  <2>3. CASE \E r \in {"ok", "error", "yes", "no"} : Answer(h, r)
    <3>1. UNCHANGED <<Serving, Engine>>
      BY <1>0, <2>1, <2>3, Unseen DEF Answer, Quiet, Pcs, Hidden, Undone
    <3>2. \E r \in {"ok", "error", "yes", "no"} : Proxy!Finish(h, r)
      BY <1>0, <2>3, Finished
    <3>3. Proxy!Tell(h)
      BY <2>2, <3>1, <3>2 DEF Proxy!Tell
    <3> QED BY <3>3 DEF Proxy!Next
  <2>4. CASE ~\E r \in {"ok", "error", "yes", "no"} : Answer(h, r)
    <3>1. PICK q \in AskPcs : Goto(h, "ask", q) /\ UNCHANGED <<req, reply>>
      BY <1>5, <2>4 DEF ServerAnswers, AskStep, AskGetsCore, GetActiveCore, AskCore
    <3>2. q \in Pcs /\ q \notin Hidden \cup Undone
      BY <3>1 DEF AskPcs, Pcs, Hidden, Undone
    <3>3. UNCHANGED <<Serving, Engine>>
      BY <1>0, <2>1, <3>1, <3>2, Unseen DEF Goto, Quiet
    <3>4. CallOf(h)' = CallOf(h)
      BY <1>0, <2>2, <3>1 DEF TypeInv, TypeOK, Goto, CallOf, StartPcs, AskPcs
    <3> QED BY <1>0, <3>1, <3>2, <3>3, <3>4, Within DEF Goto
  <2> QED BY <2>3, <2>4
<1> QED BY <1>2, <1>3, <1>4, <1>5

(* StartCore, of which the return shows, or the failure with the core up. *)
LEMMA StartMaps ==
    ASSUME RInv, RInv', NEW h \in Handlers, StartStep(h)
    PROVE  [Proxy!Next]_(Proxy!proxyVars)
<1>0. TypeInv /\ TypeInv' /\ OneCore' /\ Knows(h)
  BY DEF RInv
<1>1. pc[h] \in StartPcs
  BY DEF StartStep, UnknownCore, SelectCore, SetMode, CoreStartOk, CoreStartFails,
         CoreStartHalf, ReadMode, TunIsStarted, TunStart, Goto, StartPcs
<1>2. CallOf(h) = "start" /\ Inside[h] = "start"
  BY <1>1 DEF CallOf, Inside, StartPcs, AskPcs
<1>3. Serving = IF pc[h] \in Hidden THEN {} ELSE Ran
  BY <1>1 DEF Serving, Ran, Hidden, RInv, Serial, Quiet, AskPcs
<1>31. Engine = tun
  BY <1>1 DEF Engine, RInv, Serial, Quiet, AskPcs, StartPcs
<1>32. ASSUME NEW q \in Pcs, pc' = [pc EXCEPT ![h] = q], q \notin Undone
       PROVE  Serving' = (IF q \in Hidden THEN {} ELSE Ran') /\ Engine' = tun'
  BY <1>1, <1>32, Lone
<1>33. ASSUME NEW r, Answer(h, r) PROVE Serving' = Ran' /\ Engine' = tun'
  <2>1. pc' = [pc EXCEPT ![h] = "idle"] /\ "idle" \in Pcs /\ "idle" \notin Hidden \cup Undone
    BY <1>33 DEF Answer, Pcs, Hidden, Undone
  <2> QED BY <1>32, <2>1
<1>4. ASSUME Answer(h, "error"), UNCHANGED shared, pc[h] \notin Hidden
      PROVE  Proxy!StartFail(h)
  <2>1. Serving' = Ran' /\ Engine' = tun'
    BY <1>4, <1>33
  <2>2. UNCHANGED <<Serving, Engine>>
    BY <1>3, <1>31, <1>4, <2>1 DEF shared, Ran
  <2> QED BY <1>0, <1>2, <1>4, <2>2, Finished DEF Proxy!StartFail
<1>5. ASSUME NEW q \in StartPcs, Goto(h, pc[h], q), UNCHANGED <<req, reply>>,
             tun' = tun, q \in Hidden \/ (pc[h] \notin Hidden /\ UNCHANGED running),
             pc[h] \in Hidden \/ Ran = {}
      PROVE  UNCHANGED Proxy!proxyVars
  <2>1. pc' = [pc EXCEPT ![h] = q] /\ q \in Pcs /\ q \notin Undone
    BY <1>5 DEF Goto, Pcs, StartPcs, Undone
  <2>2. Serving' = IF q \in Hidden THEN {} ELSE Ran'
    BY <1>32, <2>1
  <2>3. Engine' = tun'
    BY <1>32, <2>1
  <2>4. UNCHANGED <<Serving, Engine>>
    BY <1>3, <1>31, <1>5, <2>2, <2>3 DEF Ran
  <2>5. CallOf(h)' = CallOf(h)
    <3>1. pc'[h] \in StartPcs
      BY <1>0, <1>5, <2>1 DEF TypeInv, TypeOK
    <3>2. CallOf(h)' = "start"
      BY <3>1 DEF CallOf, StartPcs, AskPcs
    <3> QED BY <1>2, <3>2
  <2> QED BY <1>0, <1>5, <2>1, <2>4, <2>5, Within
<1>6. ASSUME Answer(h, "ok"), UNCHANGED <<activeCore, running>>, pc[h] \in Hidden,
             tun' = IF req[h].vpn THEN req[h].link ELSE Off
      PROVE  Proxy!StartOk(h)
  <2>1. Serving' = Ran' /\ Engine' = tun'
    BY <1>6, <1>33
  <2>2. running'[activeCore'] = req[h].link /\ req[h].core = activeCore' /\ req[h] \in Requests
    BY <1>0, <1>6 DEF Knows, Hidden, StartPcs
  <2>3. req[h].link # Off /\ req[h].core \in Cores
    BY <1>0, <2>2, OffAssumption DEF Requests, TypeInv, TypeOK
  <2>4. Ran' = {<<req[h].core, req[h].link>>}
    <3>1. activeCore' \in Cores /\ \A k \in Cores : running'[k] # Off => k = activeCore'
      BY <1>0 DEF TypeInv, TypeOK, OneCore
    <3> QED BY <2>2, <2>3, <3>1, RanIsOne DEF Ran
  <2> QED BY <1>0, <1>2, <1>6, <2>1, <2>3, <2>4, Finished DEF Proxy!StartOk
<1>7. AllDown => Ran = {}
  BY DEF AllDown, Ran
<1>11. CASE UnknownCore(h)
  BY <1>4, <1>11 DEF UnknownCore, Hidden, Proxy!Next
<1>12. CASE SelectCore(h)
  <2>1. Goto(h, pc[h], "mode") /\ UNCHANGED <<req, reply>> /\ tun' = tun
    BY <1>12 DEF SelectCore, Goto
  <2>2. pc[h] \notin Hidden /\ UNCHANGED running
    BY <1>12 DEF SelectCore, Goto, Hidden
  <2>3. Ran = {}
    BY <1>0, <1>7, <1>12 DEF SelectCore, Goto, Knows
  <2>4. "mode" \in StartPcs
    BY DEF StartPcs
  <2> QED BY <1>5, <2>1, <2>2, <2>3, <2>4
<1>13. CASE SetMode(h)
  <2>1. Goto(h, pc[h], "start") /\ UNCHANGED <<req, reply>> /\ tun' = tun
    BY <1>13 DEF SetMode, Goto
  <2>2. pc[h] \notin Hidden /\ UNCHANGED running
    BY <1>13 DEF SetMode, Goto, Hidden
  <2>3. Ran = {}
    BY <1>0, <1>7, <1>13 DEF SetMode, Goto, Knows
  <2>4. "start" \in StartPcs
    BY DEF StartPcs
  <2> QED BY <1>5, <2>1, <2>2, <2>3, <2>4
<1>14. CASE CoreStartOk(h)
  <2>1. Goto(h, pc[h], "started") /\ UNCHANGED <<req, reply>> /\ tun' = tun
    BY <1>14 DEF CoreStartOk, Goto
  <2>2. "started" \in Hidden
    BY <1>14 DEF CoreStartOk, Goto, Hidden
  <2>3. Ran = {}
    BY <1>0, <1>7, <1>14 DEF CoreStartOk, Goto, Knows
  <2>4. "started" \in StartPcs
    BY DEF StartPcs
  <2> QED BY <1>5, <2>1, <2>2, <2>3, <2>4
<1>15. CASE CoreStartFails(h)
  BY <1>4, <1>15 DEF CoreStartFails, Hidden, Proxy!Next
<1>16. CASE CoreStartHalf(h)
  <2>1. Answer(h, "error") /\ pc[h] = "start" /\ core[h] \in HalfStarting
        /\ running' = [running EXCEPT ![core[h]] = req[h].link]
        /\ UNCHANGED <<activeCore, tun>>
    BY <1>16 DEF CoreStartHalf
  <2>2. Serving' = Ran' /\ Engine' = tun'
    BY <2>1, <1>33
  <2>3. req[h].core = activeCore /\ core[h] = activeCore /\ req[h] \in Requests
    BY <1>0, <2>1 DEF Knows, StartPcs
  <2>4. running'[activeCore'] = req[h].link /\ req[h].link # Off
    BY <1>0, <2>1, <2>3, OffAssumption DEF Requests, TypeInv, TypeOK
  <2>5. Ran' = {<<req[h].core, req[h].link>>}
    <3>1. activeCore' \in Cores /\ \A k \in Cores : running'[k] # Off => k = activeCore'
      BY <1>0 DEF TypeInv, TypeOK, OneCore
    <3> QED BY <2>1, <2>3, <2>4, <3>1, RanIsOne DEF Ran
  <2>6. Proxy!StartHalf(h)
    BY <1>0, <1>2, <1>31, <2>1, <2>2, <2>3, <2>5, Finished DEF Proxy!StartHalf
  <2> QED BY <2>6 DEF Proxy!Next
<1>17. CASE ReadMode(h)
  <2>1. CASE Goto(h, "started", "isStarted")
    <3>1. Goto(h, pc[h], "isStarted") /\ UNCHANGED <<req, reply>> /\ tun' = tun
      BY <1>17, <2>1 DEF ReadMode, Goto, Answer, shared, RInv, TypeInv, TypeOK, Pcs, StartPcs
    <3>2. pc[h] \in Hidden /\ "isStarted" \in Hidden /\ "isStarted" \in StartPcs
      BY <2>1 DEF Goto, Hidden, StartPcs
    <3> QED BY <1>5, <3>1, <3>2
  <2>2. CASE pc[h] = "started" /\ Answer(h, "ok") /\ ~isVpnMode
    BY <1>0, <1>6, <1>17, <2>2 DEF ReadMode, Knows, shared, Hidden, StartPcs, Proxy!Next
  <2> QED BY <1>17, <2>1, <2>2 DEF ReadMode
<1>18. CASE TunIsStarted(h)
  <2>1. Goto(h, pc[h], "startTun") /\ UNCHANGED <<req, reply>> /\ tun' = tun
    BY <1>0, <1>18 DEF TunIsStarted, Knows, Goto, shared
  <2>2. pc[h] \in Hidden /\ "startTun" \in Hidden /\ "startTun" \in StartPcs
    BY <1>0, <1>18 DEF TunIsStarted, Knows, Goto, Hidden, StartPcs
  <2> QED BY <1>5, <2>1, <2>2
<1>19. CASE TunStart(h)
  BY <1>0, <1>6, <1>19 DEF TunStart, Knows, Hidden, Proxy!Next
<1> QED BY <1>11, <1>12, <1>13, <1>14, <1>15, <1>16, <1>17, <1>18, <1>19 DEF StartStep

(* StopCore, which takes effect when the core is stopped, or finds it down, *)
(* whichever of the stops that overlap does the work.                       *)
LEMMA StopMaps ==
    ASSUME RInv, RInv', NEW h \in Handlers, StopStep(h)
    PROVE  [Proxy!Next]_(Proxy!proxyVars)
<1>0. TypeInv /\ TypeInv' /\ OneCore /\ Knows(h) /\ Knows(h)'
  BY DEF RInv
<1>1. pc[h] \in StopPcs
  BY DEF StopStep, StopGetsCore, GetActiveCore, StopSeesCore, CoreStop, CoreStopFails,
         StopSeesTun, TunStop, Goto, StopPcs
<1>2. Inside[h] = CallOf(h) /\ CallOf(h) = IF pc[h] \in Undone THEN "down" ELSE "stop"
  BY <1>1 DEF CallOf, Inside, Undone, StartPcs, StopPcs, AskPcs
<1>3. PICK q \in StopPcs \cup {"idle"} : pc' = [pc EXCEPT ![h] = q]
  BY DEF StopStep, StopGetsCore, GetActiveCore, StopSeesCore, CoreStop, CoreStopFails,
         StopSeesTun, TunStop, Goto, Answer, StopPcs
<1>4. pc'[h] = q /\ q \in Pcs /\ \A g \in Handlers \ {h} : pc'[g] = pc[g]
  BY <1>0, <1>3 DEF TypeInv, TypeOK, Pcs
<1>5. NoStart /\ NoStart'
  <2>1. NoStart
    BY <1>1 DEF RInv, Serial, NoStart, StartPcs, StopPcs, Quiet, AskPcs
  <2> QED BY <1>4, <2>1 DEF NoStart, StartPcs, StopPcs
<1>6. Serving = Ran /\ Serving' = Ran'
  BY <1>5 DEF Serving, Ran, NoStart, StartPcs
<1>7. (Ran = {} <=> AllDown) /\ (Ran' = {} <=> AllDown')
  BY DEF AllDown, Ran
<1>8. (AllDown => Engine = Off) /\ (AllDown' => Engine' = Off)
  BY DEF RInv, TypeInv, TypeOK, TunMatches, AllDown, Engine
<1>9. ASSUME UNCHANGED shared, AllDown \/ (pc[h] \notin Undone /\ q \notin Undone)
      PROVE  UNCHANGED <<Serving, Engine>>
  <2>1. Serving' = Serving
    BY <1>6, <1>9 DEF Ran, shared
  <2>2. CASE AllDown
    BY <1>8, <1>9, <2>1, <2>2 DEF AllDown, shared
  <2>3. CASE pc[h] \notin Undone /\ q \notin Undone
    BY <1>4, <1>9, <2>1, <2>3 DEF Engine, Undone, shared
  <2> QED BY <1>9, <2>1, <2>2, <2>3
<1>10. ASSUME UNCHANGED <<shared, req, reply>>, q # "idle", q \in Undone <=> pc[h] \in Undone
       PROVE  UNCHANGED Proxy!proxyVars
  <2>1. pc[h] \in Undone => AllDown
    BY <1>0 DEF Knows, Undone
  <2>2. UNCHANGED <<Serving, Engine>>
    BY <1>9, <1>10, <2>1
  <2>3. CallOf(h)' = CallOf(h)
    BY <1>2, <1>3, <1>4, <1>10 DEF CallOf, Undone, StartPcs, StopPcs, AskPcs
  <2> QED BY <1>0, <1>3, <1>4, <1>10, <2>2, <2>3, Within
<1>11. CASE StopGetsCore(h)
  <2>1. \A name : ActiveReads(h, name) => name \in Cores
    BY <1>0, <1>5 DEF ActiveReads, TypeInv, TypeOK, NoStart, StartPcs
  <2>2. Goto(h, "active", "isUp") /\ UNCHANGED <<shared, req, reply>>
    BY <1>11, <2>1 DEF StopGetsCore, GetActiveCore
  <2>3. pc[h] = "active" /\ q = "isUp"
    BY <1>0, <1>4, <2>2 DEF Goto, TypeInv, TypeOK
  <2> QED BY <1>10, <2>2, <2>3 DEF Undone
<1>12. CASE StopSeesCore(h)
  <2>1. CASE Goto(h, "isUp", "stop")
    <3>1. pc[h] = "isUp" /\ q = "stop"
      BY <1>0, <1>4, <2>1 DEF Goto, TypeInv, TypeOK
    <3>2. UNCHANGED <<shared, req, reply>>
      BY <1>0, <1>12, <1>4, <3>1 DEF StopSeesCore, Answer, TypeInv, TypeOK
    <3> QED BY <1>10, <3>1, <3>2 DEF Undone
  <2>2. CASE running[core[h]] = Off /\ pc[h] = "isUp" /\ Answer(h, "ok")
    <3>1. UNCHANGED shared /\ AllDown
      BY <1>0, <1>12, <2>2 DEF StopSeesCore, Knows, OneCore, AllDown
    <3>2. Serving = {} /\ Engine = Off /\ UNCHANGED <<Serving, Engine>>
      BY <1>6, <1>7, <1>8, <1>9, <3>1
    <3>3. Proxy!StopOk(h)
      BY <1>0, <1>2, <2>2, <3>2, Finished DEF Undone, Proxy!StopOk
    <3> QED BY <3>3 DEF Proxy!Next
  <2> QED BY <1>12, <2>1, <2>2 DEF StopSeesCore
<1>13. CASE CoreStop(h)
  <2>1. pc[h] = "stop" /\ q = "stopped" /\ UNCHANGED <<req, reply>>
    BY <1>0, <1>4, <1>13 DEF CoreStop, Goto, TypeInv, TypeOK
  <2>2. AllDown'
    BY <1>0, <1>4, <2>1 DEF Knows
  <2>3. Serving' = {} /\ Engine' = Off
    BY <1>6, <1>7, <1>8, <2>2
  <2>4. Inside[h] = "stop"
    BY <1>2, <2>1 DEF Undone
  <2>5. Inside' = [Inside EXCEPT ![h] = "down"]
    <3>1. CallOf(h)' = "down"
      BY <1>4, <2>1 DEF CallOf, StartPcs, AskPcs
    <3> QED BY <1>0, <1>3, <1>4, <3>1, InsideMoves
  <2>6. Proxy!Down(h)
    BY <2>1, <2>3, <2>4, <2>5 DEF Proxy!Down
  <2> QED BY <2>6 DEF Proxy!Next
<1>14. CASE CoreStopFails(h)
  <2>1. pc[h] = "stop" /\ Answer(h, "error") /\ UNCHANGED shared /\ ~AllDown
    BY <1>0, <1>14 DEF CoreStopFails, AllDown, TypeInv, TypeOK
  <2>2. q = "idle"
    BY <1>0, <1>4, <2>1 DEF Answer, TypeInv, TypeOK
  <2>3. Serving # {} /\ UNCHANGED <<Serving, Engine>>
    BY <1>6, <1>7, <1>9, <2>1, <2>2 DEF Undone
  <2>4. Proxy!StopFail(h)
    BY <1>0, <1>2, <2>1, <2>3, Finished DEF Undone, Proxy!StopFail
  <2> QED BY <2>4 DEF Proxy!Next
<1>15. ASSUME pc[h] \in Undone, Answer(h, "ok"), UNCHANGED running
       PROVE  Proxy!StopOk(h)
  <2>1. AllDown /\ AllDown'
    BY <1>0, <1>15 DEF Knows, Undone, AllDown
  <2>2. UNCHANGED <<Serving, Engine>>
    BY <1>6, <1>7, <1>8, <2>1
  <2> QED BY <1>0, <1>2, <1>15, <2>2, Finished DEF Proxy!StopOk
<1>16. CASE StopSeesTun(h)
  <2>1. CASE Goto(h, "stopped", "stopTun")
    <3>1. pc[h] = "stopped" /\ q = "stopTun"
      BY <1>0, <1>4, <2>1 DEF Goto, TypeInv, TypeOK
    <3>2. UNCHANGED <<shared, req, reply>>
      BY <1>0, <1>4, <1>16, <3>1 DEF StopSeesTun, Answer, TypeInv, TypeOK
    <3> QED BY <1>10, <3>1, <3>2 DEF Undone
  <2>2. CASE tun = Off /\ pc[h] = "stopped" /\ Answer(h, "ok")
    BY <1>15, <1>16, <2>2 DEF StopSeesTun, Undone, shared, Proxy!Next
  <2> QED BY <1>16, <2>1, <2>2 DEF StopSeesTun
<1>17. CASE TunStop(h)
  BY <1>15, <1>17 DEF TunStop, Undone, Proxy!Next
<1> QED BY <1>11, <1>12, <1>13, <1>14, <1>16, <1>17 DEF StopStep

(* For any number of cores, links, overlapping stops and queries, the service *)
(* is one proxy to a client that has nothing beside its starts: registry,     *)
(* active core, mode, core and engine, and every failure in between, never    *)
(* show (server.go:77-140).                                                   *)
THEOREM RestartImplementsProxy == RestartSpec => ImplementsProxy
<1>1. RestartInit => Proxy!Init
  <2> SUFFICES ASSUME RestartInit PROVE Proxy!Init
    OBVIOUS
  <2>1. Serving = {} /\ Engine = Off
    BY DEF RestartInit, Init, Serving, Engine
  <2>2. Inside = [h \in Handlers |-> "idle"]
    BY DEF RestartInit, Init, Inside, CallOf, StartPcs, AskPcs
  <2> QED BY <2>1, <2>2 DEF RestartInit, Init, Proxy!Init
<1>2. RInv /\ RInv' /\ [RestartNext]_restartVars => [Proxy!Next]_(Proxy!proxyVars)
  <2> SUFFICES ASSUME RInv, RInv', [RestartNext]_restartVars
               PROVE  [Proxy!Next]_(Proxy!proxyVars)
    OBVIOUS
  <2>1. CASE RestartNext
    BY <2>1, ClientMaps, StartMaps, StopMaps DEF RestartNext, ServerStarts, ServerStops
  <2>2. CASE UNCHANGED restartVars
    BY <2>2 DEF restartVars, vars, shared, Proxy!proxyVars, Serving, Engine, Inside, CallOf
  <2> QED BY <2>1, <2>2
<1> QED BY <1>1, <1>2, Inductive, PTL DEF RestartSpec, ImplementsProxy, Proxy!Spec

(* The abstract proxy: no other start and no stop beside a start, and a start *)
(* has nothing up before it returns.                                          *)
ProxyInv ==
    /\ Proxy!Sound
    /\ \A c, d \in Handlers : Inside[c] = "start" /\ c # d => Inside[d] \in {"idle", "query"}
    /\ \A c \in Handlers : Inside[c] = "start" => Serving = {} /\ Engine = Off

(* What ProxyService allows never mixes two cores or two links; by the        *)
(* refinement the gRPC service does not either (server.go:77-140).            *)
THEOREM ProxyIsSound == RestartSpec => []Proxy!Sound
<1>1. Proxy!Init => ProxyInv
  BY DEF Proxy!Init, Proxy!Sound, ProxyInv
<1>2. ProxyInv /\ [Proxy!Next]_(Proxy!proxyVars) => ProxyInv'
  <2> SUFFICES ASSUME ProxyInv, [Proxy!Next]_(Proxy!proxyVars) PROVE ProxyInv'
    OBVIOUS
  <2>1. /\ Inside \in [Handlers -> {CallOf(h) : h \in Handlers}]
        /\ Inside' \in [Handlers -> {CallOf(h)' : h \in Handlers}]
    BY DEF Inside
  <2> USE DEF ProxyInv, Proxy!Sound
  <2>2. ASSUME NEW c \in Handlers, Proxy!Start(c) PROVE ProxyInv'
    BY <2>1, <2>2 DEF Proxy!Start, Proxy!Invoke, Proxy!Alone
  <2>3. ASSUME NEW c \in Handlers, Proxy!Stop(c) PROVE ProxyInv'
    BY <2>1, <2>3 DEF Proxy!Stop, Proxy!Invoke, Proxy!Alone
  <2>4. ASSUME NEW c \in Handlers, Proxy!Ask(c) PROVE ProxyInv'
    BY <2>1, <2>4 DEF Proxy!Ask, Proxy!Invoke
  <2>5. ASSUME NEW c \in Handlers, Proxy!StartOk(c) PROVE ProxyInv'
    BY <2>1, <2>5 DEF Proxy!StartOk, Proxy!Finish
  <2>6. ASSUME NEW c \in Handlers, Proxy!StartFail(c) \/ Proxy!StopFail(c) \/ Proxy!Tell(c)
        PROVE  ProxyInv'
    BY <2>1, <2>6 DEF Proxy!StartFail, Proxy!StopFail, Proxy!Tell, Proxy!Finish
  <2>7. ASSUME NEW c \in Handlers, Proxy!StartHalf(c) PROVE ProxyInv'
    BY <2>1, <2>7 DEF Proxy!StartHalf, Proxy!Finish
  <2>8. ASSUME NEW c \in Handlers, Proxy!Down(c) PROVE ProxyInv'
    BY <2>1, <2>8 DEF Proxy!Down
  <2>9. ASSUME NEW c \in Handlers, Proxy!StopOk(c) PROVE ProxyInv'
    BY <2>1, <2>9 DEF Proxy!StopOk, Proxy!Finish
  <2>10. CASE UNCHANGED Proxy!proxyVars
    BY <2>10 DEF Proxy!proxyVars
  <2> QED BY <2>2, <2>3, <2>4, <2>5, <2>6, <2>7, <2>8, <2>9, <2>10 DEF Proxy!Next
<1>3. ProxyInv => Proxy!Sound
  BY DEF ProxyInv
<1> QED BY <1>1, <1>2, <1>3, RestartImplementsProxy, PTL DEF ImplementsProxy, Proxy!Spec
=============================================================================
