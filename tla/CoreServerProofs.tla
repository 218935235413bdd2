-------------------------- MODULE CoreServerProofs --------------------------
(* What survives any number of concurrent requests, unawaited and crossing, *)
(* in the handlers of server.go.                                            *)
EXTENDS CoreServer, TLAPS

(* A handler serves a request, or none: its link and mode are typed. *)
LEMMA RequestFields ==
    ASSUME NEW r \in Requests \cup {NoRequest}
    PROVE  r.link \in Links \cup {Off} /\ r.vpn \in BOOLEAN
<1>1. CASE r \in Requests
  BY <1>1 DEF Requests
<1>2. CASE r = NoRequest
  <2>1. r.link = Off BY <1>2 DEF NoRequest
  <2>2. r.vpn = FALSE BY <1>2 DEF NoRequest
  <2> QED BY <2>1, <2>2
<1> QED BY <1>1, <1>2

(* An answer and an arrival keep the types of what is not shared. *)
LocalOK ==
    /\ pc \in [Handlers -> Pcs]
    /\ req \in [Handlers -> Requests \cup {NoRequest}]
    /\ core \in [Handlers -> Cores]
    /\ reply \in [Handlers -> {"none", "ok", "error", "yes", "no"}]

SharedOK ==
    /\ activeCore \in Cores
    /\ isVpnMode \in BOOLEAN
    /\ running \in [Cores -> Links \cup {Off}]
    /\ tun \in Links \cup {Off}

LEMMA Answered ==
    ASSUME LocalOK, NEW h \in Handlers, NEW r \in {"ok", "error", "yes", "no"}, Answer(h, r)
    PROVE  LocalOK'
BY CoreAssumption DEF LocalOK, Answer, Pcs

LEMMA Moved ==
    ASSUME LocalOK, NEW h \in Handlers, NEW from, NEW to \in Pcs, Goto(h, from, to),
           UNCHANGED <<req, reply>>, core' \in [Handlers -> Cores]
    PROVE  LocalOK'
BY DEF LocalOK, Goto

(* activeCoreName is a registered core's whatever races for it: a name is   *)
(* looked up before it is stored, and a torn read is looked up, not stored. *)
THEOREM TypeCorrect == Spec => []TypeOK
<1> USE DEF Pcs, StartPcs, StopPcs, AskPcs
<1>1. Init => LocalOK /\ SharedOK
  <2> SUFFICES ASSUME Init PROVE LocalOK /\ SharedOK
    OBVIOUS
  <2>1. LocalOK BY CoreAssumption DEF Init, LocalOK
  <2>2. SharedOK BY CoreAssumption DEF Init, SharedOK
  <2> QED BY <2>1, <2>2
<1>2. LocalOK /\ SharedOK /\ [Next]_vars => LocalOK' /\ SharedOK'
  <2> SUFFICES ASSUME LocalOK, SharedOK, [Next]_vars PROVE LocalOK' /\ SharedOK'
    OBVIOUS
  <2> USE DEF shared
  <2>0. \A h \in Handlers :
          /\ req[h].link \in Links \cup {Off} /\ req[h].vpn \in BOOLEAN
          /\ core[h] \in Cores
          /\ core' = core => core' \in [Handlers -> Cores]
    BY RequestFields DEF LocalOK
  <2>1. ASSUME NEW h \in Handlers, StartCore(h) \/ StopCore(h) \/ Ask(h)
        PROVE  LocalOK' /\ SharedOK'
    BY <2>1 DEF StartCore, StopCore, Ask, Arrive, Goto, LocalOK, SharedOK
  <2>2. ASSUME NEW h \in Handlers, StartStep(h) PROVE LocalOK' /\ SharedOK'
    <3>1. CASE UnknownCore(h) \/ CoreStartFails(h)
      BY <3>1, Answered DEF UnknownCore, CoreStartFails, SharedOK
    <3>2. CASE SelectCore(h)
      BY <3>2, Moved DEF SelectCore, LocalOK, SharedOK
    <3>3. CASE SetMode(h)
      BY <3>3, <2>0, Moved DEF SetMode, SharedOK
    <3>4. CASE CoreStartOk(h)
      BY <3>4, <2>0, Moved DEF CoreStartOk, SharedOK
    <3>5. CASE CoreStartHalf(h)
      BY <3>5, <2>0, Answered DEF CoreStartHalf, SharedOK
    <3>6. CASE ReadMode(h)
      BY <3>6, <2>0, Moved, Answered DEF ReadMode, SharedOK
    <3>7. CASE TunIsStarted(h)
      BY <3>7, <2>0, Moved, Answered DEF TunIsStarted, SharedOK
    <3>8. CASE TunStart(h)
      BY <3>8, <2>0, Answered DEF TunStart, SharedOK
    <3> QED BY <2>2, <3>1, <3>2, <3>3, <3>4, <3>5, <3>6, <3>7, <3>8 DEF StartStep
  <2>3. ASSUME NEW h \in Handlers, NEW from, NEW to \in Pcs, GetActiveCore(h, from, to)
        PROVE  LocalOK' /\ SharedOK'
    <3>1. PICK name \in Cores \cup {Unregistered} :
            \/ /\ name \in Cores /\ Goto(h, from, to)
               /\ core' = [core EXCEPT ![h] = name] /\ UNCHANGED <<req, reply>>
            \/ Answer(h, "error")
      BY <2>3 DEF GetActiveCore
    <3>2. LocalOK'
      BY <3>1, Moved, Answered DEF LocalOK
    <3> QED BY <2>3, <3>2 DEF GetActiveCore, SharedOK
  <2>4. ASSUME NEW h \in Handlers, StopStep(h) PROVE LocalOK' /\ SharedOK'
    <3>1. CASE StopGetsCore(h)
      BY <3>1, <2>3 DEF StopGetsCore
    <3>2. CASE StopSeesCore(h)
      BY <3>2, <2>0, Moved, Answered DEF StopSeesCore, SharedOK
    <3>3. CASE CoreStop(h)
      BY <3>3, <2>0, Moved DEF CoreStop, SharedOK
    <3>4. CASE CoreStopFails(h)
      BY <3>4, Answered DEF CoreStopFails, SharedOK
    <3>5. CASE StopSeesTun(h)
      BY <3>5, <2>0, Moved, Answered DEF StopSeesTun, SharedOK
    <3>6. CASE TunStop(h)
      BY <3>6, Answered DEF TunStop, SharedOK
    <3> QED BY <2>4, <3>1, <3>2, <3>3, <3>4, <3>5, <3>6 DEF StopStep
  <2>5. ASSUME NEW h \in Handlers, AskStep(h) PROVE LocalOK' /\ SharedOK'
    <3>1. CASE AskGetsCore(h)
      BY <3>1, <2>3 DEF AskGetsCore
    <3>2. CASE AskCore(h)
      BY <3>2, Answered DEF AskCore, SharedOK
    <3> QED BY <2>5, <3>1, <3>2 DEF AskStep
  <2>6. CASE UNCHANGED vars
    BY <2>6 DEF vars, LocalOK, SharedOK
  <2> QED BY <2>1, <2>2, <2>4, <2>5, <2>6 DEF Next
<1>3. LocalOK /\ SharedOK => TypeOK
  BY DEF LocalOK, SharedOK, TypeOK
<1> QED BY <1>1, <1>2, <1>3, PTL DEF Spec

(* A running engine goes off before another is started, whichever requests  *)
(* race between IsStarted and Start.                                        *)
THEOREM EngineIsNeverReplaced == Spec => TunNeverReplaced
<1>1. [Next]_vars => [tun # Off => tun' \in {tun, Off}]_vars
  <2> SUFFICES ASSUME Next PROVE tun # Off => tun' \in {tun, Off}
    OBVIOUS
  <2> USE DEF shared
  <2>1. ASSUME NEW h \in Handlers, StartCore(h) \/ StopCore(h) \/ Ask(h) PROVE tun' = tun
    BY <2>1 DEF StartCore, StopCore, Ask, Arrive
  <2>2. ASSUME NEW h \in Handlers, StartStep(h) PROVE tun' = tun \/ tun = Off
    BY <2>2 DEF StartStep, UnknownCore, SelectCore, SetMode, CoreStartOk, CoreStartFails,
       CoreStartHalf, ReadMode, TunIsStarted, TunStart
  <2>3. ASSUME NEW h \in Handlers, StopStep(h) PROVE tun' \in {tun, Off}
    BY <2>3 DEF StopStep, StopGetsCore, GetActiveCore, StopSeesCore, CoreStop, CoreStopFails,
       StopSeesTun, TunStop
  <2>4. ASSUME NEW h \in Handlers, AskStep(h) PROVE tun' = tun
    BY <2>4 DEF AskStep, AskGetsCore, GetActiveCore, AskCore
  <2> QED BY <2>1, <2>2, <2>3, <2>4 DEF Next
<1> QED BY <1>1, PTL DEF Spec, TunNeverReplaced
=============================================================================
