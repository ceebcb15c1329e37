------------------------------- MODULE LmicMac -------------------------------
(***************************************************************************)
(* The MAC engine of lmic.c for a class A device (EU868): joining, uplinks *)
(* with their retries, the two receive windows, link check, acknowledge-   *)
(* ments and MAC answers, driven by LMIC.osjob, the radio and an applica-  *)
(* tion like the ttn-otaa and ttn-abp sketches.                            *)
(*                                                                         *)
(* LMIC is the struct of the code, with the state of LMIC.osjob (func and  *)
(* due) and of the radio.  A handler is an operator from the struct before *)
(* to the set of the structs after: more than one where engineUpdate may   *)
(* find that it can or cannot send yet.  Handlers run on one thread, a job *)
(* at a time, and touch the radio last, so a handler is one step.          *)
(*                                                                         *)
(* Time, channels and bands are in LmicChannels.  Class B (scan, beacon,   *)
(* ping slots) is not used by any sketch of the repository and its flags   *)
(* are never set here.                                                     *)
(***************************************************************************)
EXTENDS Integers, FiniteSets, Sequences

CONSTANTS
  Attempts,     (* TXCONF_ATTEMPTS                                         *)
  Adjust,       (* DRADJUST, indexed by txCnt                              *)
  MaxDR,        (* DR_SF7; data rate 0 is DR_SF12                          *)
  LinkInit, LinkCont, LinkDead, LinkOff,    (* LINK_CHECK_...              *)
  MaxRejoin,    (* 10, where rejoinCnt stops                               *)
  SeqMod,       (* 2^16: what a frame carries of its number                *)
  UpLimit, DnLimit,   (* 0xFFFFFFFF and 0xFFFFFF80: reset before roll over *)
  CntMod,       (* 2^8: txCnt is a byte                                    *)
  Downlinks,    (* what may be received in a window                        *)
  Confirmed,    (* the kinds of uplink the application asks for            *)
  LongPayload,  (* its payload leaves no room for MAC answers in the frame *)
  KeepsCheck,   (* FALSE: LMIC_setLinkCheckMode(0) at EV_JOINED            *)
  Prompt,       (* engineUpdate never finds its own armed timer overdue    *)
  Arms,         (* the events at which the application arms its sendjob    *)
  Calls, MaxCalls     (* other calls of the API, and how many of them      *)

ASSUME CountsAssumption ==
  /\ Attempts \in Nat \ {0} /\ MaxDR \in Nat /\ MaxRejoin \in Nat
  /\ SeqMod \in Nat \ {0} /\ UpLimit \in Nat \ {0} /\ DnLimit \in Nat \ {0}
  /\ CntMod \in Nat /\ CntMod > Attempts /\ MaxCalls \in Nat
ASSUME AdjustAssumption == Adjust \in [1..Attempts -> Nat]
ASSUME LinkAssumption ==
  /\ {LinkInit, LinkCont, LinkDead, LinkOff} \subseteq Int
  /\ LinkOff < LinkInit /\ LinkInit < 0 /\ 0 < LinkCont /\ LinkCont <= LinkDead
ASSUME FlagsAssumption ==
  Confirmed \subseteq BOOLEAN /\ {LongPayload, KeepsCheck, Prompt} \subseteq BOOLEAN

VARIABLES
  LMIC,
  sendjob,     (* the job of the application that sends next: idle, timed  *)
  calls,       (* other API calls made                                     *)
  sent,        (* history: the last data uplink, and how often its number  *)
               (* was used, up to one more than a payload may be tried     *)
  silent,      (* history: transactions completed since a downlink         *)
  ackDue       (* history: a confirmed downlink is not acknowledged yet    *)

vars == <<LMIC, sendjob, calls, sent, silent, ackDue>>

Flags == {"JOINING", "TXDATA", "POLL", "REJOIN", "SHUTDOWN", "TXRXPEND", "LINKDEAD"}
Commands == {"LADR", "DEVS", "DCAP"}
DataRates == 0..MaxDR
None == [type |-> "none"]             (* LMIC.dataLen = 0                   *)

(* A downlink: number, whether it asks for an acknowledgement, gives one,  *)
(* announces more, has a port, and the MAC command in it.                  *)
Down(seqno, conf, ack, more, cmd) ==
  [type |-> "data", seqno |-> seqno, conf |-> conf, ack |-> ack, more |-> more,
   port |-> TRUE, cmd |-> cmd]
Accept == [type |-> "accept"]
Bad == [type |-> "bad"]               (* a frame whose MIC is wrong         *)

(* The fields of the downlinks and the calls exist.                        *)
ASSUME DownlinksAssumption ==
  \A f \in Downlinks :
    \/ f \in {None, Bad, Accept}
    \/ /\ f \in [type : {"data"}, seqno : Nat, conf : BOOLEAN, ack : BOOLEAN,
                 more : BOOLEAN, port : BOOLEAN, cmd : {f.cmd}]
       /\ \/ f.cmd \in [name : {"none", "DEVS"}]
          \/ f.cmd \in [name : {"LADR"}, dr : Nat]
          \/ f.cmd \in [name : {"DCAP"}, off : BOOLEAN]
ASSUME CallsAssumption ==
  Calls \subseteq {"LMIC_sendAlive", "LMIC_tryRejoin", "LMIC_clrTxData", "LMIC_shutdown",
                   "LMIC_reset"}

Callbacks == {"none", "startJoining", "runEngineUpdate", "onJoinFailed", "runReset",
              "jreqDone", "setupRx1Jacc", "processRx1Jacc", "setupRx2Jacc",
              "processRx2Jacc", "updataDone", "setupRx1DnData", "processRx1DnData",
              "setupRx2DnData", "processRx2DnData", "processRx2DnDataDelay"}
-----------------------------------------------------------------------------
(* os_ functions on LMIC.osjob, radio and assertions                       *)

Set(m, flags) == [m EXCEPT !.opmode = @ \union flags]
Clear(m, flags) == [m EXCEPT !.opmode = @ \ flags]
Has(m, flags) == m.opmode \intersect flags # {}

os_setCallback(m, f) == [m EXCEPT !.func = f, !.due = "ready"]
os_setTimedCallback(m, f) == [m EXCEPT !.func = f, !.due = "timed"]
os_clearCallback(m) == [m EXCEPT !.due = "idle"]

(* ASSERT: hal_failed loops for ever.                                      *)
Failed(m) == [m EXCEPT !.halted = TRUE]
Assert(m, cond, after) == IF cond THEN after ELSE {Failed(m)}

(* os_radio(RADIO_TX) and os_radio(RADIO_RX) with the callback preset in   *)
(* LMIC.osjob.func, which does not queue the job.                          *)
StartRadio(m, mode, f) ==
  IF m.radio = "SLEEP" THEN [m EXCEPT !.func = f, !.radio = mode]
  ELSE Failed([m EXCEPT !.func = f])
-----------------------------------------------------------------------------
(* Data rates                                                              *)

lowerDR(dr, n) == IF dr > n THEN dr - n ELSE 0
decDR(dr) == lowerDR(dr, 1)
-----------------------------------------------------------------------------
(* Building frames                                                         *)

buildJoinRequest(m, type) == [m EXCEPT !.frame = [type |-> type]]

(* Mutant: a poll goes before the data of the application.                 *)
buildDataFramePollFirst(m) ==
  LET txdata == "POLL" \notin m.opmode
      number == IF m.txCnt = 0 THEN m.seqnoUp + 1 ELSE m.seqnoUp
  IN  [m EXCEPT
        !.answers = {}, !.adrChanged = FALSE, !.seqnoUp = number, !.dnConf = FALSE,
        !.txCnt = IF txdata /\ m.pendTxConf /\ @ = 0 THEN 1 ELSE @,
        !.frame = [type |-> "up", seqno |-> number - 1, ack |-> m.dnConf,
                   answers |-> m.answers, adrackreq |-> m.adrAckReq >= 0,
                   conf |-> txdata /\ m.pendTxConf,
                   data |-> IF txdata THEN m.pendTx ELSE "empty"]]

(* Mutant: the acknowledgement goes with frames that have no data only.    *)
buildDataFrameAckAlone(m) ==
  LET txdata == "TXDATA" \in m.opmode \/ "POLL" \notin m.opmode
      number == IF m.txCnt = 0 THEN m.seqnoUp + 1 ELSE m.seqnoUp
  IN  [m EXCEPT
        !.answers = {}, !.adrChanged = FALSE, !.seqnoUp = number, !.dnConf = FALSE,
        !.txCnt = IF txdata /\ m.pendTxConf /\ @ = 0 THEN 1 ELSE @,
        !.frame = [type |-> "up", seqno |-> number - 1, ack |-> m.dnConf /\ ~txdata,
                   answers |-> m.answers, adrackreq |-> m.adrAckReq >= 0,
                   conf |-> txdata /\ m.pendTxConf,
                   data |-> IF txdata THEN m.pendTx ELSE "empty"]]

(* A MAC answer, the ACK bit and ADRACKREQ ride on the frame once.         *)
buildDataFrame(m) ==
  LET txdata == /\ "TXDATA" \in m.opmode \/ "POLL" \notin m.opmode
                /\ LongPayload => m.answers = {}
      check == IF m.adrChanged /\ m.adrAckReq < 0 THEN 0 ELSE m.adrAckReq
      number == IF m.txCnt = 0 THEN m.seqnoUp + 1 ELSE m.seqnoUp
  IN  [m EXCEPT
        !.answers = {}, !.adrChanged = FALSE, !.adrAckReq = check,
        !.seqnoUp = number, !.dnConf = FALSE,
        !.txCnt = IF txdata /\ m.pendTxConf /\ @ = 0 THEN 1 ELSE @,
        !.frame = [type |-> "up", seqno |-> number - 1, ack |-> m.dnConf,
                   answers |-> m.answers, adrackreq |-> check >= 0,
                   conf |-> txdata /\ m.pendTxConf,
                   data |-> IF txdata THEN m.pendTx ELSE "empty"]]
-----------------------------------------------------------------------------
(* The engine                                                              *)

stateJustJoined(m) ==
  [m EXCEPT !.seqnoDn = 0, !.seqnoUp = 0, !.rejoinCnt = 0, !.dnConf = FALSE,
            !.adrChanged = FALSE, !.answers = {}, !.adrAckReq = LinkInit]

LMIC_startJoining(m) ==
  IF m.devaddr THEN m
  ELSE IF Has(m, {"POLL", "TXRXPEND"}) THEN Failed(m)
  ELSE os_setCallback(
         [Set(Clear(m, {"REJOIN", "LINKDEAD"}), {"JOINING"})
            EXCEPT !.rejoinCnt = 0, !.txCnt = 0, !.datarate = MaxDR],
         "startJoining")

(* The branch of engineUpdate that may send right now.                     *)
transmit(m) ==
  LET pending(x) == Set(Clear(x, {"POLL"}), {"TXRXPEND"})
  IN  IF Has(m, {"JOINING", "REJOIN"})
      THEN StartRadio(pending(buildJoinRequest(m,
                        IF "REJOIN" \in m.opmode THEN "rejoin" ELSE "join")),
                      "TX", "jreqDone")
      ELSE IF m.seqnoDn >= DnLimit \/ (m.txCnt = 0 /\ m.seqnoUp = UpLimit)
      THEN os_setCallback(m, "runReset")
      ELSE StartRadio(pending(buildDataFrame(m)), "TX", "updataDone")

(* Mutant: OP_TXRXPEND is not looked at.                                   *)
engineUpdateEager(m) ==
  IF m.halted \/ Has(m, {"SHUTDOWN"}) THEN {m}
  ELSE IF ~m.devaddr /\ "JOINING" \notin m.opmode THEN {LMIC_startJoining(m)}
  ELSE IF ~Has(m, {"JOINING", "REJOIN", "TXDATA", "POLL"}) THEN {m}
  ELSE {os_setTimedCallback(m, "runEngineUpdate")} \union
       (IF Prompt /\ m.due # "idle" THEN {} ELSE {transmit(m)})

(* Whether the channel is free now is decided in LmicChannels: here either *)
(* may be.  A timer armed before and not yet due means that it is not.     *)
engineUpdate(m) ==
  IF m.halted \/ Has(m, {"TXRXPEND", "SHUTDOWN"}) THEN {m}
  ELSE IF ~m.devaddr /\ "JOINING" \notin m.opmode THEN {LMIC_startJoining(m)}
  ELSE IF ~Has(m, {"JOINING", "REJOIN", "TXDATA", "POLL"}) THEN {m}
  ELSE {os_setTimedCallback(m, "runEngineUpdate")} \union
       (IF Prompt /\ m.due # "idle" THEN {} ELSE {transmit(m)})

(* The application in onEvent (the sendjob it arms is in RunOsjob).        *)
onEvent(m, ev) ==
  IF ev = "EV_JOINED" /\ ~KeepsCheck
  THEN [m EXCEPT !.adrChanged = FALSE, !.adrAckReq = LinkOff]
  ELSE m

(* The log of the step remembers what the application is shown.            *)
reportEvent(m, ev) ==
  IF m.halted THEN {m}
  ELSE engineUpdate([onEvent(m, ev) EXCEPT
         !.events = Append(@, [ev |-> ev, flags |-> m.txrxFlags])])
-----------------------------------------------------------------------------
(* Receive windows                                                         *)

(* schedRx12: os_setTimedCallback(&LMIC.osjob, ...).                       *)
schedRx12(m, f) == os_setTimedCallback(m, f)
txDone(m, f) == schedRx12(m, f)

setupRx1(m, f) ==
  StartRadio([m EXCEPT !.txrxFlags = {"DNW1"}, !.frame = None], "RX", f)
setupRx2(m, f) ==
  StartRadio([m EXCEPT !.txrxFlags = {"DNW2"}, !.frame = None], "RX", f)

InWindow(m) == Has(m, {"TXRXPEND"})
-----------------------------------------------------------------------------
(* Joining                                                                 *)

(* Two tries per data rate, the lowest one for ever.                       *)
nextJoinState(m) ==
  LET cnt == (m.txCnt + 1) % CntMod
  IN  [m EXCEPT !.txCnt = cnt,
                !.datarate = IF cnt % 2 = 0 THEN decDR(@) ELSE @]
JoinRoundFailed(m) == ((m.txCnt + 1) % CntMod) % 2 = 0 /\ m.datarate = 0

(* Mutant: OP_TXRXPEND survives a rejoin without an answer.                *)
NoJoinFrameKeeps(m) ==
  IF "JOINING" \notin m.opmode
  THEN Assert(m, "REJOIN" \in m.opmode,
         reportEvent([Clear(m, {"REJOIN"}) EXCEPT
                        !.rejoinCnt = IF @ < MaxRejoin THEN @ + 1 ELSE @],
                     "EV_REJOIN_FAILED"))
  ELSE {os_setTimedCallback(nextJoinState(Clear(m, {"TXRXPEND"})),
          IF JoinRoundFailed(m) THEN "onJoinFailed" ELSE "runEngineUpdate")}

NoJoinFrame(m) ==
  IF "JOINING" \notin m.opmode
  THEN Assert(m, "REJOIN" \in m.opmode,
         reportEvent([Clear(m, {"REJOIN", "TXRXPEND"}) EXCEPT
                        !.rejoinCnt = IF @ < MaxRejoin THEN @ + 1 ELSE @],
                     "EV_REJOIN_FAILED"))
  ELSE {os_setTimedCallback(nextJoinState(Clear(m, {"TXRXPEND"})),
          IF JoinRoundFailed(m) THEN "onJoinFailed" ELSE "runEngineUpdate")}

Joined(m) ==
  LET rate == IF "REJOIN" \in m.opmode THEN lowerDR(m.datarate, m.rejoinCnt) ELSE m.datarate
      in == [m EXCEPT !.devaddr = TRUE, !.datarate = rate, !.txCnt = 0]
  IN  Assert(m, Has(m, {"JOINING", "REJOIN"}),
        reportEvent(stateJustJoined(Clear(in, {"JOINING", "REJOIN", "TXRXPEND"})),
                    "EV_JOINED"))

(* A frame that is no join accept closes the second window; after the      *)
(* first one (return 0) processRx1Jacc opens the second.                   *)
processJoinAccept(m) ==
  Assert(m, InWindow(m) /\ (m.txrxFlags # {"DNW1"} \/ m.frame # None),
    IF m.frame = Accept THEN Joined(m)
    ELSE IF m.frame # None /\ "DNW1" \in m.txrxFlags
    THEN {schedRx12(m, "setupRx2Jacc")}
    ELSE NoJoinFrame(m))

processRx1Jacc(m) ==
  IF m.frame = None THEN {schedRx12(m, "setupRx2Jacc")} ELSE processJoinAccept(m)
processRx2Jacc(m) ==
  processJoinAccept([m EXCEPT !.txrxFlags = IF m.frame = None THEN {} ELSE @])
-----------------------------------------------------------------------------
(* Downlinks                                                               *)

(* The number is completed from the expected one, and the MIC, computed by *)
(* the network with the whole number, tells whether that was right.        *)
Number(m, f) == m.seqnoDn + (((f.seqno % SeqMod) - m.seqnoDn) % SeqMod)
Replay(m, f) == Number(m, f) < m.seqnoDn
Decodes(m) ==
  /\ m.frame.type = "data"
  /\ Number(m, m.frame) = m.frame.seqno
  /\ Replay(m, m.frame) =>
       Number(m, m.frame) = m.seqnoDn - 1 /\ m.dnConf /\ m.frame.conf

(* The MAC commands of the downlink.                                       *)
Options(m, cmd) ==
  CASE cmd.name = "LADR" ->
         [m EXCEPT !.answers = @ \union {"LADR"}, !.adrChanged = TRUE,
                   !.datarate = IF cmd.dr \in DataRates THEN cmd.dr ELSE @]
    [] cmd.name = "DCAP" ->
         [IF cmd.off THEN Set(m, {"SHUTDOWN"}) ELSE m
            EXCEPT !.answers = @ \union {"DCAP"}]
    [] cmd.name = "DEVS" -> [m EXCEPT !.answers = @ \union {"DEVS"}]
    [] OTHER -> m

(* The counters: a replay owes the acknowledgement again and moves nothing.*)
Counted(m, f) ==
  LET new == ~Replay(m, f)
      heard == [m EXCEPT
                  !.seqnoDn = IF new THEN f.seqno + 1 ELSE @,
                  !.dnConf = IF new THEN f.conf ELSE @,
                  !.adrChanged = FALSE, !.rejoinCnt = 0,
                  !.adrAckReq = IF @ # LinkOff THEN LinkInit ELSE @]
  IN  IF heard.dnConf \/ f.more THEN Set(heard, {"POLL"}) ELSE heard

decodeFrame(m) ==
  LET f == m.frame
  IN  [Options(Counted(m, f), f.cmd) EXCEPT
         !.txrxFlags = @ \union {IF f.port THEN "PORT" ELSE "NOPORT"} \union
           (IF m.txCnt = 0 THEN {} ELSE IF f.ack THEN {"ACK"} ELSE {"NACK"}),
         !.frame = IF f.port THEN f ELSE None]

LinkAlive(m) ==
  IF m.txrxFlags \intersect {"DNW1", "DNW2"} # {} /\ "LINKDEAD" \in m.opmode
  THEN reportEvent(Clear(m, {"LINKDEAD"}), "EV_LINK_ALIVE")
  ELSE {m}

(* Mutant: the verdict one transaction early.                              *)
LinkLostEarly(m) ==
  IF m.adrAckReq >= LinkDead /\ ~m.halted
  THEN reportEvent(Set([m EXCEPT !.datarate = decDR(@), !.adrAckReq = LinkCont],
                       {"REJOIN", "LINKDEAD"}), "EV_LINK_DEAD")
  ELSE {m}

LinkLost(m) ==
  IF m.adrAckReq > LinkDead /\ ~m.halted
  THEN reportEvent(Set([m EXCEPT !.datarate = decDR(@), !.adrAckReq = LinkCont],
                       {"REJOIN", "LINKDEAD"}), "EV_LINK_DEAD")
  ELSE {m}

TxComplete(m) ==
  LET alive == LinkAlive(Clear(m, {"TXDATA", "TXRXPEND"}))
      reported == UNION {reportEvent(x, "EV_TXCOMPLETE") : x \in alive}
  IN  UNION {LinkLost(x) : x \in reported}

(* Nothing received: try a confirmed frame again, at a lower data rate.    *)
NoRx(m) ==
  IF m.txCnt \in 1..(Attempts - 1)
  THEN engineUpdate([Clear(m, {"TXRXPEND"}) EXCEPT
         !.txCnt = @ + 1, !.frame = None,
         !.datarate = lowerDR(@, Adjust[m.txCnt + 1])])
  ELSE TxComplete([m EXCEPT
         !.txrxFlags = IF m.txCnt # 0 THEN {"NACK", "NOPORT"} ELSE {"NOPORT"},
         !.adrAckReq = IF @ # LinkOff THEN @ + 1 ELSE @,
         !.frame = None])

processDnData(m) ==
  Assert(m, InWindow(m),
    IF m.frame # None /\ Decodes(m) THEN TxComplete(decodeFrame(m))
    ELSE IF m.frame # None /\ "DNW1" \in m.txrxFlags
    THEN {schedRx12([m EXCEPT !.frame = None], "setupRx2DnData")}
    ELSE NoRx(m))

processRx1DnData(m) ==
  IF m.frame = None THEN {schedRx12(m, "setupRx2DnData")} ELSE processDnData(m)
processRx2DnData(m) ==
  IF m.frame = None
  THEN {os_setTimedCallback([m EXCEPT !.txrxFlags = {}], "processRx2DnDataDelay")}
  ELSE processDnData(m)
-----------------------------------------------------------------------------
(* Reset, session, and the other calls of the API                          *)

LMIC_reset(m) ==
  [opmode |-> {}, devaddr |-> FALSE, txCnt |-> 0, datarate |-> 0,
   seqnoUp |-> 0, seqnoDn |-> 0, dnConf |-> FALSE, adrAckReq |-> 0,
   adrChanged |-> FALSE, rejoinCnt |-> 0, answers |-> {}, pendTxConf |-> FALSE,
   pendTx |-> m.pendTx, txrxFlags |-> {}, frame |-> None, func |-> "none",
   due |-> "idle", radio |-> "SLEEP", halted |-> m.halted, events |-> m.events]

LMIC_setSession(m) ==
  stateJustJoined([Clear(m, {"JOINING", "REJOIN", "TXRXPEND"}) EXCEPT !.devaddr = TRUE])

runReset(m) == reportEvent(LMIC_startJoining(LMIC_reset(m)), "EV_RESET")

Other(p) == IF p = "a" THEN "b" ELSE "a"

(* Mutant: the count of tries of the payload before goes on.               *)
LMIC_setTxData2Keeps(m, conf) ==
  engineUpdate([Set(m, {"TXDATA"}) EXCEPT !.pendTxConf = conf, !.pendTx = Other(@)])

LMIC_setTxData2(m, conf) ==
  engineUpdate([Set(m, {"TXDATA"}) EXCEPT
    !.pendTxConf = conf, !.pendTx = Other(@),
    !.txCnt = IF "JOINING" \in m.opmode THEN @ ELSE 0])

LMIC_clrTxData(m) ==
  LET cleared == Clear(m, {"TXDATA", "TXRXPEND", "POLL"})
  IN  IF "JOINING" \in m.opmode THEN {cleared}
      ELSE engineUpdate([os_clearCallback(cleared) EXCEPT !.radio = "SLEEP"])

LMIC_shutdown(m) == [Set(os_clearCallback(m), {"SHUTDOWN"}) EXCEPT !.radio = "SLEEP"]

Call(m, name) ==
  CASE name = "LMIC_sendAlive" -> engineUpdate(Set(m, {"POLL"}))
    [] name = "LMIC_tryRejoin" -> engineUpdate(Set(m, {"REJOIN"}))
    [] name = "LMIC_clrTxData" -> LMIC_clrTxData(m)
    [] name = "LMIC_shutdown"  -> {LMIC_shutdown(m)}
    [] name = "LMIC_reset"     -> {LMIC_reset(m)}
-----------------------------------------------------------------------------
(* The callbacks of LMIC.osjob                                             *)

Callback(m) ==
  CASE m.func = "startJoining"    -> reportEvent(m, "EV_JOINING")
    [] m.func = "runEngineUpdate" -> engineUpdate(m)
    [] m.func = "onJoinFailed"    -> reportEvent(m, "EV_JOIN_FAILED")
    [] m.func = "runReset"        -> runReset(m)
    [] m.func = "jreqDone"        -> {txDone(m, "setupRx1Jacc")}
    [] m.func = "setupRx1Jacc"    -> {setupRx1(m, "processRx1Jacc")}
    [] m.func = "processRx1Jacc"  -> processRx1Jacc(m)
    [] m.func = "setupRx2Jacc"    -> {setupRx2(m, "processRx2Jacc")}
    [] m.func = "processRx2Jacc"  -> processRx2Jacc(m)
    [] m.func = "updataDone"      -> {txDone(m, "setupRx1DnData")}
    [] m.func = "setupRx1DnData"  -> {setupRx1(m, "processRx1DnData")}
    [] m.func = "processRx1DnData" -> processRx1DnData(m)
    [] m.func = "setupRx2DnData"  -> {setupRx2(m, "processRx2DnData")}
    [] m.func = "processRx2DnData" -> processRx2DnData(m)
    [] m.func = "processRx2DnDataDelay" -> processDnData(m)
-----------------------------------------------------------------------------
(* What the histories and the application see of a step to the struct n.   *)

Shown(n, ev) == \E i \in 1..Len(n.events) : n.events[i].ev = ev
NewSession(n) == ~n.devaddr \/ Shown(n, "EV_JOINED")
Starts(n) == LMIC.radio # "TX" /\ n.radio = "TX" /\ n.frame.type = "up"
NoUplink == [seqno |-> -1, data |-> "empty", conf |-> FALSE, tries |-> 0]

Sent(n) ==
  LET before == IF NewSession(n) THEN NoUplink ELSE sent
  IN  IF ~Starts(n) THEN before
      ELSE [seqno |-> n.frame.seqno, data |-> n.frame.data, conf |-> n.frame.conf,
            tries |-> IF n.frame.seqno # before.seqno THEN 1
                  ELSE IF before.tries <= Attempts THEN before.tries + 1 ELSE before.tries]

MaxSilent == LinkDead - LinkInit + 1     (* counting on shows nothing new  *)
Silent(n) ==
  IF NewSession(n) \/ ~Shown(n, "EV_TXCOMPLETE")
  THEN IF NewSession(n) THEN 0 ELSE silent
  ELSE IF \E i \in 1..Len(n.events) : /\ n.events[i].ev = "EV_TXCOMPLETE"
                                      /\ n.events[i].flags \intersect {"DNW1", "DNW2"} # {}
  THEN 0
  ELSE IF silent < MaxSilent THEN silent + 1 ELSE silent

(* A downlink accepted in the step that was not accepted before.           *)
Owed(n) ==
  ackDue \/ (n.seqnoDn > LMIC.seqnoDn /\ LMIC.frame.type = "data" /\ LMIC.frame.conf)
AckDue(n) == ~NewSession(n) /\ Owed(n) /\ ~(Starts(n) /\ n.frame.ack)

Observe ==
  /\ sent' = Sent(LMIC')
  /\ silent' = Silent(LMIC')
  /\ ackDue' = AckDue(LMIC')

(* The struct as a handler finds it.                                       *)
Entry == [LMIC EXCEPT !.events = <<>>]
-----------------------------------------------------------------------------
(* os_runloop_once takes LMIC.osjob, queued or due.                        *)
RunOsjob ==
  /\ LMIC.due # "idle" /\ ~LMIC.halted
  /\ LMIC' \in Callback(os_clearCallback(Entry))
  /\ sendjob' = IF \E ev \in Arms : Shown(LMIC', ev) THEN "timed" ELSE sendjob
  /\ Observe
  /\ UNCHANGED calls

(* radio_irq_handler: the radio sleeps, the job is queued.                 *)
Interrupt(frame) ==
  /\ ~LMIC.halted
  /\ LMIC' = os_setCallback([Entry EXCEPT !.radio = "SLEEP", !.frame = frame], LMIC.func)
  /\ Observe
  /\ UNCHANGED <<sendjob, calls>>

(* Nobody reads the frame once it is sent.                                 *)
TxEnds == LMIC.radio = "TX" /\ Interrupt(None)
WindowEnds(frame) == LMIC.radio = "RX" /\ Interrupt(frame)

(* do_send: queued jobs go first; it leaves a transaction alone and is     *)
(* armed again at its end.                                                 *)
do_send ==
  /\ sendjob = "timed" /\ LMIC.due # "ready" /\ ~LMIC.halted
  /\ sendjob' = "idle"
  /\ IF "TXRXPEND" \in LMIC.opmode THEN LMIC' = Entry
     ELSE \E conf \in Confirmed : LMIC' \in LMIC_setTxData2(Entry, conf)
  /\ Observe
  /\ UNCHANGED calls

(* Any other call, made in a session, by an application that goes on       *)
(* sending.                                                                *)
OtherCall(name) ==
  /\ calls < MaxCalls /\ LMIC.due # "ready" /\ ~LMIC.halted /\ LMIC.devaddr
  /\ calls' = calls + 1
  /\ sendjob' = "timed"
  /\ LMIC' \in Call(Entry, name)
  /\ Observe

Init ==
  /\ LMIC \in LET blank == LMIC_reset([pendTx |-> "a", halted |-> FALSE, events |-> <<>>])
              IN  {blank, LMIC_setSession(blank)}
  /\ sendjob = "timed" /\ calls = 0 /\ sent = NoUplink /\ silent = 0
  /\ ackDue = FALSE

Next ==
  \/ RunOsjob \/ TxEnds \/ do_send
  \/ \E f \in Downlinks : WindowEnds(f)
  \/ \E name \in Calls : OtherCall(name)

Spec == Init /\ [][Next]_vars
-----------------------------------------------------------------------------
(* Fairness: jobs are run, radio operations end, the duty cycle lets the   *)
(* node send again and again, and of the join requests sent again and      *)
(* again one is answered.                                                  *)
JoinAnswered ==
  LMIC.func \in {"processRx1Jacc", "processRx2Jacc"} /\ WindowEnds(Accept)

FairSpec ==
  /\ Spec
  /\ WF_vars(RunOsjob) /\ WF_vars(TxEnds) /\ WF_vars(do_send)
  /\ WF_vars(\E f \in Downlinks : WindowEnds(f))
  /\ SF_vars(RunOsjob /\ LMIC'.radio = "TX")
  /\ SF_vars(JoinAnswered)
-----------------------------------------------------------------------------
(* The struct holds what its fields can hold: the flags are flags of the   *)
(* engine, the data rate is one of the table, the counters stay in their   *)
(* ranges and LMIC.osjob has a callback whenever it is queued or armed.    *)
TypeOK ==
  /\ LMIC.opmode \subseteq Flags /\ LMIC.answers \subseteq Commands
  /\ LMIC.datarate \in DataRates /\ LMIC.txCnt \in 0..(CntMod - 1)
  /\ LMIC.seqnoUp \in 0..UpLimit /\ LMIC.seqnoDn \in 0..(DnLimit - 1 + SeqMod)
  /\ LMIC.adrAckReq \in {LinkOff} \union (LinkInit..(LinkDead + 1))
  /\ LMIC.rejoinCnt \in 0..MaxRejoin
  /\ LMIC.radio \in {"SLEEP", "TX", "RX"} /\ LMIC.due \in {"idle", "timed", "ready"}
  /\ LMIC.func \in Callbacks /\ (LMIC.due # "idle" => LMIC.func # "none")

(* No ASSERT of lmic.c or radio.c fails: the radio is asleep whenever the  *)
(* engine starts it, a window closes only in a transaction, a join accept  *)
(* comes only to a node that asked (lmic.c:1419, 1835, 1875, radio.c:523). *)
NoAssertFailure == ~LMIC.halted

(* A number is used for one payload: a frame that carries the number of    *)
(* the frame before is the same confirmed payload again, at most           *)
(* TXCONF_ATTEMPTS times, or a poll without payload, after which no payload*)
(* follows under that number: a poll behind a confirmed payload does not   *)
(* raise the number, for txCnt is left from it (lmic.c:1684-1685).  Every  *)
(* other frame has a higher number.                                        *)
NumbersNotReused ==
  [][sent' # sent /\ sent' # NoUplink =>
       \/ sent'.tries = 1 /\ (sent'.seqno > sent.seqno \/ NewSession(LMIC'))
       \/ /\ sent'.seqno = sent.seqno /\ sent'.tries > 1
          /\ \/ /\ sent'.conf /\ sent.conf /\ sent'.data = sent.data
                /\ sent'.tries <= Attempts
             \/ ~sent'.conf /\ sent'.data = "empty" /\ (sent.conf \/ sent.tries > 1)]_vars

(* Every frame that is not the same confirmed payload again has a number of*)
(* its own: not so, with a poll behind a confirmed payload.                *)
NumbersRaised ==
  [][sent' # sent /\ sent' # NoUplink =>
       sent'.tries = 1 \/ (sent'.conf /\ sent.conf /\ sent'.data = sent.data)]_vars

(* When a transaction completes, the payload the application had given was *)
(* in the last frame sent: a payload is not dropped by the end of somebody *)
(* else's transaction (lmic.c:1898 clears OP_TXDATA whatever was sent).    *)
PayloadSent ==
  [][Shown(LMIC', "EV_TXCOMPLETE") /\ "TXDATA" \in LMIC.opmode
       => sent.data = LMIC.pendTx]_vars

(* The link is reported dead only when more than LINK_CHECK_DEAD transac-  *)
(* tions in a row brought nothing, and is known to be dead at the latest   *)
(* LINK_CHECK_DEAD - LINK_CHECK_INIT transactions after the last downlink, *)
(* ADR commands, retries and rejoin attempts in between or not.            *)
LinkVerdict ==
  /\ Shown(LMIC, "EV_LINK_DEAD") => silent > LinkDead
  /\ silent = MaxSilent /\ KeepsCheck => "LINKDEAD" \in LMIC.opmode

(* A confirmed downlink is acknowledged by the next data frame of the      *)
(* session, and there is one: the node polls when the application has      *)
(* nothing to send.                                                        *)
AckSent ==
  /\ [][Starts(LMIC') /\ Owed(LMIC') /\ ~NewSession(LMIC') => LMIC'.frame.ack]_vars
  /\ ackDue ~> (~ackDue \/ "SHUTDOWN" \in LMIC.opmode)

(* The node goes on sending the application's data, whatever is lost,      *)
(* through joins, dead links, rejoins and resets, unless it is switched    *)
(* off or a poll behind a confirmed payload ended without a word: with the *)
(* count of tries left from the payload its silence is taken for a try, but*)
(* neither OP_TXDATA nor OP_POLL is set any more to send it again, and     *)
(* EV_TXCOMPLETE, for which the application waits, never comes             *)
(* (lmic.c:1878-1887).                                                     *)
PollLost ==
  /\ sent.data = "empty" /\ sent.tries > 1 /\ LMIC.txCnt > 1
  /\ LMIC.opmode \intersect {"TXDATA", "POLL", "TXRXPEND"} = {}
  /\ LMIC.due = "idle" /\ sendjob = "idle"
KeepsSending ==
  \/ []<>((LMIC.radio = "TX" /\ LMIC.frame.type = "up" /\ LMIC.frame.data # "empty")
           \/ "SHUTDOWN" \in LMIC.opmode)
  \/ <>[]PollLost

(* An acknowledgement or its lack is reported of a confirmed frame only:   *)
(* of the last one sent before the report (lmic.h:131-132).                *)
VerdictOnConfirmed ==
  [][\A i \in 1..Len(LMIC'.events) :
       LMIC'.events[i].ev = "EV_TXCOMPLETE" /\ LMIC'.events[i].flags \intersect {"ACK", "NACK"} # {}
         => sent.conf]_vars

(* With link check disabled no frame asks the network for a sign (comment  *)
(* of LMIC_setLinkCheckMode, lmic.c:2328-2329).                            *)
CheckStaysOff ==
  LMIC.radio = "TX" /\ LMIC.frame.type = "up" /\ ~KeepsCheck => ~LMIC.frame.adrackreq
=============================================================================
