---------------------------- MODULE LmicMacProofs ----------------------------
(* Proofs about LmicMac: no assertion fails, for any counts and downlinks. *)
EXTENDS LmicMac, TLAPS

WindowFlags == {"DNW1", "DNW2", "PORT", "NOPORT", "ACK", "NACK"}

(* What LMIC.frame holds: sent or received.                                *)
FrameSet ==
  Downlinks \union {None} \union [type : {"join", "rejoin"}] \union
  [type : {"up"}, seqno : Int, ack : BOOLEAN, answers : SUBSET Commands,
   adrackreq : BOOLEAN, conf : BOOLEAN, data : {"a", "b", "empty"}]

Tries == 0..(CntMod - 1)
UpNumbers == 0..UpLimit
DnNumbers == 0..(DnLimit - 1 + SeqMod)
CheckCounts == {LinkOff} \union (LinkInit..(LinkDead + 1))
RejoinCounts == 0..MaxRejoin
Events == {"EV_JOINING", "EV_JOIN_FAILED", "EV_JOINED", "EV_REJOIN_FAILED", "EV_RESET",
           "EV_TXCOMPLETE", "EV_LINK_ALIVE", "EV_LINK_DEAD"}
Log == Seq([ev : Events, flags : SUBSET WindowFlags])

Struct ==
  [opmode : SUBSET Flags, devaddr : BOOLEAN, txCnt : Tries, datarate : DataRates,
   seqnoUp : UpNumbers, seqnoDn : DnNumbers, dnConf : BOOLEAN, adrAckReq : CheckCounts,
   adrChanged : BOOLEAN, rejoinCnt : RejoinCounts, answers : SUBSET Commands,
   pendTxConf : BOOLEAN, pendTx : {"a", "b"}, txrxFlags : SUBSET WindowFlags,
   frame : FrameSet, func : Callbacks, due : {"idle", "timed", "ready"},
   radio : {"SLEEP", "TX", "RX"}, halted : BOOLEAN, events : Log]

EngineFuncs == {"startJoining", "runEngineUpdate", "onJoinFailed", "runReset"}
SentFuncs == {"jreqDone", "updataDone"}
OpenFuncs == {"setupRx1Jacc", "setupRx2Jacc", "setupRx1DnData", "setupRx2DnData",
              "processRx2DnDataDelay"}
HeardFuncs == {"processRx1Jacc", "processRx2Jacc", "processRx1DnData", "processRx2DnData"}
JoinFuncs == {"jreqDone", "setupRx1Jacc", "processRx1Jacc", "setupRx2Jacc", "processRx2Jacc"}
DataFuncs == {"updataDone", "setupRx1DnData", "processRx1DnData", "setupRx2DnData",
              "processRx2DnData", "processRx2DnDataDelay"}

(* No transaction: the radio sleeps and the job belongs to the engine.     *)
Asleep(m) ==
  /\ "TXRXPEND" \notin m.opmode /\ m.radio = "SLEEP"
  /\ m.due # "idle" => m.func \in EngineFuncs

(* The stages of a transaction: on air, sent, between the windows, in a    *)
(* window, after it, and cut by LMIC_shutdown.                             *)
Stage(m) ==
  \/ m.radio = "TX" /\ m.due = "idle" /\ m.func \in SentFuncs
  \/ m.radio = "RX" /\ m.due = "idle" /\ m.func \in HeardFuncs
  \/ m.radio = "SLEEP" /\ m.due = "ready" /\ m.func \in SentFuncs \union HeardFuncs
  \/ m.radio = "SLEEP" /\ m.due = "timed" /\ m.func \in OpenFuncs
  \/ m.radio = "SLEEP" /\ m.due = "idle" /\ "SHUTDOWN" \in m.opmode

(* What a transaction is for, and what its callbacks rely on.              *)
Purpose(m) ==
  /\ m.func \in JoinFuncs => Has(m, {"JOINING", "REJOIN"})
  /\ m.func \in DataFuncs => m.devaddr /\ m.seqnoDn < DnLimit
  /\ m.func \in {"processRx1Jacc", "processRx1DnData"} => m.txrxFlags = {"DNW1"}
  /\ m.func \in {"processRx2Jacc", "processRx2DnData"} => m.txrxFlags = {"DNW2"}
  /\ m.func = "processRx2DnDataDelay" => m.frame = None

Busy(m) == "TXRXPEND" \in m.opmode /\ Stage(m) /\ Purpose(m)

(* A node that joins has no session; one without a session has nothing but *)
(* data to send and is in a transaction only to join.                      *)
Session(m) ==
  /\ m.devaddr => "JOINING" \notin m.opmode
  /\ ~m.devaddr => "POLL" \notin m.opmode
  /\ ~m.devaddr /\ "JOINING" \notin m.opmode => "TXRXPEND" \notin m.opmode

Good(m) == m \in Struct /\ ~m.halted /\ Session(m) /\ (Asleep(m) \/ Busy(m))

IInv == Good(LMIC) /\ LMIC.adrAckReq # LinkDead + 1

(* The count of the link check goes along with the silent transactions.    *)
Agrees(m, s) ==
  /\ s \in 0..MaxSilent
  /\ m.adrAckReq <= s \/ s > LinkDead
  /\ ~m.devaddr => s = 0
  /\ KeepsCheck => /\ m.adrAckReq # LinkOff
                  /\ ("LINKDEAD" \in m.opmode \/ m.adrAckReq >= LinkInit + s)
  /\ Shown(m, "EV_LINK_DEAD") => s > LinkDead

VerdictInv == Agrees(LMIC, silent)

(* A count that waits for the network's sign before it goes on.            *)
Raised(a, b) == b = a \/ (b = 0 /\ a < 0)

(* What the engine leaves alone when it sends, waits or starts to join.    *)
Effect(m, n) ==
  /\ n.devaddr = m.devaddr /\ n.events = m.events /\ n.txrxFlags = m.txrxFlags
  /\ Raised(m.adrAckReq, n.adrAckReq)
  /\ m.devaddr => ("LINKDEAD" \in n.opmode <=> "LINKDEAD" \in m.opmode)

(* An uplink is in the air or its windows are awaited.                     *)
Underway(m) == "TXRXPEND" \in m.opmode /\ m.func \in DataFuncs

(* The history of the uplinks next to the struct: what was sent last has   *)
(* a number below the next one; confirmed data with a try counted is what  *)
(* was sent last; a count of tries left from it is left from the number    *)
(* sent last; and an uplink under way carries the payload given.           *)
SentSet == [seqno : Int, data : {"a", "b", "empty"}, conf : BOOLEAN, tries : Nat]

Repeats(m, s) ==
  m.devaddr /\ "TXDATA" \in m.opmode /\ m.txCnt # 0 =>
    /\ m.pendTxConf /\ m.answers = {} /\ m.txCnt <= Attempts
    /\ s.conf /\ s.data = m.pendTx /\ s.seqno = m.seqnoUp - 1
    /\ s.tries >= 1 /\ s.tries = IF Underway(m) THEN m.txCnt ELSE m.txCnt - 1

Tied(m, s) ==
  m.devaddr /\ m.txCnt # 0 =>
    s.seqno = m.seqnoUp - 1 /\ s.tries >= 1 /\ (s.conf \/ s.tries > 1)

Numbered(m, s) ==
  /\ s \in SentSet /\ s.seqno < m.seqnoUp /\ (~m.devaddr => s = NoUplink)
  /\ Repeats(m, s) /\ Tied(m, s)
  /\ ~LongPayload /\ Underway(m) /\ "TXDATA" \in m.opmode => s.data = m.pendTx

(* An acknowledgement is owed as long as dnConf says so, which the next    *)
(* data frame carries.                                                     *)
Owes(m, d) == (d => m.dnConf) /\ (Underway(m) => ~m.dnConf)

NumberInv == Numbered(LMIC, sent) /\ Owes(LMIC, ackDue) /\ ackDue \in BOOLEAN

(* The history when a callback has come to the struct n: s, or the frame   *)
(* that it starts to send, which pays the acknowledgement d.               *)
Sends(n) == n.radio = "TX" /\ n.frame.type = "up"
After(n, s) ==
  IF ~Sends(n) THEN s
  ELSE [seqno |-> n.frame.seqno, data |-> n.frame.data, conf |-> n.frame.conf,
        tries |-> IF n.frame.seqno # s.seqno THEN 1
                  ELSE IF s.tries <= Attempts THEN s.tries + 1 ELSE s.tries]

Again(s, t) ==
  /\ t.seqno = s.seqno /\ t.tries \in 2..Attempts
  /\ t.conf /\ s.conf /\ t.data = s.data
Poll(s, t) ==
  /\ t.seqno = s.seqno /\ t.tries > 1
  /\ ~t.conf /\ t.data = "empty" /\ (s.conf \/ s.tries > 1)
Higher(s, t) == t.tries = 1 /\ t.seqno > s.seqno

Follows(n, s, d) ==
  /\ Numbered(n, After(n, s))
  /\ Owes(n, d /\ ~Sends(n))
  /\ Sends(n) => (d => n.frame.ack)
  /\ Sends(n) =>
       Again(s, After(n, s)) \/ Poll(s, After(n, s)) \/ Higher(s, After(n, s))

(* The history of a new session.                                           *)
Anew(n) == Follows(n, NoUplink, FALSE)

Keeps(m, n) ==
  n.seqnoDn = m.seqnoDn /\ \A s : \A d \in BOOLEAN : Follows(m, s, d) => Follows(n, s, d)

(* An accepted downlink that is confirmed is to be acknowledged.           *)
Accepts(m, n) ==
  \A s : \A d \in BOOLEAN :
    Follows(m, s, d) => Follows(n, s, d \/ (m.frame.type = "data" /\ m.frame.conf))

(* What is left of the history when the data given has been sent.          *)
Over(m, s, d) == s \in SentSet /\ s.seqno < m.seqnoUp /\ (d => m.dnConf) /\ Tied(m, s)

(* The fields that the history goes along with.                            *)
Alike(m, n) ==
  /\ n.devaddr = m.devaddr /\ n.txCnt = m.txCnt /\ n.seqnoUp = m.seqnoUp
  /\ n.seqnoDn = m.seqnoDn /\ n.dnConf = m.dnConf /\ n.answers = m.answers
  /\ n.pendTx = m.pendTx /\ n.pendTxConf = m.pendTxConf
  /\ n.radio = m.radio /\ n.frame = m.frame /\ n.func = m.func
  /\ \A flag \in {"TXDATA", "POLL", "TXRXPEND"} : flag \in n.opmode <=> flag \in m.opmode

LEMMA AlikeKeeps ==
  ASSUME NEW m, NEW n, Alike(m, n)
  PROVE  Keeps(m, n)
<1>1. Underway(n) = Underway(m) /\ Sends(n) = Sends(m)
  BY DEF Alike, Underway, Sends
<1>2. ASSUME NEW s
      PROVE  After(n, s) = After(m, s) /\ (Numbered(m, s) => Numbered(n, s))
  BY <1>1 DEF Alike, After, Numbered, Repeats, Tied
<1> QED BY <1>1, <1>2 DEF Alike, Keeps, Follows, Owes

(* A change of the struct while nothing is sent.                           *)
LEMMA QuietKeeps ==
  ASSUME NEW m, NEW n, ~Sends(m), ~Sends(n), n.devaddr = m.devaddr, n.seqnoUp = m.seqnoUp,
         n.seqnoDn = m.seqnoDn, n.dnConf = m.dnConf, n.pendTx = m.pendTx,
         n.txCnt = m.txCnt \/ ~m.devaddr,
         Underway(n) => Underway(m),
         "TXDATA" \in n.opmode =>
           /\ "TXDATA" \in m.opmode /\ n.pendTxConf = m.pendTxConf
           /\ n.answers = m.answers /\ (Underway(n) <=> Underway(m))
  PROVE  Keeps(m, n)
<1>1. ASSUME NEW s, Numbered(m, s)
      PROVE  Numbered(n, s)
  BY <1>1 DEF Numbered, Repeats, Tied
<1> QED BY <1>1 DEF Keeps, Follows, After, Owes
-----------------------------------------------------------------------------
(* The engine                                                              *)

LEMMA LowerRate ==
  ASSUME NEW dr \in DataRates, NEW n \in Nat
  PROVE  lowerDR(dr, n) \in DataRates
BY CountsAssumption DEF DataRates, lowerDR

(* What buildDataFrame changes in the struct.                              *)
LEMMA FrameBuilt ==
  ASSUME NEW m \in Struct, ~(m.txCnt = 0 /\ m.seqnoUp = UpLimit)
  PROVE  LET n == buildDataFrame(m)
         IN  /\ n \in Struct /\ n.opmode = m.opmode /\ n.devaddr = m.devaddr
             /\ n.due = m.due /\ n.radio = m.radio /\ n.halted = m.halted
             /\ n.events = m.events /\ n.seqnoDn = m.seqnoDn /\ n.txrxFlags = m.txrxFlags
             /\ Raised(m.adrAckReq, n.adrAckReq)
<1> DEFINE check == IF m.adrChanged /\ m.adrAckReq < 0 THEN 0 ELSE m.adrAckReq
           number == IF m.txCnt = 0 THEN m.seqnoUp + 1 ELSE m.seqnoUp
           txdata == /\ "TXDATA" \in m.opmode \/ "POLL" \notin m.opmode
                     /\ LongPayload => m.answers = {}
           cnt == IF txdata /\ m.pendTxConf /\ m.txCnt = 0 THEN 1 ELSE m.txCnt
           frame == [type |-> "up", seqno |-> number - 1, ack |-> m.dnConf,
                     answers |-> m.answers, adrackreq |-> check >= 0,
                     conf |-> txdata /\ m.pendTxConf,
                     data |-> IF txdata THEN m.pendTx ELSE "empty"]
<1>1. check \in CheckCounts
  BY LinkAssumption DEF Struct, CheckCounts
<1>2. number \in UpNumbers
  BY CountsAssumption DEF Struct, UpNumbers
<1>3. cnt \in Tries
  BY CountsAssumption DEF Struct, Tries
<1>4. frame \in FrameSet
  BY <1>2, CountsAssumption DEF Struct, FrameSet, UpNumbers
<1>5. buildDataFrame(m) =
        [m EXCEPT !.answers = {}, !.adrChanged = FALSE, !.adrAckReq = check,
                  !.seqnoUp = number, !.dnConf = FALSE, !.txCnt = cnt, !.frame = frame]
  BY DEF buildDataFrame
<1>6. Raised(m.adrAckReq, check)
  BY DEF Raised
<1> HIDE DEF check, number, txdata, cnt, frame
<1>7. buildDataFrame(m) \in Struct
  BY <1>1, <1>2, <1>3, <1>4, <1>5, ZenonT(40) DEF Struct
<1> QED BY <1>5, <1>6, <1>7, ZenonT(40) DEF Struct

(* What the frame carries.                                                 *)
LEMMA FrameFields ==
  ASSUME NEW m \in Struct
  PROVE  LET n == buildDataFrame(m)
             txdata == /\ "TXDATA" \in m.opmode \/ "POLL" \notin m.opmode
                       /\ LongPayload => m.answers = {}
         IN  /\ n.seqnoUp = IF m.txCnt = 0 THEN m.seqnoUp + 1 ELSE m.seqnoUp
             /\ n.txCnt = IF txdata /\ m.pendTxConf /\ m.txCnt = 0 THEN 1 ELSE m.txCnt
             /\ n.answers = {} /\ ~n.dnConf
             /\ n.pendTx = m.pendTx /\ n.pendTxConf = m.pendTxConf
             /\ n.frame.type = "up" /\ n.frame.seqno = n.seqnoUp - 1
             /\ n.frame.ack = m.dnConf /\ n.frame.conf = (txdata /\ m.pendTxConf)
             /\ n.frame.data = IF txdata THEN m.pendTx ELSE "empty"
BY DEF buildDataFrame, Struct

(* A frame with the number of the one before repeats it.                   *)
LEMMA FrameFollows ==
  ASSUME NEW m \in Struct, Asleep(m), m.devaddr, Has(m, {"TXDATA", "POLL"}),
         NEW s, NEW d \in BOOLEAN, Follows(m, s, d),
         NEW b, b = buildDataFrame(m),
         NEW n, n.devaddr, n.radio = "TX", n.func = "updataDone",
         "POLL" \notin n.opmode, "TXRXPEND" \in n.opmode,
         "TXDATA" \in n.opmode <=> "TXDATA" \in m.opmode,
         n.txCnt = b.txCnt, n.seqnoUp = b.seqnoUp, n.answers = b.answers,
         n.dnConf = b.dnConf, n.pendTx = b.pendTx, n.pendTxConf = b.pendTxConf,
         n.frame = b.frame
  PROVE  Follows(n, s, d)
<1> DEFINE t == After(n, s)
           txdata == /\ "TXDATA" \in m.opmode \/ "POLL" \notin m.opmode
                     /\ LongPayload => m.answers = {}
<1>1. /\ n.seqnoUp = IF m.txCnt = 0 THEN m.seqnoUp + 1 ELSE m.seqnoUp
      /\ n.txCnt = IF txdata /\ m.pendTxConf /\ m.txCnt = 0 THEN 1 ELSE m.txCnt
      /\ n.answers = {} /\ ~n.dnConf
      /\ n.pendTx = m.pendTx /\ n.pendTxConf = m.pendTxConf
      /\ n.frame.type = "up" /\ n.frame.seqno = n.seqnoUp - 1
      /\ n.frame.ack = m.dnConf /\ n.frame.conf = (txdata /\ m.pendTxConf)
      /\ n.frame.data = IF txdata THEN m.pendTx ELSE "empty"
  BY FrameFields
<1>2. ~Sends(m) /\ ~Underway(m)
  BY DEF Asleep, Sends, Underway
<1>3. Numbered(m, s) /\ (d => m.dnConf)
  BY <1>2 DEF Follows, After, Owes
<1>4. Sends(n) /\ Underway(n)
  BY <1>1 DEF Sends, Underway, DataFuncs
<1>5. t = [seqno |-> n.seqnoUp - 1, data |-> n.frame.data, conf |-> n.frame.conf,
           tries |-> IF n.seqnoUp - 1 # s.seqno THEN 1
                     ELSE IF s.tries <= Attempts THEN s.tries + 1 ELSE s.tries]
  BY <1>1, <1>4 DEF After
<1>6. /\ m.seqnoUp \in Nat /\ m.txCnt \in Nat /\ m.pendTx \in {"a", "b"}
      /\ m.pendTxConf \in BOOLEAN /\ s \in SentSet
  BY <1>3, CountsAssumption DEF Struct, UpNumbers, Tries, Numbered
<1> HIDE DEF t, txdata
<1>7. /\ s.seqno \in Int /\ s.data \in {"a", "b", "empty"} /\ s.conf \in BOOLEAN
      /\ s.tries \in Nat /\ s.seqno < m.seqnoUp
  BY <1>3, <1>6 DEF SentSet, Numbered
<1>8. CASE m.txCnt = 0
  <2>1. n.seqnoUp = m.seqnoUp + 1 /\ t.seqno = m.seqnoUp /\ t.tries = 1
    BY <1>1, <1>5, <1>6, <1>7, <1>8
  <2>2. t \in SentSet /\ t.seqno < n.seqnoUp
    BY <1>1, <1>5, <1>6, <1>7, <2>1 DEF SentSet, txdata
  <2>3. "TXDATA" \in n.opmode /\ n.txCnt # 0 => txdata /\ m.pendTxConf /\ n.txCnt = 1
    BY <1>1, <1>8
  <2>4. Repeats(n, t)
    <3> SUFFICES ASSUME "TXDATA" \in n.opmode, n.txCnt # 0
                 PROVE  /\ n.pendTxConf /\ n.answers = {} /\ n.txCnt <= Attempts
                        /\ t.conf /\ t.data = n.pendTx /\ t.seqno = n.seqnoUp - 1
                        /\ t.tries >= 1 /\ t.tries = n.txCnt
      BY <1>4 DEF Repeats
    <3>1. txdata /\ m.pendTxConf /\ n.txCnt = 1
      BY <2>3
    <3>2. n.frame.conf /\ n.frame.data = m.pendTx
      BY <1>1, <3>1
    <3>3. t.conf /\ t.data = m.pendTx
      BY <1>5, <3>2
    <3>4. n.txCnt <= Attempts /\ t.tries >= 1 /\ t.tries = n.txCnt
      BY <2>1, <3>1, CountsAssumption
    <3>5. t.seqno = n.seqnoUp - 1
      BY <1>6, <2>1
    <3> QED BY <1>1, <3>1, <3>3, <3>4, <3>5
  <2>5. ~LongPayload /\ "TXDATA" \in n.opmode => t.data = n.pendTx
    BY <1>1, <1>5 DEF txdata
  <2>6. Tied(n, t)
    <3> SUFFICES ASSUME n.txCnt # 0
                 PROVE  t.seqno = n.seqnoUp - 1 /\ t.tries >= 1 /\ t.conf
      BY DEF Tied
    <3>1. n.frame.conf
      BY <1>1, <1>8
    <3> QED BY <1>5, <1>6, <2>1, <3>1
  <2>7. Numbered(n, t)
    BY <2>2, <2>4, <2>5, <2>6 DEF Numbered
  <2> QED BY <1>1, <1>3, <1>4, <1>7, <2>1, <2>7 DEF Follows, Owes, Higher, t
<1>9. CASE m.txCnt # 0
  <2>1. n.seqnoUp = m.seqnoUp /\ t.seqno = m.seqnoUp - 1 /\ n.txCnt = m.txCnt
    BY <1>1, <1>5, <1>9
  <2>2. t \in SentSet /\ t.seqno < n.seqnoUp
    BY <1>1, <1>5, <1>6, <1>7, <2>1, CountsAssumption DEF SentSet, txdata
  <2>3. ASSUME "TXDATA" \in m.opmode
        PROVE  /\ m.pendTxConf /\ m.answers = {} /\ m.txCnt <= Attempts /\ s.conf
               /\ s.data = m.pendTx /\ s.seqno = m.seqnoUp - 1 /\ s.tries >= 1
               /\ s.tries = m.txCnt - 1 /\ txdata /\ t.tries = m.txCnt
               /\ t.conf /\ t.data = m.pendTx
    <3>1. /\ m.pendTxConf /\ m.answers = {} /\ m.txCnt <= Attempts /\ s.conf
          /\ s.data = m.pendTx /\ s.seqno = m.seqnoUp - 1 /\ s.tries >= 1
          /\ s.tries = m.txCnt - 1
      BY <1>2, <1>3, <1>9, <2>3 DEF Numbered, Repeats
    <3>2. txdata
      BY <2>3, <3>1 DEF txdata
    <3>3. n.frame.conf /\ n.frame.data = m.pendTx
      BY <1>1, <3>1, <3>2
    <3>4. t.conf /\ t.data = m.pendTx
      BY <1>5, <3>3
    <3>5. t.tries = m.txCnt
      BY <1>5, <1>6, <1>7, <2>1, <3>1, CountsAssumption
    <3> QED BY <3>1, <3>2, <3>4, <3>5
  <2>4. Repeats(n, t)
    BY <1>1, <1>4, <1>6, <2>1, <2>3 DEF Repeats
  <2>5. ~LongPayload /\ "TXDATA" \in n.opmode => t.data = n.pendTx
    BY <1>1, <2>3
  <2>6. s.seqno = m.seqnoUp - 1 /\ s.tries >= 1 /\ (s.conf \/ s.tries > 1)
    BY <1>3, <1>9 DEF Numbered, Tied
  <2>7. t.seqno = s.seqno /\ t.tries \in Nat /\ t.tries > 1
    BY <1>5, <1>6, <1>7, <2>1, <2>6, CountsAssumption
  <2>8. Numbered(n, t)
    BY <2>1, <2>2, <2>4, <2>5, <2>6, <2>7 DEF Numbered, Tied
  <2>9. CASE "TXDATA" \in m.opmode
    <3>1. t.tries \in 2..Attempts
      BY <1>6, <2>3, <2>7, <2>9, CountsAssumption
    <3>2. t.conf /\ s.conf /\ t.data = s.data
      BY <2>3, <2>9
    <3>3. Again(s, t)
      BY <2>7, <3>1, <3>2 DEF Again
    <3> QED BY <1>1, <1>3, <1>4, <2>8, <3>3 DEF Follows, Owes, t
  <2>10. CASE "TXDATA" \notin m.opmode
    <3>1. ~txdata
      BY <2>10 DEF Has, txdata
    <3>2. ~n.frame.conf /\ n.frame.data = "empty"
      BY <1>1, <3>1
    <3>3. Poll(s, t)
      BY <1>5, <2>6, <2>7, <3>2 DEF Poll
    <3> QED BY <1>1, <1>3, <1>4, <2>8, <3>3 DEF Follows, Owes, t
  <2> QED BY <2>9, <2>10
<1> QED BY <1>8, <1>9

(* The engine sends a join request, a rejoin request or a data frame, or   *)
(* asks for a reset: only when the radio sleeps and no job is armed.       *)
LEMMA Transmits ==
  ASSUME NEW m, Good(m), Asleep(m), m.due = "idle", m.devaddr \/ "JOINING" \in m.opmode,
         Has(m, {"JOINING", "REJOIN", "TXDATA", "POLL"})
  PROVE  Good(transmit(m)) /\ Effect(m, transmit(m)) /\ Keeps(m, transmit(m))
<1>0. ~Sends(m) /\ ~Underway(m)
  BY DEF Asleep, Sends, Underway
<1>1. CASE Has(m, {"JOINING", "REJOIN"})
  <2> DEFINE type == IF "REJOIN" \in m.opmode THEN "rejoin" ELSE "join"
             mode == (m.opmode \ {"POLL"}) \union {"TXRXPEND"}
  <2>1. transmit(m) = [m EXCEPT !.frame = [type |-> type], !.opmode = mode,
                                !.func = "jreqDone", !.radio = "TX"]
    BY <1>1 DEF transmit, StartRadio, buildJoinRequest, Set, Clear, Good, Asleep, Struct
  <2>2. [type |-> type] \in FrameSet
    BY DEF FrameSet
  <2>3. mode \in SUBSET Flags /\ "TXRXPEND" \in mode
    BY DEF Good, Struct, Flags
  <2>4. ("JOINING" \in mode <=> "JOINING" \in m.opmode) /\ ("REJOIN" \in mode <=> "REJOIN" \in m.opmode)
        /\ ("LINKDEAD" \in mode <=> "LINKDEAD" \in m.opmode) /\ "POLL" \notin mode
    OBVIOUS
  <2> HIDE DEF type, mode
  <2>0. m \in Struct /\ ~m.halted /\ "jreqDone" \in Callbacks
    BY DEF Good, Callbacks
  <2>5. transmit(m) \in Struct /\ ~transmit(m).halted
    <3>1. transmit(m) \in Struct
      BY <2>0, <2>1, <2>2, <2>3, ZenonT(40) DEF Struct
    <3> QED BY <2>0, <2>1, <3>1 DEF Struct
  <2>6. Session(transmit(m))
    BY <1>1, <2>1, <2>3, <2>4 DEF Good, Struct, Session, Has
  <2>7. Busy(transmit(m))
    BY <1>1, <2>1, <2>3, <2>4, <2>5 DEF Good, Struct, Asleep, Busy, Stage, Purpose, Has,
       JoinFuncs, DataFuncs, SentFuncs
  <2>8. Keeps(m, transmit(m))
    <3> DEFINE n == transmit(m)
    <3>1. /\ n.devaddr = m.devaddr /\ n.seqnoUp = m.seqnoUp /\ n.seqnoDn = m.seqnoDn
          /\ n.dnConf = m.dnConf /\ n.pendTx = m.pendTx /\ n.txCnt = m.txCnt
          /\ n.pendTxConf = m.pendTxConf /\ n.answers = m.answers
          /\ n.opmode = mode /\ n.func = "jreqDone" /\ n.frame = [type |-> type]
      BY <2>0, <2>1 DEF Struct
    <3>2. "TXDATA" \in mode => "TXDATA" \in m.opmode
      BY DEF mode
    <3>3. type \in {"join", "rejoin"}
      BY DEF type
    <3> HIDE DEF n
    <3>4. ~Sends(n) /\ ~Underway(n)
      BY <3>1, <3>3 DEF Sends, Underway, DataFuncs
    <3>5. Keeps(m, n)
      BY <1>0, <2>4, <3>1, <3>2, <3>4, QuietKeeps
    <3> QED BY <3>5 DEF n
  <2> QED BY <2>1, <2>4, <2>5, <2>6, <2>7, <2>8 DEF Good, Effect, Raised, Struct
<1>2. CASE ~Has(m, {"JOINING", "REJOIN"})
           /\ (m.seqnoDn >= DnLimit \/ (m.txCnt = 0 /\ m.seqnoUp = UpLimit))
  <2>1. transmit(m) = [m EXCEPT !.func = "runReset", !.due = "ready"]
    BY <1>2 DEF transmit, os_setCallback
  <2>2. Keeps(m, transmit(m))
    <3> DEFINE n == transmit(m)
    <3>1. /\ n.devaddr = m.devaddr /\ n.seqnoUp = m.seqnoUp /\ n.seqnoDn = m.seqnoDn
          /\ n.dnConf = m.dnConf /\ n.pendTx = m.pendTx /\ n.txCnt = m.txCnt
          /\ n.pendTxConf = m.pendTxConf /\ n.answers = m.answers
          /\ n.opmode = m.opmode /\ n.frame = m.frame /\ n.radio = m.radio
      BY <2>1 DEF Good, Struct
    <3> HIDE DEF n
    <3>2. ~Sends(n) /\ ~Underway(n)
      BY <3>1 DEF Sends, Underway, Asleep
    <3>3. Keeps(m, n)
      BY <1>0, <3>1, <3>2, QuietKeeps
    <3> QED BY <3>3 DEF n
  <2> QED BY <2>1, <2>2, ZenonT(40)
          DEF Good, Struct, Session, Asleep, Callbacks, EngineFuncs, Effect, Raised
<1>3. CASE /\ ~Has(m, {"JOINING", "REJOIN"})
           /\ ~(m.seqnoDn >= DnLimit \/ (m.txCnt = 0 /\ m.seqnoUp = UpLimit))
  <2> DEFINE b == buildDataFrame(m)
             mode == (b.opmode \ {"POLL"}) \union {"TXRXPEND"}
  <2>1. /\ b \in Struct /\ b.opmode = m.opmode /\ b.devaddr = m.devaddr
        /\ b.due = m.due /\ b.radio = m.radio /\ b.halted = m.halted
        /\ b.events = m.events /\ b.seqnoDn = m.seqnoDn /\ b.txrxFlags = m.txrxFlags
        /\ Raised(m.adrAckReq, b.adrAckReq)
    BY <1>3, FrameBuilt DEF Good
  <2>2. transmit(m) = StartRadio(Set(Clear(b, {"POLL"}), {"TXRXPEND"}), "TX", "updataDone")
    BY <1>3 DEF transmit
  <2> HIDE DEF b
  <2>3. transmit(m) = [b EXCEPT !.opmode = mode, !.func = "updataDone", !.radio = "TX"]
    BY <2>1, <2>2 DEF StartRadio, Set, Clear, Asleep, Struct
  <2>4. mode \in SUBSET Flags /\ "TXRXPEND" \in mode
    BY <2>1 DEF Struct, Flags
  <2>5. ("JOINING" \in mode <=> "JOINING" \in m.opmode)
        /\ ("LINKDEAD" \in mode <=> "LINKDEAD" \in m.opmode)
    BY <2>1
  <2>6. m.devaddr /\ m.seqnoDn < DnLimit
    BY <1>3, CountsAssumption DEF Has, Good, Struct, DnNumbers
  <2> HIDE DEF mode
  <2>0. m \in Struct /\ ~m.halted /\ "updataDone" \in Callbacks
    BY DEF Good, Callbacks
  <2>7. transmit(m) \in Struct /\ ~transmit(m).halted /\ Session(transmit(m))
    <3>1. transmit(m) \in Struct
      BY <2>0, <2>1, <2>3, <2>4, ZenonT(40) DEF Struct
    <3>2. /\ transmit(m).halted = b.halted /\ transmit(m).devaddr = m.devaddr
          /\ transmit(m).opmode = mode
      BY <2>1, <2>3, ZenonT(40) DEF Struct
    <3> QED BY <2>0, <2>1, <2>5, <2>6, <3>1, <3>2 DEF Good, Session
  <2>8. Busy(transmit(m))
    <3> DEFINE n == transmit(m)
    <3>1. /\ n.opmode = mode /\ n.func = "updataDone" /\ n.radio = "TX" /\ n.due = "idle"
          /\ n.devaddr /\ n.seqnoDn < DnLimit
      BY <2>1, <2>3, <2>6, ZenonT(40) DEF Struct
    <3> HIDE DEF n
    <3>2. Stage(n)
      BY <3>1 DEF Stage, SentFuncs
    <3>3. Purpose(n)
      BY <3>1 DEF Purpose, JoinFuncs, DataFuncs
    <3>4. Busy(n)
      BY <2>4, <3>1, <3>2, <3>3 DEF Busy
    <3> QED BY <3>4 DEF n
  <2>9. Keeps(m, transmit(m))
    <3> DEFINE n == transmit(m)
    <3>1. /\ n.devaddr = b.devaddr /\ n.seqnoUp = b.seqnoUp /\ n.seqnoDn = b.seqnoDn
          /\ n.dnConf = b.dnConf /\ n.pendTx = b.pendTx /\ n.txCnt = b.txCnt
          /\ n.pendTxConf = b.pendTxConf /\ n.answers = b.answers /\ n.frame = b.frame
          /\ n.opmode = mode /\ n.func = "updataDone" /\ n.radio = "TX"
      BY <2>1, <2>3 DEF Struct
    <3>2. "TXDATA" \in mode <=> "TXDATA" \in m.opmode
      BY <2>1 DEF mode
    <3>3. "POLL" \notin mode
      BY DEF mode
    <3>4. Has(m, {"TXDATA", "POLL"})
      BY <1>3 DEF Has
    <3>5. b = buildDataFrame(m)
      BY DEF b
    <3> HIDE DEF n
    <3>6. ASSUME NEW s, NEW d \in BOOLEAN, Follows(m, s, d)
          PROVE  Follows(n, s, d)
      BY <2>0, <2>1, <2>4, <2>6, <3>1, <3>2, <3>3, <3>4, <3>5, <3>6, FrameFollows, ZenonT(40)
    <3>7. Keeps(m, n)
      BY <2>1, <3>1, <3>6 DEF Keeps
    <3> QED BY <3>7 DEF n
  <2> QED BY <2>1, <2>3, <2>5, <2>7, <2>8, <2>9 DEF Good, Effect, Struct
<1> QED BY <1>1, <1>2, <1>3

(* A session starts to be joined: the assertion of LMIC_startJoining holds. *)
LEMMA StartsJoining ==
  ASSUME NEW m \in Struct, ~m.halted, Session(m), m.radio = "SLEEP",
         ~m.devaddr, "JOINING" \notin m.opmode
  PROVE  LET n == LMIC_startJoining(m)
         IN  /\ Good(n) /\ Effect(m, n) /\ Keeps(m, n)
             /\ n.due = "ready" /\ n.adrAckReq = m.adrAckReq
<1> DEFINE mode == (m.opmode \ {"REJOIN", "LINKDEAD"}) \union {"JOINING"}
           n == [m EXCEPT !.opmode = mode, !.rejoinCnt = 0, !.txCnt = 0,
                          !.datarate = MaxDR, !.func = "startJoining", !.due = "ready"]
<1>1. LMIC_startJoining(m) = n
  BY ZenonT(40) DEF LMIC_startJoining, Has, Session, os_setCallback, Set, Clear, Struct
<1>2. /\ mode \in SUBSET Flags /\ "JOINING" \in mode
      /\ "TXRXPEND" \notin mode /\ "POLL" \notin mode
      /\ "TXDATA" \in mode => "TXDATA" \in m.opmode
  BY DEF Struct, Session, Flags
<1>3. 0 \in RejoinCounts /\ 0 \in Tries /\ MaxDR \in DataRates /\ "startJoining" \in Callbacks
  BY CountsAssumption DEF RejoinCounts, Tries, DataRates, Callbacks
<1> HIDE DEF mode
<1>4. n \in Struct
  BY <1>2, <1>3 DEF Struct
<1>5. Good(n)
  BY <1>2, <1>4 DEF Good, Struct, Session, Asleep, EngineFuncs
<1>6. /\ n.devaddr = m.devaddr /\ n.seqnoUp = m.seqnoUp /\ n.seqnoDn = m.seqnoDn
      /\ n.dnConf = m.dnConf /\ n.pendTx = m.pendTx /\ n.pendTxConf = m.pendTxConf
      /\ n.answers = m.answers /\ n.opmode = mode /\ n.frame = m.frame /\ n.radio = m.radio
  BY DEF Struct
<1>7. Keeps(m, n)
  <2> HIDE DEF n
  <2>1. ~Sends(m) /\ ~Underway(m) /\ ~Sends(n) /\ ~Underway(n)
    BY <1>2, <1>6 DEF Session, Sends, Underway
  <2> QED BY <1>2, <1>6, <2>1, QuietKeeps
<1> QED BY <1>1, <1>5, <1>7 DEF Effect, Raised, Struct

(* engineUpdate keeps everything in order, whatever it decides, if it does *)
(* not find its own timer overdue.                                         *)
LEMMA EngineRuns ==
  ASSUME Prompt, NEW m, Good(m), NEW n \in engineUpdate(m)
  PROVE  Good(n) /\ Effect(m, n) /\ Keeps(m, n)
<1>1. Effect(m, m) /\ Keeps(m, m)
  BY DEF Effect, Raised, Keeps
<1>2. CASE Has(m, {"TXRXPEND", "SHUTDOWN"})
  BY <1>1, <1>2 DEF engineUpdate
<1> SUFFICES ASSUME ~Has(m, {"TXRXPEND", "SHUTDOWN"})
             PROVE  Good(n) /\ Effect(m, n) /\ Keeps(m, n)
  BY <1>2
<1>3. m \in Struct /\ ~m.halted /\ Session(m) /\ Asleep(m)
  BY DEF Good, Busy, Has
<1>4. CASE ~m.devaddr /\ "JOINING" \notin m.opmode
  <2>1. n = LMIC_startJoining(m)
    BY <1>3, <1>4 DEF engineUpdate
  <2> QED BY <1>3, <1>4, <2>1, StartsJoining DEF Asleep
<1>5. CASE /\ m.devaddr \/ "JOINING" \in m.opmode
           /\ ~Has(m, {"JOINING", "REJOIN", "TXDATA", "POLL"})
  BY <1>1, <1>3, <1>5 DEF engineUpdate
<1>6. CASE /\ m.devaddr \/ "JOINING" \in m.opmode
           /\ Has(m, {"JOINING", "REJOIN", "TXDATA", "POLL"})
  <2>1. n = os_setTimedCallback(m, "runEngineUpdate") \/ (m.due = "idle" /\ n = transmit(m))
    BY <1>3, <1>6 DEF engineUpdate
  <2>2. CASE n = os_setTimedCallback(m, "runEngineUpdate")
    <3>1. n = [m EXCEPT !.func = "runEngineUpdate", !.due = "timed"]
      BY <2>2 DEF os_setTimedCallback
    <3>2. "runEngineUpdate" \in Callbacks
      BY DEF Callbacks
    <3>3. n \in Struct
      BY <1>3, <3>1, <3>2 DEF Struct
    <3>4. Keeps(m, n)
      <4>1. /\ n.devaddr = m.devaddr /\ n.seqnoUp = m.seqnoUp /\ n.seqnoDn = m.seqnoDn
            /\ n.dnConf = m.dnConf /\ n.pendTx = m.pendTx /\ n.txCnt = m.txCnt
            /\ n.pendTxConf = m.pendTxConf /\ n.answers = m.answers
            /\ n.opmode = m.opmode /\ n.frame = m.frame /\ n.radio = m.radio
        BY <1>3, <3>1 DEF Struct
      <4>2. ~Sends(m) /\ ~Underway(m) /\ ~Sends(n) /\ ~Underway(n)
        BY <1>3, <4>1 DEF Asleep, Sends, Underway
      <4> QED BY <4>1, <4>2, QuietKeeps
    <3> QED BY <1>3, <3>1, <3>3, <3>4 DEF Good, Struct, Session, Asleep, EngineFuncs, Effect, Raised
  <2>3. CASE m.due = "idle" /\ n = transmit(m)
    BY <1>3, <1>6, <2>3, Transmits
  <2> QED BY <2>1, <2>2, <2>3
<1> QED BY <1>4, <1>5, <1>6

(* What the application and the engine leave alone at an event.            *)
Reported(m, ev, n) ==
  /\ n.devaddr = m.devaddr /\ n.txrxFlags = m.txrxFlags
  /\ n.events = Append(m.events, [ev |-> ev, flags |-> m.txrxFlags])
  /\ \/ Raised(m.adrAckReq, n.adrAckReq)
     \/ ev = "EV_JOINED" /\ ~KeepsCheck /\ n.adrAckReq \in {LinkOff, 0}
  /\ m.devaddr => ("LINKDEAD" \in n.opmode <=> "LINKDEAD" \in m.opmode)

LEMMA Reports ==
  ASSUME Prompt, NEW m, Good(m), NEW ev \in Events, NEW n \in reportEvent(m, ev)
  PROVE  Good(n) /\ Reported(m, ev, n) /\ Keeps(m, n)
<1> DEFINE o == onEvent(m, ev)
           log == Append(o.events, [ev |-> ev, flags |-> m.txrxFlags])
           p == [o EXCEPT !.events = log]
<1>0. m \in Struct /\ ~m.halted
  BY DEF Good
<1>1. m \in Struct /\ n \in engineUpdate(p)
  BY <1>0 DEF reportEvent
<1>2. LinkOff \in CheckCounts
  BY DEF CheckCounts
<1> HIDE DEF p, log
<1>4. /\ o \in Struct /\ o.opmode = m.opmode /\ o.devaddr = m.devaddr /\ o.radio = m.radio
      /\ o.due = m.due /\ o.func = m.func /\ o.halted = m.halted /\ o.seqnoDn = m.seqnoDn
      /\ o.txrxFlags = m.txrxFlags /\ o.events = m.events /\ o.frame = m.frame
      /\ o.adrAckReq = m.adrAckReq \/ (ev = "EV_JOINED" /\ ~KeepsCheck /\ o.adrAckReq = LinkOff)
      /\ Alike(m, o)
  <2>1. CASE o = m
    BY <1>1, <2>1 DEF Alike
  <2>2. CASE ev = "EV_JOINED" /\ ~KeepsCheck /\ o = [m EXCEPT !.adrChanged = FALSE, !.adrAckReq = LinkOff]
    <3>1. o \in Struct
      BY <1>1, <1>2, <2>2, ZenonT(40) DEF Struct
    <3> HIDE DEF o
    <3>2. Alike(m, o)
      BY <1>1, <2>2 DEF Struct, Alike
    <3> QED BY <1>1, <2>2, <3>1, <3>2 DEF Struct
  <2> QED BY <2>1, <2>2 DEF onEvent
<1> HIDE DEF o
<1>3. log \in Log /\ log = Append(m.events, [ev |-> ev, flags |-> m.txrxFlags])
  BY <1>0, <1>4 DEF Struct, Log, log
<1>5. p \in Struct
  BY <1>3, <1>4 DEF Struct, p
<1>6. /\ p.opmode = m.opmode /\ p.devaddr = m.devaddr /\ p.radio = m.radio
      /\ p.due = m.due /\ p.func = m.func /\ p.halted = m.halted /\ p.seqnoDn = m.seqnoDn
      /\ p.txrxFlags = m.txrxFlags /\ p.events = log /\ p.frame = m.frame
      /\ p.adrAckReq = m.adrAckReq \/ (ev = "EV_JOINED" /\ ~KeepsCheck /\ p.adrAckReq = LinkOff)
  BY <1>4 DEF Struct, p
<1>9. Keeps(m, p)
  <2>1. Alike(m, p)
    BY <1>4 DEF Struct, p, Alike
  <2> QED BY <2>1, AlikeKeeps
<1>7. Good(p)
  BY <1>0, <1>5, <1>6 DEF Good, Session, Asleep, Busy, Stage, Purpose, Has
<1>8. Good(n) /\ Effect(p, n) /\ Keeps(p, n)
  BY <1>1, <1>7, EngineRuns
<1>10. Keeps(m, n)
  BY <1>8, <1>9 DEF Keeps
<1> QED BY <1>3, <1>6, <1>8, <1>10 DEF Effect, Raised, Reported
-----------------------------------------------------------------------------
(* The callbacks of LMIC.osjob                                             *)

(* The struct a callback of a transaction gets.                            *)
Idle(m) ==
  /\ m \in Struct /\ ~m.halted /\ Session(m) /\ m.radio = "SLEEP" /\ m.due = "idle"
  /\ m.events = <<>>

(* Of what a callback may do to the link check: nothing, or no more than   *)
(* wait for the network's sign.                                            *)
Plain(m, n) ==
  /\ n.devaddr = m.devaddr /\ Raised(m.adrAckReq, n.adrAckReq)
  /\ m.devaddr => ("LINKDEAD" \in n.opmode <=> "LINKDEAD" \in m.opmode)
  /\ \A i \in 1..Len(n.events) :
       n.events[i].ev \notin {"EV_JOINED", "EV_TXCOMPLETE", "EV_LINK_DEAD"}

(* Or begin to count.                                                      *)
Fresh(n) ==
  /\ NewSession(n) /\ ~Shown(n, "EV_LINK_DEAD") /\ ~Shown(n, "EV_TXCOMPLETE")
  /\ n.adrAckReq <= 0 /\ (KeepsCheck => n.adrAckReq >= LinkInit)

(* An event in an empty log.                                               *)
LEMMA FirstEvent ==
  ASSUME Prompt, NEW m, Good(m), m.events = <<>>, NEW ev \in Events,
         NEW n \in reportEvent(m, ev)
  PROVE  /\ Good(n) /\ Reported(m, ev, n) /\ Keeps(m, n)
         /\ Len(n.events) = 1 /\ n.events[1].ev = ev
<1>1. Good(n) /\ Reported(m, ev, n) /\ Keeps(m, n)
  BY Reports
<1> QED BY <1>1 DEF Reported

LEMMA PlainEvent ==
  ASSUME Prompt, NEW m, Good(m), m.events = <<>>,
         NEW ev \in {"EV_JOINING", "EV_JOIN_FAILED", "EV_REJOIN_FAILED"},
         NEW n \in reportEvent(m, ev)
  PROVE  Good(n) /\ Plain(m, n) /\ Keeps(m, n)
<1>0. ev \in Events
  BY DEF Events
<1>1. /\ Good(n) /\ Reported(m, ev, n) /\ Keeps(m, n)
      /\ Len(n.events) = 1 /\ n.events[1].ev = ev
  BY <1>0, FirstEvent
<1> QED BY <1>1 DEF Reported, Plain

(* The next callback of a transaction is armed, or the radio started.      *)
LEMMA WindowAwaited ==
  ASSUME NEW m, Idle(m), "TXRXPEND" \in m.opmode, NEW f \in OpenFuncs,
         f \in JoinFuncs => Has(m, {"JOINING", "REJOIN"}),
         f \in DataFuncs => m.devaddr /\ m.seqnoDn < DnLimit,
         f = "processRx2DnDataDelay" => m.frame = None,
         f \in DataFuncs <=> m.func \in DataFuncs
  PROVE  LET n == os_setTimedCallback(m, f) IN Good(n) /\ Plain(m, n) /\ Keeps(m, n)
<1> DEFINE n == [m EXCEPT !.func = f, !.due = "timed"]
<1>1. os_setTimedCallback(m, f) = n
  BY DEF os_setTimedCallback
<1>2. m \in Struct /\ f \in Callbacks
  BY DEF Idle, OpenFuncs, Callbacks
<1>3. n \in Struct
  BY <1>2 DEF Struct
<1>4. Busy(n)
  BY <1>2 DEF Struct, Idle, Busy, Stage, Purpose, Has, OpenFuncs, JoinFuncs, DataFuncs
<1>5. Plain(m, n)
  BY <1>2 DEF Plain, Raised, Struct, Idle
<1>6. Keeps(m, n)
  <2>1. /\ n.devaddr = m.devaddr /\ n.seqnoUp = m.seqnoUp /\ n.seqnoDn = m.seqnoDn
        /\ n.dnConf = m.dnConf /\ n.pendTx = m.pendTx /\ n.txCnt = m.txCnt
        /\ n.pendTxConf = m.pendTxConf /\ n.answers = m.answers /\ n.func = f
        /\ n.opmode = m.opmode /\ n.frame = m.frame /\ n.radio = m.radio
    BY <1>2 DEF Struct
  <2> HIDE DEF n
  <2>2. ~Sends(m) /\ ~Sends(n) /\ (Underway(n) <=> Underway(m))
    BY <2>1 DEF Idle, Sends, Underway
  <2> QED BY <2>1, <2>2, QuietKeeps
<1> QED BY <1>1, <1>2, <1>3, <1>4, <1>5, <1>6 DEF Good, Session, Idle, Struct

LEMMA WindowOpens ==
  ASSUME NEW m, Idle(m), "TXRXPEND" \in m.opmode, NEW f \in HeardFuncs,
         NEW flag \in {"DNW1", "DNW2"},
         f \in {"processRx1Jacc", "processRx1DnData"} => flag = "DNW1",
         f \in {"processRx2Jacc", "processRx2DnData"} => flag = "DNW2",
         f \in JoinFuncs => Has(m, {"JOINING", "REJOIN"}),
         f \in DataFuncs => m.devaddr /\ m.seqnoDn < DnLimit,
         f \in DataFuncs <=> m.func \in DataFuncs
  PROVE  LET n == StartRadio([m EXCEPT !.txrxFlags = {flag}, !.frame = None], "RX", f)
         IN  Good(n) /\ Plain(m, n) /\ Keeps(m, n)
<1> DEFINE n == [m EXCEPT !.txrxFlags = {flag}, !.frame = None, !.func = f, !.radio = "RX"]
<1>1. m \in Struct /\ f \in Callbacks /\ {flag} \in SUBSET WindowFlags /\ None \in FrameSet
  BY DEF Idle, HeardFuncs, Callbacks, WindowFlags, FrameSet
<1>2. StartRadio([m EXCEPT !.txrxFlags = {flag}, !.frame = None], "RX", f) = n
  BY <1>1 DEF StartRadio, Idle, Struct
<1>3. n \in Struct
  BY <1>1 DEF Struct
<1>4. /\ n.opmode = m.opmode /\ n.devaddr = m.devaddr /\ n.due = m.due /\ n.func = f
      /\ n.radio = "RX" /\ n.halted = m.halted /\ n.seqnoDn = m.seqnoDn
      /\ n.txrxFlags = {flag} /\ n.events = m.events /\ n.adrAckReq = m.adrAckReq
  BY <1>1 DEF Struct
<1>7. /\ n.seqnoUp = m.seqnoUp /\ n.dnConf = m.dnConf /\ n.pendTx = m.pendTx
      /\ n.txCnt = m.txCnt /\ n.pendTxConf = m.pendTxConf /\ n.answers = m.answers
      /\ n.frame = None
  BY <1>1 DEF Struct
<1> HIDE DEF n
<1>8. Keeps(m, n)
  <2>1. /\ ~Sends(m) /\ ~Sends(n) /\ (Underway(n) <=> Underway(m))
    BY <1>4, <1>7 DEF Idle, Sends, Underway, None
  <2> QED BY <1>4, <1>7, <2>1, QuietKeeps
<1>5. Busy(n)
  BY <1>4 DEF Idle, Busy, Stage, Purpose, Has, HeardFuncs
<1>6. Plain(m, n)
  BY <1>4 DEF Plain, Raised, Idle
<1> QED BY <1>2, <1>3, <1>4, <1>5, <1>6, <1>8 DEF Good, Session, Idle

(* No answer to a join request: the next try is armed, or the attempt to   *)
(* join again given up.                                                    *)
LEMMA JoinLost ==
  ASSUME Prompt, NEW m, Idle(m), Has(m, {"JOINING", "REJOIN"}), m.func \notin DataFuncs,
         NEW n \in NoJoinFrame(m)
  PROVE  Good(n) /\ Plain(m, n) /\ Keeps(m, n)
<1>0. m \in Struct
  BY DEF Idle
<1>1. CASE "JOINING" \notin m.opmode
  <2> DEFINE mode == m.opmode \ {"REJOIN", "TXRXPEND"}
             cnt == IF m.rejoinCnt < MaxRejoin THEN m.rejoinCnt + 1 ELSE m.rejoinCnt
             e == [m EXCEPT !.opmode = mode, !.rejoinCnt = cnt]
  <2>1. n \in reportEvent(e, "EV_REJOIN_FAILED")
    BY <1>0, <1>1 DEF NoJoinFrame, Assert, Has, Clear, Struct
  <2>2. cnt \in RejoinCounts /\ mode \in SUBSET Flags /\ "TXRXPEND" \notin mode
    BY <1>0, CountsAssumption DEF RejoinCounts, Struct
  <2>3. /\ "LINKDEAD" \in mode <=> "LINKDEAD" \in m.opmode
        /\ "JOINING" \notin mode /\ ("POLL" \in mode <=> "POLL" \in m.opmode)
        /\ ("TXDATA" \in mode <=> "TXDATA" \in m.opmode)
    BY <1>1
  <2> HIDE DEF mode, cnt
  <2>4. e \in Struct
    BY <1>0, <2>2 DEF Struct
  <2>5. Good(e) /\ e.events = <<>>
    BY <2>2, <2>3, <2>4 DEF Good, Struct, Session, Asleep, Idle
  <2>6. Good(n) /\ Plain(e, n) /\ Keeps(e, n)
    BY <2>1, <2>5, PlainEvent
  <2>7. Keeps(m, n)
    <3>1. /\ e.devaddr = m.devaddr /\ e.seqnoUp = m.seqnoUp /\ e.seqnoDn = m.seqnoDn
          /\ e.dnConf = m.dnConf /\ e.pendTx = m.pendTx /\ e.txCnt = m.txCnt
          /\ e.pendTxConf = m.pendTxConf /\ e.answers = m.answers /\ e.func = m.func
          /\ e.opmode = mode /\ e.frame = m.frame /\ e.radio = m.radio
      BY <1>0 DEF Struct
    <3> HIDE DEF e
    <3>2. ~Sends(m) /\ ~Sends(e) /\ ~Underway(e) /\ ~Underway(m)
      BY <3>1 DEF Idle, Sends, Underway
    <3>3. Keeps(m, e)
      BY <2>3, <3>1, <3>2, QuietKeeps
    <3> QED BY <2>6, <3>3 DEF Keeps
  <2> QED BY <1>0, <2>3, <2>6, <2>7 DEF Plain, Struct
<1>2. CASE "JOINING" \in m.opmode
  <2> DEFINE mode == m.opmode \ {"TXRXPEND"}
             cnt == (m.txCnt + 1) % CntMod
             rate == IF cnt % 2 = 0 THEN decDR(m.datarate) ELSE m.datarate
             f == IF JoinRoundFailed(m) THEN "onJoinFailed" ELSE "runEngineUpdate"
             e == [m EXCEPT !.opmode = mode, !.txCnt = cnt, !.datarate = rate,
                            !.func = f, !.due = "timed"]
  <2>1. n = e
    BY <1>0, <1>2 DEF NoJoinFrame, nextJoinState, os_setTimedCallback, Clear, Struct
  <2>2. mode \in SUBSET Flags /\ "TXRXPEND" \notin mode /\ "JOINING" \in mode
    BY <1>0, <1>2 DEF Struct
  <2>3. cnt \in Tries
    BY <1>0, CountsAssumption DEF Tries, Struct
  <2>4. rate \in DataRates
    BY <1>0, LowerRate DEF decDR, Struct
  <2>5. f \in Callbacks /\ f \in EngineFuncs
    BY DEF Callbacks, EngineFuncs
  <2>6. ("POLL" \in mode <=> "POLL" \in m.opmode) /\ ("TXDATA" \in mode <=> "TXDATA" \in m.opmode)
    OBVIOUS
  <2>7. ~m.devaddr
    BY <1>2 DEF Idle, Session
  <2> HIDE DEF mode, cnt, rate, f
  <2>8. e \in Struct
    BY <1>0, <2>2, <2>3, <2>4, <2>5 DEF Struct
  <2>9. Good(e)
    BY <1>0, <2>2, <2>5, <2>6, <2>7, <2>8 DEF Good, Struct, Session, Asleep, Idle
  <2>10. Plain(m, e)
    BY <1>0, <2>7 DEF Plain, Raised, Struct, Idle
  <2>11. Keeps(m, e)
    <3>1. /\ e.devaddr = m.devaddr /\ e.seqnoUp = m.seqnoUp /\ e.seqnoDn = m.seqnoDn
          /\ e.dnConf = m.dnConf /\ e.pendTx = m.pendTx
          /\ e.pendTxConf = m.pendTxConf /\ e.answers = m.answers /\ e.func = f
          /\ e.opmode = mode /\ e.frame = m.frame /\ e.radio = m.radio
      BY <1>0 DEF Struct
    <3> HIDE DEF e
    <3>2. ~Sends(m) /\ ~Sends(e) /\ ~Underway(e) /\ ~Underway(m)
      BY <2>2, <3>1 DEF Idle, Sends, Underway
    <3> QED BY <2>6, <2>7, <3>1, <3>2, QuietKeeps
  <2> QED BY <2>1, <2>9, <2>10, <2>11
<1> QED BY <1>1, <1>2

(* A join accept starts a session.                                         *)
LEMMA JoinWon ==
  ASSUME Prompt, NEW m, Idle(m), Has(m, {"JOINING", "REJOIN"}), NEW n \in Joined(m)
  PROVE  Good(n) /\ Fresh(n) /\ Anew(n)
<1>0. m \in Struct
  BY DEF Idle
<1> DEFINE rate == IF "REJOIN" \in m.opmode THEN lowerDR(m.datarate, m.rejoinCnt)
                   ELSE m.datarate
           mode == m.opmode \ {"JOINING", "REJOIN", "TXRXPEND"}
           e == [m EXCEPT !.devaddr = TRUE, !.datarate = rate, !.txCnt = 0, !.opmode = mode,
                          !.seqnoDn = 0, !.seqnoUp = 0, !.rejoinCnt = 0, !.dnConf = FALSE,
                          !.adrChanged = FALSE, !.answers = {}, !.adrAckReq = LinkInit]
<1>1. n \in reportEvent(e, "EV_JOINED")
  BY <1>0 DEF Joined, Assert, Clear, stateJustJoined, Struct
<1>2. rate \in DataRates
  <2>1. m.datarate \in DataRates /\ m.rejoinCnt \in Nat
    BY <1>0, CountsAssumption DEF Struct, RejoinCounts
  <2> QED BY <2>1, LowerRate
<1>3. mode \in SUBSET Flags /\ "JOINING" \notin mode /\ "TXRXPEND" \notin mode
  BY <1>0 DEF Struct
<1>4. /\ 0 \in Tries /\ 0 \in DnNumbers /\ 0 \in UpNumbers /\ 0 \in RejoinCounts
      /\ LinkInit \in CheckCounts
  BY CountsAssumption, LinkAssumption
  DEF Tries, DnNumbers, UpNumbers, RejoinCounts, CheckCounts
<1> HIDE DEF rate, mode
<1>5. e \in Struct
  BY <1>0, <1>2, <1>3, <1>4 DEF Struct
<1>6. e.devaddr /\ e.events = <<>> /\ e.adrAckReq = LinkInit
  BY <1>0 DEF Struct, Idle
<1>7. Good(e)
  BY <1>0, <1>3, <1>5 DEF Good, Struct, Session, Asleep, Idle
<1>8. /\ Good(n) /\ Reported(e, "EV_JOINED", n) /\ Keeps(e, n)
      /\ Len(n.events) = 1 /\ n.events[1].ev = "EV_JOINED"
  <2>1. "EV_JOINED" \in Events
    BY DEF Events
  <2> HIDE DEF e
  <2> QED BY <1>1, <1>6, <1>7, <2>1, FirstEvent
<1>10. e.seqnoUp = 0 /\ e.txCnt = 0 /\ ~e.dnConf /\ e.opmode = mode /\ e.radio = m.radio
  BY <1>0 DEF Struct
<1> HIDE DEF e
<1>11. Anew(n)
  <2>1. ~Sends(e) /\ ~Underway(e)
    BY <1>3, <1>10 DEF Idle, Sends, Underway
  <2>2. NoUplink \in SentSet /\ NoUplink.seqno = -1
    BY DEF NoUplink, SentSet
  <2>3. Numbered(e, NoUplink)
    BY <1>6, <1>10, <2>1, <2>2 DEF Numbered, Repeats, Tied
  <2>4. Follows(e, NoUplink, FALSE)
    BY <2>1, <2>3 DEF Follows, After, Owes
  <2> QED BY <1>8, <2>4 DEF Keeps, Anew
<1>9. n.adrAckReq <= 0 /\ (KeepsCheck => n.adrAckReq >= LinkInit)
  BY <1>6, <1>8, LinkAssumption DEF Reported, Raised
<1> QED BY <1>8, <1>9, <1>11 DEF Fresh, NewSession, Shown

LEMMA JoinFrameProcessed ==
  ASSUME Prompt, NEW m, Idle(m), "TXRXPEND" \in m.opmode, Has(m, {"JOINING", "REJOIN"}),
         m.txrxFlags # {"DNW1"} \/ m.frame # None, m.func \notin DataFuncs,
         NEW n \in processJoinAccept(m)
  PROVE  Good(n) /\ ((Plain(m, n) /\ Keeps(m, n)) \/ (Fresh(n) /\ Anew(n)))
<1>1. CASE m.frame = Accept
  BY <1>1, JoinWon DEF processJoinAccept, Assert, InWindow, Has
<1>2. CASE m.frame # Accept /\ m.frame # None /\ "DNW1" \in m.txrxFlags
  <2>1. n = os_setTimedCallback(m, "setupRx2Jacc")
    BY <1>2 DEF processJoinAccept, Assert, InWindow, Has, schedRx12
  <2>2. "setupRx2Jacc" \in OpenFuncs /\ "setupRx2Jacc" \notin DataFuncs
    BY DEF OpenFuncs, DataFuncs
  <2> QED BY <2>1, <2>2, WindowAwaited
<1>3. CASE m.frame # Accept /\ ~(m.frame # None /\ "DNW1" \in m.txrxFlags)
  BY <1>3, JoinLost DEF processJoinAccept, Assert, InWindow, Has
<1> QED BY <1>1, <1>2, <1>3

(* A frame with data came from the air.                                    *)
LEMMA DataFrame ==
  ASSUME NEW m \in Struct, m.frame.type = "data"
  PROVE  /\ m.frame.seqno \in Nat /\ m.frame.conf \in BOOLEAN
         /\ m.frame \in FrameSet /\ m.frame # None
<1>1. m.frame \in FrameSet
  BY DEF Struct
<1>2. m.frame \in Downlinks /\ m.frame \notin {None, Bad, Accept}
  BY <1>1 DEF FrameSet, None, Bad, Accept
<1> QED BY <1>1, <1>2, DownlinksAssumption

(* The completed number is never below the expected one: what decodeFrame  *)
(* has for a repeated confirmed frame is not reached.                      *)
LEMMA NoReplay ==
  ASSUME NEW m \in Struct, NEW f, f.seqno \in Nat
  PROVE  Number(m, f) \in m.seqnoDn..(m.seqnoDn + SeqMod - 1) /\ ~Replay(m, f)
<1>1. m.seqnoDn \in Nat /\ SeqMod \in Nat \ {0}
  BY CountsAssumption DEF Struct, DnNumbers
<1>2. (f.seqno % SeqMod) - m.seqnoDn \in Int
  BY <1>1
<1>3. ((f.seqno % SeqMod) - m.seqnoDn) % SeqMod \in 0..(SeqMod - 1)
  BY <1>1, <1>2
<1> QED BY <1>1, <1>3 DEF Number, Replay

(* What the MAC commands change.                                           *)
LEMMA OptionsTaken ==
  ASSUME NEW m \in Struct, NEW cmd
  PROVE  LET n == Options(m, cmd)
         IN  /\ n \in Struct /\ n.opmode \ {"SHUTDOWN"} = m.opmode \ {"SHUTDOWN"}
             /\ n.devaddr = m.devaddr /\ n.due = m.due /\ n.radio = m.radio
             /\ n.halted = m.halted /\ n.events = m.events /\ n.txrxFlags = m.txrxFlags
             /\ n.adrAckReq = m.adrAckReq
             /\ n.txCnt = m.txCnt /\ n.seqnoUp = m.seqnoUp /\ n.dnConf = m.dnConf
<1>1. CASE cmd.name = "LADR"
  <2> DEFINE rate == IF cmd.dr \in DataRates THEN cmd.dr ELSE m.datarate
             new == m.answers \union {"LADR"}
  <2>1. Options(m, cmd) = [m EXCEPT !.answers = new, !.adrChanged = TRUE, !.datarate = rate]
    BY <1>1 DEF Options
  <2>2. rate \in DataRates /\ new \in SUBSET Commands
    BY DEF Struct, Commands
  <2> HIDE DEF rate, new
  <2>3. Options(m, cmd) \in Struct
    BY <2>1, <2>2 DEF Struct
  <2> QED BY <2>1, <2>3 DEF Struct
<1>2. CASE cmd.name = "DCAP"
  <2> DEFINE mode == IF cmd.off THEN m.opmode \union {"SHUTDOWN"} ELSE m.opmode
             new == m.answers \union {"DCAP"}
  <2>1. Options(m, cmd) = [m EXCEPT !.opmode = mode, !.answers = new]
    BY <1>2 DEF Options, Set, Struct
  <2>2. mode \in SUBSET Flags /\ new \in SUBSET Commands
    BY DEF Struct, Flags, Commands
  <2>3. mode \ {"SHUTDOWN"} = m.opmode \ {"SHUTDOWN"}
    OBVIOUS
  <2> HIDE DEF mode, new
  <2>4. Options(m, cmd) \in Struct
    BY <2>1, <2>2 DEF Struct
  <2> QED BY <2>1, <2>3, <2>4 DEF Struct
<1>3. CASE cmd.name = "DEVS"
  <2> DEFINE new == m.answers \union {"DEVS"}
  <2>1. Options(m, cmd) = [m EXCEPT !.answers = new]
    BY <1>3 DEF Options
  <2>2. new \in SUBSET Commands
    BY DEF Struct, Commands
  <2> HIDE DEF new
  <2>3. Options(m, cmd) \in Struct
    BY <2>1, <2>2 DEF Struct
  <2> QED BY <2>1, <2>3 DEF Struct
<1>4. CASE cmd.name \notin {"LADR", "DCAP", "DEVS"}
  BY <1>4 DEF Options
<1> QED BY <1>1, <1>2, <1>3, <1>4

(* A downlink that is accepted.                                            *)
LEMMA FrameDecoded ==
  ASSUME NEW m, Idle(m), Underway(m), m.devaddr, m.seqnoDn < DnLimit, Decodes(m)
  PROVE  LET n == decodeFrame(m)
         IN  /\ Idle(n) /\ n.devaddr
             /\ \A s : \A d \in BOOLEAN : Follows(m, s, d) => Over(n, s, d \/ m.frame.conf)
             /\ n.txrxFlags \intersect {"DNW1", "DNW2"} = m.txrxFlags \intersect {"DNW1", "DNW2"}
             /\ n.adrAckReq = IF m.adrAckReq # LinkOff THEN LinkInit ELSE LinkOff
<1> DEFINE f == m.frame
           check == IF m.adrAckReq # LinkOff THEN LinkInit ELSE m.adrAckReq
           heard == [m EXCEPT !.seqnoDn = f.seqno + 1, !.dnConf = f.conf,
                              !.adrChanged = FALSE, !.rejoinCnt = 0, !.adrAckReq = check]
           c == Counted(m, f)
           o == Options(c, f.cmd)
           flags == m.txrxFlags \union {IF f.port THEN "PORT" ELSE "NOPORT"} \union
             (IF m.txCnt = 0 THEN {} ELSE IF f.ack THEN {"ACK"} ELSE {"NACK"})
           shown == IF f.port THEN f ELSE None
<1>1. m \in Struct /\ Session(m)
  BY DEF Idle
<1>2. f.seqno \in Nat /\ f.conf \in BOOLEAN /\ f \in FrameSet /\ ~Replay(m, f)
  BY <1>1, DataFrame, NoReplay DEF Decodes
<1>3. f.seqno + 1 \in DnNumbers /\ 0 \in RejoinCounts /\ check \in CheckCounts
  <2>1. f.seqno \in m.seqnoDn..(m.seqnoDn + SeqMod - 1)
    BY <1>1, <1>2, NoReplay DEF Decodes
  <2> QED BY <1>1, <1>2, <2>1, CountsAssumption, LinkAssumption
          DEF DnNumbers, RejoinCounts, CheckCounts, Struct
<1>4. c = heard \/ (c = Set(heard, {"POLL"}) /\ (heard.dnConf \/ f.more))
  BY <1>2 DEF Counted
<1>14. f.type = "data" /\ m.dnConf \in BOOLEAN
  BY <1>1 DEF Decodes, Struct
<1> HIDE DEF f, check, c
<1>5. heard \in Struct
  BY <1>1, <1>2, <1>3 DEF Struct
<1>6. /\ heard.opmode = m.opmode /\ heard.devaddr = m.devaddr /\ heard.due = m.due
      /\ heard.radio = m.radio /\ heard.halted = m.halted /\ heard.events = m.events
      /\ heard.txrxFlags = m.txrxFlags /\ heard.adrAckReq = check
      /\ heard.txCnt = m.txCnt /\ heard.seqnoUp = m.seqnoUp /\ heard.dnConf = f.conf
  BY <1>1 DEF Struct
<1> HIDE DEF heard
<1>7. /\ c \in Struct /\ c.opmode \in {m.opmode, m.opmode \union {"POLL"}}
      /\ c.devaddr = m.devaddr /\ c.due = m.due
      /\ c.radio = m.radio /\ c.halted = m.halted /\ c.events = m.events
      /\ c.txrxFlags = m.txrxFlags /\ c.adrAckReq = check
      /\ c.txCnt = m.txCnt /\ c.seqnoUp = m.seqnoUp /\ c.dnConf = f.conf
      /\ c.opmode # m.opmode => f.conf \/ f.more
  <2>1. CASE c = heard
    BY <1>5, <1>6, <2>1
  <2>2. CASE c = [heard EXCEPT !.opmode = @ \union {"POLL"}] /\ (heard.dnConf \/ f.more)
    <3>1. heard.opmode \union {"POLL"} \in SUBSET Flags
      BY <1>5 DEF Struct, Flags
    <3>2. c \in Struct
      BY <1>5, <2>2, <3>1 DEF Struct
    <3> QED BY <1>5, <1>6, <2>2, <3>2 DEF Struct
  <2> QED BY <1>4, <2>1, <2>2 DEF Set
<1>8. /\ o \in Struct /\ o.opmode \ {"SHUTDOWN"} = c.opmode \ {"SHUTDOWN"}
      /\ o.devaddr = m.devaddr /\ o.due = m.due
      /\ o.radio = m.radio /\ o.halted = m.halted /\ o.events = m.events
      /\ o.txrxFlags = m.txrxFlags /\ o.adrAckReq = check
      /\ o.txCnt = m.txCnt /\ o.seqnoUp = m.seqnoUp /\ o.dnConf = f.conf
  BY <1>7, OptionsTaken
<1>9. decodeFrame(m) = [o EXCEPT !.txrxFlags = flags, !.frame = shown]
  BY <1>8 DEF decodeFrame, f, c
<1> HIDE DEF o
<1>10. /\ flags \in SUBSET WindowFlags /\ shown \in FrameSet
       /\ flags \intersect {"DNW1", "DNW2"} = m.txrxFlags \intersect {"DNW1", "DNW2"}
  BY <1>1, <1>2 DEF Struct, WindowFlags, FrameSet
<1> HIDE DEF flags, shown
<1>11. decodeFrame(m) \in Struct
  BY <1>8, <1>9, <1>10, ZenonT(40) DEF Struct
<1>12. "JOINING" \notin o.opmode
  BY <1>1, <1>7, <1>8 DEF Session
<1>13. Idle(decodeFrame(m)) /\ decodeFrame(m).devaddr
  BY <1>1, <1>8, <1>9, <1>11, <1>12, ZenonT(40) DEF Idle, Session, Struct
<1>16. ASSUME NEW s, NEW d \in BOOLEAN, Follows(m, s, d)
       PROVE  Over(decodeFrame(m), s, d \/ m.frame.conf)
  <2> DEFINE n == decodeFrame(m)
  <2>1. /\ n.txCnt = m.txCnt /\ n.seqnoUp = m.seqnoUp /\ n.dnConf = f.conf
        /\ n.opmode = o.opmode /\ n.frame = shown
    BY <1>8, <1>9 DEF Struct
  <2> HIDE DEF n
  <2>2. Numbered(m, s) /\ Owes(m, d)
    BY <1>16 DEF Follows, After, Sends, Idle
  <2>3. ~d
    BY <2>2 DEF Owes
  <2>4. n.devaddr = m.devaddr
    BY <1>8, <1>9 DEF Struct, n
  <2>5. Tied(n, s)
    BY <2>1, <2>2, <2>4 DEF Numbered, Tied
  <2>6. Over(n, s, d \/ m.frame.conf)
    BY <2>1, <2>2, <2>3, <2>5 DEF Over, Numbered, f
  <2> QED BY <2>6 DEF n
<1> QED BY <1>8, <1>9, <1>10, <1>13, <1>16 DEF Struct, check

(* What the end of a data transaction does to the link check.              *)
Completed(m, n) ==
  /\ n.devaddr /\ Shown(n, "EV_TXCOMPLETE") /\ ~Shown(n, "EV_JOINED")
  /\ \A i \in 1..Len(n.events) :
       n.events[i].ev = "EV_TXCOMPLETE" => n.events[i].flags = m.txrxFlags
  /\ \/ /\ m.adrAckReq <= LinkDead /\ Raised(m.adrAckReq, n.adrAckReq)
        /\ ~Shown(n, "EV_LINK_DEAD")
        /\ m.txrxFlags \intersect {"DNW1", "DNW2"} = {} /\ "LINKDEAD" \in m.opmode
             => "LINKDEAD" \in n.opmode
     \/ /\ m.adrAckReq > LinkDead /\ n.adrAckReq = LinkCont
        /\ "LINKDEAD" \in n.opmode

(* Every way to end a transaction leaves the engine in order, with none or *)
(* the next uplink under way.                                              *)
LEMMA Completes ==
  ASSUME Prompt, NEW m, Idle(m), m.devaddr, NEW n \in TxComplete(m)
  PROVE  /\ Good(n) /\ Completed(m, n) /\ n.seqnoDn = m.seqnoDn
         /\ \A s : \A d \in BOOLEAN : Over(m, s, d) => Follows(n, s, d)
<1> DEFINE mode == m.opmode \ {"TXDATA", "TXRXPEND"}
           e == [m EXCEPT !.opmode = mode]
           heard == m.txrxFlags \intersect {"DNW1", "DNW2"} # {}
<1>0. m \in Struct /\ "JOINING" \notin m.opmode
  BY DEF Idle, Session
<1>1. /\ mode \in SUBSET Flags /\ "TXRXPEND" \notin mode /\ "JOINING" \notin mode
      /\ "LINKDEAD" \in mode <=> "LINKDEAD" \in m.opmode
      /\ "POLL" \in mode <=> "POLL" \in m.opmode
      /\ "TXDATA" \notin mode
  BY <1>0 DEF Struct
<1>2. e = Clear(m, {"TXDATA", "TXRXPEND"})
  BY DEF Clear
<1> HIDE DEF mode
<1>3. e \in Struct
  BY <1>0, <1>1 DEF Struct
<1>4. /\ e.opmode = mode /\ e.devaddr /\ e.events = <<>> /\ e.txrxFlags = m.txrxFlags
      /\ e.adrAckReq = m.adrAckReq /\ ~e.halted /\ e.radio = "SLEEP" /\ e.due = "idle"
      /\ e.txCnt = m.txCnt /\ e.seqnoUp = m.seqnoUp /\ e.dnConf = m.dnConf
      /\ e.seqnoDn = m.seqnoDn /\ e.frame = m.frame
  BY <1>0 DEF Struct, Idle
<1>5. PICK r \in UNION {reportEvent(x, "EV_TXCOMPLETE") : x \in LinkAlive(e)} : n \in LinkLost(r)
  BY <1>2 DEF TxComplete
<1>6. PICK a \in LinkAlive(e) : r \in reportEvent(a, "EV_TXCOMPLETE")
  OBVIOUS
<1> HIDE DEF e
<1>7. Good(e)
  BY <1>1, <1>3, <1>4 DEF Good, Session, Asleep
<1>16. ASSUME NEW s, NEW d \in BOOLEAN, Over(m, s, d)
       PROVE  Follows(e, s, d)
  <2>1. ~Sends(e) /\ ~Underway(e)
    BY <1>1, <1>4 DEF Sends, Underway
  <2>2. m.devaddr /\ Tied(e, s)
    BY <1>4, <1>16 DEF Over, Tied
  <2>3. Numbered(e, s)
    BY <1>1, <1>4, <1>16, <2>1, <2>2 DEF Over, Numbered, Repeats
  <2> QED BY <1>4, <1>16, <2>1, <2>3 DEF Over, Follows, After, Owes
<1>8. /\ Good(a) /\ Keeps(e, a) /\ a.devaddr /\ a.txrxFlags = m.txrxFlags /\ Raised(m.adrAckReq, a.adrAckReq)
      /\ ~heard => ("LINKDEAD" \in a.opmode <=> "LINKDEAD" \in m.opmode)
      /\ Len(a.events) \in {0, 1} /\ \A i \in 1..Len(a.events) : a.events[i].ev = "EV_LINK_ALIVE"
  <2>1. CASE a = e
    BY <1>1, <1>4, <1>7, <2>1 DEF Raised, Keeps
  <2>2. CASE heard /\ a \in reportEvent(Clear(e, {"LINKDEAD"}), "EV_LINK_ALIVE")
    <3> DEFINE g == Clear(e, {"LINKDEAD"})
               alive == e.opmode \ {"LINKDEAD"}
    <3>1. /\ alive \in SUBSET Flags /\ "TXRXPEND" \notin alive /\ "JOINING" \notin alive
          /\ \A flag \in {"TXDATA", "POLL", "TXRXPEND"} : flag \in alive <=> flag \in e.opmode
      BY <1>1, <1>4
    <3>2. g = [e EXCEPT !.opmode = alive]
      BY DEF Clear
    <3> HIDE DEF g, alive
    <3>3. g \in Struct
      BY <1>3, <3>1, <3>2 DEF Struct
    <3>4. Good(g) /\ g.events = <<>> /\ g.devaddr /\ g.txrxFlags = m.txrxFlags
          /\ g.adrAckReq = m.adrAckReq
      BY <1>3, <1>4, <3>1, <3>2, <3>3 DEF Good, Session, Asleep, Struct
    <3>5. "EV_LINK_ALIVE" \in Events
      BY DEF Events
    <3>6. /\ Good(a) /\ Reported(g, "EV_LINK_ALIVE", a) /\ Keeps(g, a)
          /\ Len(a.events) = 1 /\ a.events[1].ev = "EV_LINK_ALIVE"
      BY <2>2, <3>4, <3>5, FirstEvent DEF g
    <3>7. Alike(e, g)
      BY <1>3, <3>1, <3>2 DEF Alike, Struct
    <3>8. Keeps(e, a)
      BY <3>6, <3>7, AlikeKeeps DEF Keeps
    <3> QED BY <2>2, <3>4, <3>6, <3>8 DEF Reported
  <2> QED BY <1>4, <1>6, <2>1, <2>2 DEF LinkAlive
<1>9. Good(r) /\ Reported(a, "EV_TXCOMPLETE", r) /\ Keeps(a, r)
  <2>1. "EV_TXCOMPLETE" \in Events
    BY DEF Events
  <2> QED BY <1>6, <1>8, <2>1, Reports
<1>10. /\ r.devaddr /\ r.txrxFlags = m.txrxFlags /\ Raised(m.adrAckReq, r.adrAckReq)
       /\ ~heard => ("LINKDEAD" \in r.opmode <=> "LINKDEAD" \in m.opmode)
  BY <1>8, <1>9 DEF Reported, Raised
<1>11. /\ Len(r.events) \in {1, 2} /\ r.events[Len(r.events)].ev = "EV_TXCOMPLETE"
       /\ \A i \in 1..Len(r.events) :
            \/ r.events[i].ev = "EV_TXCOMPLETE" /\ r.events[i].flags = m.txrxFlags
            \/ r.events[i].ev = "EV_LINK_ALIVE"
  <2>1. a.events \in Seq([ev : Events, flags : SUBSET WindowFlags])
    BY <1>8 DEF Good, Struct, Log
  <2> QED BY <1>8, <1>9, <2>1 DEF Reported
<1>12. r \in Struct /\ ~r.halted /\ m.adrAckReq \in Int /\ r.adrAckReq \in Int
  BY <1>0, <1>9, LinkAssumption DEF Good, Struct, CheckCounts
<1>17. /\ r.seqnoDn = m.seqnoDn
       /\ \A s : \A d \in BOOLEAN : Over(m, s, d) => Follows(r, s, d)
  BY <1>4, <1>8, <1>9, <1>16 DEF Keeps
<1>15. PICK k \in 1..2 : Len(r.events) = k /\ r.events[k].ev = "EV_TXCOMPLETE"
  BY <1>11
<1>13. CASE r.adrAckReq > LinkDead
  <2> DEFINE x == [r EXCEPT !.datarate = decDR(r.datarate), !.adrAckReq = LinkCont,
                            !.opmode = r.opmode \union {"REJOIN", "LINKDEAD"}]
  <2>1. n \in reportEvent(x, "EV_LINK_DEAD")
    BY <1>5, <1>12, <1>13 DEF LinkLost, Set, Struct
  <2>2. /\ decDR(r.datarate) \in DataRates /\ LinkCont \in CheckCounts
        /\ r.opmode \union {"REJOIN", "LINKDEAD"} \in SUBSET Flags
    BY <1>12, LowerRate, LinkAssumption DEF decDR, CheckCounts, Struct, Flags
  <2>3. x \in Struct
    BY <1>12, <2>2 DEF Struct
  <2>4. /\ x.opmode = r.opmode \union {"REJOIN", "LINKDEAD"} /\ x.devaddr = r.devaddr
        /\ x.events = r.events /\ x.txrxFlags = r.txrxFlags /\ x.adrAckReq = LinkCont
        /\ x.halted = r.halted /\ x.radio = r.radio /\ x.due = r.due /\ x.func = r.func
        /\ x.seqnoDn = r.seqnoDn /\ x.frame = r.frame
    BY <1>12 DEF Struct
  <2>12. Alike(r, x)
    <3>1. \A flag \in {"TXDATA", "POLL", "TXRXPEND"} : flag \in x.opmode <=> flag \in r.opmode
      BY <2>4
    <3> QED BY <1>12, <3>1 DEF Struct, Alike
  <2> HIDE DEF x
  <2>5. Good(x)
    <3>1. Session(x)
      BY <1>9, <2>4 DEF Good, Session
    <3>2. Asleep(r) => Asleep(x)
      BY <2>4 DEF Asleep
    <3>3. Busy(r) => Busy(x)
      BY <2>4 DEF Busy, Stage, Purpose, Has
    <3> QED BY <1>9, <2>3, <2>4, <3>1, <3>2, <3>3 DEF Good
  <2>6. Good(n) /\ Reported(x, "EV_LINK_DEAD", n) /\ Keeps(x, n)
    <3>1. "EV_LINK_DEAD" \in Events
      BY DEF Events
    <3> QED BY <2>1, <2>5, <3>1, Reports
  <2>7. n.devaddr /\ "LINKDEAD" \in n.opmode /\ n.adrAckReq = LinkCont
    BY <1>10, <2>4, <2>6, LinkAssumption DEF Reported, Raised
  <2>8. m.adrAckReq > LinkDead
    BY <1>10, <1>12, <1>13, LinkAssumption DEF Raised
  <2>9. n.events = Append(r.events, [ev |-> "EV_LINK_DEAD", flags |-> r.txrxFlags])
    BY <2>4, <2>6 DEF Reported
  <2>10. /\ Len(n.events) = Len(r.events) + 1
         /\ \A i \in 1..Len(r.events) : n.events[i] = r.events[i]
         /\ n.events[Len(r.events) + 1].ev = "EV_LINK_DEAD"
    BY <1>12, <2>9 DEF Struct, Log
  <2>11. Shown(n, "EV_TXCOMPLETE") /\ ~Shown(n, "EV_JOINED")
         /\ \A i \in 1..Len(n.events) :
              n.events[i].ev = "EV_TXCOMPLETE" => n.events[i].flags = m.txrxFlags
    <3>1. k \in 1..Len(n.events) /\ n.events[k].ev = "EV_TXCOMPLETE"
      BY <1>15, <2>10
    <3>3. Shown(n, "EV_TXCOMPLETE")
      BY <3>1 DEF Shown
    <3>4. ASSUME NEW i \in 1..Len(n.events)
          PROVE  /\ n.events[i].ev # "EV_JOINED"
                 /\ n.events[i].ev = "EV_TXCOMPLETE" => n.events[i].flags = m.txrxFlags
      <4>1. i \in 1..Len(r.events) \/ i = Len(r.events) + 1
        BY <1>11, <2>10
      <4> QED BY <1>11, <2>10, <4>1
    <3> QED BY <3>3, <3>4 DEF Shown
  <2>13. Keeps(r, n)
    BY <2>6, <2>12, AlikeKeeps DEF Keeps
  <2> QED BY <1>17, <2>6, <2>7, <2>8, <2>11, <2>13 DEF Completed, Keeps
<1>14. CASE ~(r.adrAckReq > LinkDead)
  <2>1. n = r
    BY <1>5, <1>14 DEF LinkLost
  <2>2. m.adrAckReq <= LinkDead
    BY <1>10, <1>12, <1>14, LinkAssumption DEF Raised
  <2>3. Shown(r, "EV_TXCOMPLETE") /\ ~Shown(r, "EV_JOINED") /\ ~Shown(r, "EV_LINK_DEAD")
    <3>2. Shown(r, "EV_TXCOMPLETE")
      <4>1. k \in 1..Len(r.events)
        BY <1>15
      <4> QED BY <1>15, <4>1 DEF Shown
    <3> QED BY <1>11, <3>2 DEF Shown
  <2> QED BY <1>9, <1>10, <1>11, <1>17, <2>1, <2>2, <2>3 DEF Completed
<1> QED BY <1>13, <1>14

(* A transaction that heard the network, and one that did not.             *)
Heard(m, n) ==
  \E x : /\ Completed(x, n) /\ x.txrxFlags \intersect {"DNW1", "DNW2"} # {}
         /\ x.adrAckReq = IF m.adrAckReq # LinkOff THEN LinkInit ELSE LinkOff

Missed(m, n) ==
  \E x : /\ Completed(x, n) /\ x.txrxFlags \intersect {"DNW1", "DNW2"} = {}
         /\ x.adrAckReq = IF m.adrAckReq # LinkOff THEN m.adrAckReq + 1 ELSE LinkOff
         /\ "LINKDEAD" \in x.opmode <=> "LINKDEAD" \in m.opmode

(* Nothing received: the next try is in order, or the end.                 *)
LEMMA NothingHeard ==
  ASSUME Prompt, NEW m, Idle(m), Underway(m), m.devaddr, m.adrAckReq # LinkDead + 1,
         NEW n \in NoRx(m)
  PROVE  Good(n) /\ (Plain(m, n) \/ Missed(m, n)) /\ Keeps(m, n)
<1>0. m \in Struct /\ "JOINING" \notin m.opmode
  BY DEF Idle, Session
<1>1. CASE m.txCnt \in 1..(Attempts - 1)
  <2> DEFINE mode == m.opmode \ {"TXRXPEND"}
             rate == lowerDR(m.datarate, Adjust[m.txCnt + 1])
             e == [m EXCEPT !.opmode = mode, !.txCnt = m.txCnt + 1, !.frame = None,
                            !.datarate = rate]
  <2>1. n \in engineUpdate(e)
    BY <1>0, <1>1 DEF NoRx, Clear, Struct
  <2>2. rate \in DataRates
    <3>1. m.txCnt + 1 \in 1..Attempts
      BY <1>1, CountsAssumption
    <3>2. Adjust[m.txCnt + 1] \in Nat
      BY <3>1, AdjustAssumption
    <3> QED BY <1>0, <3>2, LowerRate DEF Struct
  <2>3. m.txCnt + 1 \in Tries /\ None \in FrameSet
    BY <1>1, CountsAssumption DEF Tries, FrameSet
  <2>4. /\ mode \in SUBSET Flags /\ "TXRXPEND" \notin mode /\ "JOINING" \notin mode
        /\ "LINKDEAD" \in mode <=> "LINKDEAD" \in m.opmode
        /\ "TXDATA" \in mode <=> "TXDATA" \in m.opmode
        /\ "POLL" \in mode <=> "POLL" \in m.opmode
    BY <1>0 DEF Struct
  <2> HIDE DEF mode, rate
  <2>5. e \in Struct
    BY <1>0, <2>2, <2>3, <2>4 DEF Struct
  <2>6. e.opmode = mode /\ e.devaddr = m.devaddr /\ e.events = <<>> /\ e.halted = m.halted
        /\ e.adrAckReq = m.adrAckReq /\ e.radio = m.radio /\ e.due = m.due
    BY <1>0 DEF Struct, Idle
  <2>9. /\ e.seqnoUp = m.seqnoUp /\ e.dnConf = m.dnConf /\ e.pendTx = m.pendTx
        /\ e.pendTxConf = m.pendTxConf /\ e.answers = m.answers /\ e.frame = None
        /\ e.txCnt = m.txCnt + 1 /\ e.seqnoDn = m.seqnoDn
    BY <1>0 DEF Struct
  <2> HIDE DEF e
  <2>7. Good(e)
    BY <2>4, <2>5, <2>6 DEF Good, Session, Asleep, Idle
  <2>8. Good(n) /\ Effect(e, n) /\ Keeps(e, n)
    BY <2>1, <2>7, EngineRuns
  <2>10. ASSUME NEW s, NEW d \in BOOLEAN, Follows(m, s, d)
         PROVE  Follows(e, s, d)
    <3>1. ~Sends(m) /\ ~Sends(e) /\ ~Underway(e)
      BY <2>4, <2>6 DEF Idle, Sends, Underway
    <3>2. Numbered(m, s) /\ Owes(m, d)
      BY <2>10, <3>1 DEF Follows, After
    <3>3. Repeats(e, s)
      BY <1>1, <2>4, <2>6, <2>9, <3>1, <3>2, CountsAssumption DEF Repeats, Numbered
    <3>4. Tied(e, s)
      BY <1>1, <2>9, <3>2 DEF Tied, Numbered
    <3>5. Numbered(e, s)
      BY <2>6, <2>9, <3>1, <3>2, <3>3, <3>4 DEF Numbered
    <3> QED BY <2>9, <3>1, <3>2, <3>5 DEF Follows, After, Owes
  <2>11. Keeps(m, n)
    BY <2>8, <2>9, <2>10 DEF Keeps
  <2> QED BY <2>4, <2>6, <2>8, <2>11 DEF Effect, Plain
<1>2. CASE m.txCnt \notin 1..(Attempts - 1)
  <2> DEFINE flags == IF m.txCnt # 0 THEN {"NACK", "NOPORT"} ELSE {"NOPORT"}
             check == IF m.adrAckReq # LinkOff THEN m.adrAckReq + 1 ELSE m.adrAckReq
             e == [m EXCEPT !.txrxFlags = flags, !.adrAckReq = check, !.frame = None]
  <2>1. n \in TxComplete(e)
    BY <1>0, <1>2 DEF NoRx, Struct
  <2>2. flags \in SUBSET WindowFlags /\ flags \intersect {"DNW1", "DNW2"} = {}
    BY DEF WindowFlags
  <2>3. check \in CheckCounts /\ None \in FrameSet
    BY <1>0, LinkAssumption DEF Struct, CheckCounts, FrameSet
  <2> HIDE DEF flags, check
  <2>4. e \in Struct
    BY <1>0, <2>2, <2>3 DEF Struct
  <2>5. e.opmode = m.opmode /\ e.devaddr = m.devaddr /\ e.events = <<>> /\ e.halted = m.halted
        /\ e.adrAckReq = check /\ e.radio = m.radio /\ e.due = m.due /\ e.txrxFlags = flags
        /\ e.txCnt = m.txCnt /\ e.seqnoUp = m.seqnoUp /\ e.dnConf = m.dnConf
        /\ e.seqnoDn = m.seqnoDn /\ e.frame = None
    BY <1>0 DEF Struct, Idle
  <2> HIDE DEF e
  <2>6. Idle(e)
    BY <2>4, <2>5 DEF Idle, Session
  <2>7. /\ Good(n) /\ Completed(e, n) /\ n.seqnoDn = e.seqnoDn
        /\ \A s : \A d \in BOOLEAN : Over(e, s, d) => Follows(n, s, d)
    BY <2>1, <2>5, <2>6, Completes
  <2>8. ASSUME NEW s, NEW d \in BOOLEAN, Follows(m, s, d)
        PROVE  Over(e, s, d)
    <3>1. Numbered(m, s) /\ Owes(m, d)
      BY <2>8 DEF Follows, After, Sends, Idle
    <3> QED BY <2>5, <3>1 DEF Over, Numbered, Tied, Owes
  <2>9. Keeps(m, n)
    BY <2>5, <2>7, <2>8 DEF Keeps
  <2> QED BY <2>2, <2>5, <2>7, <2>9 DEF Missed, check
<1> QED BY <1>1, <1>2

LEMMA DownlinkProcessed ==
  ASSUME Prompt, NEW m, Idle(m), Underway(m), m.devaddr, m.seqnoDn < DnLimit,
         m.adrAckReq # LinkDead + 1,
         m.frame # None => m.txrxFlags \intersect {"DNW1", "DNW2"} # {},
         NEW n \in processDnData(m)
  PROVE  /\ Good(n)
         /\ \/ (Plain(m, n) \/ Missed(m, n)) /\ Keeps(m, n)
            \/ Heard(m, n) /\ Accepts(m, n)
<1>0. m \in Struct /\ "TXRXPEND" \in m.opmode /\ m.func \in DataFuncs
  BY DEF Idle, Underway
<1>1. CASE m.frame # None /\ Decodes(m)
  <2>1. n \in TxComplete(decodeFrame(m))
    BY <1>0, <1>1 DEF processDnData, Assert, InWindow, Has
  <2> DEFINE d == decodeFrame(m)
  <2>2. /\ Idle(d) /\ d.devaddr
        /\ d.txrxFlags \intersect {"DNW1", "DNW2"} = m.txrxFlags \intersect {"DNW1", "DNW2"}
        /\ d.adrAckReq = IF m.adrAckReq # LinkOff THEN LinkInit ELSE LinkOff
        /\ \A s : \A t \in BOOLEAN : Follows(m, s, t) => Over(d, s, t \/ m.frame.conf)
    BY <1>1, FrameDecoded
  <2> HIDE DEF d
  <2>3. /\ Good(n) /\ Completed(d, n)
        /\ \A s : \A t \in BOOLEAN : Over(d, s, t) => Follows(n, s, t)
    BY <2>1, <2>2, Completes DEF d
  <2>4. m.frame.type = "data" /\ m.frame.conf \in BOOLEAN
    BY <1>0, <1>1, DataFrame DEF Decodes
  <2>5. ASSUME NEW s, NEW t \in BOOLEAN, Follows(m, s, t)
        PROVE  Follows(n, s, t \/ (m.frame.type = "data" /\ m.frame.conf))
    <3>1. t \/ m.frame.conf \in BOOLEAN
      BY <2>4
    <3>2. PICK u \in BOOLEAN : u = (t \/ m.frame.conf)
      BY <2>4
    <3>3. Over(d, s, u)
      BY <2>2, <2>5, <3>2
    <3>4. Follows(n, s, u)
      BY <2>3, <3>3
    <3>5. u = (t \/ (m.frame.type = "data" /\ m.frame.conf))
      BY <2>4, <3>2
    <3> QED BY <3>4, <3>5
  <2>6. Accepts(m, n)
    BY <2>5 DEF Accepts
  <2> QED BY <1>1, <2>2, <2>3, <2>6 DEF Heard
<1>2. CASE m.frame # None /\ ~Decodes(m) /\ "DNW1" \in m.txrxFlags
  <2> DEFINE e == [m EXCEPT !.frame = None]
  <2>1. n = os_setTimedCallback(e, "setupRx2DnData")
    BY <1>0, <1>2 DEF processDnData, Assert, InWindow, Has, schedRx12
  <2>2. None \in FrameSet
    BY DEF FrameSet
  <2>3. e \in Struct
    BY <1>0, <2>2 DEF Struct
  <2>4. e.opmode = m.opmode /\ e.devaddr = m.devaddr /\ e.events = m.events
        /\ e.halted = m.halted /\ e.adrAckReq = m.adrAckReq /\ e.radio = m.radio
        /\ e.due = m.due /\ e.seqnoDn = m.seqnoDn /\ e.func = m.func
    BY <1>0 DEF Struct
  <2>8. /\ e.seqnoUp = m.seqnoUp /\ e.dnConf = m.dnConf /\ e.pendTx = m.pendTx
        /\ e.pendTxConf = m.pendTxConf /\ e.answers = m.answers /\ e.frame = None
        /\ e.txCnt = m.txCnt
    BY <1>0 DEF Struct
  <2> HIDE DEF e
  <2>5. Idle(e)
    BY <2>3, <2>4 DEF Idle, Session
  <2>6. /\ "setupRx2DnData" \in OpenFuncs /\ "setupRx2DnData" \notin JoinFuncs
        /\ "setupRx2DnData" \in DataFuncs
    BY DEF OpenFuncs, JoinFuncs, DataFuncs
  <2>7. Good(n) /\ Plain(e, n) /\ Keeps(e, n)
    BY <1>0, <2>1, <2>4, <2>5, <2>6, WindowAwaited
  <2>9. Keeps(m, e)
    <3>1. ~Sends(m) /\ ~Sends(e) /\ (Underway(e) <=> Underway(m))
      BY <2>4, <2>8 DEF Idle, Sends, Underway, None
    <3> QED BY <2>4, <2>8, <3>1, QuietKeeps
  <2>10. Keeps(m, n)
    BY <2>7, <2>9 DEF Keeps
  <2> QED BY <2>4, <2>7, <2>10 DEF Plain
<1>3. CASE ~(m.frame # None /\ Decodes(m)) /\ ~(m.frame # None /\ "DNW1" \in m.txrxFlags)
  <2>1. n \in NoRx(m)
    BY <1>0, <1>3 DEF processDnData, Assert, InWindow, Has
  <2> QED BY <2>1, NothingHeard
<1> QED BY <1>1, <1>2, <1>3

(* LMIC_reset leaves the job and the radio idle, whatever they were at.     *)
LEMMA Reset ==
  ASSUME NEW m, m \in Struct, ~m.halted, m.events = <<>>
  PROVE  LET z == LMIC_reset(m)
         IN  /\ Good(z) /\ Fresh(z) /\ Anew(z)
             /\ z.opmode = {} /\ ~z.devaddr /\ z.events = <<>> /\ z.adrAckReq = 0
<1> DEFINE z == LMIC_reset(m)
<1>1. z \in Struct
  <2>1. /\ 0 \in Tries /\ 0 \in DataRates /\ 0 \in UpNumbers /\ 0 \in DnNumbers
        /\ 0 \in CheckCounts /\ 0 \in RejoinCounts /\ None \in FrameSet /\ "none" \in Callbacks
    BY CountsAssumption, LinkAssumption
    DEF Tries, DataRates, UpNumbers, DnNumbers, CheckCounts, RejoinCounts, FrameSet, Callbacks
  <2> QED BY <2>1 DEF LMIC_reset, Struct
<1>2. /\ ~z.halted /\ z.opmode = {} /\ ~z.devaddr /\ z.radio = "SLEEP" /\ z.events = <<>>
      /\ z.adrAckReq = 0 /\ z.due = "idle" /\ z.seqnoUp = 0 /\ ~z.dnConf
  BY DEF LMIC_reset
<1> HIDE DEF z
<1>3. Good(z) /\ Fresh(z)
  BY <1>1, <1>2, LinkAssumption DEF Good, Session, Asleep, Fresh, NewSession, Shown
<1>4. Anew(z)
  <2>1. ~Sends(z) /\ ~Underway(z)
    BY <1>2 DEF Sends, Underway
  <2>2. NoUplink \in SentSet /\ NoUplink.seqno = -1
    BY DEF NoUplink, SentSet
  <2>3. Numbered(z, NoUplink)
    BY <1>2, <2>1, <2>2 DEF Numbered, Repeats, Tied
  <2> QED BY <2>1, <2>3 DEF Anew, Follows, After, Owes
<1> QED BY <1>2, <1>3, <1>4 DEF z

(* A reset: the session is gone and a join begins.                         *)
LEMMA Restarts ==
  ASSUME Prompt, NEW m, Idle(m), NEW n \in runReset(m)
  PROVE  Good(n) /\ Fresh(n) /\ Anew(n)
<1> DEFINE z == LMIC_reset(m)
           e == LMIC_startJoining(z)
<1>1. z \in Struct /\ ~z.halted /\ Session(z) /\ z.radio = "SLEEP"
  BY Reset DEF Idle, Good, Asleep, Busy
<1>2. z.opmode = {} /\ ~z.devaddr /\ z.events = <<>> /\ z.adrAckReq = 0 /\ Anew(z)
  BY Reset DEF Idle
<1> HIDE DEF z
<1>3. Good(e) /\ Effect(z, e) /\ Keeps(z, e) /\ e.adrAckReq = 0
  BY <1>1, <1>2, StartsJoining
<1>4. n \in reportEvent(e, "EV_RESET") /\ "EV_RESET" \in Events
  BY DEF runReset, e, z, Events
<1> HIDE DEF e
<1>5. /\ Good(n) /\ Reported(e, "EV_RESET", n) /\ Keeps(e, n)
      /\ Len(n.events) = 1 /\ n.events[1].ev = "EV_RESET"
  BY <1>2, <1>3, <1>4, FirstEvent DEF Effect
<1>6. n.adrAckReq = 0 /\ ~n.devaddr
  BY <1>2, <1>3, <1>5 DEF Reported, Raised, Effect
<1>7. Anew(n)
  BY <1>2, <1>3, <1>5 DEF Anew, Keeps
<1> QED BY <1>5, <1>6, <1>7, LinkAssumption DEF Fresh, NewSession, Shown

(* The callbacks when no transaction is under way.                         *)
LEMMA EngineCallback ==
  ASSUME Prompt, NEW m, Idle(m), Asleep(m), m.func \in EngineFuncs, NEW n \in Callback(m)
  PROVE  Good(n) /\ ((Plain(m, n) /\ Keeps(m, n)) \/ (Fresh(n) /\ Anew(n)))
<1>0. Good(m) /\ m.events = <<>>
  BY DEF Good, Idle
<1>1. CASE m.func = "startJoining"
  <2>1. n \in reportEvent(m, "EV_JOINING")
    BY <1>1 DEF Callback
  <2> QED BY <1>0, <2>1, PlainEvent
<1>2. CASE m.func = "runEngineUpdate"
  <2>1. n \in engineUpdate(m)
    BY <1>2 DEF Callback
  <2>2. Good(n) /\ Effect(m, n) /\ Keeps(m, n)
    BY <1>0, <2>1, EngineRuns
  <2> QED BY <1>0, <2>2 DEF Effect, Plain
<1>3. CASE m.func = "onJoinFailed"
  <2>1. n \in reportEvent(m, "EV_JOIN_FAILED")
    BY <1>3 DEF Callback
  <2> QED BY <1>0, <2>1, PlainEvent
<1>4. CASE m.func = "runReset"
  <2>1. n \in runReset(m)
    BY <1>4 DEF Callback
  <2> QED BY <2>1, Restarts
<1> QED BY <1>1, <1>2, <1>3, <1>4 DEF EngineFuncs

(* The callbacks of a transaction that asks to join.                       *)
LEMMA JoinCallback ==
  ASSUME Prompt, NEW m, Idle(m), "TXRXPEND" \in m.opmode, Purpose(m), m.func \in JoinFuncs,
         NEW n \in Callback(m)
  PROVE  Good(n) /\ ((Plain(m, n) /\ Keeps(m, n)) \/ (Fresh(n) /\ Anew(n)))
<1>0. Has(m, {"JOINING", "REJOIN"}) /\ m \in Struct /\ m.func \notin DataFuncs
  BY DEF Idle, Purpose, JoinFuncs, DataFuncs
<1>w. ASSUME NEW f \in {"setupRx1Jacc", "setupRx2Jacc"}
      PROVE  LET o == os_setTimedCallback(m, f) IN Good(o) /\ Plain(m, o) /\ Keeps(m, o)
  <2>1. f \in OpenFuncs /\ f \notin DataFuncs /\ f # "processRx2DnDataDelay"
    BY DEF OpenFuncs, DataFuncs
  <2> QED BY <1>0, <2>1, WindowAwaited
<1>1. CASE m.func = "jreqDone"
  <2>1. n = os_setTimedCallback(m, "setupRx1Jacc")
    BY <1>1 DEF Callback, txDone, schedRx12
  <2> QED BY <1>w, <2>1
<1>2. CASE m.func = "setupRx1Jacc"
  <2>1. n = StartRadio([m EXCEPT !.txrxFlags = {"DNW1"}, !.frame = None], "RX", "processRx1Jacc")
    BY <1>2 DEF Callback, setupRx1
  <2>2. "processRx1Jacc" \in HeardFuncs /\ "processRx1Jacc" \notin DataFuncs
    BY DEF HeardFuncs, DataFuncs
  <2> QED BY <1>0, <2>1, <2>2, WindowOpens
<1>3. CASE m.func = "setupRx2Jacc"
  <2>1. n = StartRadio([m EXCEPT !.txrxFlags = {"DNW2"}, !.frame = None], "RX", "processRx2Jacc")
    BY <1>3 DEF Callback, setupRx2
  <2>2. "processRx2Jacc" \in HeardFuncs /\ "processRx2Jacc" \notin DataFuncs
    BY DEF HeardFuncs, DataFuncs
  <2> QED BY <1>0, <2>1, <2>2, WindowOpens
<1>4. CASE m.func = "processRx1Jacc"
  <2>1. n \in processRx1Jacc(m)
    BY <1>4 DEF Callback
  <2>2. CASE m.frame = None
    BY <1>w, <2>1, <2>2 DEF processRx1Jacc, schedRx12
  <2>3. CASE m.frame # None
    BY <1>0, <2>1, <2>3, JoinFrameProcessed DEF processRx1Jacc
  <2> QED BY <2>2, <2>3
<1>5. CASE m.func = "processRx2Jacc"
  <2> DEFINE flags == IF m.frame = None THEN {} ELSE m.txrxFlags
             e == [m EXCEPT !.txrxFlags = flags]
  <2>1. n \in processJoinAccept(e)
    BY <1>0, <1>5 DEF Callback, processRx2Jacc, Struct
  <2>2. flags \in SUBSET WindowFlags /\ flags # {"DNW1"}
    BY <1>0, <1>5 DEF Purpose, Struct, WindowFlags
  <2> HIDE DEF flags
  <2>3. e \in Struct
    BY <1>0, <2>2 DEF Struct
  <2>4. e.opmode = m.opmode /\ e.devaddr = m.devaddr /\ e.events = m.events
        /\ e.halted = m.halted /\ e.adrAckReq = m.adrAckReq /\ e.radio = m.radio
        /\ e.due = m.due /\ e.txrxFlags = flags /\ e.func = m.func
    BY <1>0 DEF Struct
  <2>7. Keeps(m, e)
    <3>1. Alike(m, e)
      BY <1>0 DEF Struct, Alike
    <3> QED BY <3>1, AlikeKeeps
  <2> HIDE DEF e
  <2>5. Idle(e) /\ Has(e, {"JOINING", "REJOIN"})
    BY <1>0, <2>3, <2>4 DEF Idle, Session, Has
  <2>6. Good(n) /\ ((Plain(e, n) /\ Keeps(e, n)) \/ (Fresh(n) /\ Anew(n)))
    BY <1>0, <2>1, <2>2, <2>4, <2>5, JoinFrameProcessed
  <2>8. Keeps(e, n) => Keeps(m, n)
    BY <2>7 DEF Keeps
  <2> QED BY <2>4, <2>6, <2>8 DEF Plain
<1> QED BY <1>1, <1>2, <1>3, <1>4, <1>5 DEF JoinFuncs

(* The callbacks of a transaction that carries an uplink.                  *)
LEMMA DataCallback ==
  ASSUME Prompt, NEW m, Idle(m), "TXRXPEND" \in m.opmode, Purpose(m), m.func \in DataFuncs,
         m.adrAckReq # LinkDead + 1, NEW n \in Callback(m)
  PROVE  /\ Good(n)
         /\ \/ (Plain(m, n) \/ Missed(m, n)) /\ Keeps(m, n)
            \/ Heard(m, n) /\ Accepts(m, n)
<1>0. m.devaddr /\ m.seqnoDn < DnLimit /\ m \in Struct /\ Underway(m)
  BY DEF Purpose, Idle, Underway
<1>w. ASSUME NEW f \in {"setupRx1DnData", "setupRx2DnData"}
      PROVE  LET o == os_setTimedCallback(m, f) IN Good(o) /\ Plain(m, o) /\ Keeps(m, o)
  <2>1. f \in OpenFuncs /\ f \notin JoinFuncs /\ f # "processRx2DnDataDelay" /\ f \in DataFuncs
    BY DEF OpenFuncs, JoinFuncs, DataFuncs
  <2> QED BY <1>0, <2>1, WindowAwaited
<1>1. CASE m.func = "updataDone"
  <2>1. n = os_setTimedCallback(m, "setupRx1DnData")
    BY <1>1 DEF Callback, txDone, schedRx12
  <2> QED BY <1>w, <2>1
<1>2. CASE m.func = "setupRx1DnData"
  <2>1. n = StartRadio([m EXCEPT !.txrxFlags = {"DNW1"}, !.frame = None], "RX", "processRx1DnData")
    BY <1>2 DEF Callback, setupRx1
  <2>2. /\ "processRx1DnData" \in HeardFuncs /\ "processRx1DnData" \notin JoinFuncs
        /\ "processRx1DnData" \in DataFuncs
    BY DEF HeardFuncs, JoinFuncs, DataFuncs
  <2> QED BY <1>0, <2>1, <2>2, WindowOpens
<1>3. CASE m.func = "setupRx2DnData"
  <2>1. n = StartRadio([m EXCEPT !.txrxFlags = {"DNW2"}, !.frame = None], "RX", "processRx2DnData")
    BY <1>3 DEF Callback, setupRx2
  <2>2. /\ "processRx2DnData" \in HeardFuncs /\ "processRx2DnData" \notin JoinFuncs
        /\ "processRx2DnData" \in DataFuncs
    BY DEF HeardFuncs, JoinFuncs, DataFuncs
  <2> QED BY <1>0, <2>1, <2>2, WindowOpens
<1>4. CASE m.func = "processRx1DnData"
  <2>1. n \in processRx1DnData(m) /\ m.txrxFlags = {"DNW1"}
    BY <1>4 DEF Callback, Purpose
  <2>2. CASE m.frame = None
    BY <1>w, <2>1, <2>2 DEF processRx1DnData, schedRx12
  <2>3. CASE m.frame # None
    <3>1. n \in processDnData(m)
      BY <2>1, <2>3 DEF processRx1DnData
    <3>2. m.txrxFlags \intersect {"DNW1", "DNW2"} # {}
      BY <2>1
    <3> QED BY <1>0, <3>1, <3>2, DownlinkProcessed
  <2> QED BY <2>2, <2>3
<1>5. CASE m.func = "processRx2DnData"
  <2>1. n \in processRx2DnData(m) /\ m.txrxFlags = {"DNW2"}
    BY <1>5 DEF Callback, Purpose
  <2>2. CASE m.frame = None
    <3> DEFINE e == [m EXCEPT !.txrxFlags = {}]
    <3>1. n = os_setTimedCallback(e, "processRx2DnDataDelay")
      BY <2>1, <2>2 DEF processRx2DnData
    <3>2. e \in Struct
      BY <1>0 DEF Struct
    <3>3. e.opmode = m.opmode /\ e.devaddr = m.devaddr /\ e.events = m.events
          /\ e.halted = m.halted /\ e.adrAckReq = m.adrAckReq /\ e.radio = m.radio
          /\ e.due = m.due /\ e.frame = m.frame /\ e.seqnoDn = m.seqnoDn
          /\ e.func = m.func
      BY <1>0 DEF Struct
    <3>7. Keeps(m, e)
      <4>1. Alike(m, e)
        BY <1>0 DEF Struct, Alike
      <4> QED BY <4>1, AlikeKeeps
    <3> HIDE DEF e
    <3>4. Idle(e)
      BY <3>2, <3>3 DEF Idle, Session
    <3>5. /\ "processRx2DnDataDelay" \in OpenFuncs /\ "processRx2DnDataDelay" \notin JoinFuncs
          /\ "processRx2DnDataDelay" \in DataFuncs
      BY DEF OpenFuncs, JoinFuncs, DataFuncs
    <3>6. Good(n) /\ Plain(e, n) /\ Keeps(e, n)
      BY <1>0, <2>2, <3>1, <3>3, <3>4, <3>5, WindowAwaited
    <3>8. Keeps(m, n)
      BY <3>6, <3>7 DEF Keeps
    <3> QED BY <3>3, <3>6, <3>8 DEF Plain
  <2>3. CASE m.frame # None
    <3>1. n \in processDnData(m)
      BY <2>1, <2>3 DEF processRx2DnData
    <3>2. m.txrxFlags \intersect {"DNW1", "DNW2"} # {}
      BY <2>1
    <3> QED BY <1>0, <3>1, <3>2, DownlinkProcessed
  <2> QED BY <2>2, <2>3
<1>6. CASE m.func = "processRx2DnDataDelay"
  <2>1. n \in processDnData(m) /\ m.frame = None
    BY <1>6 DEF Callback, Purpose
  <2> QED BY <1>0, <2>1, DownlinkProcessed
<1> QED BY <1>1, <1>2, <1>3, <1>4, <1>5, <1>6 DEF DataFuncs
-----------------------------------------------------------------------------
(* The steps of the specification                                          *)

(* What a callback does to the struct and the history.                     *)
Tells(m, n) ==
  \/ (Plain(m, n) \/ Missed(m, n)) /\ Keeps(m, n)
  \/ Heard(m, n) /\ Accepts(m, n)
  \/ Fresh(n) /\ Anew(n)

(* What a step may do to the link check.                                   *)
Checked(m, n) == Plain(m, n) \/ Fresh(n) \/ Missed(m, n) \/ Heard(m, n)

(* Entry differs from LMIC in the log only.                                *)
LEMMA EntryFields ==
  ASSUME LMIC \in Struct
  PROVE  /\ Entry \in Struct /\ Entry.events = <<>> /\ Entry.opmode = LMIC.opmode
         /\ Entry.devaddr = LMIC.devaddr /\ Entry.txCnt = LMIC.txCnt
         /\ Entry.seqnoDn = LMIC.seqnoDn /\ Entry.adrAckReq = LMIC.adrAckReq
         /\ Entry.txrxFlags = LMIC.txrxFlags /\ Entry.frame = LMIC.frame
         /\ Entry.func = LMIC.func /\ Entry.due = LMIC.due /\ Entry.radio = LMIC.radio
         /\ Entry.halted = LMIC.halted /\ Alike(LMIC, Entry)
<1>1. <<>> \in Log
  BY DEF Log
<1> QED BY <1>1 DEF Entry, Struct, Alike

LEMMA EntryGood ==
  ASSUME IInv
  PROVE  Good(Entry) /\ Entry.adrAckReq # LinkDead + 1
<1>1. LMIC \in Struct
  BY DEF IInv, Good
<1> DEFINE e == Entry
<1>2. /\ e \in Struct /\ e.opmode = LMIC.opmode /\ e.devaddr = LMIC.devaddr
      /\ e.seqnoDn = LMIC.seqnoDn /\ e.adrAckReq = LMIC.adrAckReq
      /\ e.txrxFlags = LMIC.txrxFlags /\ e.frame = LMIC.frame /\ e.func = LMIC.func
      /\ e.due = LMIC.due /\ e.radio = LMIC.radio /\ e.halted = LMIC.halted
  BY <1>1, EntryFields
<1> HIDE DEF e
<1>3. Session(e) /\ (Asleep(LMIC) => Asleep(e))
  BY <1>2 DEF IInv, Good, Session, Asleep
<1>4. Busy(LMIC) => Busy(e)
  BY <1>2 DEF Busy, Stage, Purpose, Has
<1>5. Good(e) /\ e.adrAckReq # LinkDead + 1
  BY <1>2, <1>3, <1>4 DEF IInv, Good
<1> QED BY <1>5 DEF e

(* A step keeps the count below the verdict.                               *)
LEMMA CountKept ==
  ASSUME NEW m, NEW n, m \in Struct, m.adrAckReq # LinkDead + 1, Checked(m, n)
  PROVE  n.adrAckReq # LinkDead + 1
<1>1. CASE Plain(m, n) \/ Fresh(n)
  BY <1>1, LinkAssumption DEF Plain, Fresh, Raised
<1>2. ASSUME NEW x, Completed(x, n)
      PROVE  n.adrAckReq # LinkDead + 1
  BY <1>2, LinkAssumption DEF Completed, Raised
<1> QED BY <1>1, <1>2 DEF Checked, Missed, Heard

LEMMA RunStep ==
  ASSUME Prompt, IInv, RunOsjob
  PROVE  /\ IInv'
         /\ \E m \in Struct : /\ m.devaddr = LMIC.devaddr /\ m.adrAckReq = LMIC.adrAckReq
                              /\ m.opmode = LMIC.opmode /\ Checked(m, LMIC')
                              /\ Plain(m, LMIC') \/ Fresh(LMIC') \/ Underway(LMIC)
                              /\ Idle(m) /\ Alike(LMIC, m) /\ Tells(m, LMIC')
<1> DEFINE e == Entry
           m == [e EXCEPT !.due = "idle"]
<1>1. PICK n : n = LMIC'
  OBVIOUS
<1>2. n \in Callback(m) /\ LMIC.due # "idle"
  BY <1>1 DEF RunOsjob, os_clearCallback
<1>3. LMIC \in Struct /\ ~LMIC.halted /\ Session(LMIC) /\ LMIC.adrAckReq # LinkDead + 1
  BY DEF IInv, Good
<1>4. /\ e \in Struct /\ e.events = <<>> /\ e.opmode = LMIC.opmode /\ e.devaddr = LMIC.devaddr
      /\ e.seqnoDn = LMIC.seqnoDn /\ e.adrAckReq = LMIC.adrAckReq
      /\ e.txrxFlags = LMIC.txrxFlags /\ e.frame = LMIC.frame /\ e.func = LMIC.func
      /\ e.radio = LMIC.radio /\ e.halted = LMIC.halted /\ Alike(LMIC, e)
  BY <1>3, EntryFields
<1> HIDE DEF e
<1>5. m \in Struct
  BY <1>4 DEF Struct
<1>6. /\ m.events = <<>> /\ m.opmode = LMIC.opmode /\ m.devaddr = LMIC.devaddr
      /\ m.seqnoDn = LMIC.seqnoDn /\ m.adrAckReq = LMIC.adrAckReq
      /\ m.txrxFlags = LMIC.txrxFlags /\ m.frame = LMIC.frame /\ m.func = LMIC.func
      /\ m.radio = LMIC.radio /\ m.halted = LMIC.halted /\ m.due = "idle"
  BY <1>4 DEF Struct
<1>11. Alike(LMIC, m)
  BY <1>4 DEF Struct, Alike
<1> HIDE DEF m
<1>7. LMIC.radio = "SLEEP"
  BY <1>2 DEF IInv, Good, Asleep, Busy, Stage
<1>8. Idle(m)
  BY <1>3, <1>5, <1>6, <1>7 DEF Idle, Session
<1>9. /\ Good(n) /\ Checked(m, n) /\ Tells(m, n)
      /\ Plain(m, n) \/ Fresh(n) \/ Underway(LMIC)
  <2>1. CASE Asleep(LMIC)
    <3>1. Asleep(m) /\ m.func \in EngineFuncs
      BY <1>2, <1>6, <2>1 DEF Asleep
    <3>2. Good(n) /\ ((Plain(m, n) /\ Keeps(m, n)) \/ (Fresh(n) /\ Anew(n)))
      BY <1>2, <1>8, <3>1, EngineCallback
    <3> QED BY <3>2 DEF Checked, Tells
  <2>2. CASE Busy(LMIC)
    <3>1. Purpose(m) /\ "TXRXPEND" \in m.opmode
      BY <1>6, <2>2 DEF Busy, Purpose, Has
    <3>2. m.func \in JoinFuncs \/ m.func \in DataFuncs
      BY <1>2, <1>6, <1>7, <2>2 DEF Busy, Stage, SentFuncs, OpenFuncs, HeardFuncs,
         JoinFuncs, DataFuncs
    <3>3. CASE m.func \in JoinFuncs
      <4>1. Good(n) /\ ((Plain(m, n) /\ Keeps(m, n)) \/ (Fresh(n) /\ Anew(n)))
        BY <1>2, <1>8, <3>1, <3>3, JoinCallback
      <4> QED BY <4>1 DEF Checked, Tells
    <3>4. CASE m.func \in DataFuncs
      <4>1. /\ Good(n)
            /\ \/ (Plain(m, n) \/ Missed(m, n)) /\ Keeps(m, n)
               \/ Heard(m, n) /\ Accepts(m, n)
        BY <1>2, <1>3, <1>6, <1>8, <3>1, <3>4, DataCallback
      <4>2. Underway(LMIC)
        BY <1>6, <2>2, <3>4 DEF Busy, Underway
      <4> QED BY <4>1, <4>2 DEF Checked, Tells
    <3> QED BY <3>2, <3>3, <3>4
  <2> QED BY <2>1, <2>2 DEF IInv, Good
<1>10. n.adrAckReq # LinkDead + 1
  BY <1>3, <1>5, <1>6, <1>9, CountKept
<1> QED BY <1>1, <1>5, <1>6, <1>8, <1>9, <1>10, <1>11 DEF IInv

LEMMA InterruptStep ==
  ASSUME IInv, NEW frame \in Downlinks \union {None}, LMIC.radio # "SLEEP", Interrupt(frame)
  PROVE  Good(LMIC') /\ Plain(Entry, LMIC')
<1> DEFINE e == Entry
           o == [e EXCEPT !.radio = "SLEEP", !.frame = frame, !.func = LMIC.func, !.due = "ready"]
<1>1. PICK n : n = LMIC'
  OBVIOUS
<1>2. LMIC \in Struct /\ Session(LMIC) /\ ~LMIC.halted /\ Busy(LMIC)
  BY DEF IInv, Good, Asleep
<1>3. n = o
  BY <1>1 DEF Interrupt, os_setCallback
<1>4. /\ e \in Struct /\ e.events = <<>> /\ e.opmode = LMIC.opmode /\ e.devaddr = LMIC.devaddr
      /\ e.seqnoDn = LMIC.seqnoDn /\ e.adrAckReq = LMIC.adrAckReq
      /\ e.txrxFlags = LMIC.txrxFlags /\ e.halted = LMIC.halted
  BY <1>2, EntryFields
<1> HIDE DEF e
<1>5. frame \in FrameSet /\ LMIC.func \in Callbacks
  BY <1>2 DEF FrameSet, Struct
<1>6. o \in Struct
  BY <1>4, <1>5 DEF Struct
<1>7. /\ o.opmode = LMIC.opmode /\ o.devaddr = LMIC.devaddr /\ o.events = <<>>
      /\ o.seqnoDn = LMIC.seqnoDn /\ o.adrAckReq = LMIC.adrAckReq
      /\ o.txrxFlags = LMIC.txrxFlags /\ o.halted = LMIC.halted
      /\ o.func = LMIC.func /\ o.radio = "SLEEP" /\ o.due = "ready"
  BY <1>4 DEF Struct
<1> HIDE DEF o
<1>8. LMIC.func \in SentFuncs \union HeardFuncs
  BY <1>2 DEF Busy, Stage
<1>9. Busy(o)
  BY <1>2, <1>7, <1>8 DEF Busy, Stage, Purpose, Has, SentFuncs, HeardFuncs
<1>10. Good(o)
  BY <1>2, <1>6, <1>7, <1>9 DEF Good, Session
<1>11. Plain(e, o)
  BY <1>4, <1>7 DEF Plain, Raised
<1> QED BY <1>1, <1>3, <1>10, <1>11 DEF e

LEMMA SendStep ==
  ASSUME Prompt, IInv, do_send
  PROVE  /\ Good(LMIC') /\ Plain(Entry, LMIC') /\ LMIC'.seqnoDn = LMIC.seqnoDn
         /\ IF "TXRXPEND" \in LMIC.opmode THEN LMIC' = Entry
            ELSE \A s : \A d \in BOOLEAN :
                   Numbered(LMIC, s) /\ Owes(LMIC, d) => Follows(LMIC', s, d)
<1> DEFINE e == Entry
<1>1. PICK n : n = LMIC'
  OBVIOUS
<1>2. LMIC \in Struct /\ Good(e)
  BY EntryGood DEF IInv, Good
<1>3. /\ e.events = <<>> /\ e.opmode = LMIC.opmode /\ e \in Struct
      /\ e.devaddr = LMIC.devaddr /\ Alike(LMIC, e)
  BY <1>2, EntryFields
<1>4. CASE "TXRXPEND" \in LMIC.opmode
  <2>1. n = e
    BY <1>1, <1>4 DEF do_send
  <2>2. Plain(e, e) /\ e.seqnoDn = LMIC.seqnoDn
    BY <1>3 DEF Plain, Raised, Alike
  <2> QED BY <1>1, <1>2, <1>4, <2>1, <2>2
<1>5. CASE "TXRXPEND" \notin LMIC.opmode
  <2>1. PICK conf \in Confirmed : n \in LMIC_setTxData2(e, conf)
    BY <1>1, <1>5 DEF do_send
  <2> HIDE DEF e
  <2> DEFINE mode == e.opmode \union {"TXDATA"}
             cnt == IF "JOINING" \in e.opmode THEN e.txCnt ELSE 0
             x == [e EXCEPT !.opmode = mode, !.pendTxConf = conf, !.pendTx = Other(e.pendTx),
                            !.txCnt = cnt]
  <2>2. n \in engineUpdate(x)
    BY <1>3, <2>1 DEF LMIC_setTxData2, Set, Struct
  <2>3. /\ mode \in SUBSET Flags /\ ("TXRXPEND" \in mode <=> "TXRXPEND" \in e.opmode)
        /\ ("JOINING" \in mode <=> "JOINING" \in e.opmode)
        /\ ("POLL" \in mode <=> "POLL" \in e.opmode)
        /\ ("LINKDEAD" \in mode <=> "LINKDEAD" \in e.opmode)
    BY <1>3 DEF Struct, Flags
  <2>4. cnt \in Tries /\ conf \in BOOLEAN /\ Other(e.pendTx) \in {"a", "b"}
    BY <1>3, CountsAssumption, FlagsAssumption DEF Struct, Tries, Other
  <2> HIDE DEF mode, cnt
  <2>5. x \in Struct
    BY <1>3, <2>3, <2>4 DEF Struct
  <2>6. x.opmode = mode /\ x.devaddr = e.devaddr /\ x.events = e.events /\ x.halted = e.halted
        /\ x.adrAckReq = e.adrAckReq /\ x.radio = e.radio /\ x.due = e.due /\ x.func = e.func
        /\ x.txCnt = cnt /\ x.seqnoUp = e.seqnoUp /\ x.seqnoDn = e.seqnoDn
        /\ x.dnConf = e.dnConf
    BY <1>3 DEF Struct
  <2> HIDE DEF x
  <2>7. Good(x)
    BY <1>2, <1>3, <1>5, <2>3, <2>5, <2>6 DEF Good, Session, Asleep, Busy
  <2>8. Good(n) /\ Effect(x, n) /\ Keeps(x, n)
    BY <2>2, <2>7, EngineRuns
  <2>10. ASSUME NEW s, NEW d \in BOOLEAN, Numbered(LMIC, s), Owes(LMIC, d)
         PROVE  Follows(n, s, d)
    <3>1. ~Sends(x) /\ ~Underway(x)
      BY <1>2, <1>3, <1>5, <2>3, <2>6 DEF Good, Asleep, Busy, Sends, Underway
    <3>2. x.devaddr => x.txCnt = 0
      BY <1>2, <2>6 DEF cnt, Good, Session
    <3>3. Numbered(x, s)
      BY <1>3, <2>6, <2>10, <3>1, <3>2 DEF Alike, Numbered, Repeats, Tied
    <3>4. Follows(x, s, d)
      BY <1>3, <2>6, <2>10, <3>1, <3>3 DEF Alike, Follows, After, Owes
    <3> QED BY <2>8, <3>4 DEF Keeps
  <2>11. n.seqnoDn = LMIC.seqnoDn
    BY <1>3, <2>6, <2>8 DEF Keeps, Alike
  <2>9. Plain(e, n)
    BY <1>3, <2>3, <2>6, <2>8 DEF Effect, Plain
  <2> QED BY <1>1, <1>5, <2>8, <2>9, <2>10, <2>11 DEF e
<1> QED BY <1>4, <1>5

(* A flag that asks the engine for a frame.                                *)
LEMMA FlagSet ==
  ASSUME Prompt, NEW m, Good(m), m.devaddr, m.events = <<>>, NEW flag \in {"POLL", "REJOIN"},
         NEW n \in engineUpdate(Set(m, {flag}))
  PROVE  /\ Good(n) /\ Plain(m, n) /\ n.seqnoDn = m.seqnoDn
         /\ \A s : \A d \in BOOLEAN :
              Numbered(m, s) /\ Owes(m, d) =>
                IF m.radio = "TX" THEN Numbered(n, s) /\ Owes(n, d) ELSE Follows(n, s, d)
<1> DEFINE mode == m.opmode \union {flag}
           x == [m EXCEPT !.opmode = mode]
<1>0. m \in Struct /\ Session(m) /\ ~m.halted
  BY DEF Good
<1>1. n \in engineUpdate(x)
  BY DEF Set
<1>2. /\ mode \in SUBSET Flags /\ ("TXRXPEND" \in mode <=> "TXRXPEND" \in m.opmode)
      /\ ("JOINING" \in mode <=> "JOINING" \in m.opmode)
      /\ ("REJOIN" \in m.opmode => "REJOIN" \in mode)
      /\ ("SHUTDOWN" \in mode <=> "SHUTDOWN" \in m.opmode)
      /\ ("LINKDEAD" \in mode <=> "LINKDEAD" \in m.opmode)
      /\ ("TXDATA" \in mode <=> "TXDATA" \in m.opmode)
  BY <1>0 DEF Struct, Flags
<1> HIDE DEF mode
<1>3. x \in Struct
  BY <1>0, <1>2 DEF Struct
<1>9. /\ x.txCnt = m.txCnt /\ x.seqnoUp = m.seqnoUp /\ x.dnConf = m.dnConf
      /\ x.pendTx = m.pendTx /\ x.pendTxConf = m.pendTxConf /\ x.answers = m.answers
  BY <1>0 DEF Struct
<1>4. /\ x.opmode = mode /\ x.devaddr = m.devaddr /\ x.events = m.events /\ x.halted = m.halted
      /\ x.adrAckReq = m.adrAckReq /\ x.radio = m.radio /\ x.due = m.due /\ x.func = m.func
      /\ x.seqnoDn = m.seqnoDn /\ x.txrxFlags = m.txrxFlags /\ x.frame = m.frame
  BY <1>0 DEF Struct
<1> HIDE DEF x
<1>5. Session(x) /\ (Asleep(m) => Asleep(x))
  BY <1>0, <1>2, <1>4 DEF Session, Asleep
<1>6. Busy(m) => Busy(x)
  BY <1>2, <1>4 DEF Busy, Stage, Purpose, Has
<1>7. Good(x)
  BY <1>0, <1>3, <1>4, <1>5, <1>6 DEF Good
<1>8. Good(n) /\ Effect(x, n) /\ Keeps(x, n)
  BY <1>1, <1>7, EngineRuns
<1>10. n.seqnoDn = m.seqnoDn
  BY <1>4, <1>8 DEF Keeps
<1>11. ASSUME NEW s, NEW d \in BOOLEAN, Numbered(m, s), Owes(m, d)
       PROVE  IF m.radio = "TX" THEN Numbered(n, s) /\ Owes(n, d) ELSE Follows(n, s, d)
  <2>1. Underway(x) <=> Underway(m)
    BY <1>2, <1>4 DEF Underway
  <2>2. Repeats(x, s)
    BY <1>2, <1>4, <1>9, <1>11, <2>1 DEF Repeats, Numbered
  <2>3. Tied(x, s)
    BY <1>4, <1>9, <1>11 DEF Tied, Numbered
  <2>4. Numbered(x, s) /\ Owes(x, d)
    BY <1>2, <1>4, <1>9, <1>11, <2>1, <2>2, <2>3 DEF Numbered, Owes
  <2>5. CASE m.radio = "TX"
    <3>1. "TXRXPEND" \in m.opmode
      BY <2>5 DEF Good, Asleep, Busy
    <3>2. n = x
      BY <1>1, <1>2, <1>4, <3>1 DEF engineUpdate, Has
    <3> QED BY <2>4, <2>5, <3>2
  <2>6. CASE m.radio # "TX"
    <3>1. ~Sends(x)
      BY <1>4, <2>6 DEF Sends
    <3>2. Follows(x, s, d)
      BY <2>4, <3>1 DEF Follows, After
    <3> QED BY <1>8, <2>6, <3>2 DEF Keeps
  <2> QED BY <2>5, <2>6
<1> QED BY <1>2, <1>4, <1>8, <1>10, <1>11 DEF Effect, Plain

(* The engine sends no data frame if there is none to send.                *)
LEMMA NothingToSend ==
  ASSUME NEW m \in Struct, m.radio = "SLEEP", "TXDATA" \notin m.opmode, "POLL" \notin m.opmode,
         NEW n \in engineUpdate(m)
  PROVE  ~Sends(n)
<1>1. \/ n \in {m, LMIC_startJoining(m), os_setTimedCallback(m, "runEngineUpdate")}
      \/ n = transmit(m) /\ Has(m, {"JOINING", "REJOIN"})
  BY DEF engineUpdate, Has
<1>2. CASE n = m \/ n = os_setTimedCallback(m, "runEngineUpdate")
  BY <1>2 DEF os_setTimedCallback, Sends, Struct
<1>3. CASE n = LMIC_startJoining(m)
  BY <1>3 DEF LMIC_startJoining, os_setCallback, Set, Clear, Failed, Sends, Struct
<1>4. CASE n = transmit(m) /\ Has(m, {"JOINING", "REJOIN"})
  BY <1>4 DEF transmit, StartRadio, buildJoinRequest, Set, Clear, Sends, Struct
<1> QED BY <1>1, <1>2, <1>3, <1>4

(* Everything waiting to be sent is dropped, the radio goes to sleep.      *)
LEMMA DataCleared ==
  ASSUME Prompt, NEW m, Good(m), m.devaddr, m.events = <<>>, NEW n \in LMIC_clrTxData(m)
  PROVE  /\ Good(n) /\ Plain(m, n) /\ n.seqnoDn = m.seqnoDn /\ ~Sends(n)
         /\ \A s : \A d \in BOOLEAN : Numbered(m, s) /\ Owes(m, d) => Follows(n, s, d)
<1> DEFINE mode == m.opmode \ {"TXDATA", "TXRXPEND", "POLL"}
           x == [m EXCEPT !.opmode = mode, !.due = "idle", !.radio = "SLEEP"]
<1>0. m \in Struct /\ "JOINING" \notin m.opmode /\ ~m.halted
  BY DEF Good, Session
<1>1. n \in engineUpdate(x)
  BY <1>0 DEF LMIC_clrTxData, os_clearCallback, Clear, Struct
<1>2. /\ mode \in SUBSET Flags /\ "TXRXPEND" \notin mode /\ "JOINING" \notin mode
      /\ "POLL" \notin mode /\ ("LINKDEAD" \in mode <=> "LINKDEAD" \in m.opmode)
      /\ "TXDATA" \notin mode
  BY <1>0 DEF Struct
<1> HIDE DEF mode
<1>3. x \in Struct
  BY <1>0, <1>2 DEF Struct
<1>4. /\ x.opmode = mode /\ x.devaddr = m.devaddr /\ x.events = m.events /\ x.halted = m.halted
      /\ x.adrAckReq = m.adrAckReq /\ x.radio = "SLEEP" /\ x.due = "idle"
      /\ x.txCnt = m.txCnt /\ x.seqnoUp = m.seqnoUp /\ x.dnConf = m.dnConf
      /\ x.seqnoDn = m.seqnoDn /\ x.frame = m.frame
  BY <1>0 DEF Struct
<1> HIDE DEF x
<1>5. Good(x)
  BY <1>0, <1>2, <1>3, <1>4 DEF Good, Session, Asleep
<1>6. Good(n) /\ Effect(x, n) /\ Keeps(x, n)
  BY <1>1, <1>5, EngineRuns
<1>7. ~Sends(n)
  BY <1>1, <1>2, <1>3, <1>4, NothingToSend
<1>8. ASSUME NEW s, NEW d \in BOOLEAN, Numbered(m, s), Owes(m, d)
      PROVE  Follows(n, s, d)
  <2>1. ~Sends(x) /\ ~Underway(x)
    BY <1>2, <1>4 DEF Sends, Underway
  <2>2. Numbered(x, s)
    BY <1>2, <1>4, <1>8, <2>1 DEF Numbered, Repeats, Tied
  <2>3. Follows(x, s, d)
    BY <1>4, <1>8, <2>1, <2>2 DEF Follows, After, Owes
  <2> QED BY <1>6, <2>3 DEF Keeps
<1>9. n.seqnoDn = m.seqnoDn
  BY <1>4, <1>6 DEF Keeps
<1> QED BY <1>2, <1>4, <1>6, <1>7, <1>8, <1>9 DEF Effect, Plain

LEMMA ShutDown ==
  ASSUME NEW m, Good(m), m.events = <<>>
  PROVE  LET n == LMIC_shutdown(m)
         IN  /\ Good(n) /\ Plain(m, n) /\ n.seqnoDn = m.seqnoDn /\ ~Sends(n)
             /\ \A s : \A d \in BOOLEAN : Numbered(m, s) /\ Owes(m, d) => Follows(n, s, d)
<1> DEFINE mode == m.opmode \union {"SHUTDOWN"}
           n == [m EXCEPT !.due = "idle", !.opmode = mode, !.radio = "SLEEP"]
<1>0. m \in Struct /\ Session(m) /\ ~m.halted
  BY DEF Good
<1>1. LMIC_shutdown(m) = n
  BY <1>0 DEF LMIC_shutdown, os_clearCallback, Set, Struct
<1>2. /\ mode \in SUBSET Flags /\ ("TXRXPEND" \in mode <=> "TXRXPEND" \in m.opmode)
      /\ ("JOINING" \in mode <=> "JOINING" \in m.opmode)
      /\ ("REJOIN" \in mode <=> "REJOIN" \in m.opmode)
      /\ ("POLL" \in mode <=> "POLL" \in m.opmode)
      /\ "SHUTDOWN" \in mode
      /\ ("LINKDEAD" \in mode <=> "LINKDEAD" \in m.opmode)
      /\ ("TXDATA" \in mode <=> "TXDATA" \in m.opmode)
  BY <1>0 DEF Struct, Flags
<1> HIDE DEF mode
<1>3. n \in Struct
  BY <1>0, <1>2 DEF Struct
<1>4. /\ n.opmode = mode /\ n.devaddr = m.devaddr /\ n.events = m.events /\ n.halted = m.halted
      /\ n.adrAckReq = m.adrAckReq /\ n.radio = "SLEEP" /\ n.due = "idle" /\ n.func = m.func
      /\ n.seqnoDn = m.seqnoDn /\ n.txrxFlags = m.txrxFlags /\ n.frame = m.frame
  BY <1>0 DEF Struct
<1>8. /\ n.txCnt = m.txCnt /\ n.seqnoUp = m.seqnoUp /\ n.dnConf = m.dnConf
      /\ n.pendTx = m.pendTx /\ n.pendTxConf = m.pendTxConf /\ n.answers = m.answers
  BY <1>0 DEF Struct
<1> HIDE DEF n
<1>9. ~Sends(n)
  BY <1>4 DEF Sends
<1>10. ASSUME NEW s, NEW d \in BOOLEAN, Numbered(m, s), Owes(m, d)
       PROVE  Follows(n, s, d)
  <2>1. Underway(n) <=> Underway(m)
    BY <1>2, <1>4 DEF Underway
  <2>2. Repeats(n, s) /\ Tied(n, s)
    BY <1>2, <1>4, <1>8, <1>10, <2>1 DEF Numbered, Repeats, Tied
  <2>3. Numbered(n, s)
    BY <1>2, <1>4, <1>8, <1>10, <2>1, <2>2 DEF Numbered
  <2> QED BY <1>8, <1>9, <1>10, <2>1, <2>3 DEF Follows, After, Owes
<1>5. Session(n) /\ (Asleep(m) => Asleep(n))
  BY <1>0, <1>2, <1>4 DEF Session, Asleep
<1>6. Busy(m) => Busy(n)
  BY <1>2, <1>4 DEF Busy, Stage, Purpose, Has
<1>7. Good(n) /\ Plain(m, n)
  BY <1>0, <1>2, <1>3, <1>4, <1>5, <1>6 DEF Good, Plain, Raised
<1> QED BY <1>1, <1>4, <1>7, <1>9, <1>10

(* What a step from LMIC to n does to the history: the session goes on, a  *)
(* new one begins, or nothing is sent.                                     *)
GoesOn(n) ==
  /\ ~Shown(n, "EV_JOINED") /\ (Starts(n) <=> Sends(n))
  /\ Follows(n, sent, Owed(n))
Begins(n) == NewSession(n) /\ (Starts(n) <=> Sends(n)) /\ Anew(n)
Waits(n) ==
  /\ ~Shown(n, "EV_JOINED") /\ ~Starts(n) /\ n.seqnoDn = LMIC.seqnoDn
  /\ Numbered(n, sent) /\ Owes(n, ackDue)
Moves(n) == GoesOn(n) \/ Begins(n) \/ Waits(n)

(* A call outside the callbacks that leaves the downlinks alone.           *)
LEMMA CallMoves ==
  ASSUME LMIC \in Struct, NumberInv, NEW n, Plain(Entry, n), n.seqnoDn = LMIC.seqnoDn,
         IF LMIC.radio = "TX" THEN ~Starts(n) /\ Numbered(n, sent) /\ Owes(n, ackDue)
                              ELSE Follows(n, sent, ackDue)
  PROVE  Moves(n)
<1>1. ~Shown(n, "EV_JOINED")
  BY DEF Plain, Shown
<1>2. CASE LMIC.radio = "TX"
  BY <1>1, <1>2 DEF Moves, Waits
<1>3. CASE LMIC.radio # "TX"
  <2>1. Owed(n) <=> ackDue
    <3>1. ~(n.seqnoDn > LMIC.seqnoDn)
      BY CountsAssumption DEF Struct, DnNumbers
    <3> QED BY <3>1 DEF Owed
  <2>2. Follows(n, sent, Owed(n))
    BY <1>3, <2>1 DEF Follows, Owes
  <2>3. Starts(n) <=> Sends(n)
    BY <1>3 DEF Starts, Sends
  <2> QED BY <1>1, <2>2, <2>3 DEF Moves, GoesOn
<1> QED BY <1>2, <1>3

LEMMA CallStep ==
  ASSUME Prompt, IInv, NEW name \in Calls, OtherCall(name)
  PROVE  /\ Good(LMIC')
         /\ Plain(Entry, LMIC') \/ Fresh(LMIC')
         /\ NumberInv => Moves(LMIC')
<1> DEFINE e == Entry
<1>1. PICK n : n = LMIC'
  OBVIOUS
<1>2. LMIC \in Struct /\ Good(e) /\ LMIC.devaddr
  BY EntryGood DEF IInv, Good, OtherCall
<1>3. /\ e.events = <<>> /\ e.devaddr /\ e \in Struct /\ ~e.halted /\ e.radio = LMIC.radio
      /\ e.txCnt = LMIC.txCnt /\ e.seqnoDn = LMIC.seqnoDn /\ Alike(LMIC, e)
  BY <1>2, EntryFields DEF IInv, Good
<1>4. n \in Call(e, name)
  BY <1>1 DEF OtherCall
<1> HIDE DEF e
<1>7. ASSUME NumberInv
      PROVE  Numbered(e, sent) /\ Owes(e, ackDue) /\ ackDue \in BOOLEAN
  BY <1>3, <1>7 DEF NumberInv, Alike, Numbered, Repeats, Tied, Owes, Underway
<1>8. ASSUME NEW flag \in {"POLL", "REJOIN"}, n \in engineUpdate(Set(e, {flag}))
      PROVE  Good(n) /\ Plain(e, n) /\ (NumberInv => Moves(n))
  <2>1. /\ Good(n) /\ Plain(e, n) /\ n.seqnoDn = e.seqnoDn
        /\ \A s : \A d \in BOOLEAN :
             Numbered(e, s) /\ Owes(e, d) =>
               IF e.radio = "TX" THEN Numbered(n, s) /\ Owes(n, d) ELSE Follows(n, s, d)
    BY <1>2, <1>3, <1>8, FlagSet
  <2>2. ASSUME NumberInv
        PROVE  IF LMIC.radio = "TX" THEN ~Starts(n) /\ Numbered(n, sent) /\ Owes(n, ackDue)
                                    ELSE Follows(n, sent, ackDue)
    BY <1>3, <1>7, <2>1, <2>2 DEF Starts
  <2> QED BY <1>2, <1>3, <2>1, <2>2, CallMoves DEF e
<1>9. ASSUME Good(n), Plain(e, n), n.seqnoDn = e.seqnoDn, ~Sends(n),
             \A s : \A d \in BOOLEAN : Numbered(e, s) /\ Owes(e, d) => Follows(n, s, d)
      PROVE  NumberInv => Moves(n)
  <2>1. ASSUME NumberInv
        PROVE  Follows(n, sent, ackDue)
    BY <1>7, <1>9, <2>1
  <2>2. ~Starts(n)
    BY <1>9 DEF Starts, Sends
  <2>3. ASSUME NumberInv
        PROVE  Numbered(n, sent) /\ Owes(n, ackDue)
    BY <1>7, <1>9, <2>1, <2>3 DEF Follows, After, Owes
  <2> QED BY <1>2, <1>3, <1>9, <2>1, <2>2, <2>3, CallMoves DEF e
<1>5. Good(n) /\ (Plain(e, n) \/ Fresh(n)) /\ (NumberInv => Moves(n))
  <2>1. CASE name = "LMIC_sendAlive"
    <3>1. n \in engineUpdate(Set(e, {"POLL"}))
      BY <1>4, <2>1 DEF Call
    <3> QED BY <1>8, <3>1
  <2>2. CASE name = "LMIC_tryRejoin"
    <3>1. n \in engineUpdate(Set(e, {"REJOIN"}))
      BY <1>4, <2>2 DEF Call
    <3> QED BY <1>8, <3>1
  <2>3. CASE name = "LMIC_clrTxData"
    <3>1. n \in LMIC_clrTxData(e)
      BY <1>4, <2>3 DEF Call
    <3>2. /\ Good(n) /\ Plain(e, n) /\ n.seqnoDn = e.seqnoDn /\ ~Sends(n)
          /\ \A s : \A d \in BOOLEAN : Numbered(e, s) /\ Owes(e, d) => Follows(n, s, d)
      BY <1>2, <1>3, <3>1, DataCleared
    <3> QED BY <1>9, <3>2
  <2>4. CASE name = "LMIC_shutdown"
    <3>1. n = LMIC_shutdown(e)
      BY <1>4, <2>4 DEF Call
    <3>2. /\ Good(n) /\ Plain(e, n) /\ n.seqnoDn = e.seqnoDn /\ ~Sends(n)
          /\ \A s : \A d \in BOOLEAN : Numbered(e, s) /\ Owes(e, d) => Follows(n, s, d)
      BY <1>2, <1>3, <3>1, ShutDown
    <3> QED BY <1>9, <3>2
  <2>5. CASE name = "LMIC_reset"
    <3>1. n = LMIC_reset(e)
      BY <1>4, <2>5 DEF Call
    <3>2. Good(n) /\ Fresh(n) /\ Anew(n)
      BY <1>3, <3>1, Reset
    <3>3. n.radio = "SLEEP"
      BY <3>1 DEF LMIC_reset
    <3>4. Starts(n) <=> Sends(n)
      BY <3>3 DEF Starts, Sends
    <3> QED BY <3>2, <3>4 DEF Fresh, Moves, Begins
  <2> QED BY <2>1, <2>2, <2>3, <2>4, <2>5, CallsAssumption
<1> QED BY <1>1, <1>5 DEF e

LEMMA StructInit == Init => IInv /\ VerdictInv
<1> SUFFICES ASSUME Init
             PROVE  IInv /\ VerdictInv
  OBVIOUS
<1> DEFINE blank == LMIC_reset([pendTx |-> "a", halted |-> FALSE, events |-> <<>>])
<1>1. LMIC \in {blank, LMIC_setSession(blank)} /\ silent = 0
  BY DEF Init
<1>2. blank \in Struct
  <2>1. /\ 0 \in Tries /\ 0 \in DataRates /\ 0 \in UpNumbers /\ 0 \in DnNumbers
        /\ 0 \in CheckCounts /\ 0 \in RejoinCounts /\ None \in FrameSet /\ "none" \in Callbacks
        /\ <<>> \in Log
    BY CountsAssumption, LinkAssumption
    DEF Tries, DataRates, UpNumbers, DnNumbers, CheckCounts, RejoinCounts, FrameSet, Callbacks, Log
  <2> QED BY <2>1 DEF LMIC_reset, Struct
<1>3. /\ ~blank.halted /\ blank.opmode = {} /\ ~blank.devaddr /\ blank.radio = "SLEEP"
      /\ blank.events = <<>> /\ blank.adrAckReq = 0 /\ blank.due = "idle"
  BY DEF LMIC_reset
<1> HIDE DEF blank
<1>4. CASE LMIC = blank
  <2>1. ~Shown(LMIC, "EV_LINK_DEAD") /\ ~LMIC.devaddr /\ LMIC.adrAckReq = 0
    BY <1>3, <1>4 DEF Shown
  <2>2. VerdictInv
    BY <1>1, <2>1, LinkAssumption DEF VerdictInv, Agrees, MaxSilent
  <2> QED BY <1>2, <1>3, <1>4, <2>2, LinkAssumption DEF IInv, Good, Session, Asleep
<1>5. CASE LMIC = LMIC_setSession(blank)
  <2> DEFINE mode == {} \ {"JOINING", "REJOIN", "TXRXPEND"}
             x == [blank EXCEPT !.opmode = mode, !.devaddr = TRUE, !.seqnoDn = 0, !.seqnoUp = 0,
                     !.rejoinCnt = 0, !.dnConf = FALSE, !.adrChanged = FALSE, !.answers = {},
                     !.adrAckReq = LinkInit]
  <2>1. LMIC = x
    BY <1>2, <1>3, <1>5 DEF LMIC_setSession, stateJustJoined, Clear, Struct
  <2>2. /\ 0 \in UpNumbers /\ 0 \in DnNumbers /\ LinkInit \in CheckCounts /\ 0 \in RejoinCounts
        /\ mode \in SUBSET Flags /\ mode = {}
    BY CountsAssumption, LinkAssumption DEF UpNumbers, DnNumbers, CheckCounts, RejoinCounts
  <2> HIDE DEF mode
  <2>3. x \in Struct
    BY <1>2, <2>2 DEF Struct
  <2>4. /\ ~x.halted /\ x.opmode = {} /\ x.devaddr /\ x.radio = "SLEEP" /\ x.events = <<>>
        /\ x.adrAckReq = LinkInit /\ x.due = "idle"
    BY <1>2, <1>3, <2>2 DEF Struct
  <2> HIDE DEF x
  <2>5. ~Shown(x, "EV_LINK_DEAD")
    BY <2>4 DEF Shown
  <2>6. VerdictInv
    BY <1>1, <2>1, <2>4, <2>5, LinkAssumption DEF VerdictInv, Agrees, MaxSilent
  <2> QED BY <2>1, <2>3, <2>4, <2>6, LinkAssumption DEF IInv, Good, Session, Asleep
<1> QED BY <1>1, <1>4, <1>5

(* The silent transactions are counted as the link check counts them.      *)
LEMMA VerdictStep ==
  ASSUME IInv, VerdictInv, silent' = Silent(LMIC'), IInv',
         NEW m \in Struct, m.devaddr = LMIC.devaddr, m.adrAckReq = LMIC.adrAckReq,
         m.opmode = LMIC.opmode, Checked(m, LMIC')
  PROVE  VerdictInv'
<1>1. PICK n : n = LMIC'
  OBVIOUS
<1> SUFFICES Agrees(n, Silent(n))
  BY <1>1 DEF VerdictInv, Agrees, Shown
<1>2. n \in Struct
  BY <1>1 DEF IInv, Good
<1>3. silent' = Silent(n) /\ Checked(m, n)
  BY <1>1
<1>4. /\ m.adrAckReq \in CheckCounts /\ m.adrAckReq # LinkDead + 1
      /\ n.adrAckReq \in CheckCounts
  BY <1>2 DEF IInv, Struct
<1>5. /\ silent \in 0..MaxSilent /\ (m.adrAckReq <= silent \/ silent > LinkDead)
      /\ ~m.devaddr => silent = 0
      /\ KeepsCheck => /\ m.adrAckReq # LinkOff
                      /\ ("LINKDEAD" \in m.opmode \/ m.adrAckReq >= LinkInit + silent)
  BY DEF VerdictInv, Agrees
<1>6. LinkDead \in Int /\ LinkInit \in Int /\ MaxSilent = LinkDead - LinkInit + 1
  BY LinkAssumption DEF MaxSilent
<1>7. CASE Fresh(n)
  <2>1. Silent(n) = 0
    BY <1>7 DEF Fresh, Silent
  <2>2. KeepsCheck => n.adrAckReq # LinkOff
    BY <1>4, <1>7, LinkAssumption DEF Fresh, CheckCounts
  <2> QED BY <1>4, <1>6, <1>7, <2>1, <2>2, LinkAssumption DEF Fresh, Agrees, CheckCounts
<1>8. CASE Plain(m, n)
  <2>1. ~Shown(n, "EV_JOINED") /\ ~Shown(n, "EV_TXCOMPLETE") /\ ~Shown(n, "EV_LINK_DEAD")
    BY <1>8 DEF Plain, Shown
  <2>2. n.devaddr = m.devaddr /\ Raised(m.adrAckReq, n.adrAckReq)
    BY <1>8 DEF Plain
  <2>3. Silent(n) = silent
    BY <1>5, <2>1, <2>2 DEF Silent, NewSession
  <2>4. KeepsCheck => n.adrAckReq # LinkOff
    BY <1>4, <1>5, <2>2, LinkAssumption DEF Raised
  <2>5. n.adrAckReq <= silent \/ silent > LinkDead
    BY <1>4, <1>5, <1>6, <2>2 DEF Raised
  <2>6. CASE m.devaddr
    <3>1. KeepsCheck => "LINKDEAD" \in n.opmode \/ n.adrAckReq >= LinkInit + silent
      BY <1>4, <1>5, <1>6, <1>8, <2>2, <2>6, LinkAssumption DEF Plain, Raised, CheckCounts
    <3> QED BY <1>5, <2>1, <2>2, <2>3, <2>4, <2>5, <2>6, <3>1 DEF Agrees
  <2>7. CASE ~m.devaddr
    <3>1. KeepsCheck => n.adrAckReq >= LinkInit + silent
      BY <1>4, <1>5, <1>6, <2>4, <2>7, LinkAssumption DEF CheckCounts
    <3> QED BY <1>5, <2>1, <2>2, <2>3, <2>4, <2>5, <2>7, <3>1 DEF Agrees
  <2> QED BY <2>6, <2>7
<1>9. ASSUME NEW x, Completed(x, n)
      PROVE  /\ n.devaddr /\ ~NewSession(n) /\ Shown(n, "EV_TXCOMPLETE")
             /\ x.txrxFlags \intersect {"DNW1", "DNW2"} # {} => Silent(n) = 0
             /\ x.txrxFlags \intersect {"DNW1", "DNW2"} = {}
                  => Silent(n) = IF silent < MaxSilent THEN silent + 1 ELSE silent
  <2>1. n.devaddr /\ ~NewSession(n) /\ Shown(n, "EV_TXCOMPLETE")
    BY <1>9 DEF Completed, NewSession
  <2>2. \A i \in 1..Len(n.events) :
          n.events[i].ev = "EV_TXCOMPLETE" => n.events[i].flags = x.txrxFlags
    BY <1>9 DEF Completed
  <2>3. PICK i \in 1..Len(n.events) : n.events[i].ev = "EV_TXCOMPLETE"
    BY <2>1 DEF Shown
  <2>4. CASE x.txrxFlags \intersect {"DNW1", "DNW2"} # {}
    BY <2>1, <2>2, <2>3, <2>4 DEF Silent
  <2>5. CASE x.txrxFlags \intersect {"DNW1", "DNW2"} = {}
    BY <2>1, <2>2, <2>5 DEF Silent
  <2> QED BY <2>1, <2>4, <2>5
<1>10. CASE Heard(m, n)
  <2>1. PICK x : /\ Completed(x, n) /\ x.txrxFlags \intersect {"DNW1", "DNW2"} # {}
                 /\ x.adrAckReq = IF m.adrAckReq # LinkOff THEN LinkInit ELSE LinkOff
    BY <1>10 DEF Heard
  <2>2. Silent(n) = 0 /\ n.devaddr
    BY <1>9, <2>1
  <2>3. x.adrAckReq <= LinkDead
    BY <2>1, LinkAssumption
  <2>4. Raised(x.adrAckReq, n.adrAckReq) /\ ~Shown(n, "EV_LINK_DEAD")
    BY <2>1, <2>3, LinkAssumption DEF Completed
  <2>5. n.adrAckReq <= 0 /\ (KeepsCheck => n.adrAckReq # LinkOff /\ n.adrAckReq >= LinkInit)
    BY <1>5, <2>1, <2>4, LinkAssumption DEF Raised
  <2> QED BY <1>4, <1>6, <2>2, <2>4, <2>5, LinkAssumption DEF Agrees, CheckCounts
<1>11. CASE Missed(m, n)
  <2>1. PICK x : /\ Completed(x, n) /\ x.txrxFlags \intersect {"DNW1", "DNW2"} = {}
                 /\ x.adrAckReq = IF m.adrAckReq # LinkOff THEN m.adrAckReq + 1 ELSE LinkOff
                 /\ "LINKDEAD" \in x.opmode <=> "LINKDEAD" \in m.opmode
    BY <1>11 DEF Missed
  <2> DEFINE s == IF silent < MaxSilent THEN silent + 1 ELSE silent
  <2>2. Silent(n) = s /\ n.devaddr
    BY <1>9, <2>1
  <2>3. s \in 0..MaxSilent
    BY <1>5, <1>6
  <2>4. m.adrAckReq \in Int /\ x.adrAckReq \in Int /\ n.adrAckReq \in Int
    BY <1>4, <2>1, LinkAssumption DEF CheckCounts
  <2>5. x.adrAckReq <= s \/ s > LinkDead
    BY <1>5, <1>6, <2>1, <2>4, LinkAssumption
  <2>6. KeepsCheck => /\ x.adrAckReq # LinkOff
                      /\ ("LINKDEAD" \in x.opmode \/ x.adrAckReq >= LinkInit + s)
    BY <1>4, <1>5, <1>6, <2>1, <2>4, LinkAssumption DEF CheckCounts
  <2> HIDE DEF s
  <2>7. CASE x.adrAckReq <= LinkDead
    <3>1. /\ Raised(x.adrAckReq, n.adrAckReq) /\ ~Shown(n, "EV_LINK_DEAD")
          /\ "LINKDEAD" \in x.opmode => "LINKDEAD" \in n.opmode
      BY <2>1, <2>4, <2>7, <1>6 DEF Completed
    <3>2. n.adrAckReq <= s \/ s > LinkDead
      BY <1>6, <2>3, <2>4, <2>5, <3>1 DEF Raised
    <3>3. KeepsCheck => /\ n.adrAckReq # LinkOff
                        /\ ("LINKDEAD" \in n.opmode \/ n.adrAckReq >= LinkInit + s)
      BY <1>6, <2>3, <2>4, <2>6, <3>1, LinkAssumption DEF Raised
    <3> QED BY <2>2, <2>3, <3>1, <3>2, <3>3, <1>3, <1>1 DEF Agrees
  <2>8. CASE x.adrAckReq > LinkDead
    <3>1. n.adrAckReq = LinkCont /\ "LINKDEAD" \in n.opmode
      BY <1>6, <2>1, <2>4, <2>8 DEF Completed
    <3>2. s > LinkDead
      BY <1>6, <2>3, <2>4, <2>5, <2>8
    <3> QED BY <2>2, <2>3, <3>1, <3>2, LinkAssumption DEF Agrees
  <2> QED BY <1>6, <2>4, <2>7, <2>8
<1> QED BY <1>3, <1>7, <1>8, <1>10, <1>11 DEF Checked

LEMMA StructNext ==
  ASSUME Prompt, IInv, VerdictInv, [Next]_vars
  PROVE  IInv' /\ VerdictInv'
<1> DEFINE e == Entry
<1>1. Good(e) /\ e.adrAckReq # LinkDead + 1
  BY EntryGood
<1>2. e \in Struct /\ e.devaddr = LMIC.devaddr /\ e.adrAckReq = LMIC.adrAckReq
      /\ e.opmode = LMIC.opmode
  BY EntryFields DEF IInv, Good
<1>3. ASSUME Good(LMIC'), Checked(e, LMIC'), Observe
      PROVE  IInv' /\ VerdictInv'
  <2>1. PICK n : n = LMIC'
    OBVIOUS
  <2> HIDE DEF e
  <2>2. n.adrAckReq # LinkDead + 1
    BY <1>1, <1>2, <1>3, <2>1, CountKept
  <2>3. IInv'
    BY <1>3, <2>1, <2>2 DEF IInv
  <2>4. silent' = Silent(LMIC')
    BY <1>3 DEF Observe
  <2> QED BY <1>2, <1>3, <2>3, <2>4, VerdictStep
<1>4. CASE RunOsjob
  <2>1. /\ IInv'
        /\ \E m \in Struct : /\ m.devaddr = LMIC.devaddr /\ m.adrAckReq = LMIC.adrAckReq
                             /\ m.opmode = LMIC.opmode /\ Checked(m, LMIC')
    BY <1>4, RunStep
  <2>2. silent' = Silent(LMIC')
    BY <1>4 DEF RunOsjob, Observe
  <2> QED BY <2>1, <2>2, VerdictStep
<1>5. CASE TxEnds
  <2>1. Interrupt(None) /\ LMIC.radio # "SLEEP"
    BY <1>5 DEF TxEnds
  <2>2. Good(LMIC') /\ Plain(e, LMIC')
    BY <2>1, InterruptStep
  <2> QED BY <1>3, <2>1, <2>2 DEF Checked, Interrupt
<1>6. ASSUME NEW f \in Downlinks, WindowEnds(f)
      PROVE  IInv' /\ VerdictInv'
  <2>1. Interrupt(f) /\ LMIC.radio # "SLEEP"
    BY <1>6 DEF WindowEnds
  <2>2. Good(LMIC') /\ Plain(e, LMIC')
    BY <2>1, InterruptStep
  <2> QED BY <1>3, <2>1, <2>2 DEF Checked, Interrupt
<1>7. CASE do_send
  <2>1. Good(LMIC') /\ Plain(e, LMIC')
    BY <1>7, SendStep
  <2> QED BY <1>3, <1>7, <2>1 DEF Checked, do_send
<1>8. ASSUME NEW name \in Calls, OtherCall(name)
      PROVE  IInv' /\ VerdictInv'
  <2>1. Good(LMIC') /\ (Plain(e, LMIC') \/ Fresh(LMIC'))
    BY <1>8, CallStep
  <2> QED BY <1>3, <1>8, <2>1 DEF Checked, OtherCall
<1>9. CASE UNCHANGED vars
  BY <1>9 DEF vars, IInv, VerdictInv
<1> QED BY <1>4, <1>5, <1>6, <1>7, <1>8, <1>9 DEF Next

(* The inductive invariant: which callback goes with which state of the    *)
(* radio and the timer, with OP_TXRXPEND and with the flags of a join; and *)
(* how the count of the link check goes along with what was heard.         *)
THEOREM EngineInvariant == ASSUME Prompt PROVE Spec => [](IInv /\ VerdictInv)
<1>1. Init => IInv /\ VerdictInv
  BY StructInit
<1>2. (IInv /\ VerdictInv) /\ [Next]_vars => (IInv /\ VerdictInv)'
  BY StructNext
<1> QED BY <1>1, <1>2, PTL DEF Spec

(* The fields of LMIC stay in their ranges, and the job has a callback     *)
(* whenever it is queued or armed: no counter runs over, whatever is lost, *)
(* retried, joined again or reset.                                         *)
THEOREM StructTypes == ASSUME Prompt PROVE Spec => []TypeOK
<1>1. IInv => TypeOK
  <2> SUFFICES ASSUME IInv
               PROVE  TypeOK
    OBVIOUS
  <2>1. LMIC \in Struct /\ (Asleep(LMIC) \/ Busy(LMIC))
    BY DEF IInv, Good
  <2>2. LMIC.due # "idle" => LMIC.func # "none"
    BY <2>1 DEF Asleep, Busy, Stage, EngineFuncs, SentFuncs, HeardFuncs, OpenFuncs
  <2>3. LMIC.opmode \subseteq Flags /\ LMIC.answers \subseteq Commands
        /\ LMIC.datarate \in DataRates
    BY <2>1 DEF Struct
  <2>4. LMIC.txCnt \in 0..(CntMod - 1) /\ LMIC.seqnoUp \in 0..UpLimit
        /\ LMIC.seqnoDn \in 0..(DnLimit - 1 + SeqMod)
    BY <2>1 DEF Struct, Tries, UpNumbers, DnNumbers
  <2>5. LMIC.adrAckReq \in {LinkOff} \union (LinkInit..(LinkDead + 1))
        /\ LMIC.rejoinCnt \in 0..MaxRejoin
    BY <2>1 DEF Struct, CheckCounts, RejoinCounts
  <2>6. LMIC.radio \in {"SLEEP", "TX", "RX"} /\ LMIC.due \in {"idle", "timed", "ready"}
        /\ LMIC.func \in Callbacks
    BY <2>1 DEF Struct
  <2> QED BY <2>2, <2>3, <2>4, <2>5, <2>6 DEF TypeOK
<1> QED BY <1>1, EngineInvariant, PTL

(* The assertions of lmic.c and radio.c hold: the radio sleeps whenever    *)
(* the engine starts it, windows close in a transaction only, and a join   *)
(* accept finds a node that asked for it.                                  *)
THEOREM NoAssertFails == ASSUME Prompt PROVE Spec => []NoAssertFailure
<1>1. IInv => NoAssertFailure
  BY DEF IInv, Good, NoAssertFailure
<1> QED BY <1>1, EngineInvariant, PTL

(* The link is given up only after more than LINK_CHECK_DEAD silent        *)
(* transactions, and is given up by LINK_CHECK_DEAD - LINK_CHECK_INIT + 1. *)
THEOREM LinkVerdictRight == ASSUME Prompt PROVE Spec => []LinkVerdict
<1>1. IInv /\ VerdictInv => LinkVerdict
  <2> SUFFICES ASSUME IInv, VerdictInv, silent = MaxSilent, KeepsCheck
               PROVE  "LINKDEAD" \in LMIC.opmode
    BY DEF LinkVerdict, VerdictInv, Agrees
  <2>1. LMIC.adrAckReq \in CheckCounts /\ LMIC.adrAckReq # LinkDead + 1
    BY DEF IInv, Good, Struct
  <2>2. LMIC.adrAckReq # LinkOff
        /\ ("LINKDEAD" \in LMIC.opmode \/ LMIC.adrAckReq >= LinkInit + silent)
    BY DEF VerdictInv, Agrees
  <2> QED BY <2>1, <2>2, LinkAssumption DEF MaxSilent, CheckCounts
<1> QED BY <1>1, EngineInvariant, PTL
-----------------------------------------------------------------------------
(* Frame numbers, payloads and acknowledgements                            *)

LEMMA RunMoves ==
  ASSUME Prompt, IInv, NumberInv, RunOsjob
  PROVE  Moves(LMIC')
<1>1. PICK n : n = LMIC'
  OBVIOUS
<1>2. PICK m \in Struct : Idle(m) /\ Alike(LMIC, m) /\ Tells(m, n)
  BY <1>1, RunStep
<1>3. LMIC \in Struct /\ LMIC.radio = "SLEEP" /\ m.seqnoDn = LMIC.seqnoDn
      /\ m.frame = LMIC.frame
  BY <1>2 DEF IInv, Good, Idle, Alike
<1>4. Follows(LMIC, sent, ackDue) /\ ackDue \in BOOLEAN
  BY <1>3 DEF NumberInv, Follows, After, Sends, Owes
<1>5. Follows(m, sent, ackDue)
  BY <1>2, <1>4, AlikeKeeps DEF Keeps
<1>6. Starts(n) <=> Sends(n)
  BY <1>3 DEF Starts, Sends
<1>7. CASE (Plain(m, n) \/ Missed(m, n)) /\ Keeps(m, n)
  <2>1. Follows(n, sent, ackDue) /\ n.seqnoDn = LMIC.seqnoDn
    BY <1>3, <1>4, <1>5, <1>7 DEF Keeps
  <2>2. ~(n.seqnoDn > LMIC.seqnoDn)
    BY <1>3, <2>1, CountsAssumption DEF Struct, DnNumbers
  <2>3. Follows(n, sent, Owed(n))
    BY <2>1, <2>2 DEF Owed, Follows, Owes
  <2>4. ~Shown(n, "EV_JOINED")
    BY <1>7 DEF Plain, Missed, Completed, Shown
  <2> QED BY <1>1, <1>6, <2>3, <2>4 DEF Moves, GoesOn
<1>8. CASE Heard(m, n) /\ Accepts(m, n)
  <2> DEFINE d == ackDue \/ (LMIC.frame.type = "data" /\ LMIC.frame.conf)
  <2>1. Follows(n, sent, d)
    BY <1>3, <1>4, <1>5, <1>8 DEF Accepts
  <2>2. Owed(n) => d
    BY DEF Owed
  <2>3. Follows(n, sent, Owed(n))
    BY <2>1, <2>2 DEF Follows, Owes
  <2>4. ~Shown(n, "EV_JOINED")
    BY <1>8 DEF Heard, Completed
  <2> QED BY <1>1, <1>6, <2>3, <2>4 DEF Moves, GoesOn
<1>9. CASE Fresh(n) /\ Anew(n)
  BY <1>1, <1>6, <1>9 DEF Fresh, Moves, Begins
<1> QED BY <1>1, <1>2, <1>7, <1>8, <1>9 DEF Tells

LEMMA InterruptMoves ==
  ASSUME IInv, NumberInv, NEW frame, Interrupt(frame)
  PROVE  Moves(LMIC')
<1> DEFINE e == Entry
           o == [e EXCEPT !.radio = "SLEEP", !.frame = frame, !.func = LMIC.func, !.due = "ready"]
<1>1. PICK n : n = LMIC'
  OBVIOUS
<1>2. n = o /\ LMIC \in Struct
  BY <1>1 DEF Interrupt, os_setCallback, IInv, Good
<1>3. e \in Struct /\ e.events = <<>> /\ e.func = LMIC.func /\ Alike(LMIC, e)
  BY <1>2, EntryFields
<1> HIDE DEF e
<1>4. /\ n.events = <<>> /\ n.radio = "SLEEP" /\ n.frame = frame /\ n.func = LMIC.func
      /\ n.devaddr = e.devaddr /\ n.txCnt = e.txCnt /\ n.seqnoUp = e.seqnoUp
      /\ n.seqnoDn = e.seqnoDn /\ n.dnConf = e.dnConf /\ n.answers = e.answers
      /\ n.pendTx = e.pendTx /\ n.pendTxConf = e.pendTxConf /\ n.opmode = e.opmode
  BY <1>2, <1>3 DEF Struct
<1> HIDE DEF o
<1>5. /\ n.devaddr = LMIC.devaddr /\ n.txCnt = LMIC.txCnt /\ n.seqnoUp = LMIC.seqnoUp
      /\ n.seqnoDn = LMIC.seqnoDn /\ n.dnConf = LMIC.dnConf /\ n.answers = LMIC.answers
      /\ n.pendTx = LMIC.pendTx /\ n.pendTxConf = LMIC.pendTxConf
      /\ \A flag \in {"TXDATA", "POLL", "TXRXPEND"} : flag \in n.opmode <=> flag \in LMIC.opmode
  BY <1>3, <1>4 DEF Alike
<1>6. ~Shown(n, "EV_JOINED") /\ ~Starts(n)
  BY <1>4 DEF Shown, Starts
<1>7. Underway(n) <=> Underway(LMIC)
  BY <1>4, <1>5 DEF Underway
<1>8. Repeats(n, sent)
  BY <1>5, <1>7 DEF NumberInv, Numbered, Repeats
<1>9. Tied(n, sent)
  BY <1>5 DEF NumberInv, Numbered, Tied
<1>10. Numbered(n, sent) /\ Owes(n, ackDue)
  BY <1>5, <1>7, <1>8, <1>9 DEF NumberInv, Numbered, Owes
<1> QED BY <1>1, <1>5, <1>6, <1>10 DEF Moves, Waits

LEMMA SendMoves ==
  ASSUME Prompt, IInv, NumberInv, do_send
  PROVE  Moves(LMIC')
<1>1. PICK n : n = LMIC'
  OBVIOUS
<1>2. LMIC \in Struct
  BY DEF IInv, Good
<1>3. /\ Plain(Entry, n) /\ n.seqnoDn = LMIC.seqnoDn
      /\ IF "TXRXPEND" \in LMIC.opmode THEN n = Entry
         ELSE \A s : \A d \in BOOLEAN :
                Numbered(LMIC, s) /\ Owes(LMIC, d) => Follows(n, s, d)
  BY <1>1, SendStep
<1>4. CASE "TXRXPEND" \in LMIC.opmode
  <2>1. Alike(LMIC, n) /\ Plain(Entry, n)
    BY <1>2, <1>3, <1>4, EntryFields
  <2>2. ~Starts(n) /\ ~Shown(n, "EV_JOINED")
    BY <2>1 DEF Alike, Starts, Plain, Shown
  <2>3. Numbered(n, sent) /\ Owes(n, ackDue)
    BY <2>1 DEF NumberInv, Alike, Numbered, Repeats, Tied, Owes, Underway
  <2> QED BY <1>1, <1>3, <2>2, <2>3 DEF Moves, Waits
<1>5. CASE "TXRXPEND" \notin LMIC.opmode
  <2>1. Follows(n, sent, ackDue)
    BY <1>3, <1>5 DEF NumberInv
  <2>2. LMIC.radio # "TX"
    BY <1>5 DEF IInv, Good, Asleep, Busy
  <2> QED BY <1>1, <1>2, <1>3, <2>1, <2>2, CallMoves
<1> QED BY <1>4, <1>5

(* A number is used again for a confirmed payload, or for a poll.          *)
Distinct(s, t, n) ==
  t # s /\ t # NoUplink =>
    \/ Again(s, t) \/ Poll(s, t)
    \/ t.tries = 1 /\ (t.seqno > s.seqno \/ NewSession(n))

LEMMA HistoryStep ==
  ASSUME LMIC \in Struct, NumberInv, NEW n, Moves(n)
  PROVE  /\ Numbered(n, Sent(n)) /\ Owes(n, AckDue(n)) /\ AckDue(n) \in BOOLEAN
         /\ Distinct(sent, Sent(n), n)
         /\ Starts(n) /\ Owed(n) /\ ~NewSession(n) => n.frame.ack
<1>1. sent \in SentSet /\ (~LMIC.devaddr => sent = NoUplink)
  BY DEF NumberInv, Numbered
<1>2. CASE GoesOn(n)
  <2>1. /\ ~Shown(n, "EV_JOINED") /\ (Starts(n) <=> Sends(n))
        /\ Numbered(n, After(n, sent)) /\ Owes(n, Owed(n) /\ ~Sends(n))
        /\ Sends(n) => (Owed(n) => n.frame.ack)
        /\ Sends(n) => \/ Again(sent, After(n, sent)) \/ Poll(sent, After(n, sent))
                       \/ Higher(sent, After(n, sent))
    BY <1>2 DEF GoesOn, Follows
  <2>2. ~n.devaddr => ~Sends(n) /\ sent = NoUplink
    <3>1. SUFFICES ASSUME ~n.devaddr
                   PROVE  ~Sends(n) /\ sent = NoUplink
      OBVIOUS
    <3>2. After(n, sent) = NoUplink
      BY <2>1, <3>1 DEF Numbered
    <3>3. CASE Sends(n)
      <4>1. After(n, sent).tries >= 1
        BY <1>1, <3>3, CountsAssumption DEF After, SentSet
      <4> QED BY <3>2, <4>1 DEF NoUplink
    <3> QED BY <3>2, <3>3 DEF After
  <2>3. Sent(n) = After(n, sent)
    <3>1. NewSession(n) => sent = NoUplink
      BY <2>1, <2>2 DEF NewSession
    <3> QED BY <2>1, <3>1 DEF Sent, After
  <2>4. Owes(n, AckDue(n))
    BY <2>1 DEF Owes, AckDue
  <2>5. Distinct(sent, Sent(n), n)
    <3>1. CASE Sends(n)
      BY <2>1, <2>3, <3>1 DEF Distinct, Higher
    <3>2. CASE ~Sends(n)
      BY <2>3, <3>2 DEF Distinct, After
    <3> QED BY <3>1, <3>2
  <2> QED BY <2>1, <2>3, <2>4, <2>5 DEF AckDue
<1>3. CASE Begins(n)
  <2>1. /\ NewSession(n) /\ (Starts(n) <=> Sends(n)) /\ Numbered(n, After(n, NoUplink))
        /\ Owes(n, FALSE)
        /\ Sends(n) => \/ Again(NoUplink, After(n, NoUplink)) \/ Poll(NoUplink, After(n, NoUplink))
                       \/ Higher(NoUplink, After(n, NoUplink))
    BY <1>3 DEF Begins, Anew, Follows, Owes
  <2>2. Sent(n) = After(n, NoUplink) /\ ~AckDue(n)
    BY <2>1 DEF Sent, After, AckDue
  <2>3. ~Again(NoUplink, After(n, NoUplink)) /\ ~Poll(NoUplink, After(n, NoUplink))
    BY DEF Again, Poll, NoUplink
  <2>4. Distinct(sent, Sent(n), n)
    BY <2>1, <2>2, <2>3 DEF Distinct, After, Higher
  <2>5. Owes(n, AckDue(n)) /\ AckDue(n) \in BOOLEAN
    BY <2>1, <2>2 DEF Owes, AckDue
  <2> QED BY <2>1, <2>2, <2>4, <2>5
<1>4. CASE Waits(n)
  <2>1. /\ ~Shown(n, "EV_JOINED") /\ ~Starts(n) /\ Numbered(n, sent) /\ Owes(n, ackDue)
        /\ n.seqnoDn = LMIC.seqnoDn
    BY <1>4 DEF Waits
  <2>2. Sent(n) = sent
    BY <2>1 DEF Sent, NewSession, Numbered
  <2>3. ~(n.seqnoDn > LMIC.seqnoDn)
    BY <2>1, CountsAssumption DEF Struct, DnNumbers
  <2>4. AckDue(n) => ackDue
    BY <2>3 DEF AckDue, Owed
  <2>5. Owes(n, AckDue(n)) /\ AckDue(n) \in BOOLEAN
    BY <2>1, <2>4 DEF Owes, AckDue
  <2> QED BY <2>1, <2>2, <2>5 DEF Distinct
<1> QED BY <1>2, <1>3, <1>4 DEF Moves
LEMMA NumberInit == Init => NumberInv
<1> SUFFICES ASSUME Init
             PROVE  NumberInv
  OBVIOUS
<1> DEFINE blank == LMIC_reset([pendTx |-> "a", halted |-> FALSE, events |-> <<>>])
<1>1. /\ blank.opmode = {} /\ ~blank.devaddr /\ blank.seqnoUp = 0 /\ blank.txCnt = 0
      /\ ~blank.dnConf
  BY DEF LMIC_reset
<1>2. LMIC.opmode = {} /\ LMIC.seqnoUp = 0 /\ LMIC.txCnt = 0
  <2>1. CASE LMIC = LMIC_setSession(blank)
    BY <2>1 DEF LMIC_setSession, stateJustJoined, Clear, LMIC_reset
  <2> QED BY <1>1, <2>1 DEF Init
<1>3. sent = NoUplink /\ ackDue = FALSE /\ NoUplink \in SentSet /\ NoUplink.seqno = -1
  BY DEF Init, NoUplink, SentSet
<1>4. ~Underway(LMIC)
  BY <1>2 DEF Underway
<1>5. Repeats(LMIC, sent) /\ Tied(LMIC, sent)
  BY <1>2 DEF Repeats, Tied
<1>6. sent.seqno < LMIC.seqnoUp
  BY <1>2, <1>3
<1>7. Numbered(LMIC, sent)
  BY <1>3, <1>4, <1>5, <1>6 DEF Numbered
<1> QED BY <1>3, <1>4, <1>7 DEF NumberInv, Owes

LEMMA StepMoves ==
  ASSUME Prompt, IInv, NumberInv, Next
  PROVE  Moves(LMIC') /\ Observe
<1>1. CASE RunOsjob
  BY <1>1, RunMoves DEF RunOsjob
<1>2. CASE TxEnds
  <2>1. Interrupt(None)
    BY <1>2 DEF TxEnds
  <2> QED BY <2>1, InterruptMoves DEF Interrupt
<1>3. CASE do_send
  BY <1>3, SendMoves DEF do_send
<1>4. ASSUME NEW f \in Downlinks, WindowEnds(f)
      PROVE  Moves(LMIC') /\ Observe
  <2>1. Interrupt(f)
    BY <1>4 DEF WindowEnds
  <2> QED BY <2>1, InterruptMoves DEF Interrupt
<1>5. ASSUME NEW name \in Calls, OtherCall(name)
      PROVE  Moves(LMIC') /\ Observe
  BY <1>5, CallStep DEF OtherCall
<1> QED BY <1>1, <1>2, <1>3, <1>4, <1>5 DEF Next

(* The history after a step, and the two promises made of every step.      *)
Acknowledged ==
  Starts(LMIC') /\ Owed(LMIC') /\ ~NewSession(LMIC') => LMIC'.frame.ack

LEMMA NumberNext ==
  ASSUME Prompt, IInv, NumberInv, Next
  PROVE  /\ NumberInv' /\ Acknowledged
         /\ Distinct(sent, sent', LMIC')
<1>1. PICK n : n = LMIC'
  OBVIOUS
<1>2. Moves(n) /\ LMIC \in Struct
  BY <1>1, StepMoves DEF IInv, Good
<1>3. sent' = Sent(n) /\ ackDue' = AckDue(n)
  BY <1>1, StepMoves DEF Observe
<1>4. /\ Numbered(n, Sent(n)) /\ Owes(n, AckDue(n)) /\ AckDue(n) \in BOOLEAN
      /\ Distinct(sent, Sent(n), n)
      /\ Starts(n) /\ Owed(n) /\ ~NewSession(n) => n.frame.ack
  BY <1>2, HistoryStep
<1>5. NumberInv'
  BY <1>1, <1>3, <1>4 DEF NumberInv
<1> QED BY <1>1, <1>3, <1>4, <1>5 DEF Acknowledged

LEMMA NumberInvariant == ASSUME Prompt PROVE Spec => []NumberInv
<1>1. IInv /\ NumberInv /\ [Next]_vars => NumberInv'
  <2>1. ASSUME IInv, NumberInv, Next
        PROVE  NumberInv'
    BY <2>1, NumberNext
  <2>2. ASSUME NumberInv, UNCHANGED vars
        PROVE  NumberInv'
    BY <2>2 DEF vars, NumberInv
  <2> QED BY <2>1, <2>2
<1> QED BY <1>1, NumberInit, EngineInvariant, PTL DEF Spec

(* A frame number stands for one payload: a frame that carries the number  *)
(* of the one before is the same confirmed payload, sent again at most     *)
(* TXCONF_ATTEMPTS times, or a poll behind it, after which no payload fol- *)
(* lows under that number, whatever is lost, joined, polled or called in   *)
(* between.                                                                *)
THEOREM NumbersNeverReused ==
  ASSUME Prompt
  PROVE  Spec => NumbersNotReused
<1>1. IInv /\ NumberInv /\ [Next]_vars =>
        [sent' # sent /\ sent' # NoUplink =>
           \/ sent'.tries = 1 /\ (sent'.seqno > sent.seqno \/ NewSession(LMIC'))
           \/ /\ sent'.seqno = sent.seqno /\ sent'.tries > 1
              /\ \/ /\ sent'.conf /\ sent.conf /\ sent'.data = sent.data
                    /\ sent'.tries <= Attempts
                 \/ ~sent'.conf /\ sent'.data = "empty" /\ (sent.conf \/ sent.tries > 1)]_vars
  <2>1. ASSUME IInv, NumberInv, Next
        PROVE  Distinct(sent, sent', LMIC')
    BY <2>1, NumberNext
  <2>2. ASSUME Again(sent, sent')
        PROVE  /\ sent'.seqno = sent.seqno /\ sent'.tries > 1 /\ sent'.tries <= Attempts
               /\ sent'.conf /\ sent.conf /\ sent'.data = sent.data
    BY <2>2, CountsAssumption DEF Again
  <2> QED BY <2>1, <2>2 DEF Distinct, Poll
<1> QED BY <1>1, NumberInvariant, EngineInvariant, PTL DEF Spec, NumbersNotReused

(* A payload is not dropped at the end of another one's transaction: when  *)
(* EV_TXCOMPLETE is shown and OP_TXDATA was set, the payload given was in  *)
(* the last frame sent, if MAC answers always fit beside it.               *)
THEOREM PayloadCarried ==
  ASSUME Prompt, ~LongPayload
  PROVE  Spec => PayloadSent
<1>1. ASSUME IInv, NumberInv, Next, Shown(LMIC', "EV_TXCOMPLETE"), "TXDATA" \in LMIC.opmode
      PROVE  sent.data = LMIC.pendTx
  <2>1. Underway(LMIC)
    <3>1. CASE RunOsjob
      <4>1. PICK m \in Struct : Plain(m, LMIC') \/ Fresh(LMIC') \/ Underway(LMIC)
        BY <1>1, <3>1, RunStep
      <4> QED BY <1>1, <4>1 DEF Plain, Fresh, Shown
    <3>2. ASSUME Plain(Entry, LMIC')
          PROVE  FALSE
      BY <1>1, <3>2 DEF Plain, Shown
    <3>3. ASSUME NEW f \in Downlinks \union {None}, Interrupt(f), LMIC.radio # "SLEEP"
          PROVE  FALSE
      BY <1>1, <3>2, <3>3, InterruptStep
    <3>4. CASE TxEnds
      BY <3>3, <3>4 DEF TxEnds
    <3>5. ASSUME NEW f \in Downlinks, WindowEnds(f)
          PROVE  FALSE
      BY <3>3, <3>5 DEF WindowEnds
    <3>6. CASE do_send
      BY <1>1, <3>2, <3>6, SendStep
    <3>7. ASSUME NEW name \in Calls, OtherCall(name)
          PROVE  FALSE
      <4>1. Plain(Entry, LMIC') \/ Fresh(LMIC')
        BY <1>1, <3>7, CallStep
      <4> QED BY <1>1, <3>2, <4>1 DEF Fresh
    <3> QED BY <1>1, <3>1, <3>4, <3>5, <3>6, <3>7 DEF Next
  <2> QED BY <1>1, <2>1 DEF NumberInv, Numbered
<1>2. IInv /\ NumberInv /\ [Next]_vars =>
        [Shown(LMIC', "EV_TXCOMPLETE") /\ "TXDATA" \in LMIC.opmode
           => sent.data = LMIC.pendTx]_vars
  BY <1>1
<1> QED BY <1>2, NumberInvariant, EngineInvariant, PTL DEF Spec, PayloadSent

(* The next data frame of the session carries the acknowledgement that is  *)
(* owed for a confirmed downlink: no frame goes before it, whatever is     *)
(* lost or called in between.                                              *)
THEOREM AcknowledgedNext ==
  ASSUME Prompt
  PROVE  Spec =>
           [][Starts(LMIC') /\ Owed(LMIC') /\ ~NewSession(LMIC') => LMIC'.frame.ack]_vars
<1>1. IInv /\ NumberInv /\ [Next]_vars =>
        [Starts(LMIC') /\ Owed(LMIC') /\ ~NewSession(LMIC') => LMIC'.frame.ack]_vars
  BY NumberNext DEF Acknowledged
<1> QED BY <1>1, NumberInvariant, EngineInvariant, PTL DEF Spec
=============================================================================
