----------------------------- MODULE LmicChannels -----------------------------
(***************************************************************************)
(* When and where the MAC of lmic.c sends: the duty cycle of each band and *)
(* of the node, the random delays of retries and join requests, and the    *)
(* choice of a channel (EU868), over the wrapping clock of os_getTime.     *)
(*                                                                         *)
(* What a frame holds and the receive windows are in LmicMac: here a       *)
(* transaction is its airtime and Window ticks, and ends with nothing or   *)
(* with a downlink that may carry a command about channels.  Times of the  *)
(* code are modulo W and compared by the sign of their difference; clock,  *)
(* quiet, nodeQuiet, spaced and rxend are true times, for the properties.  *)
(***************************************************************************)
EXTENDS Integers

CONSTANTS
  W,             (* 2^32 ticks                                             *)
  Hours8,        (* the 8 h of nextTx, in ticks                            *)
  RampUp,        (* TX_RAMPUP                                              *)
  Airtime,       (* calcAirTime of a frame, by data rate                   *)
  TxCap,         (* 1000, 100, 10 of BAND_MILLI, BAND_CENTI, BAND_DECI     *)
  Channels,      (* MAX_CHANNELS                                           *)
  MaxDR,         (* DR_SF7; data rate 0 is DR_SF12                         *)
  Attempts, Adjust,      (* TXCONF_ATTEMPTS, DRADJUST                      *)
  Window,        (* from the end of a frame to the end of the last window  *)
  Delays,        (* what rndDelay may give                                 *)
  Zone,          (* DNW2_SAFETY_ZONE                                       *)
  RndChannels,   (* what os_getRndU1() % MAX_CHANNELS may give             *)
  Extras,        (* the channels the network or the application may add    *)
  Maps,          (* the channel masks of LinkADRReq                        *)
  Rates,         (* the aggregated duty cycles of DutyCycleReq             *)
  Boots,         (* os_getTime() when the sketch starts                    *)
  Late,          (* how long a due job may wait                            *)
  Sleeps,        (* a band may be left unused for longer than MaxIdle      *)
  Withdrawn,     (* channels may change after a frame that had chosen one  *)
                 (* was withdrawn                                          *)
  MaxClock, MaxCalls

VARIABLES
  LMIC, boot, clock,
  calls,         (* calls of the application made                          *)
  quiet,         (* history: until when each band has to stay silent       *)
  nodeQuiet,     (* history: until when the whole node has to              *)
  spaced,        (* history: the random time set for the next try          *)
  rxend          (* history: end of the last window of the transaction     *)

vars == <<LMIC, boot, clock, calls, quiet, nodeQuiet, spaced, rxend>>

MILLI == 0   CENTI == 1   DECI == 2   AUX == 3
Half == W \div 2
MaxIdle == Half - Hours8
DataRates == 0..MaxDR
Channel == 0..(Channels - 1)
DutyAir(dr, rate) == Airtime[dr] * 2^rate            (* airtime<<globalDutyRate *)
NoChannel == [band |-> MILLI, drs |-> {}]      (* channelFreq = 0          *)

ASSUME TimesAssumption ==
  /\ {W, Hours8, RampUp, Window, Zone, Late, MaxClock, MaxCalls} \subseteq Nat
  /\ 0 < Hours8 /\ Hours8 < Half /\ Delays \subseteq Nat /\ Boots \subseteq 0..(W - 1)
ASSUME RatesAssumption ==
  /\ Airtime \in [DataRates -> Nat] /\ TxCap \in [MILLI..DECI -> Nat]
  /\ Adjust \in [1..Attempts -> Nat] /\ RndChannels \subseteq Channel /\ Channels > 3
  /\ Maps \subseteq SUBSET Channel /\ Rates \subseteq Nat /\ {Sleeps, Withdrawn} \subseteq BOOLEAN
  /\ MaxDR \in Nat /\ Channels \in Nat /\ Attempts \in Nat

(* LMIC_setupChannel with band -1 or a band the sketches use.  The network *)
(* and the application leave the default channels as they are, and a mask  *)
(* keeps one of them: nothing in the code sees to it.                      *)
ASSUME ChannelsAssumption ==
  /\ Extras \subseteq [chnl : Channel \ (0..2), band : MILLI..DECI, drs : SUBSET DataRates]
  /\ \A map \in Maps : map \intersect 0..2 # {}

(* What the comparison of times needs: a band, a retry and the node under  *)
(* its duty cycle wait less than 8 h.  A frame of 2.8 s does up to the     *)
(* rate 13 of DutyCycleReq; the code takes 14 and 15 as well.              *)
ASSUME HorizonAssumption ==
  /\ Hours8 + Window < Half /\ 0 < RampUp /\ RampUp <= Hours8 /\ Late < Hours8 /\ Hours8 + Late <= Half
  /\ \A dr \in DataRates : /\ \A b \in MILLI..DECI : Airtime[dr] * TxCap[b] < Hours8
                           /\ \A rate \in Rates : DutyAir(dr, rate) \in Airtime[dr]..Hours8
  /\ \A d \in Delays : d <= Hours8 /\ Hours8 + Zone + d < Half /\ d + Window < Half
-----------------------------------------------------------------------------
now == (boot + clock) % W
Plus(t, d) == (t + d) % W
Before(a, b) == (a - b) % W >= Half                  (* a - b < 0          *)
After(a, b) == (a - b) % W \in 1..(Half - 1)         (* a - b > 0          *)
Later(a, b) == IF Before(a, b) THEN b ELSE a

Set(m, flags) == [m EXCEPT !.opmode = @ \union flags]
Clear(m, flags) == [m EXCEPT !.opmode = @ \ flags]
Has(m, flags) == m.opmode \intersect flags # {}

lowerDR(dr, n) == IF dr > n THEN dr - n ELSE 0
-----------------------------------------------------------------------------
(* Bands and channels                                                      *)

initDefaultChannels(m, join, rnd) ==
  [m EXCEPT
    !.channels = [c \in Channel |->
       IF c \in 0..2 THEN [band |-> IF join THEN MILLI ELSE CENTI, drs |-> DataRates]
       ELSE NoChannel],
    !.channelMap = 0..2,
    !.bands = [b \in MILLI..AUX |->
       IF b = AUX THEN [avail |-> 0, cap |-> 0, lastchnl |-> 0]
       ELSE [avail |-> now, cap |-> TxCap[b], lastchnl |-> rnd[b]]]]
Rnd == [MILLI..DECI -> RndChannels]

LMIC_setupChannel(m, e) ==
  [m EXCEPT !.channels[e.chnl] = [band |-> e.band, drs |-> e.drs],
            !.channelMap = @ \union {e.chnl}]

LMIC_disableChannel(m, c) ==
  [m EXCEPT !.channels[c] = NoChannel, !.channelMap = @ \ {c}]

(* A mask with a channel that is not enabled now is refused; the channels  *)
(* that have no frequency are left out of it.                              *)
mapChannels(m, map) ==
  IF map = {} \/ ~(map \subseteq m.channelMap) THEN m
  ELSE [m EXCEPT !.channelMap = {c \in map : m.channels[c] # NoChannel}]
MapAccepted(m, map) == map # {} /\ map \subseteq m.channelMap

UsableIn(m, b) ==
  {c \in m.channelMap : m.channels[c].band = b /\ m.datarate \in m.channels[c].drs}

(* Mutant: the times are compared as numbers.                              *)
EarlierUnsigned(m, bmap, acc, bi) ==
  IF bi \in bmap /\ acc.time > m.bands[bi].avail
  THEN [band |-> bi, time |-> m.bands[bi].avail] ELSE acc

Earlier(m, bmap, acc, bi) ==
  IF bi \in bmap /\ After(acc.time, m.bands[bi].avail)
  THEN [band |-> bi, time |-> m.bands[bi].avail] ELSE acc

(* The band of bmap that is available first, as the loop over bi finds it, *)
(* and its time; band 0 and 8 h from now when it finds none.               *)
FirstBand(m, bmap) ==
  LET none == [band |-> MILLI, time |-> Plus(now, Hours8)]
      milli == Earlier(m, bmap, none, MILLI)
      centi == Earlier(m, bmap, milli, CENTI)
      deci == Earlier(m, bmap, centi, DECI)
  IN  Earlier(m, bmap, deci, AUX)

(* The next usable channel of the band after the one it used last.         *)
NextChannel(m, b) ==
  CHOOSE c \in UsableIn(m, b) :
    \A d \in UsableIn(m, b) :
      (c - m.bands[b].lastchnl - 1) % Channels <= (d - m.bands[b].lastchnl - 1) % Channels

Takes(m, first) ==
  LET chnl == NextChannel(m, first.band)
  IN  [m EXCEPT !.txend = first.time, !.txChnl = chnl, !.bands[first.band].lastchnl = chnl]
Returns(n) == [m |-> n, bmap |-> {}, over |-> TRUE]

(* A round of the outer loop.  A band that is taken out of bmap a second   *)
(* time: the loop has no end.                                              *)
TryBand(m, bmap) ==
  LET first == FirstBand(m, bmap)
  IN  IF UsableIn(m, first.band) # {} THEN Returns(Takes(m, first))
      ELSE IF bmap = {first.band} THEN Returns([m EXCEPT !.txend = first.time])
      ELSE IF first.band \notin bmap THEN Returns([m EXCEPT !.stuck = TRUE])
      ELSE [m |-> m, bmap |-> bmap \ {first.band}, over |-> FALSE]
Round(s) == IF s.over THEN s ELSE TryBand(s.m, s.bmap)

(* The loop: each of the four bands is taken out in one round.             *)
nextTx(m) ==
  LET start == [m |-> m, bmap |-> MILLI..AUX, over |-> FALSE]
  IN  Clear(Round(Round(Round(Round(start)))).m, {"NEXTCHNL"})
-----------------------------------------------------------------------------
(* Delays, data rates, duty cycle                                          *)

(* Mutant: nothing tells engineUpdate that the retry has to wait.          *)
txDelayUnmarked(m, reftime) ==
  IF m.globalDutyRate = 0 \/ After(reftime, m.globalDutyAvail)
  THEN [m EXCEPT !.globalDutyAvail = reftime] ELSE m

txDelay(m, reftime) ==
  IF m.globalDutyRate = 0 \/ After(reftime, m.globalDutyAvail)
  THEN Set([m EXCEPT !.globalDutyAvail = reftime], {"RNDTX"}) ELSE m

(* Mutant: the channel chosen before is kept.                              *)
setDrTxpowKeeps(m, dr) == [m EXCEPT !.datarate = dr]

setDrTxpow(m, dr) ==
  IF m.datarate = dr THEN m ELSE Set([m EXCEPT !.datarate = dr], {"NEXTCHNL"})

(* Mutant: the band is charged for the airtime alone.                      *)
updateTxUncapped(m) ==
  LET airtime == Airtime[m.datarate]
      band == m.channels[m.txChnl].band
  IN  [m EXCEPT !.bands[band].avail = Plus(now, airtime),
                !.globalDutyAvail =
                   IF m.globalDutyRate = 0 THEN @
                   ELSE Plus(now, DutyAir(m.datarate, m.globalDutyRate))]

updateTx(m) ==
  LET airtime == Airtime[m.datarate]
      band == m.channels[m.txChnl].band
  IN  [m EXCEPT !.bands[band].avail = Plus(now, airtime * m.bands[band].cap),
                !.globalDutyAvail =
                   IF m.globalDutyRate = 0 THEN @
                   ELSE Plus(now, DutyAir(m.datarate, m.globalDutyRate))]

(* What comes before the loop, and the job that reports EV_JOINING.        *)
initJoinLoop(m, rnd, c, d) ==
  [Set(Clear(initDefaultChannels(m, TRUE, rnd), {"NEXTCHNL"}), {"JOINING"})
     EXCEPT !.globalDutyRate = 0, !.txCnt = 0, !.txChnl = c, !.datarate = MaxDR,
            !.txend = Plus(now, d), !.due = now, !.armed = TRUE]
LMIC_startJoining(m) ==
  {initJoinLoop(m, rnd, c, d) : rnd \in Rnd, c \in 0..2, d \in Delays}

(* After nextJoinState engineUpdate, or EV_JOIN_FAILED and then it, runs   *)
(* at once.                                                                *)
nextJoinState(m, d) ==
  [Clear(m, {"NEXTCHNL"})
     EXCEPT !.txChnl = (@ + 1) % 3, !.txCnt = @ + 1,
            !.datarate = IF (m.txCnt + 1) % 2 = 0 THEN lowerDR(@, 1) ELSE @,
            !.txend = Plus(Later(now, m.bands[MILLI].avail), Zone + d),
            !.due = now, !.armed = TRUE]
-----------------------------------------------------------------------------
(* The engine                                                              *)

transmit(m) ==
  LET out == updateTx(Set(Clear(m, {"RNDTX"}), {"TXRXPEND", "NEXTCHNL"}))
  IN  [out EXCEPT !.frame = 1 - @, !.armed = FALSE, !.rxtime = Plus(now, Airtime[m.datarate] + Window),
                  !.dutyCapAns = IF "JOINING" \in m.opmode THEN @ ELSE FALSE,
                  !.txCnt = IF "JOINING" \notin m.opmode /\ m.pendTxConf /\ @ = 0
                            THEN 1 ELSE @]

Begin(m) ==
  IF (m.globalDutyRate # 0 \/ "RNDTX" \in m.opmode)
  THEN Later(m.txend, m.globalDutyAvail) ELSE m.txend

engineUpdate(m) ==
  IF m.stuck \/ "TXRXPEND" \in m.opmode THEN {m}
  ELSE IF ~m.devaddr /\ "JOINING" \notin m.opmode THEN LMIC_startJoining(m)
  ELSE IF ~Has(m, {"JOINING", "TXDATA"}) THEN {m}
  ELSE LET chosen == IF "NEXTCHNL" \in m.opmode THEN nextTx(m) ELSE m
       IN  IF chosen.stuck THEN {chosen}
           ELSE IF Before(Begin(chosen), now + RampUp)
           THEN {transmit(chosen)}
           ELSE {[chosen EXCEPT !.due = Plus(Begin(chosen), -RampUp), !.armed = TRUE]}

(* No join accept: the next request.  No answer: the next try of a         *)
(* confirmed frame, or the end of the transaction.                         *)
Retries(m) == m.txCnt \in 1..(Attempts - 1)
NothingReceived(m, d) ==
  LET over == Clear(m, {"TXRXPEND"})
  IN  IF "JOINING" \in m.opmode THEN {nextJoinState(over, d)}
      ELSE IF Retries(m)
      THEN engineUpdate(
             txDelay(setDrTxpow([over EXCEPT !.txCnt = @ + 1],
                                lowerDR(m.datarate, Adjust[m.txCnt + 1])),
                     Plus(m.rxtime, d)))
      ELSE engineUpdate(Clear(over, {"TXDATA"}))

(* CFList channels are added to the default ones; OP_NEXTCHNL stays as the *)
(* request has left it.                                                    *)
processJoinAccept(m, cflist, rnd) ==
  LET base == initDefaultChannels(m, FALSE, rnd)
      all == IF cflist = {} THEN base ELSE LMIC_setupChannel(base, CHOOSE e \in cflist : TRUE)
  IN  engineUpdate([Clear(all, {"JOINING", "TXRXPEND"}) EXCEPT !.txCnt = 0, !.devaddr = TRUE])

(* The commands of a downlink that concern channels and duty cycle.        *)
LinkADRReq(m, dr, map) ==
  IF dr \in DataRates /\ MapAccepted(m, map) THEN setDrTxpow(mapChannels(m, map), dr)
  ELSE mapChannels(m, map)
DutyCycleReq(m, rate) ==
  [m EXCEPT !.globalDutyRate = rate, !.globalDutyAvail = now, !.dutyCapAns = TRUE]
NewChannelReq(m, e) == LMIC_setupChannel(m, e)

TxComplete(m) == engineUpdate(Clear(m, {"TXDATA", "TXRXPEND"}))

LMIC_setTxData2(m, conf) ==
  engineUpdate([Set(m, {"TXDATA"})
     EXCEPT !.pendTxConf = conf, !.txCnt = IF "JOINING" \in m.opmode THEN @ ELSE 0])

LMIC_clrTxData(m) ==
  LET cleared == Clear(m, {"TXDATA", "TXRXPEND"})
  IN  IF "JOINING" \in m.opmode THEN {cleared}
      ELSE engineUpdate([cleared EXCEPT !.armed = FALSE])
-----------------------------------------------------------------------------
(* Histories of a step                                                     *)

Transmits == LMIC'.frame # LMIC.frame        (* frames are told apart by turns *)
Renewed == ("JOINING" \in LMIC.opmode) # ("JOINING" \in LMIC'.opmode)
Band == LMIC'.channels[LMIC'.txChnl].band
Air == Airtime[LMIC'.datarate]

QuietBefore == IF Renewed THEN [b \in MILLI..DECI |-> clock] ELSE quiet
(* A DutyCycleReq starts the account of the node anew.                     *)
NodeQuietBefore == IF LMIC'.dutyCapAns /\ ~LMIC.dutyCapAns THEN clock ELSE nodeQuiet

(* The bands with an enabled channel were used or set up lately.           *)
Fresh ==
  \A c \in LMIC.channelMap : LMIC.channels[c].band \in MILLI..DECI =>
     clock - quiet[LMIC.channels[c].band] < MaxIdle

Observe ==
  /\ quiet' = IF Transmits
              THEN [QuietBefore EXCEPT ![Band] = clock + Air * TxCap[Band]] ELSE QuietBefore
  /\ nodeQuiet' = IF Transmits /\ LMIC'.globalDutyRate # 0
                  THEN clock + DutyAir(LMIC'.datarate, LMIC'.globalDutyRate) ELSE NodeQuietBefore
  /\ rxend' = IF Transmits THEN clock + Air + Window ELSE rxend
  /\ Sleeps \/ Fresh'
  /\ UNCHANGED boot

Unspaced == spaced' = (IF Transmits THEN 0 ELSE spaced)
-----------------------------------------------------------------------------
Waits == LMIC.armed /\ ~LMIC.stuck

(* os_runloop_once runs LMIC.osjob.                                        *)
RunOsjob ==
  /\ Waits /\ "TXRXPEND" \notin LMIC.opmode /\ ~Before(now, LMIC.due)
  /\ LMIC' \in engineUpdate([LMIC EXCEPT !.armed = FALSE])
  /\ UNCHANGED <<clock, calls>> /\ Observe /\ Unspaced

(* The transaction is over and brought something, or nothing.              *)
InTransaction == "TXRXPEND" \in LMIC.opmode /\ ~LMIC.stuck
WindowsClose ==
  /\ InTransaction /\ clock >= rxend
  /\ \E d \in Delays :
       /\ LMIC' \in NothingReceived(LMIC, d)
       /\ spaced' = IF "JOINING" \in LMIC.opmode
                    THEN (IF clock < quiet[MILLI] THEN quiet[MILLI] ELSE clock) + Zone + d
                    ELSE IF Retries(LMIC) THEN rxend + d ELSE spaced
  /\ UNCHANGED <<clock, calls>> /\ Observe

JoinAccepted ==
  /\ InTransaction /\ "JOINING" \in LMIC.opmode /\ clock >= rxend
  /\ \E rnd \in Rnd, cflist \in {{}} \union {{e} : e \in Extras} :
       LMIC' \in processJoinAccept(LMIC, cflist, rnd)
  /\ spaced' = 0 /\ UNCHANGED <<clock, calls>> /\ Observe

Downlink ==
  /\ InTransaction /\ "JOINING" \notin LMIC.opmode /\ clock >= rxend
  /\ \/ LMIC' \in TxComplete(LMIC)
     \/ \E dr \in DataRates \union {MaxDR + 1}, map \in Maps :
          LMIC' \in TxComplete(LinkADRReq(LMIC, dr, map))
     \/ \E rate \in Rates : LMIC' \in TxComplete(DutyCycleReq(LMIC, rate))
     \/ \E e \in Extras : LMIC' \in TxComplete(NewChannelReq(LMIC, e))
  /\ UNCHANGED <<clock, calls>> /\ Observe /\ Unspaced

Call ==
  /\ calls < MaxCalls /\ ~LMIC.stuck /\ calls' = calls + 1
  /\ UNCHANGED clock

(* The application: data at any time, also while a frame waits; channels   *)
(* and data rate in a session, channels while nothing waits and, unless    *)
(* Withdrawn, the last choice of nextTx was used: no channel function sets *)
(* OP_NEXTCHNL, so that a choice still pending would outlive the change.   *)
SetTxData2 == Call /\ (\E conf \in BOOLEAN : LMIC' \in LMIC_setTxData2(LMIC, conf)) /\ Observe /\ Unspaced
ClrTxData == Call /\ LMIC.devaddr /\ LMIC' \in LMIC_clrTxData(LMIC) /\ Observe /\ Unspaced
SetDr == Call /\ LMIC.devaddr /\ (\E dr \in DataRates : LMIC' = setDrTxpow(LMIC, dr)) /\ Observe /\ Unspaced
ChangeChannels ==
  /\ Call /\ LMIC.devaddr /\ ~Has(LMIC, {"TXDATA", "TXRXPEND"})
  /\ Withdrawn \/ Has(LMIC, {"NEXTCHNL"})
  /\ \E e \in Extras : LMIC' \in {LMIC_setupChannel(LMIC, e), LMIC_disableChannel(LMIC, e.chnl)}
  /\ Observe /\ Unspaced

(* A job that is due and a transaction that is over wait Late ticks at     *)
(* most for their turn.                                                    *)
Tick ==
  /\ clock < MaxClock /\ ~LMIC.stuck
  /\ InTransaction => clock < rxend + Late
  /\ Waits /\ ~InTransaction => Before(now, Plus(LMIC.due, Late))
  /\ clock' = clock + 1
  /\ UNCHANGED <<LMIC, calls, spaced>> /\ Observe

Blank ==
  [opmode |-> {}, devaddr |-> FALSE, txCnt |-> 0, datarate |-> 0, pendTxConf |-> FALSE,
   channels |-> [c \in Channel |-> NoChannel], channelMap |-> {},
   bands |-> [b \in MILLI..AUX |-> [avail |-> 0, cap |-> 0, lastchnl |-> 0]],
   txChnl |-> 0, txend |-> 0, globalDutyRate |-> 0, globalDutyAvail |-> 0, dutyCapAns |-> FALSE,
   frame |-> 0, rxtime |-> 0, due |-> 0, armed |-> FALSE, stuck |-> FALSE]

LMIC_setSession(rnd) ==
  Set([initDefaultChannels(Blank, FALSE, rnd) EXCEPT !.devaddr = TRUE, !.datarate = MaxDR],
      {"NEXTCHNL"})

(* After LMIC_reset, or LMIC_setSession and LMIC_setDrTxpow.               *)
Init ==
  /\ boot \in Boots /\ clock = 0 /\ calls = 0
  /\ LMIC \in {Blank} \union {LMIC_setSession(rnd) : rnd \in Rnd}
  /\ quiet = [b \in MILLI..DECI |-> 0] /\ nodeQuiet = 0 /\ spaced = 0 /\ rxend = 0

Next ==
  \/ RunOsjob \/ WindowsClose \/ JoinAccepted \/ Downlink
  \/ SetTxData2 \/ ClrTxData \/ SetDr \/ ChangeChannels \/ Tick

Spec == Init /\ [][Next]_vars
-----------------------------------------------------------------------------
(* A frame goes out only when the band of its channel may be used again    *)
(* after the frames sent in it before, and the node under the duty cycle   *)
(* of the last DutyCycleReq, RampUp ticks early at most: whatever data is  *)
(* given or withdrawn while it waits, over the wrap of the clock.          *)
DutyKept ==
  [][Transmits => /\ clock + RampUp > QuietBefore[Band]
                  /\ LMIC'.globalDutyRate # 0 => clock + RampUp > NodeQuietBefore]_vars

(* A confirmed frame is tried again, and a join request follows another,   *)
(* only after the random delay drawn for it, new data in between or not    *)
(* ("Move txend to randomize synchronized concurrent joins", lmic.c:707).  *)
RetrySpaced ==
  [][Transmits /\ ~Renewed =>
       clock + RampUp > (IF spaced' # 0 THEN spaced' ELSE spaced)]_vars

(* A frame goes out on an enabled channel that has its data rate, in a     *)
(* session in the band that was free first ("Assuming txChnl points to     *)
(* channel which first becomes available again", lmic.c:2049).             *)
GoodChannel ==
  [][Transmits =>
       /\ LMIC'.txChnl \in LMIC'.channelMap
       /\ LMIC'.datarate \in LMIC'.channels[LMIC'.txChnl].drs
       /\ "JOINING" \notin LMIC'.opmode =>
            \A b \in MILLI..DECI :
              UsableIn(LMIC', b) # {} => QuietBefore[Band] <= QuietBefore[b]]_vars

(* nextTx finds a channel and returns its time (lmic.c:2051).              *)
NextTxReturns == ~LMIC.stuck
=============================================================================
