----------------------------- MODULE BoardProofs -----------------------------
(* Proofs about Board: a start that succeeds leaves hardware that does what *)
(* was configured, for any configurations, firmware and boards.             *)
EXTENDS Board, SequenceTheorems, TLAPS

Gains == (0..255) \ {WAIT, ABORT}
Scanned == [freq : Int, scan : Nat]
LbtConf == [enable : BOOLEAN, active : 0..LbtChannels, channels : [1..LbtChannels -> Scanned]]
ConfSet ==
  [lorawan_public : BOOLEAN, rf : [0..1 -> RfConf], if : [Chains -> IfConf],
   size : 1..LutMax, lut : [1..LutMax -> Gains], lbt : LbtConf]
FpgaSet ==
  [present : BOOLEAN, offset : [1..LbtChannels -> Int], slow : [1..LbtChannels -> BOOLEAN],
   running : BOOLEAN]
ChipSet ==
  [connected : BOOLEAN, radio : [0..1 -> Int], public : BOOLEAN,
   modem : [Chains -> SUBSET Nat], freq : [Chains -> Int]]
Stages == {"lut", "msb", "chan", "radios", "done"}
AgcSet ==
  [state : {"off", "idle", "waiting", "running"}, status : Nat, stage : Stages,
   lut : Seq(Nat), msb : Nat, radios : Nat]
Phases == {"out", "connect", "radios", "lbt", "calibrate", "modems", "firmware",
           "command", "value", "check"}

(* A chain that is enabled listens for something.                           *)
Listens(c) == \A i \in Chains : c.if[i].enable => c.if[i].sf # {}

(* A start is made by a program that has configured the concentrator: no    *)
(* one stops it meanwhile.                                                  *)
TypeInv ==
  /\ conf \in ConfSet /\ Listens(conf) /\ chip \in ChipSet
  /\ fpga \in FpgaSet /\ agc \in AgcSet
  /\ select \in 0..255 /\ step \in Nat /\ phase \in Phases /\ started \in BOOLEAN
  /\ returned \in {"none", "success", "error"}
  /\ phase # "out" => program \in {"configured", "utility"}
  /\ phase \in {"command", "value", "check"} => step \in 1..Len(Transactions)

(* What has been set up when a phase is reached, or the start is over.      *)
From(phases) == phase \in phases \/ Running
AfterRadios == {"lbt", "calibrate", "modems", "firmware", "command", "value", "check"}
AfterLbt == AfterRadios \ {"lbt"}
AfterModems == {"firmware", "command", "value", "check"}

RadiosSet == \A i \in 0..1 : conf.rf[i].enable => chip.radio[i] = conf.rf[i].freq
ModemsSet ==
  /\ chip.public = conf.lorawan_public
  /\ \A i \in Chains : chip.modem[i] # {} <=> conf.if[i].enable
LbtSet ==
  conf.lbt.enable =>
    /\ fpga.running
    /\ \A i \in 1..LbtChannels :
         LET c == Filled(conf.lbt)[i]
         IN  fpga.offset[i] = c.freq - StartFreq /\ (fpga.slow[i] <=> c.scan = 5000)

SetupInv ==
  /\ From(AfterRadios) => RadiosSet
  /\ From(AfterModems) => ModemsSet
  /\ phase \in {"radios", "lbt"} /\ fpga.present => \A i \in 1..LbtChannels : ~fpga.slow[i]
  /\ From(AfterLbt) => LbtSet
-----------------------------------------------------------------------------
(* The setters keep the types, and refuse while the concentrator runs.      *)

LEMMA GainTaken ==
  ASSUME NEW c \in ConfSet, NEW lut \in TxgainConfs
  PROVE  lgw_txgain_setconf(c, lut) \in ConfSet
<1> DEFINE accepted == {i \in 1..Len(lut) : \A j \in 1..i : GoodGain(lut[j])}
           values == [i \in 1..LutMax |-> IF i \in accepted THEN LoadValue(lut[i]) ELSE c.lut[i]]
<1>1. lut \in Seq([mix : Nat, dac : Nat, pa : Nat]) /\ Len(lut) \in Nat
  BY ConfAssumption
<1>2. ASSUME NEW i \in accepted
      PROVE  LoadValue(lut[i]) \in Gains
  <2>1. GoodGain(lut[i])
    BY <1>1
  <2>2. PICK m \in 8..15, p \in 0..3 : m = lut[i].mix /\ p = lut[i].pa /\ lut[i].dac = 3
    BY <2>1 DEF GoodGain
  <2>3. LoadValue(lut[i]) = m + 16 * 3 + 64 * p
    BY <2>2 DEF LoadValue
  <2>4. m + 16 * 3 + 64 * p \in Gains
    BY DEF Gains, WAIT, ABORT
  <2> QED BY <2>3, <2>4
<1>3. values \in [1..LutMax -> Gains]
  BY <1>2 DEF ConfSet
<1>4. lgw_txgain_setconf(c, lut) =
        IF Len(lut) \notin 1..LutMax THEN c ELSE [c EXCEPT !.size = Len(lut), !.lut = values]
  BY DEF lgw_txgain_setconf
<1> HIDE DEF values
<1> QED BY <1>3, <1>4 DEF ConfSet

LEMMA ChainSet ==
  ASSUME NEW c \in ConfSet, Listens(c), NEW chain \in Chains,
         NEW x \in IfConf, x.enable => x.sf # {}
  PROVE  LET d == [c EXCEPT !.if[chain] = x]
         IN  d \in ConfSet /\ Listens(d)
<1> DEFINE chains == [c.if EXCEPT ![chain] = x]
           d == [c EXCEPT !.if = chains]
<1>1. chains \in [Chains -> IfConf]
  BY DEF ConfSet
<1>2. \A i \in Chains : chains[i] = IF i = chain THEN x ELSE c.if[i]
  BY DEF ConfSet
<1> HIDE DEF chains
<1>3. d \in ConfSet /\ d.if = chains
  BY <1>1 DEF ConfSet
<1>4. [c EXCEPT !.if[chain] = x] = d
  BY DEF chains
<1> HIDE DEF d
<1>5. Listens(d)
  BY <1>2, <1>3 DEF Listens
<1> QED BY <1>3, <1>4, <1>5

LEMMA Disabled ==
  ASSUME NEW o \in IfConf
  PROVE  LET off == [o EXCEPT !.enable = FALSE, !.freq = 0]
         IN  off \in IfConf /\ ~off.enable
<1> DEFINE p == [o EXCEPT !.enable = FALSE]
           off == [p EXCEPT !.freq = 0]
<1>1. p \in IfConf /\ ~p.enable
  BY DEF IfConf
<1> HIDE DEF p
<1>2. off \in IfConf /\ off.enable = p.enable
  BY <1>1 DEF IfConf
<1> QED BY <1>1, <1>2 DEF p

LEMMA ChainTaken ==
  ASSUME NEW c \in ConfSet, Listens(c), NEW chain \in Chains, NEW x \in IfConf
  PROVE  LET d == lgw_rxif_setconf(c, chain, x)
         IN  d \in ConfSet /\ Listens(d) /\ (started => d = c)
<1> DEFINE d == lgw_rxif_setconf(c, chain, x)
           y == Defaulted(chain, x)
           bw == IF x.bw # 0 THEN x.bw ELSE IF chain \in Multi THEN BW_125KHZ ELSE BW_250KHZ
           sf == IF x.sf # {} THEN x.sf
                 ELSE CASE chain \in Multi -> 7..12 [] chain = LoraStd -> {9} [] OTHER -> {64000}
           off == [c.if[chain] EXCEPT !.enable = FALSE, !.freq = 0]
<1>1. y = [x EXCEPT !.bw = bw, !.sf = sf]
  BY DEF Defaulted, IfConf
<1>2. bw \in Nat
  BY DEF IfConf, BW_125KHZ, BW_250KHZ
<1>3. sf \in SUBSET Nat /\ sf # {}
  <2>1. 9 \in 7..12 /\ 7..12 \subseteq Nat /\ 64000 \in Nat
    OBVIOUS
  <2> QED BY <2>1 DEF IfConf
<1> HIDE DEF bw, sf, y
<1>4. y \in IfConf /\ y.sf # {}
  BY <1>1, <1>2, <1>3 DEF IfConf
<1>5. off \in IfConf /\ ~off.enable
  <2>1. c.if[chain] \in IfConf
    BY DEF ConfSet
  <2> HIDE DEF off
  <2> QED BY <2>1, Disabled DEF off
<1>6. \/ d = c
      \/ d = [c EXCEPT !.if[chain] = off]
      \/ d = [c EXCEPT !.if[chain] = y]
  <2>1. [c EXCEPT !.if[chain].enable = FALSE, !.if[chain].freq = 0] = [c EXCEPT !.if[chain] = off]
    BY DEF ConfSet, IfConf
  <2> HIDE DEF off
  <2> QED BY <2>1 DEF lgw_rxif_setconf, y
<1>7. started => d = c
  BY DEF lgw_rxif_setconf
<1> HIDE DEF d, off
<1> QED BY <1>4, <1>5, <1>6, <1>7, ChainSet DEF d

LEMMA LbtTaken ==
  ASSUME NEW c \in ConfSet, NEW lbt \in LbtConfs
  PROVE  lbt_setconf(c, lbt) \in ConfSet /\ (started => lbt_setconf(c, lbt) = c)
<1> DEFINE channels == [i \in 1..LbtChannels |->
                          IF i <= Len(lbt.channels) THEN lbt.channels[i] ELSE [freq |-> 0, scan |-> 0]]
<1>1. lbt.enable \in BOOLEAN /\ lbt.channels \in Seq(Scanned) /\ Len(lbt.channels) \in Nat
  BY ConfAssumption DEF Scanned
<1>2. channels \in [1..LbtChannels -> Scanned]
  <2>1. ASSUME NEW i \in 1..LbtChannels, i <= Len(lbt.channels)
        PROVE  lbt.channels[i] \in Scanned
    BY <1>1, <2>1, ElementOfSeq, BoardAssumption
  <2>2. [freq |-> 0, scan |-> 0] \in Scanned
    BY DEF Scanned
  <2> QED BY <2>1, <2>2
<1>3. lbt_setconf(c, lbt) =
        IF started \/ Len(lbt.channels) \notin 1..LbtChannels THEN c
        ELSE [c EXCEPT !.lbt = [enable |-> lbt.enable, active |-> Len(lbt.channels),
                                channels |-> channels]]
  BY DEF lbt_setconf
<1> HIDE DEF channels
<1> QED BY <1>1, <1>2, <1>3, SMTT(30) DEF ConfSet, LbtConf

LEMMA FileTaken ==
  ASSUME NEW c \in ConfSet, Listens(c), NEW json \in Jsons
  PROVE  LET d == parse_SX1301_configuration(c, json)
         IN  d \in ConfSet /\ Listens(d) /\ (started => d = c)
<1>1. /\ json.public \in BOOLEAN
      /\ \A i \in 0..1 : json.rf[i] \in {Absent} \union RfConf
      /\ \A i \in Chains : json.if[i] \in {Absent} \union IfConf
  BY ConfAssumption
<1> DEFINE b == lgw_board_setconf(c, json.public)
           r == ParsedRadio(b, json, 0)
           d == ParsedRadio(r, json, 1)
           chains == [i \in Chains |-> ParsedChain(d, json, i)]
<1>2. b \in ConfSet /\ b.if = c.if /\ (started => b = c)
  BY <1>1 DEF lgw_board_setconf, ConfSet
<1>3. ASSUME NEW e \in ConfSet, NEW i \in 0..1
      PROVE  LET f == ParsedRadio(e, json, i)
             IN  f \in ConfSet /\ f.if = e.if /\ (started => f = e)
  BY <1>1 DEF ParsedRadio, lgw_rxrf_setconf, ConfSet
<1> HIDE DEF b
<1>4. r \in ConfSet /\ r.if = c.if /\ (started => r = c)
  BY <1>2, <1>3
<1> HIDE DEF r
<1>5. d \in ConfSet /\ d.if = c.if /\ (started => d = c)
  BY <1>3, <1>4
<1> HIDE DEF d
<1>6. Listens(d)
  BY <1>5 DEF Listens
<1>7. ASSUME NEW i \in Chains
      PROVE  LET x == ParsedChain(d, json, i)
             IN  x \in IfConf /\ (x.enable => x.sf # {}) /\ (started => x = d.if[i])
  <2>1. CASE json.if[i] = Absent
    BY <1>5, <1>6, <2>1 DEF ParsedChain, ConfSet, Listens
  <2>2. CASE json.if[i] # Absent
    <3>1. json.if[i] \in IfConf
      BY <1>1, <2>2
    <3> DEFINE e == lgw_rxif_setconf(d, i, json.if[i])
    <3>2. e \in ConfSet /\ Listens(e) /\ (started => e = d)
      BY <1>5, <1>6, <3>1, ChainTaken
    <3>3. ParsedChain(d, json, i) = e.if[i]
      BY <2>2 DEF ParsedChain
    <3> HIDE DEF e
    <3> QED BY <3>2, <3>3 DEF ConfSet, Listens
  <2> QED BY <2>1, <2>2
<1>8. chains \in [Chains -> IfConf] /\ (started => chains = d.if)
  BY <1>5, <1>7 DEF ConfSet
<1>9. \A i \in Chains : chains[i].enable => chains[i].sf # {}
  BY <1>7
<1> HIDE DEF chains
<1>10. parse_SX1301_configuration(c, json) = [d EXCEPT !.if = chains]
  BY DEF parse_SX1301_configuration, b, r, d, chains
<1> QED BY <1>5, <1>8, <1>9, <1>10 DEF ConfSet, Listens
-----------------------------------------------------------------------------
(* Types and the set-up.                                                    *)

LEMMA TypeInit == Init => TypeInv
<1> SUFFICES ASSUME Init PROVE TypeInv
  OBVIOUS
<1>1. conf \in ConfSet /\ Listens(conf)
  <2> DEFINE rf == [i \in 0..1 |-> [enable |-> FALSE, freq |-> 0, type |-> "none"]]
             chains == [i \in Chains |-> [enable |-> FALSE, rf_chain |-> 0, freq |-> 0, bw |-> 0, sf |-> {}]]
             lut == [i \in 1..LutMax |-> CASE i = 1 -> 186 [] i = 2 -> 254 [] OTHER -> 0]
             lbt == [enable |-> FALSE, active |-> 0,
                     channels |-> [i \in 1..LbtChannels |-> [freq |-> 0, scan |-> 0]]]
  <2>1. rf \in [0..1 -> RfConf]
    BY DEF RfConf, RadioTypes
  <2>2. chains \in [Chains -> IfConf] /\ \A i \in Chains : ~chains[i].enable
    BY DEF IfConf
  <2>3. lut \in [1..LutMax -> Gains]
    BY DEF Gains, WAIT, ABORT
  <2>4. lbt \in LbtConf
    BY BoardAssumption DEF LbtConf, Scanned
  <2>5. conf = [lorawan_public |-> FALSE, rf |-> rf, if |-> chains, size |-> 2, lut |-> lut, lbt |-> lbt]
    BY DEF Init
  <2>6. 2 \in 1..LutMax
    BY BoardAssumption
  <2> HIDE DEF rf, chains, lut, lbt
  <2> QED BY <2>1, <2>2, <2>3, <2>4, <2>5, <2>6 DEF ConfSet, Listens
<1>2. chip \in ChipSet
  BY DEF Init, Blank, ChipSet
<1>3. fpga \in FpgaSet
  <2>1. PICK present \in Fpgas :
          fpga = FpgaReset([present |-> present, offset |-> <<>>, slow |-> <<>>, running |-> FALSE])
    BY DEF Init
  <2>2. present \in BOOLEAN
    BY BoardAssumption
  <2> DEFINE offset == [i \in 1..LbtChannels |-> 0]
             slow == [i \in 1..LbtChannels |-> FALSE]
  <2>3. fpga = [present |-> present, offset |-> offset, slow |-> slow, running |-> FALSE]
    BY <2>1 DEF FpgaReset
  <2>4. offset \in [1..LbtChannels -> Int] /\ slow \in [1..LbtChannels -> BOOLEAN]
    OBVIOUS
  <2> HIDE DEF offset, slow
  <2> QED BY <2>2, <2>3, <2>4 DEF FpgaSet
<1>4. agc \in AgcSet
  BY DEF Init, Silent, AgcSet, Stages
<1>5. select \in 0..255 /\ step \in Nat
  BY DEF Init
<1>6. phase = "out" /\ phase \in Phases /\ returned \in {"none", "success", "error"}
  BY DEF Init, Phases
<1>7. started \in BOOLEAN
  BY DEF Init
<1> QED BY <1>1, <1>2, <1>3, <1>4, <1>5, <1>6, <1>7 DEF TypeInv

LEMMA FilledType ==
  ASSUME NEW lbt \in LbtConf
  PROVE  Filled(lbt) \in [1..LbtChannels -> Scanned]
<1>1. [freq |-> StartFreq, scan |-> 128] \in Scanned
  BY BoardAssumption DEF Scanned
<1> QED BY <1>1 DEF Filled, LbtConf

(* What the FPGA does not do again is what the host has not changed.        *)
LEMMA FilledTwice ==
  ASSUME NEW lbt \in LbtConf
  PROVE  Filled([lbt EXCEPT !.channels = Filled(lbt)]) = Filled(lbt)
<1> DEFINE channels == Filled(lbt)
           twice == [lbt EXCEPT !.channels = channels]
<1>1. twice.active = lbt.active /\ twice.channels = channels
  BY DEF LbtConf
<1> HIDE DEF twice
<1> QED BY <1>1 DEF Filled

LEMMA TakenType ==
  ASSUME NEW a \in AgcSet, NEW value \in Nat
  PROVE  Taken(a, value) \in AgcSet
<1>1. Len(a.lut) \in Nat /\ Append(a.lut, value) \in Seq(Nat)
  BY DEF AgcSet
<1>2. CASE a.stage = "lut" /\ value = ABORT
  BY <1>2 DEF Taken, AgcSet, Stages, Ack
<1>3. CASE a.stage = "lut" /\ value # ABORT
  <2> DEFINE lut == Append(a.lut, value)
             stage == IF Len(a.lut) + 1 = LutMax THEN "msb" ELSE "lut"
             status == Ack + Len(a.lut)
  <2>1. status \in Nat /\ stage \in Stages /\ lut \in Seq(Nat)
    BY <1>1 DEF Stages, Ack
  <2>2. Taken(a, value) = [a EXCEPT !.lut = lut, !.status = status, !.stage = stage]
    BY <1>3 DEF Taken, AgcSet
  <2> HIDE DEF lut, stage, status
  <2> QED BY <2>1, <2>2 DEF AgcSet
<1>4. CASE a.stage = "msb"
  <2>1. Taken(a, value) = [a EXCEPT !.msb = value, !.status = Ack + value, !.stage = "chan"]
    BY <1>4 DEF Taken
  <2>2. Ack + value \in Nat
    BY DEF Ack
  <2> QED BY <2>1, <2>2 DEF AgcSet, Stages
<1>5. CASE a.stage = "chan"
  <2>1. Taken(a, value) = [a EXCEPT !.status = Ack + value, !.stage = "radios"]
    BY <1>5 DEF Taken
  <2>2. Ack + value \in Nat
    BY DEF Ack
  <2> QED BY <2>1, <2>2 DEF AgcSet, Stages
<1>6. CASE a.stage \in {"radios", "done"}
  BY <1>6 DEF Taken, AgcSet, Stages, Ack
<1> QED BY <1>2, <1>3, <1>4, <1>5, <1>6 DEF AgcSet, Stages

(* The values given to the AGC are below 256, and none but the last can be  *)
(* the command: the radios of the chains are any mask of eight bits.        *)
Values == (0..255) \ {WAIT}

LEMMA RadioSelect == radio_select \in 0..255
<1> DEFINE a == RadioBit(conf, 0, 1)
           b == RadioBit(conf, 1, 2)
           c == RadioBit(conf, 2, 4)
           d == RadioBit(conf, 3, 8)
           e == RadioBit(conf, 4, 16)
           f == RadioBit(conf, 5, 32)
           g == RadioBit(conf, 6, 64)
           h == RadioBit(conf, 7, 128)
<1>1. a \in 0..1 /\ b \in 0..2 /\ c \in 0..4 /\ d \in 0..8
  BY DEF RadioBit
<1>2. e \in 0..16 /\ f \in 0..32 /\ g \in 0..64 /\ h \in 0..128
  BY DEF RadioBit
<1>3. radio_select = a + b + c + d + e + f + g + h
  BY DEF radio_select, RadioMask
<1> HIDE DEF a, b, c, d, e, f, g, h
<1> QED BY <1>1, <1>2, <1>3

LEMMA TransactionsProps ==
  ASSUME conf \in ConfSet
  PROVE  LET rest == conf.size + (IF conf.size < LutMax THEN 1 ELSE 0)
         IN  /\ Len(Transactions) = rest + 3
             /\ \A i \in 1..conf.size : Transactions[i] = [value |-> conf.lut[i], ack |-> Ack + i - 1]
             /\ conf.size < LutMax => Transactions[rest] = [value |-> ABORT, ack |-> Ack]
             /\ Transactions[rest + 1] = [value |-> 3, ack |-> Ack + 3]
             /\ Transactions[rest + 2] = [value |-> 0, ack |-> Ack]
             /\ Transactions[rest + 3] = [value |-> radio_select, ack |-> 64]
             /\ \A i \in 1..rest + 2 : Transactions[i].value \in Values
<1> DEFINE S == [value : Nat, ack : Nat]
           table == [i \in 1..conf.size |-> [value |-> conf.lut[i], ack |-> Ack + i - 1]]
           end == IF conf.size < LutMax THEN <<[value |-> ABORT, ack |-> Ack]>> ELSE <<>>
           last == <<[value |-> 3, ack |-> Ack + 3], [value |-> 0, ack |-> Ack],
                     [value |-> radio_select, ack |-> 64]>>
           rest == conf.size + (IF conf.size < LutMax THEN 1 ELSE 0)
<1>1. conf.size \in 1..LutMax /\ conf.size \in Nat /\ LutMax \in Nat
  BY BoardAssumption DEF ConfSet
<1>2. table \in Seq(S) /\ Len(table) = conf.size
  <2>1. ASSUME NEW i \in 1..conf.size
        PROVE  conf.lut[i] \in Nat /\ Ack + i - 1 \in Nat
    <3>1. conf.lut[i] \in Gains
      BY <1>1 DEF ConfSet
    <3> QED BY <1>1, <3>1 DEF Gains, Ack
  <2>2. table \in [1..conf.size -> S]
    BY <2>1
  <2> HIDE DEF table, S
  <2> QED BY <1>1, <2>2
<1>3. end \in Seq(S) /\ Len(end) = rest - conf.size
  <2>1. [value |-> ABORT, ack |-> Ack] \in S
    BY DEF ABORT, Ack
  <2> HIDE DEF S
  <2> QED BY <1>1, <2>1
<1>4. last \in Seq(S) /\ Len(last) = 3
  BY RadioSelect DEF Ack
<1>5. Transactions = (table \o end) \o last
  BY DEF Transactions
<1>6. \A i \in 1..conf.size : table[i] = [value |-> conf.lut[i], ack |-> Ack + i - 1]
  OBVIOUS
<1>7. conf.size < LutMax => end[1] = [value |-> ABORT, ack |-> Ack]
  OBVIOUS
<1>8. /\ last[1] = [value |-> 3, ack |-> Ack + 3] /\ last[2] = [value |-> 0, ack |-> Ack]
      /\ last[3] = [value |-> radio_select, ack |-> 64]
  OBVIOUS
<1> HIDE DEF table, end, last, S
<1>0. rest \in Nat /\ rest >= conf.size
  BY <1>1
<1> HIDE DEF rest
<1> DEFINE front == table \o end
<1>9. /\ front \in Seq(S) /\ Len(front) = rest
      /\ \A i \in 1..rest : front[i] = IF i <= conf.size THEN table[i] ELSE end[i - conf.size]
  <2>1. /\ front \in Seq(S) /\ Len(front) = Len(table) + Len(end)
        /\ \A i \in 1..Len(table) + Len(end) :
             front[i] = IF i <= Len(table) THEN table[i] ELSE end[i - Len(table)]
    BY <1>2, <1>3, ConcatProperties, Zenon
  <2>2. Len(table) + Len(end) = rest
    BY <1>0, <1>1, <1>2, <1>3
  <2> QED BY <1>2, <2>1, <2>2, Zenon
<1> HIDE DEF front
<1>10. /\ Len(Transactions) = rest + 3
       /\ \A i \in 1..rest + 3 : Transactions[i] = IF i <= rest THEN front[i] ELSE last[i - rest]
  <2>1. /\ Len(front \o last) = Len(front) + Len(last)
        /\ \A i \in 1..Len(front) + Len(last) :
             (front \o last)[i] = IF i <= Len(front) THEN front[i] ELSE last[i - Len(front)]
    BY <1>4, <1>9, ConcatProperties, Zenon
  <2> QED BY <1>4, <1>5, <1>9, <2>1, Zenon DEF front
<1>11. ASSUME NEW i \in 1..conf.size
       PROVE  Transactions[i] = table[i]
  BY <1>0, <1>1, <1>9, <1>10
<1>12. conf.size < LutMax => Transactions[rest] = end[1]
  BY <1>0, <1>1, <1>9, <1>10 DEF rest
<1>13. /\ Transactions[rest + 1] = last[1] /\ Transactions[rest + 2] = last[2]
       /\ Transactions[rest + 3] = last[3]
  BY <1>0, <1>10
<1>14. ASSUME NEW i \in 1..rest + 2
       PROVE  Transactions[i].value \in Values
  <2>1. CASE i \in 1..conf.size
    <3>1. Transactions[i] = [value |-> conf.lut[i], ack |-> Ack + i - 1]
      BY <1>6, <1>11, <2>1
    <3>2. conf.lut[i] \in Gains
      BY <1>1, <2>1 DEF ConfSet
    <3> QED BY <3>1, <3>2 DEF Gains, Values
  <2>2. CASE conf.size < LutMax /\ i = rest
    <3>1. Transactions[i].value = ABORT
      BY <1>7, <1>12, <2>2
    <3> QED BY <3>1 DEF Values, ABORT, WAIT
  <2>3. CASE i \in {rest + 1, rest + 2}
    <3>1. Transactions[i].value \in {3, 0}
      BY <1>8, <1>13, <2>3
    <3> QED BY <3>1 DEF Values, WAIT
  <2> QED BY <1>0, <1>1, <1>10, <2>1, <2>2, <2>3, SMTT(30) DEF rest
<1> QED BY <1>6, <1>7, <1>8, <1>10, <1>11, <1>12, <1>13, <1>14 DEF rest

LEMMA GivenValue ==
  ASSUME conf \in ConfSet, NEW i \in 1..Len(Transactions)
  PROVE  /\ Transactions[i].value \in 0..255
         /\ i < Len(Transactions) => Transactions[i].value \in Values
<1> DEFINE rest == conf.size + (IF conf.size < LutMax THEN 1 ELSE 0)
<1>1. /\ Len(Transactions) = rest + 3
      /\ Transactions[rest + 3] = [value |-> radio_select, ack |-> 64]
      /\ \A n \in 1..rest + 2 : Transactions[n].value \in Values
  BY TransactionsProps, Zenon
<1>2. rest \in Nat
  BY BoardAssumption DEF ConfSet
<1> HIDE DEF rest
<1> DEFINE value == Transactions[i].value
<1>3. CASE i = rest + 3
  <2>1. value = radio_select
    BY <1>1, <1>3
  <2>2. ~(i < Len(Transactions))
    BY <1>1, <1>2, <1>3
  <2> QED BY <2>1, <2>2, RadioSelect
<1>4. CASE i \in 1..rest + 2
  BY <1>1, <1>2, <1>4 DEF Values
<1> QED BY <1>1, <1>2, <1>3, <1>4

LEMMA SilentType == Silent \in AgcSet /\ Blank \in ChipSet
BY DEF Silent, AgcSet, Stages, Blank, ChipSet

LEMMA ResetType ==
  ASSUME NEW f \in FpgaSet
  PROVE  FpgaReset(f) \in FpgaSet /\ \A i \in 1..LbtChannels : ~FpgaReset(f).slow[i]
<1> DEFINE offset == [i \in 1..LbtChannels |-> 0]
           slow == [i \in 1..LbtChannels |-> FALSE]
<1>1. FpgaReset(f) = [f EXCEPT !.offset = offset, !.slow = slow, !.running = FALSE]
  BY DEF FpgaReset
<1>2. /\ offset \in [1..LbtChannels -> Int] /\ slow \in [1..LbtChannels -> BOOLEAN]
      /\ \A i \in 1..LbtChannels : ~slow[i]
  OBVIOUS
<1> HIDE DEF offset, slow
<1> QED BY <1>1, <1>2 DEF FpgaSet

(* What the steps leave of the configuration.                               *)
LEMMA ConfStep ==
  ASSUME TypeInv, [Next]_vars
  PROVE  conf' \in ConfSet /\ Listens(conf')
<1>1. ASSUME NEW json \in Jsons, conf' = parse_SX1301_configuration(conf, json)
      PROVE  conf' \in ConfSet /\ Listens(conf')
  BY <1>1, FileTaken DEF TypeInv
<1>2. CASE UtilitySets
  <2>1. ASSUME NEW chain \in Chains, NEW x \in RxifConfs, conf' = lgw_rxif_setconf(conf, chain, x)
        PROVE  conf' \in ConfSet /\ Listens(conf')
    BY <2>1, ChainTaken, ConfAssumption DEF TypeInv
  <2>2. ASSUME NEW lbt \in LbtConfs, conf' = lbt_setconf(conf, lbt)
        PROVE  conf' \in ConfSet /\ Listens(conf')
    <3>1. conf'.if = conf.if
      BY <2>2 DEF lbt_setconf, TypeInv, ConfSet
    <3> QED BY <2>2, <3>1, LbtTaken DEF TypeInv, Listens
  <2>3. ASSUME NEW lut \in TxgainConfs, conf' = lgw_txgain_setconf(conf, lut)
        PROVE  conf' \in ConfSet /\ Listens(conf')
    <3>1. conf'.if = conf.if
      BY <2>3 DEF lgw_txgain_setconf, TypeInv, ConfSet
    <3> QED BY <2>3, <3>1, GainTaken DEF TypeInv, Listens
  <2> QED BY <1>2, <2>1, <2>2, <2>3 DEF UtilitySets
<1>3. CASE lbt_setup
  <2> DEFINE channels == Filled(conf.lbt)
             lbt == [conf.lbt EXCEPT !.channels = channels]
  <2>1. channels \in [1..LbtChannels -> Scanned] /\ conf.lbt \in LbtConf
    BY FilledType DEF TypeInv, ConfSet
  <2>2. conf' = [conf EXCEPT !.lbt.channels = channels]
    BY <1>3 DEF lbt_setup
  <2> HIDE DEF channels
  <2>3. lbt \in LbtConf
    BY <2>1 DEF LbtConf
  <2>4. conf' = [conf EXCEPT !.lbt = lbt]
    BY <2>2 DEF TypeInv, ConfSet
  <2> HIDE DEF lbt
  <2> QED BY <2>3, <2>4 DEF TypeInv, ConfSet, Listens
<1>4. CASE Configures
  BY <1>1, <1>4 DEF Configures
<1>5. CASE UNCHANGED conf
  BY <1>5 DEF TypeInv
<1> QED BY <1>2, <1>3, <1>4, <1>5 DEF Next, Start, Firmware, Caller, vars, hal, board, caller,
      lgw_start, Fails, Returns, lgw_connect, lgw_setup_sx125x, Calibrates, ConfiguresModems,
      LoadsFirmware, StartsTransaction, GivesValue, ChecksStatus, FirmwareWaits, FirmwareTakes,
      UtilityStops, Stopped, sig_handler, menu, MainLeaves

(* What the setters refuse, and what a start does not touch.                *)
LEMMA ConfStays ==
  ASSUME TypeInv, [Next]_vars
  PROVE  /\ phase \notin {"out", "lbt"} => conf' = conf
         /\ phase = "out" /\ started =>
              \/ conf' = conf
              \/ GainWhileStarted /\ \E lut \in TxgainConfs : conf' = lgw_txgain_setconf(conf, lut)
<1>1. CASE UtilitySets
  BY <1>1, ChainTaken, LbtTaken, ConfAssumption DEF UtilitySets, TypeInv
<1>2. CASE Configures
  BY <1>2, FileTaken DEF Configures, TypeInv
<1>3. CASE lbt_setup
  BY <1>3 DEF lbt_setup
<1>4. CASE UNCHANGED conf
  BY <1>4
<1> QED BY <1>1, <1>2, <1>3, <1>4 DEF Next, Start, Firmware, Caller, vars, hal, board, caller,
      lgw_start, Fails, Returns, lgw_connect, lgw_setup_sx125x, Calibrates, ConfiguresModems,
      LoadsFirmware, StartsTransaction, GivesValue, ChecksStatus, FirmwareWaits, FirmwareTakes,
      UtilityStops, Stopped, sig_handler, menu, MainLeaves

LEMMA TransactionsStay ==
  ASSUME conf' = conf
  PROVE  Transactions' = Transactions /\ radio_select' = radio_select
BY DEF Transactions, radio_select

(* The chip, the FPGA and the AGC keep their types.                         *)
LEMMA ChipStep ==
  ASSUME TypeInv, [Next]_vars
  PROVE  chip' \in ChipSet
<1> USE DEF TypeInv
<1>1. CASE lgw_connect
  BY <1>1, SilentType DEF lgw_connect, ChipSet
<1>2. CASE lgw_setup_sx125x
  <2> DEFINE radio == [i \in 0..1 |-> IF conf.rf[i].enable THEN conf.rf[i].freq ELSE 0]
  <2>1. radio \in [0..1 -> Int]
    BY DEF ConfSet, RfConf
  <2>2. chip' = [chip EXCEPT !.radio = radio]
    BY <1>2 DEF lgw_setup_sx125x
  <2> HIDE DEF radio
  <2> QED BY <2>1, <2>2 DEF ChipSet
<1>3. CASE ConfiguresModems
  <2> DEFINE adjusted == [chip EXCEPT !.public = conf.lorawan_public]
             modem == IF conf.rf[0].freq = 0 THEN adjusted.modem
                      ELSE [i \in Chains |-> IF conf.if[i].enable THEN conf.if[i].sf ELSE {}]
             freq == IF conf.rf[0].freq = 0 THEN adjusted.freq ELSE [i \in Chains |-> conf.if[i].freq]
  <2>1. adjusted \in ChipSet
    BY DEF ChipSet, ConfSet
  <2>2. chip' = [adjusted EXCEPT !.modem = modem, !.freq = freq]
    BY <1>3 DEF ConfiguresModems, lgw_constant_adjust
  <2> HIDE DEF adjusted
  <2>3. \A i \in Chains : conf.if[i].sf \in SUBSET Nat /\ conf.if[i].freq \in Int
    BY DEF ConfSet, IfConf
  <2>4. modem \in [Chains -> SUBSET Nat] /\ freq \in [Chains -> Int]
    BY <2>1, <2>3 DEF ChipSet
  <2> HIDE DEF modem, freq
  <2> QED BY <2>1, <2>2, <2>4 DEF ChipSet
<1>4. CASE Stopped
  BY <1>4, SilentType DEF Stopped
<1>5. CASE UNCHANGED chip
  BY <1>5
<1> QED BY <1>1, <1>2, <1>3, <1>4, <1>5 DEF Next, Start, Firmware, Caller, vars, hal, board, caller,
      lgw_start, Fails, Returns, lbt_setup, Calibrates,
      LoadsFirmware, StartsTransaction, GivesValue, ChecksStatus, FirmwareWaits, FirmwareTakes,
      UtilityStops, UtilitySets, Configures, sig_handler, menu, MainLeaves

LEMMA FpgaStep ==
  ASSUME TypeInv, [Next]_vars
  PROVE  fpga' \in FpgaSet
<1> USE DEF TypeInv
<1>1. CASE lgw_connect
  BY <1>1, ResetType DEF lgw_connect
<1>2. CASE lbt_setup
  <2> DEFINE channels == Filled(conf.lbt)
             written == {i \in 1..LbtChannels : \A j \in 1..i : GoodChannel(channels[j])}
             good == written = 1..LbtChannels
             offset == [i \in 1..LbtChannels |-> IF i \in written THEN channels[i].freq - StartFreq
                                                 ELSE fpga.offset[i]]
             slow == [i \in 1..LbtChannels |-> fpga.slow[i] \/ (i \in written /\ channels[i].scan = 5000)]
  <2>1. channels \in [1..LbtChannels -> Scanned]
    BY FilledType DEF ConfSet
  <2>2. fpga' = [fpga EXCEPT !.offset = offset, !.slow = slow, !.running = good]
    BY <1>2 DEF lbt_setup, FpgaSet
  <2> HIDE DEF channels, written
  <2>3. offset \in [1..LbtChannels -> Int]
    BY <2>1, BoardAssumption DEF FpgaSet, Scanned
  <2>4. slow \in [1..LbtChannels -> BOOLEAN] /\ good \in BOOLEAN
    OBVIOUS
  <2> HIDE DEF offset, slow, good
  <2> QED BY <2>2, <2>3, <2>4 DEF FpgaSet
<1>3. CASE UNCHANGED fpga
  BY <1>3
<1> QED BY <1>1, <1>2, <1>3 DEF Next, Start, Firmware, Caller, vars, hal, board, caller,
      lgw_start, Fails, Returns, lgw_setup_sx125x, Calibrates, ConfiguresModems,
      LoadsFirmware, StartsTransaction, GivesValue, ChecksStatus, FirmwareWaits, FirmwareTakes,
      UtilityStops, Stopped, UtilitySets, Configures, sig_handler, menu, MainLeaves

LEMMA AgcStep ==
  ASSUME TypeInv, [Next]_vars
  PROVE  agc' \in AgcSet
<1> USE DEF TypeInv
<1>1. CASE lgw_connect \/ Stopped
  BY <1>1, SilentType DEF lgw_connect, Stopped
<1>2. CASE LoadsFirmware
  BY <1>2, SilentType DEF LoadsFirmware, load_firmware, AgcSet
<1>3. CASE FirmwareWaits
  BY <1>3 DEF FirmwareWaits, AgcSet
<1>4. CASE FirmwareTakes
  <2> DEFINE a == Taken(agc, select)
  <2>1. a \in AgcSet
    BY TakenType
  <2>2. agc' = [a EXCEPT !.state = IF a.stage = "done" THEN "running" ELSE "idle"]
    BY <1>4 DEF FirmwareTakes
  <2> HIDE DEF a
  <2> QED BY <2>1, <2>2 DEF AgcSet
<1>5. CASE UNCHANGED agc
  BY <1>5
<1> QED BY <1>1, <1>2, <1>3, <1>4, <1>5 DEF Next, Start, Firmware, Caller, vars, hal, board, caller,
      lgw_start, Fails, Returns, lgw_setup_sx125x, lbt_setup, Calibrates, ConfiguresModems,
      StartsTransaction, GivesValue, ChecksStatus,
      UtilityStops, UtilitySets, Configures, sig_handler, menu, MainLeaves

(* The place in the code and the transaction, and the register they share.  *)
LEMMA PlaceStep ==
  ASSUME TypeInv, [Next]_vars
  PROVE  /\ step' \in Nat /\ phase' \in Phases
         /\ started' \in BOOLEAN /\ returned' \in {"none", "success", "error"}
         /\ phase' # "out" => program' \in {"configured", "utility"}
         /\ phase' \in {"command", "value", "check"} => step' \in 1..Len(Transactions)'
         /\ select' \in 0..255
<1> USE DEF TypeInv
<1>1. Len(Transactions) \in Nat /\ Len(Transactions) >= 1
  BY TransactionsProps, BoardAssumption DEF ConfSet
<1>2. conf' = conf => Len(Transactions)' = Len(Transactions)
  BY TransactionsStay
<1> HIDE DEF Transactions
<1>3. step' \in Nat /\ (phase' \in {"command", "value", "check"} => step' \in 1..Len(Transactions)')
  BY <1>1, <1>2, ConfStays DEF Next, Start, Firmware, Caller, vars, hal, board, caller,
      lgw_start, Fails, Returns, lgw_connect, lgw_setup_sx125x, lbt_setup, Calibrates, ConfiguresModems,
      LoadsFirmware, StartsTransaction, GivesValue, ChecksStatus, FirmwareWaits, FirmwareTakes,
      UtilityStops, Stopped, UtilitySets, Configures, sig_handler, menu, MainLeaves
<1>4. phase' \in Phases /\ returned' \in {"none", "success", "error"}
  BY DEF Next, Start, Firmware, Caller, vars, hal, board, caller, Phases,
      lgw_start, Fails, Returns, lgw_connect, lgw_setup_sx125x, lbt_setup, Calibrates, ConfiguresModems,
      LoadsFirmware, StartsTransaction, GivesValue, ChecksStatus, FirmwareWaits, FirmwareTakes,
      UtilityStops, Stopped, UtilitySets, Configures, sig_handler, menu, MainLeaves
<1>5. started' \in BOOLEAN
  BY DEF Next, Start, Firmware, Caller, vars, hal, board, caller,
      lgw_start, Fails, Returns, lgw_connect, lgw_setup_sx125x, lbt_setup, Calibrates, ConfiguresModems,
      LoadsFirmware, StartsTransaction, GivesValue, ChecksStatus, FirmwareWaits, FirmwareTakes,
      UtilityStops, Stopped, UtilitySets, Configures, sig_handler, menu, MainLeaves
<1>6. phase' # "out" => program' \in {"configured", "utility"}
  BY DEF Next, Start, Firmware, Caller, vars, hal, board, caller,
      lgw_start, Fails, Returns, lgw_connect, lgw_setup_sx125x, lbt_setup, Calibrates, ConfiguresModems,
      LoadsFirmware, StartsTransaction, GivesValue, ChecksStatus, FirmwareWaits, FirmwareTakes,
      UtilityStops, Stopped, UtilitySets, Configures, sig_handler, menu, MainLeaves
<1>7. select' \in 0..255
  <2>1. CASE GivesValue
    <3>1. Transactions[step].value \in 0..255
      BY <2>1, GivenValue DEF GivesValue
    <3> QED BY <2>1, <3>1 DEF GivesValue
  <2>2. CASE UNCHANGED select
    BY <2>2
  <2>3. CASE select' \in {0, WAIT}
    BY <2>3 DEF WAIT
  <2> QED BY <2>1, <2>2, <2>3 DEF Next, Start, Firmware, Caller, vars, hal, board, caller,
      lgw_start, Fails, Returns, lgw_connect, lgw_setup_sx125x, lbt_setup, Calibrates, ConfiguresModems,
      LoadsFirmware, StartsTransaction, ChecksStatus, FirmwareWaits, FirmwareTakes,
      UtilityStops, Stopped, UtilitySets, Configures, sig_handler, menu, MainLeaves
<1> QED BY <1>3, <1>4, <1>5, <1>6, <1>7

(* The types of the HAL, of the LBT module and of the hardware, and what    *)
(* the setters let through, hold in every state: the named part of them is  *)
(* the type invariant of Board.                                             *)
LEMMA TypeStep == TypeInv /\ [Next]_vars => TypeInv'
BY ConfStep, ChipStep, FpgaStep, AgcStep, PlaceStep DEF TypeInv, Listens

THEOREM BoardInvariant == Spec => []TypeInv
BY TypeInit, TypeStep, PTL DEF Spec

THEOREM BoardTypes == Spec => []TypeOK
<1>1. TypeInv => TypeOK
  <2> SUFFICES ASSUME TypeInv PROVE TypeOK
    OBVIOUS
  <2>1. conf.size \in 1..LutMax /\ conf.lut \in [1..LutMax -> (0..255) \ {WAIT, ABORT}]
    BY DEF TypeInv, ConfSet, Gains
  <2> QED BY <2>1 DEF TypeInv, TypeOK, Listens, Phases
<1> QED BY <1>1, BoardInvariant, PTL

-----------------------------------------------------------------------------
(* What a start has set up stays so: while it goes on nobody calls a setter,*)
(* and while the concentrator runs the setters refuse, but for the table.   *)
SetUpBy(c) == <<c.rf, c.if, c.lbt, c.lorawan_public>>

LEMMA SetupKept ==
  ASSUME TypeInv, [Next]_vars, phase \notin {"out", "lbt"} \/ (phase = "out" /\ started)
  PROVE  SetUpBy(conf') = SetUpBy(conf)
<1>1. ASSUME NEW lut \in TxgainConfs, conf' = lgw_txgain_setconf(conf, lut)
      PROVE  SetUpBy(conf') = SetUpBy(conf)
  BY <1>1 DEF lgw_txgain_setconf, TypeInv, ConfSet, SetUpBy
<1> QED BY <1>1, ConfStays

LEMMA SetsStay ==
  /\ conf'.rf = conf.rf /\ chip'.radio = chip.radio => (RadiosSet' <=> RadiosSet)
  /\ /\ conf'.if = conf.if /\ conf'.lorawan_public = conf.lorawan_public
     /\ chip'.modem = chip.modem /\ chip'.public = chip.public
     => (ModemsSet' <=> ModemsSet)
  /\ conf'.lbt = conf.lbt /\ fpga' = fpga => (LbtSet' <=> LbtSet)
<1>1. conf'.rf = conf.rf /\ chip'.radio = chip.radio => (RadiosSet' <=> RadiosSet)
  BY DEF RadiosSet
<1>2. /\ conf'.if = conf.if /\ conf'.lorawan_public = conf.lorawan_public
      /\ chip'.modem = chip.modem /\ chip'.public = chip.public
      => (ModemsSet' <=> ModemsSet)
  BY DEF ModemsSet
<1>3. conf'.lbt = conf.lbt /\ fpga' = fpga => (LbtSet' <=> LbtSet)
  BY DEF LbtSet, Filled
<1> QED BY <1>1, <1>2, <1>3

LEMMA LbtSetup ==
  ASSUME TypeInv, SetupInv, lbt_setup
  PROVE  /\ conf'.rf = conf.rf /\ chip' = chip
         /\ phase' # "out" => LbtSet'
<1> DEFINE channels == Filled(conf.lbt)
           lbt == [conf.lbt EXCEPT !.channels = channels]
           written == {i \in 1..LbtChannels : \A j \in 1..i : GoodChannel(channels[j])}
           good == written = 1..LbtChannels
           offset == [i \in 1..LbtChannels |-> IF i \in written THEN channels[i].freq - StartFreq
                                               ELSE fpga.offset[i]]
           slow == [i \in 1..LbtChannels |-> fpga.slow[i] \/ (i \in written /\ channels[i].scan = 5000)]
<1>1. conf.lbt \in LbtConf /\ conf'.lbt = lbt /\ conf'.rf = conf.rf
  BY DEF lbt_setup, TypeInv, ConfSet, LbtConf
<1>2. Filled(conf'.lbt) = channels
  BY <1>1, FilledTwice
<1>3. fpga' = [fpga EXCEPT !.offset = offset, !.slow = slow, !.running = good]
  BY DEF lbt_setup, TypeInv, FpgaSet
<1>4. fpga'.offset = offset /\ fpga'.slow = slow /\ (fpga'.running <=> good)
  BY <1>3 DEF TypeInv, FpgaSet
<1>5. phase' # "out" => good
  BY DEF lbt_setup, Returns
<1>6. \A i \in 1..LbtChannels : ~fpga.slow[i]
  BY DEF lbt_setup, SetupInv
<1>7. good => \A i \in 1..LbtChannels : /\ offset[i] = channels[i].freq - StartFreq
                                        /\ slow[i] <=> channels[i].scan = 5000
  <2> SUFFICES ASSUME good, NEW i \in 1..LbtChannels
               PROVE  /\ offset[i] = channels[i].freq - StartFreq
                      /\ slow[i] <=> channels[i].scan = 5000
    OBVIOUS
  <2>1. i \in written
    OBVIOUS
  <2> HIDE DEF written, good
  <2>2. offset[i] = channels[i].freq - StartFreq
    BY <2>1
  <2>3. slow[i] <=> channels[i].scan = 5000
    <3> DEFINE slowScan == channels[i].scan = 5000
    <3>1. slow[i] = (fpga.slow[i] \/ (i \in written /\ slowScan))
      <4> HIDE DEF channels
      <4> QED OBVIOUS
    <3>2. fpga.slow[i] = FALSE
      BY <1>6 DEF TypeInv, FpgaSet
    <3>3. slowScan \in BOOLEAN
      OBVIOUS
    <3> HIDE DEF slow, slowScan
    <3>4. slow[i] <=> slowScan
      BY <2>1, <3>1, <3>2, <3>3
    <3> QED BY <3>4 DEF slowScan
  <2> QED BY <2>2, <2>3
<1>8. chip' = chip
  BY DEF lbt_setup
<1> HIDE DEF channels, written, offset, slow, lbt, good
<1> QED BY <1>1, <1>2, <1>4, <1>5, <1>7, <1>8 DEF LbtSet

LEMMA SetupStep ==
  ASSUME TypeInv, SetupInv, [Next]_vars
  PROVE  SetupInv'
<1> USE DEF From, Running, AfterRadios, AfterLbt, AfterModems
<1>1. ASSUME phase' \in {"out", "connect"}, ~Running'
      PROVE  SetupInv'
  BY <1>1 DEF SetupInv
<1>2. CASE lgw_start \/ Fails \/ UtilityStops \/ MainLeaves
  BY <1>1, <1>2 DEF lgw_start, Fails, Returns, UtilityStops, MainLeaves, Stopped, TypeInv
<1>3. CASE lgw_connect
  <2>1. fpga'.present => \A i \in 1..LbtChannels : ~fpga'.slow[i]
    BY <1>3, ResetType DEF lgw_connect, TypeInv
  <2> QED BY <1>3, <2>1 DEF lgw_connect, SetupInv
<1>4. CASE lgw_setup_sx125x
  <2>1. RadiosSet'
    BY <1>4 DEF lgw_setup_sx125x, RadiosSet, TypeInv, ChipSet
  <2>2. phase' \in {"lbt", "calibrate"} /\ (phase' = "calibrate" => LbtSet')
    BY <1>4 DEF lgw_setup_sx125x, LbtSet
  <2> QED BY <1>4, <2>1, <2>2 DEF lgw_setup_sx125x, SetupInv
<1>5. CASE lbt_setup
  <2>1. RadiosSet'
    BY <1>5, LbtSetup, SetsStay DEF SetupInv, lbt_setup
  <2>2. phase' = "calibrate" \/ (phase' = "out" /\ ~Running')
    BY <1>5 DEF lbt_setup, Returns
  <2> QED BY <1>1, <1>5, <2>1, <2>2, LbtSetup DEF SetupInv
<1>6. CASE Calibrates
  BY <1>6, SetsStay DEF Calibrates, board, SetupInv
<1>7. CASE ConfiguresModems
  <2>1. CASE conf.rf[0].freq = 0
    BY <1>1, <1>7, <2>1 DEF ConfiguresModems, Returns
  <2>2. CASE conf.rf[0].freq # 0
    <3>1. /\ chip'.radio = chip.radio /\ chip'.public = conf.lorawan_public
          /\ \A i \in Chains : chip'.modem[i] = IF conf.if[i].enable THEN conf.if[i].sf ELSE {}
      BY <1>7, <2>2 DEF ConfiguresModems, lgw_constant_adjust, TypeInv, ChipSet
    <3>2. ModemsSet'
      BY <1>7, <3>1 DEF ConfiguresModems, ModemsSet, TypeInv, Listens
    <3> QED BY <1>7, <2>2, <3>1, <3>2, SetsStay DEF ConfiguresModems, SetupInv
  <2> QED BY <2>1, <2>2
<1>8. CASE LoadsFirmware \/ StartsTransaction \/ GivesValue \/ ChecksStatus
  <2>1. phase \in AfterModems /\ phase' \in AfterModems \union {"out"} /\ UNCHANGED <<conf, chip, fpga>>
    BY <1>8 DEF LoadsFirmware, StartsTransaction, GivesValue, ChecksStatus, Returns, board
  <2> QED BY <2>1, SetsStay DEF SetupInv
<1>9. CASE FirmwareWaits \/ FirmwareTakes \/ sig_handler \/ menu \/ UNCHANGED vars
  <2>1. UNCHANGED <<hal, chip, fpga>>
    BY <1>9 DEF FirmwareWaits, FirmwareTakes, sig_handler, menu, vars, board
  <2> QED BY <2>1, SetsStay DEF SetupInv, hal
<1>10. CASE UtilitySets \/ Configures
  <2>1. UNCHANGED <<phase, started, returned, chip, fpga>> /\ phase = "out"
    BY <1>10 DEF UtilitySets, Configures, board
  <2>2. CASE ~started
    BY <1>1, <2>1, <2>2
  <2>3. CASE started
    <3>1. /\ conf'.rf = conf.rf /\ conf'.if = conf.if /\ conf'.lbt = conf.lbt
          /\ conf'.lorawan_public = conf.lorawan_public
      BY <2>1, <2>3, SetupKept DEF SetUpBy
    <3> QED BY <2>1, <3>1, SetsStay DEF SetupInv
  <2> QED BY <2>2, <2>3 DEF TypeInv
<1> QED BY <1>2, <1>3, <1>4, <1>5, <1>6, <1>7, <1>8, <1>9, <1>10 DEF Next, Start, Firmware, Caller

LEMMA SetupInvariant == Spec => []SetupInv
<1>1. Init => SetupInv
  BY SMTT(30) DEF Init, SetupInv, From, Running, AfterRadios, AfterLbt, AfterModems
<1> QED BY <1>1, SetupStep, BoardInvariant, PTL DEF Spec

(* After a start that succeeds with listen before talk, the FPGA scans each *)
(* channel as the HAL holds it, whatever an earlier start had configured:   *)
(* lgw_connect resets the registers that lbt_setup only writes one way, and *)
(* between the two no call of the HAL reaches them.                         *)
THEOREM LbtScansAsSet == Spec => []LbtAsConfigured
<1>1. SetupInv => LbtAsConfigured
  BY DEF SetupInv, From, LbtSet, LbtAsConfigured
<1> QED BY <1>1, SetupInvariant, PTL

-----------------------------------------------------------------------------
(* The exchange with the AGC.  The values are the entries of the table, the *)
(* end of a table that is not full, and three more.                         *)
Rest(c) == c.size + (IF c.size < LutMax THEN 1 ELSE 0)
Total(c) == Rest(c) + 3

(* Where a firmware is that has taken the first n values, and what it has.  *)
StageAfter(c, n) ==
  CASE n < Rest(c) -> "lut" [] n = Rest(c) -> "msb" [] n = Rest(c) + 1 -> "chan"
    [] n = Rest(c) + 2 -> "radios" [] OTHER -> "done"
Took(c, a, n) ==
  /\ n \in 0..Total(c) /\ a.stage = StageAfter(c, n)
  /\ a.lut = SubSeq(c.lut, 1, IF n < c.size THEN n ELSE c.size)
  /\ n = 0 => a.status = 16
  /\ n \in 1..c.size => a.status = Ack + n - 1
  /\ n > Rest(c) => a.msb = 3
  /\ n = Total(c) => a.radios = RadioMask(c)

(* The values a firmware still has to take before it runs, at the least.    *)
Needs(a) ==
  CASE a.stage = "lut" -> 4 [] a.stage = "msb" -> 3 [] a.stage = "chan" -> 2
    [] a.stage = "radios" -> 1 [] OTHER -> 0

(* The status 0x40 is shown by a firmware that has taken everything.        *)
StatusInv ==
  /\ agc.stage = "lut" => Len(agc.lut) < LutMax
  /\ agc.stage # "done" => agc.status # 64

(* A value that is missed can be acknowledged by the status of the one      *)
(* before it, after the table: then the firmware needs more values than the *)
(* host has left, and the last acknowledgement never comes.                 *)
Late(a, left) ==
  \/ a.state = "idle" /\ Needs(a) > left
  \/ a.state = "waiting" /\ Needs(a) > left + 1

(* The last value can be the command to wait: the firmware never takes it,  *)
(* and the last acknowledgement never comes either.                         *)
Stuck ==
  step = Total(conf) /\ select = WAIT /\ agc.state = "waiting" /\ agc.stage # "done"

(* The host is about to write the command of a transaction: the firmware    *)
(* has the value before it, or may still take it, or is late.               *)
CommandInv ==
  phase = "command" =>
    /\ select = (IF step = 1 THEN 0 ELSE Transactions[step - 1].value)
    /\ \/ agc.state = "idle" /\ Took(conf, agc, step - 1)
       \/ agc.state = "waiting" /\ step - 1 > conf.size /\ Took(conf, agc, step - 2)
       \/ Late(agc, Total(conf) - step + 1)
ValueInv ==
  phase = "value" =>
    /\ select = WAIT /\ agc.state \in {"idle", "waiting"}
    /\ Took(conf, agc, step - 1) \/ Needs(agc) > Total(conf) - step + 1
CheckInv ==
  phase = "check" =>
    /\ select = Transactions[step].value
    /\ \/ agc.state \in {"idle", "waiting"} /\ Took(conf, agc, step - 1)
       \/ agc.state = (IF step = Total(conf) THEN "running" ELSE "idle") /\ Took(conf, agc, step)
       \/ Late(agc, Total(conf) - step)
       \/ Stuck
RunningInv == Running => agc.state = "running" /\ Took(conf, agc, Total(conf))
ExchangeInv == StatusInv /\ CommandInv /\ ValueInv /\ CheckInv /\ RunningInv

LEMMA Sizes ==
  ASSUME NEW c \in ConfSet
  PROVE  /\ c.size \in Nat /\ c.size >= 1 /\ c.size <= LutMax /\ LutMax \in 2..16
         /\ Rest(c) \in Nat /\ Rest(c) <= LutMax
         /\ c.size = LutMax => Rest(c) = c.size
         /\ c.size < LutMax => Rest(c) = c.size + 1
         /\ Total(c) = Rest(c) + 3 /\ Total(c) \in Nat
<1>1. c.size \in 1..LutMax /\ LutMax \in 2..16
  BY BoardAssumption DEF ConfSet
<1> QED BY <1>1 DEF Rest, Total

LEMMA TransactionAt ==
  ASSUME conf \in ConfSet, NEW n \in Nat, n < Total(conf)
  PROVE  LET t == Transactions[n + 1]
         IN  /\ Len(Transactions) = Total(conf)
             /\ n < conf.size => t.value = conf.lut[n + 1] /\ t.value \in Gains /\ t.ack = Ack + n
             /\ n = conf.size /\ conf.size < LutMax => t.value = ABORT
             /\ n = Rest(conf) => t.value = 3
             /\ n = Rest(conf) + 1 => t.value = 0
             /\ n = Rest(conf) + 2 => t.value = radio_select /\ t.ack = 64
<1> DEFINE t == Transactions[n + 1]
           rest == Rest(conf)
<1>1. /\ Len(Transactions) = rest + 3
      /\ \A i \in 1..conf.size : Transactions[i] = [value |-> conf.lut[i], ack |-> Ack + i - 1]
      /\ conf.size < LutMax => Transactions[rest] = [value |-> ABORT, ack |-> Ack]
      /\ Transactions[rest + 1] = [value |-> 3, ack |-> Ack + 3]
      /\ Transactions[rest + 2] = [value |-> 0, ack |-> Ack]
      /\ Transactions[rest + 3] = [value |-> radio_select, ack |-> 64]
  BY TransactionsProps, Zenon DEF Rest
<1>2. /\ conf.size \in Nat /\ conf.size <= LutMax /\ rest \in Nat
      /\ conf.size < LutMax => rest = conf.size + 1
      /\ Total(conf) = rest + 3 /\ conf.size <= rest
  BY Sizes
<1> HIDE DEF rest
<1>3. Len(Transactions) = Total(conf)
  BY <1>1, <1>2
<1>4. ASSUME n < conf.size
      PROVE  t.value = conf.lut[n + 1] /\ t.value \in Gains /\ t.ack = Ack + n
  <2>1. n + 1 \in 1..conf.size /\ n + 1 \in 1..LutMax
    BY <1>2, <1>4, Sizes
  <2>2. t = [value |-> conf.lut[n + 1], ack |-> Ack + (n + 1) - 1]
    BY <1>1, <2>1
  <2>3. Ack + (n + 1) - 1 = Ack + n
    BY DEF Ack
  <2>4. conf.lut[n + 1] \in Gains
    BY <2>1 DEF ConfSet
  <2> HIDE DEF t
  <2> QED BY <2>2, <2>3, <2>4
<1>5. n = conf.size /\ conf.size < LutMax => t.value = ABORT
  BY <1>1, <1>2
<1>6. (n = rest => t.value = 3) /\ (n = rest + 1 => t.value = 0)
  <2>1. n = rest + 1 => n + 1 = rest + 2
    BY <1>2
  <2> QED BY <1>1, <2>1
<1>7. n = rest + 2 => t.value = radio_select /\ t.ack = 64
  <2>1. n = rest + 2 => n + 1 = rest + 3
    BY <1>2
  <2> QED BY <1>1, <2>1
<1> HIDE DEF t
<1> QED BY <1>3, <1>4, <1>5, <1>6, <1>7 DEF t, rest

LEMMA StageIs ==
  ASSUME NEW c \in ConfSet, NEW n \in Nat
  PROVE  /\ n < Rest(c) => StageAfter(c, n) = "lut"
         /\ n = Rest(c) => StageAfter(c, n) = "msb"
         /\ n = Rest(c) + 1 => StageAfter(c, n) = "chan"
         /\ n = Rest(c) + 2 => StageAfter(c, n) = "radios"
         /\ n = Rest(c) + 3 => StageAfter(c, n) = "done"
<1>1. Rest(c) \in Nat
  BY Sizes
<1> QED BY <1>1 DEF StageAfter

(* What a firmware needs that has the table: as many as the host has left.  *)
LEMMA NeedsLeft ==
  ASSUME NEW c \in ConfSet, NEW a \in AgcSet, NEW n \in Nat, Took(c, a, n), n >= c.size
  PROVE  Needs(a) = Total(c) - n
<1>1. n \in 0..Total(c) /\ a.stage = StageAfter(c, n)
  BY DEF Took
<1> QED BY <1>1, Sizes DEF Needs, StageAfter

(* An entry of the table that was missed is noticed: its acknowledgement is *)
(* not the one before.                                                      *)
LEMMA MissedEntry ==
  ASSUME conf \in ConfSet, NEW a \in AgcSet, NEW n \in Nat, Took(conf, a, n), n < conf.size
  PROVE  a.status # Transactions[n + 1].ack
<1>1. n + 1 \in 1..conf.size
  BY Sizes
<1>2. Transactions[n + 1].ack = Ack + n
  <2>1. n < Total(conf)
    BY Sizes
  <2> QED BY <2>1, TransactionAt
<1>3. (n = 0 => a.status = 16) /\ (n \in 1..conf.size => a.status = Ack + n - 1)
  BY DEF Took
<1> QED BY <1>1, <1>2, <1>3, Sizes DEF Ack

(* The values are taken in their order.                                     *)
LEMMA TakeNext ==
  ASSUME conf \in ConfSet, NEW a \in AgcSet, NEW n \in Nat, Took(conf, a, n), n < Total(conf)
  PROVE  Took(conf, Taken(a, Transactions[n + 1].value), n + 1)
<1> DEFINE value == Transactions[n + 1].value
           b == Taken(a, value)
           m == IF n < conf.size THEN n ELSE conf.size
<1> SUFFICES Took(conf, b, n + 1)
  OBVIOUS
<1>1. a.stage = StageAfter(conf, n) /\ a.lut = SubSeq(conf.lut, 1, m) /\ (n > Rest(conf) => a.msb = 3)
  BY DEF Took
<1>2. n + 1 \in 0..Total(conf)
  BY Sizes
<1>3. CASE n < conf.size
  <2>1. value = conf.lut[n + 1] /\ value \in Gains
    BY <1>3, TransactionAt
  <2>2. a.stage = "lut" /\ value # ABORT
    <3>1. n < Rest(conf)
      BY <1>3, Sizes
    <3> HIDE DEF value
    <3>2. value # ABORT
      BY <2>1 DEF Gains
    <3> QED BY <1>1, <3>1, <3>2, StageIs
  <2>3. conf.lut \in Seq(Gains) /\ Len(conf.lut) = LutMax
    <3>1. LutMax \in Nat
      BY Sizes
    <3>2. conf.lut \in [1..LutMax -> Gains]
      BY DEF ConfSet
    <3> QED BY <3>1, <3>2, SMTT(30)
  <2>4. Len(a.lut) = n /\ SubSeq(conf.lut, 1, n + 1) = Append(a.lut, value)
    BY <1>1, <1>3, <2>1, <2>3, Sizes
  <2>5. /\ b.lut = Append(a.lut, value) /\ b.status = Ack + Len(a.lut)
        /\ b.stage = IF Len(a.lut) + 1 = LutMax THEN "msb" ELSE "lut"
    BY <2>2 DEF Taken, AgcSet
  <2>6. b.stage = StageAfter(conf, n + 1)
    <3>1. n + 1 = LutMax => n + 1 = Rest(conf)
      BY <1>3, Sizes
    <3>2. n + 1 # LutMax => n + 1 < Rest(conf)
      BY <1>3, Sizes
    <3> QED BY <2>4, <2>5, <3>1, <3>2, StageIs
  <2>7. b.lut = SubSeq(conf.lut, 1, IF n + 1 < conf.size THEN n + 1 ELSE conf.size)
    <3>1. (IF n + 1 < conf.size THEN n + 1 ELSE conf.size) = n + 1
      BY <1>3, Sizes
    <3> QED BY <2>4, <2>5, <3>1
  <2>8. b.status = Ack + (n + 1) - 1
    BY <2>4, <2>5 DEF Ack
  <2>9. n + 1 # 0 /\ ~(n + 1 > Rest(conf)) /\ n + 1 # Total(conf)
    BY <1>3, Sizes
  <2> HIDE DEF b, value
  <2> QED BY <1>2, <2>6, <2>7, <2>8, <2>9, Zenon DEF Took
<1>4. CASE n = conf.size /\ conf.size < LutMax
  <2>1. value = ABORT /\ a.stage = "lut"
    <3>1. n < Rest(conf)
      BY <1>4, Sizes
    <3> QED BY <1>1, <1>4, <3>1, TransactionAt, StageIs
  <2>2. b.lut = a.lut /\ b.stage = "msb"
    BY <2>1 DEF Taken, AgcSet, Stages
  <2>3. b.stage = StageAfter(conf, n + 1)
    BY <1>4, <2>2, Sizes, StageIs
  <2>4. b.lut = SubSeq(conf.lut, 1, IF n + 1 < conf.size THEN n + 1 ELSE conf.size)
    BY <1>1, <1>4, <2>2, Sizes
  <2>5. /\ n + 1 # 0 /\ n + 1 \notin 1..conf.size /\ ~(n + 1 > Rest(conf)) /\ n + 1 # Total(conf)
    BY <1>4, Sizes
  <2> HIDE DEF b, value
  <2> QED BY <1>2, <2>3, <2>4, <2>5, Zenon DEF Took
<1>5. CASE n >= Rest(conf)
  <2>1. n \in {Rest(conf), Rest(conf) + 1, Rest(conf) + 2} /\ n >= conf.size
    BY <1>5, Sizes
  <2>2. value = (IF n = Rest(conf) THEN 3 ELSE IF n = Rest(conf) + 1 THEN 0 ELSE radio_select)
    BY <2>1, TransactionAt, Sizes
  <2>3. a.stage = (IF n = Rest(conf) THEN "msb" ELSE IF n = Rest(conf) + 1 THEN "chan" ELSE "radios")
    BY <1>1, <2>1, Sizes, StageIs
  <2>4. /\ b.lut = a.lut
        /\ b.stage = (IF n = Rest(conf) THEN "chan" ELSE IF n = Rest(conf) + 1 THEN "radios" ELSE "done")
        /\ b.msb = (IF n = Rest(conf) THEN value ELSE a.msb)
        /\ n = Rest(conf) + 2 => b.radios = value
    <3> HIDE DEF value
    <3>1. Rest(conf) + 1 # Rest(conf) /\ Rest(conf) + 2 # Rest(conf) /\ Rest(conf) + 2 # Rest(conf) + 1
      BY Sizes
    <3>2. CASE n = Rest(conf)
      BY <2>3, <3>1, <3>2 DEF Taken, AgcSet
    <3>3. CASE n = Rest(conf) + 1
      BY <2>3, <3>1, <3>3 DEF Taken, AgcSet
    <3>4. CASE n = Rest(conf) + 2
      BY <2>3, <3>1, <3>4 DEF Taken, AgcSet
    <3> QED BY <2>1, <3>2, <3>3, <3>4
  <2> HIDE DEF b, value
  <2>5. b.stage = StageAfter(conf, n + 1)
    BY <2>1, <2>4, Sizes, StageIs
  <2>6. b.lut = SubSeq(conf.lut, 1, IF n + 1 < conf.size THEN n + 1 ELSE conf.size)
    BY <1>1, <2>1, <2>4, Sizes
  <2>7. b.msb = 3
    BY <1>1, <2>1, <2>2, <2>4, Sizes
  <2>8. n + 1 = Total(conf) => b.radios = RadioMask(conf)
    BY <2>1, <2>2, <2>4, Sizes DEF radio_select
  <2>9. n + 1 # 0 /\ n + 1 \notin 1..conf.size
    BY <2>1, Sizes
  <2> QED BY <1>2, <2>5, <2>6, <2>7, <2>8, <2>9, Zenon DEF Took
<1> QED BY <1>3, <1>4, <1>5, Sizes

LEMMA TakeNeeds ==
  ASSUME NEW a \in AgcSet, NEW value \in Nat
  PROVE  Needs(Taken(a, value)) >= Needs(a) - 1
BY DEF Taken, Needs, AgcSet, Stages

LEMMA StateApart ==
  ASSUME NEW a \in AgcSet, NEW s
  PROVE  LET b == [a EXCEPT !.state = s]
         IN  /\ b.state = s /\ b.stage = a.stage /\ b.lut = a.lut /\ b.status = a.status
             /\ Needs(b) = Needs(a)
             /\ \A c, n : Took(c, b, n) <=> Took(c, a, n)
<1> DEFINE b == [a EXCEPT !.state = s]
<1>1. /\ b.state = s /\ b.stage = a.stage /\ b.lut = a.lut /\ b.status = a.status
      /\ b.msb = a.msb /\ b.radios = a.radios
  BY DEF AgcSet
<1> HIDE DEF b
<1>2. Needs(b) = Needs(a)
  BY <1>1 DEF Needs
<1>3. \A c, n : Took(c, b, n) <=> Took(c, a, n)
  <2> SUFFICES ASSUME NEW c, NEW n
               PROVE  Took(c, b, n) <=> Took(c, a, n)
    OBVIOUS
  <2>1. (b.stage = StageAfter(c, n)) <=> (a.stage = StageAfter(c, n))
    BY <1>1
  <2> QED BY <1>1, <2>1, ZenonT(40) DEF Took
<1> QED BY <1>1, <1>2, <1>3 DEF b

LEMMA FirmwareSteps ==
  ASSUME TypeInv, FirmwareTakes
  PROVE  LET b == Taken(agc, select)
         IN  /\ agc'.state = (IF agc'.stage = "done" THEN "running" ELSE "idle")
             /\ agc'.stage = b.stage /\ agc'.lut = b.lut /\ agc'.status = b.status
             /\ Needs(agc') = Needs(b) /\ Needs(agc') >= Needs(agc) - 1
             /\ \A c, n : Took(c, agc', n) <=> Took(c, b, n)
<1> DEFINE b == Taken(agc, select)
<1>1. b \in AgcSet /\ Needs(b) >= Needs(agc) - 1
  BY TakenType, TakeNeeds DEF TypeInv
<1>2. agc' = [b EXCEPT !.state = IF b.stage = "done" THEN "running" ELSE "idle"]
  BY DEF FirmwareTakes
<1> HIDE DEF b
<1> QED BY <1>1, <1>2, StateApart DEF b

LEMMA StatusStep ==
  ASSUME TypeInv, StatusInv, [Next]_vars
  PROVE  StatusInv'
<1>0. LutMax \in 2..16 /\ Len(agc.lut) \in Nat /\ agc \in AgcSet /\ select \in Nat
  BY BoardAssumption DEF TypeInv, AgcSet
<1>1. CASE lgw_connect \/ Stopped
  <2>1. agc' \in {agc, Silent}
    BY <1>1 DEF lgw_connect, Stopped
  <2>2. agc' = Silent => StatusInv'
    BY <1>0 DEF StatusInv, Silent
  <2> QED BY <2>1, <2>2 DEF StatusInv
<1>2. CASE LoadsFirmware
  <2>1. agc'.lut = <<>> /\ agc'.status = 16
    BY <1>2 DEF LoadsFirmware, load_firmware, Silent
  <2> QED BY <1>0, <2>1 DEF StatusInv
<1>3. CASE FirmwareWaits
  <2>1. agc'.stage = agc.stage /\ agc'.lut = agc.lut /\ agc'.status = agc.status
    BY <1>0, <1>3, StateApart DEF FirmwareWaits
  <2> QED BY <2>1 DEF StatusInv
<1>4. CASE FirmwareTakes
  <2> DEFINE b == Taken(agc, select)
  <2>1. select # WAIT
    BY <1>4 DEF FirmwareTakes
  <2>2. CASE agc.stage = "lut" /\ select = ABORT
    <3>1. b.stage = "msb" /\ b.status = Ack
      BY <1>0, <2>2 DEF Taken, AgcSet
    <3> QED BY <1>4, <3>1, FirmwareSteps DEF StatusInv, Ack
  <2>3. CASE agc.stage = "lut" /\ select # ABORT
    <3>1. /\ b.stage = IF Len(agc.lut) + 1 = LutMax THEN "msb" ELSE "lut"
          /\ b.status = Ack + Len(agc.lut) /\ Len(b.lut) = Len(agc.lut) + 1
      <4>1. b = [agc EXCEPT !.lut = Append(@, select), !.status = Ack + Len(agc.lut),
                            !.stage = IF Len(agc.lut) + 1 = LutMax THEN "msb" ELSE "lut"]
        BY <2>3 DEF Taken
      <4> HIDE DEF b
      <4>2. /\ b.stage = IF Len(agc.lut) + 1 = LutMax THEN "msb" ELSE "lut"
            /\ b.status = Ack + Len(agc.lut) /\ b.lut = Append(agc.lut, select)
        BY <1>0, <4>1 DEF AgcSet
      <4>3. Len(Append(agc.lut, select)) = Len(agc.lut) + 1
        BY <1>0 DEF AgcSet
      <4> QED BY <4>2, <4>3
    <3>2. Len(agc.lut) < LutMax
      BY <2>3 DEF StatusInv
    <3> HIDE DEF b
    <3>3. b.status # 64 /\ (b.stage = "lut" => Len(b.lut) < LutMax)
      BY <1>0, <3>1, <3>2 DEF Ack
    <3> QED BY <1>4, <3>3, FirmwareSteps DEF StatusInv, b
  <2>4. CASE agc.stage \in {"msb", "chan"}
    <3>1. b.stage \in {"chan", "radios"} /\ b.status = Ack + select
      BY <1>0, <2>4 DEF Taken, AgcSet
    <3>2. Ack + select # 64
      BY <1>0, <2>1 DEF Ack, WAIT
    <3> QED BY <1>4, <3>1, <3>2, FirmwareSteps DEF StatusInv
  <2>5. CASE agc.stage \in {"radios", "done"}
    <3>1. b.stage = "done"
      BY <1>0, <2>5 DEF Taken, AgcSet
    <3> QED BY <1>4, <3>1, FirmwareSteps DEF StatusInv
  <2> QED BY <1>0, <2>2, <2>3, <2>4, <2>5 DEF AgcSet, Stages
<1>5. CASE UNCHANGED agc
  BY <1>5 DEF StatusInv
<1> QED BY <1>1, <1>2, <1>3, <1>4, <1>5 DEF Next, Start, Firmware, Caller, vars, hal, board, caller,
      lgw_start, Fails, Returns, lgw_setup_sx125x, lbt_setup, Calibrates, ConfiguresModems,
      StartsTransaction, GivesValue, ChecksStatus,
      UtilityStops, UtilitySets, Configures, sig_handler, menu, MainLeaves

(* Before and after the exchange there is nothing to show of it.            *)
LEMMA NoExchange ==
  ASSUME phase' \notin {"command", "value", "check"}, ~Running', StatusInv'
  PROVE  ExchangeInv'
BY DEF ExchangeInv, CommandInv, ValueInv, CheckInv, RunningInv

(* What is at hand in every step of the exchange.                           *)
LEMMA Place ==
  ASSUME TypeInv, phase \in {"command", "value", "check"}
  PROVE  /\ conf \in ConfSet /\ agc \in AgcSet /\ step \in 1..Total(conf) /\ Total(conf) \in Nat
         /\ Len(Transactions) = Total(conf) /\ conf.size \in Nat /\ Needs(agc) \in Nat
         /\ step < Total(conf) => Transactions[step].value \in Values
<1>1. conf \in ConfSet /\ agc \in AgcSet /\ step \in 1..Len(Transactions)
  BY DEF TypeInv
<1>2. Len(Transactions) = Total(conf)
  BY <1>1, TransactionsProps DEF Total, Rest
<1>3. step < Total(conf) => Transactions[step].value \in Values
  BY <1>1, <1>2, GivenValue
<1>4. Needs(agc) \in Nat
  BY DEF Needs
<1> QED BY <1>1, <1>2, <1>3, <1>4, Sizes

LEMMA Commands ==
  ASSUME TypeInv, CommandInv, StatusInv', StartsTransaction
  PROVE  ExchangeInv'
<1>1. /\ phase = "command" /\ phase' = "value" /\ select' = WAIT
      /\ UNCHANGED <<conf, step, agc>>
  BY DEF StartsTransaction
<1>2. /\ step \in 1..Total(conf) /\ Total(conf) \in Nat /\ conf \in ConfSet /\ agc \in AgcSet
      /\ conf.size \in Nat /\ Needs(agc) \in Nat
  BY <1>1, Place
<1>3. agc.state \in {"idle", "waiting"} /\ (Took(conf, agc, step - 1) \/ Needs(agc) > Total(conf) - step + 1)
  <2>1. CASE agc.state = "idle" /\ Took(conf, agc, step - 1)
    BY <2>1
  <2>2. CASE agc.state = "waiting" /\ step - 1 > conf.size /\ Took(conf, agc, step - 2)
    <3>1. step - 2 \in Nat /\ step - 2 >= conf.size
      BY <1>2, <2>2
    <3>2. Needs(agc) = Total(conf) - (step - 2)
      BY <1>2, <2>2, <3>1, NeedsLeft
    <3> QED BY <1>2, <2>2, <3>2
  <2>3. CASE Late(agc, Total(conf) - step + 1)
    BY <1>2, <2>3 DEF Late
  <2> QED BY <1>1, <2>1, <2>2, <2>3 DEF CommandInv
<1>4. ValueInv'
  BY <1>1, <1>3 DEF ValueInv
<1> QED BY <1>1, <1>4 DEF ExchangeInv, CommandInv, CheckInv, RunningInv, Running

LEMMA Gives ==
  ASSUME TypeInv, ValueInv, StatusInv', GivesValue
  PROVE  ExchangeInv'
<1>1. /\ phase = "value" /\ phase' = "check" /\ select' = Transactions[step].value
      /\ UNCHANGED <<conf, step, agc>>
  BY DEF GivesValue
<1>2. step \in 1..Total(conf) /\ Total(conf) \in Nat /\ Needs(agc) \in Nat
  BY <1>1, Place
<1>3. Transactions' = Transactions
  BY <1>1, TransactionsStay
<1>4. /\ agc.state \in {"idle", "waiting"}
      /\ Took(conf, agc, step - 1) \/ Needs(agc) > Total(conf) - step + 1
  BY <1>1 DEF ValueInv
<1>5. CheckInv'
  <2>1. Took(conf, agc, step - 1) \/ Late(agc, Total(conf) - step)
    BY <1>2, <1>4 DEF Late
  <2> HIDE DEF Transactions
  <2> QED BY <1>1, <1>3, <1>4, <2>1 DEF CheckInv
<1> QED BY <1>1, <1>5 DEF ExchangeInv, CommandInv, ValueInv, RunningInv, Running

(* An acknowledgement that fits says that the firmware has the value, or    *)
(* may have it, or is too late ever to run.                                 *)
LEMMA Checks ==
  ASSUME TypeInv, StatusInv, CheckInv, StatusInv', ChecksStatus
  PROVE  ExchangeInv'
<1>1. phase = "check" /\ UNCHANGED <<conf, agc, select>>
  BY DEF ChecksStatus, board
<1>2. /\ conf \in ConfSet /\ agc \in AgcSet /\ step \in 1..Total(conf) /\ Total(conf) \in Nat
      /\ Len(Transactions) = Total(conf) /\ conf.size \in Nat /\ Needs(agc) \in Nat
  BY <1>1, Place
<1>3. Transactions' = Transactions
  BY <1>1, TransactionsStay
<1>4. CASE agc.status # Transactions[step].ack
  <2>1. phase' = "out" /\ returned' = "error"
    BY <1>1, <1>4 DEF ChecksStatus, Returns
  <2> QED BY <2>1, NoExchange DEF Running
<1>5. CASE agc.status = Transactions[step].ack /\ step < Total(conf)
  <2>1. phase' = "command" /\ step' = step + 1
    BY <1>1, <1>2, <1>5 DEF ChecksStatus
  <2>2. Took(conf, agc, step - 1) => Needs(agc) = Total(conf) - step + 1 /\ step > conf.size
    <3> SUFFICES ASSUME Took(conf, agc, step - 1)
                 PROVE  Needs(agc) = Total(conf) - step + 1 /\ step > conf.size
      OBVIOUS
    <3>1. step - 1 \in Nat /\ (step - 1) + 1 = step
      BY <1>2
    <3>2. step - 1 >= conf.size
      BY <1>2, <1>5, <3>1, MissedEntry
    <3> QED BY <1>2, <3>1, <3>2, NeedsLeft
  <2>3. \/ agc.state = "idle" /\ Took(conf, agc, step)
        \/ agc.state = "waiting" /\ step > conf.size /\ Took(conf, agc, step - 1)
        \/ Late(agc, Total(conf) - step)
    <3>1. CASE agc.state = "idle" /\ Took(conf, agc, step - 1)
      BY <1>2, <2>2, <3>1 DEF Late
    <3>2. CASE agc.state = "waiting" /\ Took(conf, agc, step - 1)
      BY <2>2, <3>2
    <3> QED BY <1>1, <1>2, <1>5, <3>1, <3>2 DEF CheckInv, Stuck
  <2>4. /\ step' - 1 = step /\ step' - 2 = step - 1 /\ step' # 1
        /\ Total(conf) - step' + 1 = Total(conf) - step
    BY <1>2, <2>1
  <2>5. CommandInv'
    BY <1>1, <1>3, <2>3, <2>4, Zenon DEF CommandInv, CheckInv
  <2> QED BY <2>1, <2>5 DEF ExchangeInv, ValueInv, CheckInv, RunningInv, Running
<1>6. CASE agc.status = Transactions[step].ack /\ step = Total(conf)
  <2>1. phase' = "out"
    BY <1>1, <1>2, <1>6 DEF ChecksStatus, Returns
  <2>2. Transactions[step].ack = 64
    <3>1. Rest(conf) + 2 \in Nat /\ (Rest(conf) + 2) + 1 = step /\ Rest(conf) + 2 < Total(conf)
      BY <1>2, <1>6, Sizes
    <3> QED BY <1>2, <3>1, TransactionAt
  <2>3. agc.stage = "done" /\ Needs(agc) = 0
    BY <1>6, <2>2 DEF StatusInv, Needs
  <2>4. ~Took(conf, agc, step - 1)
    <3>1. step - 1 \in Nat /\ step - 1 >= conf.size
      BY <1>2, <1>6, Sizes
    <3> QED BY <1>2, <2>3, <3>1, NeedsLeft, SMTT(30)
  <2>5. ~Late(agc, Total(conf) - step)
    BY <1>2, <1>6, <2>3 DEF Late
  <2>6. agc.state = "running" /\ Took(conf, agc, Total(conf))
    BY <1>1, <1>6, <2>3, <2>4, <2>5 DEF CheckInv, Stuck
  <2> QED BY <1>1, <2>1, <2>6 DEF ExchangeInv, CommandInv, ValueInv, CheckInv, RunningInv
<1> QED BY <1>2, <1>4, <1>5, <1>6

(* The firmware waits for the next value once it sees the command.          *)
LEMMA Waits ==
  ASSUME TypeInv, ExchangeInv, StatusInv', FirmwareWaits
  PROVE  ExchangeInv'
<1>1. /\ agc.state = "idle" /\ select = WAIT /\ agc' = [agc EXCEPT !.state = "waiting"]
      /\ UNCHANGED <<conf, started, phase, step, returned, select>>
  BY DEF FirmwareWaits, hal
<1>2. /\ agc'.state = "waiting" /\ Needs(agc') = Needs(agc)
      /\ \A c, n : Took(c, agc', n) <=> Took(c, agc, n)
  BY <1>1, StateApart DEF TypeInv
<1>3. phase # "command"
  <2> SUFFICES ASSUME phase = "command" PROVE FALSE
    OBVIOUS
  <2>1. step \in 1..Len(Transactions) /\ conf \in ConfSet
    BY DEF TypeInv
  <2>2. step # 1 => step - 1 \in 1..Len(Transactions)
    BY <2>1, TransactionsProps, Sizes
  <2>3. step # 1 => Transactions[step - 1].value \in Values
    <3>1. step # 1 => step - 1 < Len(Transactions)
      BY <2>1
    <3> QED BY <2>1, <2>2, <3>1, GivenValue
  <2> HIDE DEF Transactions
  <2> QED BY <1>1, <2>3 DEF ExchangeInv, CommandInv, Values, WAIT
<1>4. phase = "check" => CheckInv'
  <2> SUFFICES ASSUME phase = "check" PROVE CheckInv'
    OBVIOUS
  <2>1. step \in 1..Total(conf) /\ Total(conf) \in Nat /\ select = Transactions[step].value
    BY Place DEF ExchangeInv, CheckInv
  <2>2. step = Total(conf)
    BY <1>1, <2>1, Place DEF Values
  <2>3. Transactions' = Transactions
    BY <1>1, TransactionsStay
  <2>4. CASE Took(conf, agc, step - 1)
    BY <1>1, <1>2, <2>1, <2>3, <2>4, Zenon DEF CheckInv
  <2>5. CASE Late(agc, Total(conf) - step)
    <3>1. Needs(agc) > 0
      BY <1>1, <2>1, <2>2, <2>5 DEF Late
    <3>2. agc'.stage # "done"
      BY <1>2, <3>1 DEF Needs
    <3>3. Stuck'
      BY <1>1, <1>2, <2>2, <3>2 DEF Stuck, Total, Rest
    <3> QED BY <1>1, <2>1, <2>3, <3>3, Zenon DEF CheckInv
  <2> QED BY <1>1, <2>2, <2>4, <2>5 DEF ExchangeInv, CheckInv, Stuck
<1>5. ~Running
  BY <1>1 DEF ExchangeInv, RunningInv
<1>6. ValueInv'
  BY <1>1, <1>2 DEF ExchangeInv, ValueInv
<1> QED BY <1>1, <1>3, <1>4, <1>5, <1>6 DEF ExchangeInv, CommandInv, CheckInv, RunningInv, Running

(* It takes what it finds instead of the command: the value of this         *)
(* transaction, or of the one before.                                       *)
LEMMA Takes ==
  ASSUME TypeInv, ExchangeInv, StatusInv', FirmwareTakes
  PROVE  ExchangeInv'
<1> DEFINE b == Taken(agc, select)
<1>1. /\ agc.state = "waiting" /\ select # WAIT
      /\ UNCHANGED <<conf, started, phase, step, returned, select>>
  BY DEF FirmwareTakes, hal
<1>2. /\ agc'.state = (IF agc'.stage = "done" THEN "running" ELSE "idle")
      /\ Needs(agc') >= Needs(agc) - 1
      /\ \A c, n : Took(c, agc', n) <=> Took(c, b, n)
  BY FirmwareSteps
<1>3. Needs(agc') \in Nat /\ (Needs(agc') > 0 => agc'.stage # "done")
  BY DEF Needs
<1>4. Transactions' = Transactions
  BY <1>1, TransactionsStay
<1>5. ASSUME phase \in {"command", "check"}, NEW n \in Nat, n < Total(conf), Took(conf, agc, n),
             select = Transactions[n + 1].value
      PROVE  /\ Took(conf, agc', n + 1)
             /\ agc'.state = (IF n + 1 = Total(conf) THEN "running" ELSE "idle")
  <2>1. conf \in ConfSet /\ agc \in AgcSet
    BY DEF TypeInv
  <2>2. Took(conf, agc', n + 1)
    BY <1>2, <1>5, <2>1, TakeNext
  <2>3. agc'.stage = StageAfter(conf, n + 1)
    BY <2>2 DEF Took
  <2>4. (agc'.stage = "done") <=> (n + 1 = Total(conf))
    <3>1. n + 1 = Total(conf) => StageAfter(conf, n + 1) = "done"
      BY <2>1, Sizes, StageIs
    <3>2. n + 1 < Total(conf) => StageAfter(conf, n + 1) # "done"
      BY <2>1, Sizes, StageIs
    <3>3. n + 1 = Total(conf) \/ n + 1 < Total(conf)
      BY <1>5, <2>1, Sizes
    <3> QED BY <2>1, <2>3, <3>1, <3>2, <3>3, Sizes
  <2> QED BY <1>2, <2>2, <2>4
<1>6. ASSUME NEW left \in Nat, Late(agc, left), Needs(agc) \in Nat
      PROVE  Late(agc', left)
  <2>1. Needs(agc') > left
    BY <1>1, <1>2, <1>3, <1>6 DEF Late
  <2> QED BY <1>2, <1>3, <1>6, <2>1 DEF Late
<1>7. phase = "command" => CommandInv'
  <2> SUFFICES ASSUME phase = "command" PROVE CommandInv'
    OBVIOUS
  <2>1. /\ step \in 1..Total(conf) /\ Total(conf) \in Nat /\ conf.size \in Nat /\ Needs(agc) \in Nat
    BY Place
  <2>2. select = (IF step = 1 THEN 0 ELSE Transactions[step - 1].value)
    BY DEF ExchangeInv, CommandInv
  <2>3. CASE step - 1 > conf.size /\ Took(conf, agc, step - 2)
    <3>1. step - 2 \in Nat /\ step - 2 < Total(conf) /\ (step - 2) + 1 = step - 1 /\ step - 1 # Total(conf)
      BY <2>1, <2>3
    <3>2. Took(conf, agc', step - 1) /\ agc'.state = "idle"
      BY <1>5, <2>1, <2>2, <2>3, <3>1
    <3> QED BY <1>1, <1>4, <2>2, <3>2, Zenon DEF CommandInv
  <2>4. CASE Late(agc, Total(conf) - step + 1)
    <3>1. Late(agc', Total(conf) - step + 1)
      BY <1>6, <2>1, <2>4
    <3> QED BY <1>1, <1>4, <2>2, <3>1, Zenon DEF CommandInv
  <2> QED BY <1>1, <2>3, <2>4 DEF ExchangeInv, CommandInv
<1>8. phase = "check" => CheckInv'
  <2> SUFFICES ASSUME phase = "check" PROVE CheckInv'
    OBVIOUS
  <2>1. step \in 1..Total(conf) /\ Total(conf) \in Nat /\ Needs(agc) \in Nat
    BY Place
  <2>2. select = Transactions[step].value
    BY DEF ExchangeInv, CheckInv
  <2>3. CASE Took(conf, agc, step - 1)
    <3>1. step - 1 \in Nat /\ step - 1 < Total(conf) /\ (step - 1) + 1 = step
      BY <2>1
    <3>2. Took(conf, agc', step) /\ agc'.state = (IF step = Total(conf) THEN "running" ELSE "idle")
      BY <1>5, <2>2, <2>3, <3>1
    <3> QED BY <1>1, <1>4, <2>2, <3>2, Zenon DEF CheckInv
  <2>4. CASE Late(agc, Total(conf) - step)
    <3>1. Late(agc', Total(conf) - step)
      BY <1>6, <2>1, <2>4
    <3> QED BY <1>1, <1>4, <2>2, <3>1, Zenon DEF CheckInv
  <2> QED BY <1>1, <2>3, <2>4 DEF ExchangeInv, CheckInv, Stuck
<1>9. phase # "value" /\ ~Running
  BY <1>1 DEF ExchangeInv, ValueInv, RunningInv
<1> QED BY <1>1, <1>7, <1>8, <1>9 DEF ExchangeInv, CommandInv, ValueInv, CheckInv, RunningInv, Running

LEMMA Loads ==
  ASSUME TypeInv, StatusInv', LoadsFirmware
  PROVE  ExchangeInv'
<1>1. /\ phase = "firmware" /\ phase' = "command" /\ step' = 1 /\ select' = 0 /\ conf' = conf
      /\ agc' = [Silent EXCEPT !.state = "idle", !.status = 16]
  BY DEF LoadsFirmware, load_firmware
<1>2. agc'.state = "idle" /\ agc'.status = 16 /\ agc'.stage = "lut" /\ agc'.lut = <<>>
  BY <1>1 DEF Silent
<1>3. conf \in ConfSet
  BY DEF TypeInv
<1>4. Took(conf, agc', 0)
  <2>1. agc'.stage = StageAfter(conf, 0)
    BY <1>2, <1>3, Sizes, StageIs
  <2>2. SubSeq(conf.lut, 1, IF 0 < conf.size THEN 0 ELSE conf.size) = <<>>
    BY <1>3, Sizes
  <2>3. 0 \in 0..Total(conf) /\ 0 \notin 1..conf.size /\ ~(0 > Rest(conf)) /\ 0 # Total(conf)
    BY <1>3, Sizes
  <2> QED BY <1>2, <2>1, <2>2, <2>3, Zenon DEF Took
<1>5. CommandInv'
  <2>1. step' - 1 = 0
    BY <1>1
  <2> QED BY <1>1, <1>2, <1>4, <2>1, Zenon DEF CommandInv
<1> QED BY <1>1, <1>5 DEF ExchangeInv, ValueInv, CheckInv, RunningInv, Running

LEMMA ExchangeStep ==
  ASSUME ~GainWhileStarted, TypeInv, ExchangeInv, [Next]_vars
  PROVE  ExchangeInv'
<1>1. StatusInv'
  BY StatusStep DEF ExchangeInv
<1>2. CASE lgw_start \/ Fails \/ UtilityStops \/ MainLeaves
  <2>1. phase' \in {"out", "connect"} /\ ~Running'
    BY <1>2 DEF lgw_start, Fails, Returns, UtilityStops, MainLeaves, Stopped, TypeInv, Running
  <2> QED BY <1>1, <2>1, NoExchange
<1>3. CASE lgw_connect \/ lgw_setup_sx125x \/ lbt_setup \/ Calibrates \/ ConfiguresModems
  <2>1. phase' \in {"out", "radios", "lbt", "calibrate", "modems", "firmware"} /\ ~Running'
    BY <1>3 DEF lgw_connect, lgw_setup_sx125x, lbt_setup, Calibrates, ConfiguresModems, Returns, Running
  <2> QED BY <1>1, <2>1, NoExchange
<1>4. CASE LoadsFirmware \/ StartsTransaction \/ GivesValue \/ ChecksStatus
  BY <1>1, <1>4, Loads, Commands, Gives, Checks DEF ExchangeInv
<1>5. CASE FirmwareWaits \/ FirmwareTakes
  BY <1>1, <1>5, Waits, Takes
<1>6. CASE UtilitySets \/ Configures
  <2>1. phase = "out" /\ UNCHANGED <<phase, started, returned, agc>>
    BY <1>6 DEF UtilitySets, Configures, board
  <2>2. started => conf' = conf
    BY <2>1, ConfStays
  <2>3. RunningInv'
    BY <2>1, <2>2 DEF ExchangeInv, RunningInv, Running
  <2> QED BY <1>1, <2>1, <2>3 DEF ExchangeInv, CommandInv, ValueInv, CheckInv
<1>7. CASE sig_handler \/ menu \/ UNCHANGED vars
  <2>1. UNCHANGED <<conf, started, phase, step, returned, agc, select>>
    BY <1>7 DEF sig_handler, menu, vars, hal, board
  <2>2. Transactions' = Transactions
    BY <2>1, TransactionsStay
  <2> HIDE DEF Transactions
  <2> QED BY <1>1, <2>1, <2>2 DEF ExchangeInv, CommandInv, ValueInv, CheckInv, RunningInv, Running, Stuck, Total, Rest
<1> QED BY <1>2, <1>3, <1>4, <1>5, <1>6, <1>7 DEF Next, Start, Firmware, Caller

(* When lgw_start has succeeded, the AGC runs with the gain table of the    *)
(* HAL, complete and in order, and the modems and the radios are those of   *)
(* the configuration, however slowly the firmware polls: a value that it    *)
(* misses can be acknowledged by the status of the one before it, but then  *)
(* the status of the last one never comes.  Programs that load another gain *)
(* table while the concentrator runs are left out: the setter lets them.    *)
THEOREM StartsAsConfigured ==
  ASSUME ~GainWhileStarted
  PROVE  Spec => []RunsAsConfigured
<1>1. Init => ExchangeInv
  BY BoardAssumption, SMTT(30)
  DEF Init, ExchangeInv, StatusInv, CommandInv, ValueInv, CheckInv, RunningInv, Running, Silent
<1>2. TypeInv /\ SetupInv /\ ExchangeInv => RunsAsConfigured
  <2> SUFFICES ASSUME TypeInv, SetupInv, ExchangeInv, Running PROVE RunsAsConfigured
    BY DEF RunsAsConfigured
  <2>1. agc.state = "running" /\ Took(conf, agc, Total(conf))
    BY DEF ExchangeInv, RunningInv
  <2>2. conf.size \in Nat /\ Total(conf) \in Nat /\ Total(conf) > Rest(conf) /\ ~(Total(conf) < conf.size)
    BY Sizes DEF TypeInv
  <2>3. /\ agc.lut = SubSeq(conf.lut, 1, conf.size) /\ agc.msb = 3 /\ agc.radios = radio_select
    BY <2>1, <2>2 DEF Took, radio_select
  <2>4. RadiosSet /\ ModemsSet
    BY DEF SetupInv, From
  <2> QED BY <2>1, <2>3, <2>4 DEF RunsAsConfigured, RadiosSet, ModemsSet
<1> QED BY <1>1, <1>2, ExchangeStep, BoardInvariant, SetupInvariant, PTL DEF Spec
=============================================================================
