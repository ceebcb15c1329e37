-------------------------- MODULE LmicChannelsProofs --------------------------
(* Proofs about LmicChannels: nextTx returns, the duty cycle and the random *)
(* delays are kept and the channel is a good one, for a clock of any width. *)
EXTENDS LmicChannels, WellFoundedInduction, TLAPS

Flags == {"JOINING", "TXDATA", "TXRXPEND", "NEXTCHNL", "RNDTX"}
Time == 0..(W - 1)
Bands == MILLI..DECI
ChannelSet == [band : Bands, drs : SUBSET DataRates]

Struct ==
  [opmode : SUBSET Flags, devaddr : BOOLEAN, txCnt : Nat, datarate : DataRates,
   pendTxConf : BOOLEAN, channels : [Channel -> ChannelSet], channelMap : SUBSET Channel,
   bands : [MILLI..AUX -> [avail : Time, cap : Nat, lastchnl : Channel]],
   txChnl : Channel, txend : Time, globalDutyRate : Rates \union {0},
   globalDutyAvail : Time, dutyCapAns : BOOLEAN, frame : {0, 1}, rxtime : Time,
   due : Time, armed : BOOLEAN, stuck : BOOLEAN]

Joining(m) == "JOINING" \in m.opmode
Pending(m) == "TXRXPEND" \in m.opmode
BandOf(m) == m.channels[m.txChnl].band

(* What the clock of the code shows at the true time x.                    *)
Shows(t, x) == t = (boot + x) % W

(* A band is available when it may be used, by the clock.                  *)
BandsShow(m, q) ==
  /\ q \in [Bands -> Nat]
  /\ \A b \in Bands : /\ Shows(m.bands[b].avail, q[b]) /\ m.bands[b].cap = TxCap[b]
                      /\ q[b] < clock + Hours8

FreshIn(m, q) == \A c \in m.channelMap : clock - q[m.channels[c].band] < MaxIdle

(* The choice of nextTx, which holds until the frame is sent: a channel of *)
(* the band that may be used first, and the time of that band.             *)
Chosen(m, q) ==
  /\ m.txChnl \in m.channelMap /\ m.datarate \in m.channels[m.txChnl].drs
  /\ m.txend = m.bands[BandOf(m)].avail
  /\ \A b \in Bands : UsableIn(m, b) # {} => q[BandOf(m)] <= q[b]

(* The delay of the node: after its own duty cycle and the random time of  *)
(* the retry, and not before the transaction before it.                    *)
Delayed(m) == m.globalDutyRate # 0 \/ "RNDTX" \in m.opmode
Past(sp) == sp < clock + RampUp
HeldUntil(m, g, nq, sp, rx) ==
  /\ Shows(m.globalDutyAvail, g) /\ rx <= g + Window
  /\ m.globalDutyRate # 0 => nq <= g
  /\ Past(sp) \/ sp <= g
Held(m, nq, sp, rx) ==
  IF Delayed(m) THEN \E g \in 0..(clock + Hours8) : HeldUntil(m, g, nq, sp, rx) ELSE Past(sp)

Blanked(m, sp) == m.opmode = {} /\ m.channelMap = {} /\ m.globalDutyRate = 0 /\ sp = 0

DefaultOnes(m, band) == \A c \in 0..2 : m.channels[c] = [band |-> band, drs |-> DataRates]

JoinPhase(m, q, sp) ==
  /\ ~m.devaddr /\ "RNDTX" \notin m.opmode /\ m.globalDutyRate = 0
  /\ m.channelMap = 0..2 /\ DefaultOnes(m, MILLI) /\ m.txChnl \in 0..2
  /\ ~Pending(m) =>
       /\ "NEXTCHNL" \notin m.opmode
       /\ \E x \in 0..(clock + Half - 1) : Shows(m.txend, x) /\ q[MILLI] <= x /\ sp <= x

Session(m, q, nq, sp, rx) ==
  /\ DefaultOnes(m, CENTI) /\ m.channelMap \intersect 0..2 # {}
  /\ \A b \in Bands : q[b] < rx + Hours8
  /\ "NEXTCHNL" \notin m.opmode => Chosen(m, q)
  /\ Held(m, nq, sp, rx)

Underway(m, sp, rx) ==
  /\ "NEXTCHNL" \in m.opmode /\ "RNDTX" \notin m.opmode /\ (Joining(m) \/ m.devaddr)
  /\ Shows(m.rxtime, rx) /\ clock <= rx + Late /\ Past(sp)
  /\ m.devaddr => ~m.dutyCapAns

(* Struct and histories q, nq, sp and rx at the true time of now.          *)
Good(m, q, nq, sp, rx) ==
  /\ m \in Struct /\ ~m.stuck /\ nq \in Nat /\ sp \in Nat /\ rx \in Nat /\ q \in [Bands -> Nat]
  /\ ~m.devaddr /\ ~Joining(m) => Blanked(m, sp)
  /\ m.devaddr \/ Joining(m) => BandsShow(m, q)
  /\ Joining(m) => JoinPhase(m, q, sp)
  /\ m.devaddr => Session(m, q, nq, sp, rx)
  /\ Pending(m) => Underway(m, sp, rx)

ChannelsInv ==
  /\ boot \in Time /\ clock \in Nat
  /\ Good(LMIC, quiet, nodeQuiet, spaced, rxend) /\ FreshIn(LMIC, quiet)
-----------------------------------------------------------------------------
(* Numbers, and times modulo W                                             *)

LEMMA Numbers ==
  /\ W \in Nat \ {0} /\ Half \in Nat /\ 2 * Half <= W /\ MaxIdle \in Nat \ {0}
  /\ MaxIdle = Half - Hours8 /\ Hours8 \in Nat \ {0} /\ RampUp \in Nat \ {0}
  /\ Window \in Nat /\ Zone \in Nat /\ Late \in Nat /\ MaxDR \in Nat
  /\ Hours8 + Window < Half /\ RampUp <= Hours8 /\ Late < Hours8 /\ Hours8 + Late <= Half
  /\ 0..2 \subseteq Channel /\ Channels \in Nat
<1>1. {W, Hours8, RampUp, Window, Zone, Late} \subseteq Nat /\ 0 < Hours8 /\ Hours8 < Half
  BY TimesAssumption
<1>2. W \div 2 \in Nat /\ 2 * (W \div 2) <= W
  BY <1>1
<1>3. MaxDR \in Nat /\ Channels \in Nat /\ Channels > 3
  BY RatesAssumption
<1>4. 0..2 \subseteq Channel
  BY <1>3 DEF Channel
<1>5. /\ Hours8 + Window < Half /\ 0 < RampUp /\ RampUp <= Hours8 /\ Late < Hours8
      /\ Hours8 + Late <= Half
  BY HorizonAssumption
<1>6. QED BY <1>1, <1>2, <1>3, <1>4, <1>5 DEF Half, MaxIdle

LEMMA NumbersOfFrames ==
  ASSUME NEW dr \in DataRates
  PROVE  /\ Airtime[dr] \in Nat
         /\ \A b \in Bands : TxCap[b] \in Nat /\ Airtime[dr] * TxCap[b] \in 0..(Hours8 - 1)
         /\ \A rate \in Rates : DutyAir(dr, rate) \in Airtime[dr]..Hours8
<1>1. Airtime[dr] \in Nat /\ \A b \in Bands : TxCap[b] \in Nat
  BY RatesAssumption DEF Bands
<1>2. \A b \in Bands : Airtime[dr] * TxCap[b] < Hours8
  BY HorizonAssumption DEF Bands
<1>3. \A rate \in Rates : DutyAir(dr, rate) \in Airtime[dr]..Hours8
  BY HorizonAssumption
<1>4. \A b \in Bands : Airtime[dr] * TxCap[b] \in Nat
  BY <1>1
<1>5. QED BY <1>1, <1>2, <1>3, <1>4, Numbers

LEMMA Remainder ==
  ASSUME NEW F \in Nat \ {0}, NEW a \in Int, NEW k \in Int, NEW r \in 0..(F - 1), a = F * k + r
  PROVE  a % F = r
<1> DEFINE q == a \div F
           s == a % F
<1>1. a = F * q + s /\ s \in 0..(F - 1) /\ q \in Int
  OBVIOUS
<1> HIDE DEF q, s
<1>2. s \in Int /\ r \in Int /\ s < F /\ r < F /\ 0 <= s /\ 0 <= r
  BY <1>1
<1>3. F * (q - k) = r - s
  <2>1. F * (q - k) = F * q - F * k
    BY <1>1
  <2>2. QED BY <2>1, <1>1, <1>2
<1>4. ASSUME NEW n \in Int, n >= 1
      PROVE  F * n >= F
  BY <1>4
<1>5. ASSUME NEW n \in Int, n <= -1
      PROVE  F * n <= -F
  BY <1>5
<1>6. q - k = 0
  BY <1>1, <1>2, <1>3, <1>4, <1>5
<1>7. QED BY <1>2, <1>3, <1>6 DEF s

(* A remainder may be taken of a summand first.                            *)
LEMMA RemainderOfSum ==
  ASSUME NEW F \in Nat \ {0}, NEW a \in Int, NEW b \in Int
  PROVE  ((a % F) + b) % F = (a + b) % F
<1> DEFINE q == a \div F
           s == a % F
           p == (s + b) \div F
           r == (s + b) % F
<1>1. a = F * q + s /\ s \in 0..(F - 1) /\ q \in Int
  OBVIOUS
<1>2. s + b = F * p + r /\ r \in 0..(F - 1) /\ p \in Int
  BY <1>1
<1> HIDE DEF q, s, p, r
<1>3. s \in Int /\ r \in Int
  BY <1>1, <1>2
<1>4. F * (q + p) = F * q + F * p
  BY <1>1, <1>2
<1>5. a + b = F * (q + p) + r
  BY <1>1, <1>2, <1>3, <1>4
<1>6. a + b \in Int /\ q + p \in Int
  BY <1>1, <1>2
<1>7. (a + b) % F = r
  BY <1>2, <1>5, <1>6, Remainder
<1>8. QED BY <1>7 DEF s, r

LEMMA RemainderOfDifference ==
  ASSUME NEW F \in Nat \ {0}, NEW a \in Int, NEW b \in Int
  PROVE  ((a % F) - (b % F)) % F = (a - b) % F
<1> DEFINE q == a \div F
           s == a % F
           p == b \div F
           r == b % F
           u == (s - r) % F
           k == (s - r) \div F
<1>1. a = F * q + s /\ s \in 0..(F - 1) /\ q \in Int
  OBVIOUS
<1>2. b = F * p + r /\ r \in 0..(F - 1) /\ p \in Int
  OBVIOUS
<1>3. s - r = F * k + u /\ u \in 0..(F - 1) /\ k \in Int
  BY <1>1, <1>2
<1> HIDE DEF q, s, p, r, u, k
<1>4. s \in Int /\ r \in Int /\ u \in Int
  BY <1>1, <1>2, <1>3
<1>5. F * (q - p + k) = F * q - F * p + F * k
  BY <1>1, <1>2, <1>3
<1>6. a - b = F * (q - p + k) + u
  BY <1>1, <1>2, <1>3, <1>4, <1>5
<1>7. q - p + k \in Int
  BY <1>1, <1>2, <1>3
<1>8. (a - b) % F = u
  BY <1>3, <1>6, <1>7, Remainder
<1>9. QED BY <1>8 DEF s, r, u

(* What the clock shows d later.                                           *)
LEMMA ShowsPlus ==
  ASSUME boot \in Int, NEW t, NEW x \in Int, NEW d \in Int, Shows(t, x)
  PROVE  Shows(Plus(t, d), x + d)
<1>1. (((boot + x) % W) + d) % W = (boot + x + d) % W
  <2>1. boot + x \in Int /\ W \in Nat \ {0}
    BY Numbers
  <2>2. QED BY ONLY <2>1, d \in Int, RemainderOfSum
<1>2. boot + (x + d) = boot + x + d
  OBVIOUS
<1>3. QED BY <1>1, <1>2 DEF Shows, Plus

LEMMA ShowsNow == Shows(now, clock)
  BY DEF Shows, now

LEMMA ShowsTime ==
  ASSUME boot \in Int, NEW t, NEW x \in Int, Shows(t, x)
  PROVE  t \in Time
<1>1. \A a \in Int : a % W \in 0..(W - 1)
  BY Numbers
<1>2. QED BY <1>1 DEF Shows, Time

(* Times less than half the range of the clock apart are compared as the   *)
(* true times are.                                                         *)
LEMMA Comparison ==
  ASSUME boot \in Int, NEW t, NEW u, NEW x \in Int, NEW y \in Int, Shows(t, x), Shows(u, y),
         -Half <= x - y, x - y < Half
  PROVE  (Before(t, u) <=> x < y) /\ (After(t, u) <=> x > y)
<1> DEFINE z == (t - u) % W
<1>1. z = (x - y) % W
  <2>1. z = ((boot + x) - (boot + y)) % W
    <3>1. boot + x \in Int /\ boot + y \in Int /\ W \in Nat \ {0}
      BY Numbers
    <3>2. (((boot + x) % W) - ((boot + y) % W)) % W = ((boot + x) - (boot + y)) % W
      BY ONLY <3>1, RemainderOfDifference
    <3>3. QED BY <3>2 DEF Shows
  <2>2. (boot + x) - (boot + y) = x - y
    OBVIOUS
  <2>3. QED BY <2>1, <2>2
<1>2. CASE x >= y
  <2>1. x - y = W * 0 + (x - y) /\ x - y \in 0..(W - 1)
    BY <1>2, Numbers
  <2>2. z = x - y
    BY <1>1, <2>1, Remainder, Numbers
  <2>3. QED BY <2>2, <1>2, Numbers DEF Before, After
<1>3. CASE x < y
  <2>1. x - y = W * (-1) + (x - y + W) /\ x - y + W \in 0..(W - 1)
    BY <1>3, Numbers
  <2>2. z = x - y + W
    BY <1>1, <2>1, Remainder, Numbers
  <2>3. QED BY <2>2, <1>3, Numbers DEF Before, After
<1>4. QED BY <1>2, <1>3

LEMMA LaterOne ==
  ASSUME boot \in Int, NEW t, NEW u, NEW x \in Int, NEW y \in Int, Shows(t, x), Shows(u, y),
         -Half <= x - y, x - y < Half
  PROVE  Shows(Later(t, u), IF x < y THEN y ELSE x)
  BY Comparison DEF Later
-----------------------------------------------------------------------------
(* The channel of a band                                                   *)

LEMMA SmallestOne ==
  ASSUME NEW S \in SUBSET Nat, S # {}
  PROVE  \E x \in S : \A y \in S : x <= y
<1>1. PICK x \in S : \A y \in S : ~(<<y, x>> \in OpToRel(<, Nat))
  BY NatLessThanWellFounded, WFMin, Zenon
<1>2. \A y \in S : ~(y < x)
  BY <1>1 DEF OpToRel
<1>3. QED BY <1>2

LEMMA NextChannelUsable ==
  ASSUME NEW m \in Struct, NEW b \in MILLI..AUX, UsableIn(m, b) # {}
  PROVE  NextChannel(m, b) \in UsableIn(m, b)
<1> DEFINE U == UsableIn(m, b)
           key(c) == (c - m.bands[b].lastchnl - 1) % Channels
<1>1. m.bands[b].lastchnl \in Int /\ U \subseteq Channel /\ Channels \in Nat \ {0}
  <2>1. m.bands[b].lastchnl \in Channel /\ m.channelMap \subseteq Channel
    BY DEF Struct
  <2>2. Channels \in Nat \ {0}
    BY RatesAssumption
  <2>3. QED BY <2>1, <2>2 DEF Channel, UsableIn
<1>2. \A c \in U : key(c) \in Nat
  <2>1. ASSUME NEW a \in Int
        PROVE  a % Channels \in Nat
    BY <1>1
  <2>2. QED BY <1>1, <2>1 DEF Channel
<1>3. PICK x \in {key(c) : c \in U} : \A y \in {key(c) : c \in U} : x <= y
  <2>1. {key(c) : c \in U} \in SUBSET Nat
    BY <1>2
  <2>2. {key(c) : c \in U} # {}
    OBVIOUS
  <2>3. QED BY ONLY <2>1, <2>2, SmallestOne
<1>4. \E c \in U : \A d \in U : key(c) <= key(d)
  BY <1>3
<1>5. (CHOOSE c \in U : \A d \in U : key(c) <= key(d)) \in U
  BY <1>4
<1>6. QED BY <1>5 DEF NextChannel
-----------------------------------------------------------------------------
(* The rounds of nextTx in a session                                       *)

(* What nextTx relies on: one band at least has a channel for the frame,   *)
(* and the bands that have a channel were used lately.                     *)
Searchable(m, q) ==
  /\ m \in Struct /\ BandsShow(m, q) /\ FreshIn(m, q) /\ UsableIn(m, CENTI) # {}

FreshBand(q, b) == b \in Bands /\ clock - q[b] < MaxIdle

(* A time between half the clock's range before 8 h from now and then.     *)
Horizon(t, x) == Shows(t, x) /\ x \in Int /\ clock - MaxIdle < x /\ x <= clock + Hours8

LEMMA BandsOfStruct ==
  MILLI = 0 /\ CENTI = 1 /\ DECI = 2 /\ AUX = 3 /\ Bands = {MILLI, CENTI, DECI}
  /\ MILLI..AUX = {MILLI, CENTI, DECI, AUX}
  BY DEF MILLI, CENTI, DECI, AUX, Bands

LEMMA UsableIsFresh ==
  ASSUME NEW m, NEW q, m \in Struct, FreshIn(m, q), NEW b, UsableIn(m, b) # {}
  PROVE  FreshBand(q, b)
<1>1. PICK c \in m.channelMap : m.channels[c].band = b
  BY DEF UsableIn
<1>2. m.channels[c].band \in Bands
  BY <1>1 DEF Struct, ChannelSet
<1>3. QED BY <1>1, <1>2 DEF FreshBand, FreshIn

LEMMA FreshInHorizon ==
  ASSUME NEW m, NEW q, BandsShow(m, q), clock \in Nat, NEW b, FreshBand(q, b)
  PROVE  Horizon(m.bands[b].avail, q[b]) /\ q[b] \in Nat /\ q[b] < clock + Hours8
<1>1. /\ q[b] \in Nat /\ Shows(m.bands[b].avail, q[b]) /\ q[b] < clock + Hours8
      /\ clock - q[b] < MaxIdle
  BY DEF FreshBand, BandsShow
<1>2. QED BY <1>1, Numbers DEF Horizon

LEMMA InHorizon ==
  ASSUME boot \in Int, clock \in Nat, NEW t, NEW u, NEW x, NEW y, Horizon(t, x), Horizon(u, y)
  PROVE  After(t, u) <=> x > y
<1>1. x \in Int /\ y \in Int /\ -Half < x - y /\ x - y < Half /\ Shows(t, x) /\ Shows(u, y)
  BY Numbers DEF Horizon
<1>2. -Half <= x - y
  BY <1>1, Numbers
<1>3. QED BY <1>1, <1>2, Comparison

(* A time that is taken for an earlier one than that of the horizon lies   *)
(* in it, as the clock shows it.                                           *)
LEMMA TakenInHorizon ==
  ASSUME boot \in Int, clock \in Nat, NEW t, NEW z \in Int, Shows(t, z),
         After(Plus(now, Hours8), t)
  PROVE  \E x \in Int : Horizon(t, x) /\ x < clock + Hours8
<1> DEFINE e == (clock + Hours8 - z) % W
           k == (clock + Hours8 - z) \div W
<1>1. Shows(Plus(now, Hours8), clock + Hours8)
  BY ShowsNow, ShowsPlus, Numbers
<1>2. e = (Plus(now, Hours8) - t) % W
  <2>1. boot + (clock + Hours8) \in Int /\ boot + z \in Int /\ W \in Nat \ {0}
    BY Numbers
  <2>2. (((boot + (clock + Hours8)) % W) - ((boot + z) % W)) % W
          = ((boot + (clock + Hours8)) - (boot + z)) % W
    BY ONLY <2>1, RemainderOfDifference
  <2>3. (boot + (clock + Hours8)) - (boot + z) = clock + Hours8 - z
    BY Numbers
  <2>4. QED BY <1>1, <2>2, <2>3 DEF Shows
<1>3. e \in 1..(Half - 1)
  BY <1>2 DEF After
<1>4. clock + Hours8 - z = W * k + e /\ k \in Int
  BY Numbers
<1> HIDE DEF e, k
<1> DEFINE x == clock + Hours8 - e
<1>5. x \in Int /\ e \in Int /\ W * k \in Int
  BY <1>3, <1>4, Numbers
<1>6. Shows(t, x)
  <2>1. x - z = W * k
    BY <1>4, <1>5, Numbers
  <2> DEFINE j == (boot + z) \div W
  <2>2. boot + z = W * j + t /\ t \in 0..(W - 1) /\ j \in Int
    BY Numbers DEF Shows
  <2> HIDE DEF j, x
  <2>3. t \in Int /\ W * j \in Int /\ W * (j + k) = W * j + W * k
    BY <1>4, <2>2, Numbers
  <2>4. boot + x = W * (j + k) + t
    <3>1. boot + x = (boot + z) + W * k
      BY <1>5, <2>1
    <3>2. QED BY <3>1, <1>5, <2>2, <2>3
  <2>5. j + k \in Int /\ boot + x \in Int
    BY <1>4, <1>5, <2>2
  <2>6. (boot + x) % W = t
    BY <2>2, <2>4, <2>5, Remainder, Numbers
  <2>7. QED BY <2>6 DEF Shows
<1>7. Horizon(t, x) /\ x < clock + Hours8
  BY <1>3, <1>5, <1>6, Numbers DEF Horizon
<1>8. QED BY <1>5, <1>7

(* The band that FirstBand returns is in bmap, and the first of those that *)
(* may be used when it was used lately itself.                             *)
LEMMA FirstBandIsFirst ==
  ASSUME boot \in Int, clock \in Nat, NEW m, NEW q, Searchable(m, q),
         NEW bmap \in SUBSET (MILLI..AUX), CENTI \in bmap
  PROVE  LET first == FirstBand(m, bmap) IN
         /\ first.band \in bmap
         /\ FreshBand(q, first.band) =>
              /\ first.time = m.bands[first.band].avail
              /\ \A b \in bmap : FreshBand(q, b) => q[first.band] <= q[b]
<1> DEFINE none == [band |-> MILLI, time |-> Plus(now, Hours8)]
           milli == Earlier(m, bmap, none, MILLI)
           centi == Earlier(m, bmap, milli, CENTI)
           deci == Earlier(m, bmap, centi, DECI)
           first == Earlier(m, bmap, deci, AUX)
           Avail(b) == m.bands[b].avail
           fresh == {b \in bmap : FreshBand(q, b)}
<1> USE BandsOfStruct
<1>1. /\ BandsShow(m, q)
      /\ \A b \in fresh : b \in Bands /\ Horizon(Avail(b), q[b]) /\ q[b] \in Nat
                          /\ q[b] < clock + Hours8
  BY FreshInHorizon DEF Searchable, FreshBand
<1>2. CENTI \in fresh
  BY UsableIsFresh DEF Searchable
<1>3. Horizon(none.time, clock + Hours8)
  BY ShowsNow, ShowsPlus, Numbers DEF Horizon
<1>4. PICK x1 \in Int :
        /\ Horizon(milli.time, x1) /\ milli.band = MILLI
        /\ x1 < clock + Hours8 => MILLI \in bmap /\ milli.time = Avail(MILLI)
        /\ MILLI \in fresh => x1 = q[MILLI] /\ milli.time = Avail(MILLI)
  <2>1. CASE MILLI \in fresh
    <3>1. After(none.time, Avail(MILLI))
      BY <1>1, <1>3, <2>1, InHorizon
    <3>2. milli = [band |-> MILLI, time |-> Avail(MILLI)]
      BY <2>1, <3>1 DEF Earlier
    <3>3. QED BY <1>1, <2>1, <3>2
  <2>2. CASE MILLI \notin fresh /\ MILLI \in bmap /\ After(none.time, Avail(MILLI))
    <3>1. milli = [band |-> MILLI, time |-> Avail(MILLI)]
      BY <2>2 DEF Earlier
    <3>2. Shows(Avail(MILLI), q[MILLI]) /\ q[MILLI] \in Int
      BY <1>1 DEF BandsShow
    <3>3. PICK x \in Int : Horizon(Avail(MILLI), x) /\ x < clock + Hours8
      BY <2>2, <3>2, TakenInHorizon
    <3>4. QED BY <2>2, <3>1, <3>3
  <2>3. CASE MILLI \notin fresh /\ ~(MILLI \in bmap /\ After(none.time, Avail(MILLI)))
    <3>1. milli = none
      BY <2>3 DEF Earlier
    <3>2. clock + Hours8 \in Int
      BY Numbers
    <3>3. QED BY <1>3, <2>3, <3>1, <3>2, Numbers
  <2>4. QED BY <2>1, <2>2, <2>3
<1> HIDE DEF milli
<1>5. PICK x2 \in Int :
        /\ Horizon(centi.time, x2) /\ x2 <= q[CENTI] /\ x2 < clock + Hours8
        /\ centi.band \in {MILLI, CENTI} \intersect bmap /\ centi.time = Avail(centi.band)
        /\ centi.band \in fresh => x2 = q[centi.band]
        /\ MILLI \in fresh => x2 <= q[MILLI]
  <2>1. After(milli.time, Avail(CENTI)) <=> x1 > q[CENTI]
    BY <1>1, <1>2, <1>4, InHorizon
  <2>2. CASE x1 > q[CENTI]
    <3>1. centi = [band |-> CENTI, time |-> Avail(CENTI)]
      BY <1>2, <2>1, <2>2 DEF Earlier
    <3>2. q[CENTI] \in Int /\ (MILLI \in fresh => q[CENTI] <= q[MILLI])
      BY <1>1, <1>2, <1>4, <2>2
    <3>3. QED BY <1>1, <1>2, <3>1, <3>2
  <2>3. CASE ~(x1 > q[CENTI])
    <3>1. centi = milli
      BY <2>1, <2>3 DEF Earlier
    <3>2. x1 <= q[CENTI] /\ x1 < clock + Hours8
      <4>1. q[CENTI] \in Nat /\ q[CENTI] < clock + Hours8
        BY <1>1, <1>2
      <4>2. QED BY <4>1, <2>3, Numbers
    <3>3. QED BY <1>1, <1>4, <3>1, <3>2
  <2>4. QED BY <2>2, <2>3
<1> HIDE DEF centi
<1>6. /\ deci.band \in bmap
      /\ deci.band \in fresh =>
           /\ deci.time = Avail(deci.band)
           /\ \A b \in fresh : q[deci.band] <= q[b]
  <2>1. \A b \in fresh : b \in {MILLI, CENTI, DECI} /\ q[b] \in Int
    BY <1>1
  <2>2. CASE DECI \in fresh
    <3>1. After(centi.time, Avail(DECI)) <=> x2 > q[DECI]
      BY <1>1, <1>5, <2>2, InHorizon
    <3>2. CASE x2 > q[DECI]
      <4>1. deci = [band |-> DECI, time |-> Avail(DECI)]
        BY <2>2, <3>1, <3>2 DEF Earlier
      <4>2. \A b \in fresh : q[DECI] <= q[b]
        BY <1>5, <2>1, <2>2, <3>2
      <4>3. QED BY <2>2, <4>1, <4>2
    <3>3. CASE ~(x2 > q[DECI])
      <4>1. deci = centi
        BY <3>1, <3>3 DEF Earlier
      <4>2. \A b \in fresh : x2 <= q[b]
        BY <1>5, <2>1, <3>3
      <4>3. QED BY <1>5, <4>1, <4>2
    <3>4. QED BY <3>2, <3>3
  <2>3. CASE DECI \notin fresh
    <3>1. \A b \in fresh : x2 <= q[b]
      BY <1>5, <2>1, <2>3
    <3>2. CASE deci = centi
      BY <1>5, <3>1, <3>2
    <3>3. CASE DECI \in bmap /\ deci = [band |-> DECI, time |-> Avail(DECI)]
      BY <2>3, <3>3
    <3>4. QED BY <3>2, <3>3 DEF Earlier
  <2>4. QED BY <2>2, <2>3
<1> HIDE DEF deci
<1>7. AUX \notin fresh
  BY DEF FreshBand
<1>8. /\ first.band \in bmap
      /\ first.band \in fresh =>
           first.time = Avail(first.band) /\ \A b \in fresh : q[first.band] <= q[b]
  <2>1. CASE first = deci
    BY <1>6, <2>1
  <2>2. CASE AUX \in bmap /\ first = [band |-> AUX, time |-> Avail(AUX)]
    BY <1>7, <2>2
  <2>3. QED BY <2>1, <2>2 DEF Earlier
<1>9. first = FirstBand(m, bmap)
  BY DEF FirstBand, milli, centi, deci
<1>10. QED BY <1>8, <1>9

(* What nextTx has found: a channel of the band that may be used first.    *)
Found(m, n, q) ==
  \E b \in Bands : \E c \in UsableIn(m, b) :
     /\ n = [m EXCEPT !.txend = m.bands[b].avail, !.txChnl = c, !.bands[b].lastchnl = c]
     /\ \A d \in Bands : UsableIn(m, d) # {} => q[b] <= q[d]

Searching(m, s, q) ==
  IF s.over THEN Found(m, s.m, q)
  ELSE /\ s.m = m /\ s.bmap \in SUBSET (MILLI..AUX)
       /\ \A b \in Bands : UsableIn(m, b) # {} => b \in s.bmap

SearchStates == [m : Struct, bmap : SUBSET (MILLI..AUX), over : BOOLEAN]

LEMMA RoundSearches ==
  ASSUME boot \in Int, clock \in Nat, NEW m, NEW q, Searchable(m, q),
         NEW bmap \in SUBSET (MILLI..AUX), NEW s, s = [m |-> m, bmap |-> bmap, over |-> FALSE],
         Searching(m, s, q)
  PROVE  \/ Round(s).over /\ Found(m, Round(s).m, q)
         \/ \E b \in bmap \ {CENTI} :
              /\ Round(s) = [m |-> m, bmap |-> bmap \ {b}, over |-> FALSE]
              /\ Searching(m, Round(s), q)
<1> DEFINE first == FirstBand(m, bmap)
           chnl == NextChannel(m, first.band)
           n == [m EXCEPT !.txend = first.time, !.txChnl = chnl,
                          !.bands[first.band].lastchnl = chnl]
<1> USE BandsOfStruct
<1>0. Round(s) = TryBand(m, bmap)
  BY DEF Round
<1>1. m \in Struct /\ FreshIn(m, q) /\ UsableIn(m, CENTI) # {}
  BY DEF Searchable
<1>2. \A b \in Bands : UsableIn(m, b) # {} => b \in bmap
  BY DEF Searching
<1>3. CENTI \in bmap
  BY <1>1, <1>2
<1>4. /\ first.band \in bmap
      /\ FreshBand(q, first.band) =>
           /\ first.time = m.bands[first.band].avail
           /\ \A b \in bmap : FreshBand(q, b) => q[first.band] <= q[b]
  BY <1>3, FirstBandIsFirst
<1> HIDE DEF first
<1>5. CASE UsableIn(m, first.band) # {}
  <2>1. FreshBand(q, first.band) /\ first.band \in Bands
    BY <1>1, <1>5, UsableIsFresh DEF FreshBand
  <2>2. chnl \in UsableIn(m, first.band)
    BY <1>1, <1>4, <1>5, NextChannelUsable
  <2>3. \A d \in Bands : UsableIn(m, d) # {} => q[first.band] <= q[d]
    BY <1>1, <1>2, <1>4, <2>1, UsableIsFresh
  <2>4. Round(s) = Returns(n)
    <3>1. TryBand(m, bmap) = Returns(Takes(m, first))
      BY <1>5 DEF TryBand, first
    <3>2. QED BY <1>0, <3>1 DEF Takes
  <2>5. Round(s).over /\ Round(s).m = n
    BY <2>4 DEF Returns
  <2>6. first.time = m.bands[first.band].avail
    BY <1>4, <2>1
  <2>7. Found(m, n, q)
    BY <2>1, <2>2, <2>3, <2>6 DEF Found
  <2>8. QED BY <2>5, <2>7
<1>6. CASE UsableIn(m, first.band) = {}
  <2>1. first.band # CENTI /\ bmap # {first.band}
    BY <1>1, <1>3, <1>6
  <2>3. Round(s) = [m |-> m, bmap |-> bmap \ {first.band}, over |-> FALSE]
    BY <1>0, <1>4, <1>6, <2>1 DEF TryBand, first
  <2>4. Searching(m, Round(s), q)
    <3>1. \A b \in Bands : UsableIn(m, b) # {} => b \in bmap \ {first.band}
      BY <1>2, <1>6
    <3>2. ASSUME NEW t, NEW rest \in SUBSET (MILLI..AUX), t = [m |-> m, bmap |-> rest, over |-> FALSE],
                 \A b \in Bands : UsableIn(m, b) # {} => b \in rest
          PROVE  Searching(m, t, q)
      BY ONLY <3>2 DEF Searching
    <3>3. bmap \ {first.band} \in SUBSET (MILLI..AUX)
      OBVIOUS
    <3>4. QED BY ONLY <2>3, <3>1, <3>2, <3>3
  <2>5. QED BY <1>4, <2>1, <2>3, <2>4
<1>7. QED BY <1>5, <1>6

LEMMA RoundOver == ASSUME NEW s, s.over PROVE Round(s) = s
  BY DEF Round

(* The loop ends, and has found a channel.                                 *)
LEMMA NextTxFinds ==
  ASSUME boot \in Int, clock \in Nat, NEW m, NEW q, Searchable(m, q)
  PROVE  \E n : Found(m, n, q) /\ nextTx(m) = Clear(n, {"NEXTCHNL"})
<1> DEFINE S(bmap) == [m |-> m, bmap |-> bmap, over |-> FALSE]
           All == MILLI..AUX
           Ended(s) == s.over /\ Found(m, s.m, q)
           Goes(s, bmap) == bmap \in SUBSET All /\ s = S(bmap) /\ Searching(m, s, q)
           s0 == S(All)
           s1 == Round(s0)
           s2 == Round(s1)
           s3 == Round(s2)
           s4 == Round(s3)
<1>1. Goes(s0, All)
  BY BandsOfStruct DEF Searching
<1>2. ASSUME NEW s, NEW bmap, Goes(s, bmap)
      PROVE  \/ Ended(Round(s))
             \/ \E b \in bmap \ {CENTI} : Goes(Round(s), bmap \ {b})
  BY <1>2, RoundSearches
<1>3. ASSUME NEW s, Ended(s)
      PROVE  Ended(Round(s))
  BY <1>3, RoundOver
<1> HIDE DEF Ended, Goes
<1>4. Ended(s4)
  <2>1. CASE Ended(s1)
    BY <2>1, <1>3
  <2>2. ASSUME NEW a \in All \ {CENTI}, Goes(s1, All \ {a})
        PROVE  Ended(s4)
    <3>1. CASE Ended(s2)
      BY <3>1, <1>3
    <3>2. ASSUME NEW b \in (All \ {a}) \ {CENTI}, Goes(s2, (All \ {a}) \ {b})
          PROVE  Ended(s4)
      <4>1. CASE Ended(s3)
        BY <4>1, <1>3
      <4>2. ASSUME NEW c \in ((All \ {a}) \ {b}) \ {CENTI},
                   Goes(s3, ((All \ {a}) \ {b}) \ {c})
            PROVE  Ended(s4)
        <5>1. (((All \ {a}) \ {b}) \ {c}) \ {CENTI} = {}
          BY <2>2, <3>2, <4>2, BandsOfStruct
        <5>2. QED BY <1>2, <4>2, <5>1
      <4>3. QED BY <1>2, <3>2, <4>1, <4>2
    <3>3. QED BY <1>2, <2>2, <3>1, <3>2
  <2>3. QED BY <1>1, <1>2, <2>1, <2>2
<1>5. nextTx(m) = Clear(s4.m, {"NEXTCHNL"})
  BY DEF nextTx
<1>6. QED BY <1>4, <1>5 DEF Ended
-----------------------------------------------------------------------------
(* A frame that is sent                                                    *)

(* What is true of a frame r sent at this moment, and afterwards: of the   *)
(* random time that it waited for, or of none.                             *)
Sent(r, q, nq, sp) ==
  LET band == BandOf(r)
      air == Airtime[r.datarate]
      rate == r.globalDutyRate
  IN  /\ clock + RampUp > q[band] /\ (rate # 0 => clock + RampUp > nq) /\ Past(sp)
      /\ r.txChnl \in r.channelMap /\ r.datarate \in r.channels[r.txChnl].drs
      /\ ~Joining(r) => \A b \in Bands : UsableIn(r, b) # {} => q[band] <= q[b]
      /\ \A sp2 \in {0, sp} :
           Good(r, [q EXCEPT ![band] = clock + air * TxCap[band]],
                IF rate # 0 THEN clock + DutyAir(r.datarate, rate) ELSE nq,
                sp2, clock + air + Window)

(* A state of the MAC with no transaction, and all that Good says of it.   *)
Idle(m, q, nq, sp, rx) ==
  /\ m \in Struct /\ ~m.stuck /\ nq \in Nat /\ sp \in Nat /\ rx \in Nat
  /\ ~Pending(m) /\ BandsShow(m, q) /\ FreshIn(m, q)

JoinReady(m, q, nq, sp, rx) ==
  Idle(m, q, nq, sp, rx) /\ Joining(m) /\ JoinPhase(m, q, sp)

SessionReady(m, q, nq, sp, rx) ==
  Idle(m, q, nq, sp, rx) /\ m.devaddr /\ ~Joining(m) /\ Session(m, q, nq, sp, rx)

(* The state after transmit, field by field.                               *)
AfterTransmit(m, r) ==
  /\ r \in Struct
  /\ r.opmode = (m.opmode \ {"RNDTX"}) \union {"TXRXPEND", "NEXTCHNL"}
  /\ r.bands = [m.bands EXCEPT ![BandOf(m)].avail =
                  Plus(now, Airtime[m.datarate] * m.bands[BandOf(m)].cap)]
  /\ r.globalDutyAvail = IF m.globalDutyRate = 0 THEN m.globalDutyAvail
                         ELSE Plus(now, DutyAir(m.datarate, m.globalDutyRate))
  /\ r.frame = 1 - m.frame /\ r.rxtime = Plus(now, Airtime[m.datarate] + Window)
  /\ r.dutyCapAns = IF Joining(m) THEN m.dutyCapAns ELSE FALSE
  /\ r.devaddr = m.devaddr /\ r.datarate = m.datarate /\ r.channels = m.channels
  /\ r.channelMap = m.channelMap /\ r.txChnl = m.txChnl /\ r.stuck = m.stuck
  /\ r.globalDutyRate = m.globalDutyRate

LEMMA TimeOfPlus ==
  ASSUME boot \in Int, clock \in Nat, NEW d \in Int
  PROVE  Plus(now, d) \in Time /\ Shows(Plus(now, d), clock + d)
<1>1. Shows(Plus(now, d), clock + d) /\ clock + d \in Int
  BY ShowsNow, ShowsPlus
<1>2. QED BY <1>1, ShowsTime

LEMMA TransmitFields ==
  ASSUME boot \in Int, clock \in Nat, NEW m \in Struct
  PROVE  AfterTransmit(m, transmit(m))
<1> DEFINE base == Set(Clear(m, {"RNDTX"}), {"TXRXPEND", "NEXTCHNL"})
           out == updateTx(base)
           opmode == (m.opmode \ {"RNDTX"}) \union {"TXRXPEND", "NEXTCHNL"}
           bands == [m.bands EXCEPT ![BandOf(m)].avail =
                       Plus(now, Airtime[m.datarate] * m.bands[BandOf(m)].cap)]
           dutyAvail == IF m.globalDutyRate = 0 THEN m.globalDutyAvail
                        ELSE Plus(now, DutyAir(m.datarate, m.globalDutyRate))
           rxtime == Plus(now, Airtime[m.datarate] + Window)
           ans == IF Joining(m) THEN m.dutyCapAns ELSE FALSE
           cnt == IF "JOINING" \notin m.opmode /\ m.pendTxConf /\ m.txCnt = 0 THEN 1 ELSE m.txCnt
           r == transmit(m)
<1>1. base = [m EXCEPT !.opmode = opmode]
  BY DEF Struct, Set, Clear
<1> HIDE DEF base
<1>2. out = [m EXCEPT !.opmode = opmode, !.bands = bands, !.globalDutyAvail = dutyAvail]
  BY <1>1 DEF Struct, updateTx, BandOf
<1> HIDE DEF out
<1>3. r = [out EXCEPT !.frame = 1 - @, !.armed = FALSE, !.rxtime = rxtime,
                      !.dutyCapAns = IF Joining(m) THEN @ ELSE FALSE,
                      !.txCnt = IF "JOINING" \notin m.opmode /\ m.pendTxConf /\ @ = 0
                                THEN 1 ELSE @]
  BY DEF transmit, out, base, Joining
<1> HIDE DEF r
<1>4. r = [m EXCEPT !.opmode = opmode, !.bands = bands, !.globalDutyAvail = dutyAvail,
                    !.frame = 1 - m.frame, !.armed = FALSE, !.rxtime = rxtime,
                    !.dutyCapAns = ans, !.txCnt = cnt]
  BY <1>2, <1>3 DEF Struct
<1>5. Airtime[m.datarate] \in Nat /\ BandOf(m) \in Bands /\ m.bands[BandOf(m)].cap \in Nat
  <2>1. m.datarate \in DataRates /\ m.txChnl \in Channel /\ m.channels \in [Channel -> ChannelSet]
    BY DEF Struct
  <2>2. BandOf(m) \in Bands
    BY <2>1 DEF BandOf, ChannelSet
  <2>3. QED BY <2>1, <2>2, NumbersOfFrames, BandsOfStruct DEF Struct
<1>6. opmode \in SUBSET Flags /\ ans \in BOOLEAN /\ cnt \in Nat /\ 1 - m.frame \in {0, 1}
  <2>1. m.frame \in {0, 1} /\ m.txCnt \in Nat /\ m.opmode \in SUBSET Flags
    BY DEF Struct
  <2>2. m.dutyCapAns \in BOOLEAN
    BY DEF Struct
  <2>3. ans \in BOOLEAN
    BY <2>2
  <2>4. cnt \in {1, m.txCnt}
    OBVIOUS
  <2> HIDE DEF ans, cnt
  <2>5. QED BY <2>1, <2>3, <2>4 DEF Flags
<1>7. rxtime \in Time
  <2>1. Airtime[m.datarate] + Window \in Int
    BY <1>5, Numbers
  <2>2. QED BY <2>1, TimeOfPlus
<1>8. dutyAvail \in Time
  <2>1. CASE m.globalDutyRate # 0
    <3>1. m.globalDutyRate \in Rates /\ m.datarate \in DataRates
      BY <2>1 DEF Struct
    <3>2. DutyAir(m.datarate, m.globalDutyRate) \in Int
      BY <1>5, <3>1, NumbersOfFrames, Numbers
    <3>3. QED BY <2>1, <3>2, TimeOfPlus
  <2>2. QED BY <2>1 DEF Struct
<1>9. bands \in [MILLI..AUX -> [avail : Time, cap : Nat, lastchnl : Channel]]
  <2>1. Airtime[m.datarate] * m.bands[BandOf(m)].cap \in Int
    BY <1>5
  <2>2. Plus(now, Airtime[m.datarate] * m.bands[BandOf(m)].cap) \in Time
    BY <2>1, TimeOfPlus
  <2>3. m.bands \in [MILLI..AUX -> [avail : Time, cap : Nat, lastchnl : Channel]]
    BY DEF Struct
  <2>4. QED BY <2>2, <2>3
<1> HIDE DEF opmode, bands, dutyAvail, rxtime, ans, cnt
<1>10. r \in Struct
  BY <1>4, <1>6, <1>7, <1>8, <1>9 DEF Struct
<1>11. /\ r.opmode = opmode /\ r.bands = bands /\ r.globalDutyAvail = dutyAvail
       /\ r.frame = 1 - m.frame /\ r.rxtime = rxtime /\ r.dutyCapAns = ans
       /\ r.devaddr = m.devaddr /\ r.datarate = m.datarate /\ r.channels = m.channels
       /\ r.channelMap = m.channelMap /\ r.txChnl = m.txChnl /\ r.stuck = m.stuck
       /\ r.globalDutyRate = m.globalDutyRate
  BY <1>4 DEF Struct
<1>12. QED
  BY <1>10, <1>11 DEF AfterTransmit, r, opmode, bands, dutyAvail, rxtime, ans

LEMMA AirOfFrame ==
  ASSUME NEW m \in Struct
  PROVE  /\ BandOf(m) \in Bands /\ Airtime[m.datarate] \in Nat
         /\ Airtime[m.datarate] * TxCap[BandOf(m)] \in 0..(Hours8 - 1)
         /\ m.globalDutyRate # 0 =>
              DutyAir(m.datarate, m.globalDutyRate) \in Airtime[m.datarate]..Hours8
<1>1. m.datarate \in DataRates /\ m.txChnl \in Channel /\ m.channels \in [Channel -> ChannelSet]
  BY DEF Struct
<1>2. m.globalDutyRate # 0 => m.globalDutyRate \in Rates
  BY DEF Struct
<1>3. BandOf(m) \in Bands
  BY <1>1 DEF BandOf, ChannelSet
<1>4. QED BY <1>1, <1>2, <1>3, NumbersOfFrames

(* What sending leaves, in a session and while joining.                    *)
SentState(m, r, q, nq, sp, rx) ==
  /\ r \in Struct /\ ~r.stuck /\ nq \in Nat /\ rx \in Nat /\ q \in [Bands -> Nat]
  /\ BandsShow(r, q) /\ Underway(r, sp, rx) /\ \A b \in Bands : q[b] < rx + Hours8
  /\ Held(r, nq, sp, rx) /\ Pending(r) /\ "NEXTCHNL" \in r.opmode
  /\ Joining(r) <=> Joining(m)

LEMMA SendsFrame ==
  ASSUME boot \in Int, clock \in Nat, NEW m, NEW q, NEW nq, NEW sp, NEW rx,
         Idle(m, q, nq, sp, rx), m.devaddr <=> ~Joining(m), NEW r, AfterTransmit(m, r),
         NEW sp2 \in Nat, Past(sp2),
         NEW q2, q2 = [q EXCEPT ![BandOf(m)] = clock + Airtime[m.datarate] * TxCap[BandOf(m)]],
         NEW nq2, nq2 = IF m.globalDutyRate # 0
                        THEN clock + DutyAir(m.datarate, m.globalDutyRate) ELSE nq,
         NEW rx2, rx2 = clock + Airtime[m.datarate] + Window
  PROVE  SentState(m, r, q2, nq2, sp2, rx2)
<1> DEFINE B == BandOf(m)
           air == Airtime[m.datarate]
           rate == m.globalDutyRate
<1>1. B \in Bands /\ air \in Nat /\ air * TxCap[B] \in 0..(Hours8 - 1)
      /\ (rate # 0 => DutyAir(m.datarate, rate) \in air..Hours8)
  BY AirOfFrame DEF Idle
<1>2. m \in Struct /\ ~m.stuck /\ nq \in Nat /\ BandsShow(m, q)
  BY DEF Idle
<1>3. Hours8 \in Nat /\ Window \in Nat /\ Late \in Nat
  BY Numbers
<1>4. r \in Struct /\ ~r.stuck
  BY <1>2 DEF AfterTransmit
<1>5. nq2 \in Nat /\ rx2 \in Nat
  BY <1>1, <1>2, <1>3
<1>6. q2 \in [Bands -> Nat] /\ q2[B] = clock + air * TxCap[B]
      /\ \A b \in Bands : b # B => q2[b] = q[b]
  <2>1. clock + air * TxCap[B] \in Nat
    BY <1>1
  <2>2. q \in [Bands -> Nat]
    BY <1>2 DEF BandsShow
  <2>3. QED BY <1>1, <2>1, <2>2
<1>7. \A b \in Bands : q2[b] < clock + Hours8
  BY <1>1, <1>2, <1>3, <1>6 DEF BandsShow
<1>8. BandsShow(r, q2)
  <2>1. m.bands[B].cap = TxCap[B]
    BY <1>1, <1>2 DEF BandsShow
  <2>2. Shows(Plus(now, air * TxCap[B]), q2[B])
    <3>1. air * TxCap[B] \in Int
      BY <1>1, <1>3
    <3>2. Shows(Plus(now, air * TxCap[B]), clock + air * TxCap[B])
      BY ONLY <3>1, boot \in Int, clock \in Nat, TimeOfPlus
    <3>3. QED BY <3>2, <1>6
  <2>3. r.bands = [m.bands EXCEPT ![B].avail = Plus(now, air * TxCap[B])]
    BY <2>1 DEF AfterTransmit
  <2>4. m.bands \in [MILLI..AUX -> [avail : Time, cap : Nat, lastchnl : Channel]]
    BY <1>2 DEF Struct
  <2>5. B \in MILLI..AUX /\ Bands \subseteq MILLI..AUX
    BY <1>1, BandsOfStruct
  <2>6. r.bands[B].avail = Plus(now, air * TxCap[B]) /\ r.bands[B].cap = m.bands[B].cap
        /\ \A b \in Bands : b # B => r.bands[b] = m.bands[b]
    <3> DEFINE t == Plus(now, air * TxCap[B])
    <3>1. r.bands = [m.bands EXCEPT ![B].avail = t]
      BY <2>3
    <3> HIDE DEF t, B
    <3>2. r.bands[B].avail = t /\ r.bands[B].cap = m.bands[B].cap
          /\ \A b \in Bands : b # B => r.bands[b] = m.bands[b]
      BY ONLY <2>4, <2>5, <3>1
    <3>3. QED BY <3>2 DEF t
  <2>7. ASSUME NEW b \in Bands
        PROVE  Shows(r.bands[b].avail, q2[b]) /\ r.bands[b].cap = TxCap[b]
    <3>1. CASE b = B
      BY <2>1, <2>2, <2>6, <3>1
    <3>2. CASE b # B
      BY <1>2, <1>6, <2>6, <3>2 DEF BandsShow
    <3>3. QED BY <3>1, <3>2
  <2>8. QED BY <1>6, <1>7, <2>7 DEF BandsShow
<1>9. Pending(r) /\ "NEXTCHNL" \in r.opmode /\ "RNDTX" \notin r.opmode
      /\ (Joining(r) <=> Joining(m)) /\ r.devaddr = m.devaddr
  BY DEF AfterTransmit, Pending, Joining
<1>10. Underway(r, sp2, rx2)
  <2>1. Shows(r.rxtime, rx2)
    <3>1. air + Window \in Int
      BY <1>1, <1>3
    <3>2. Shows(Plus(now, air + Window), clock + (air + Window))
      BY ONLY <3>1, boot \in Int, clock \in Nat, TimeOfPlus
    <3>3. clock + (air + Window) = rx2
      BY <1>1, <1>3
    <3>4. QED BY <3>2, <3>3 DEF AfterTransmit
  <2>2. clock <= rx2 + Late
    BY <1>1, <1>3
  <2>3. r.devaddr => ~r.dutyCapAns
    BY <1>9 DEF AfterTransmit
  <2>4. QED BY <1>9, <2>1, <2>2, <2>3 DEF Underway
<1>11. \A b \in Bands : q2[b] < rx2 + Hours8
  <2>1. clock <= rx2
    BY <1>1, <1>3
  <2>2. QED BY <1>3, <1>5, <1>6, <1>7, <2>1
<1>12. Held(r, nq2, sp2, rx2)
  <2>1. CASE rate = 0
    BY <1>9, <2>1 DEF Held, Delayed, AfterTransmit
  <2>2. CASE rate # 0
    <3>1. DutyAir(m.datarate, rate) \in Int
      BY <1>1, <1>3, <2>2
    <3>2. Shows(Plus(now, DutyAir(m.datarate, rate)), clock + DutyAir(m.datarate, rate))
      BY ONLY <3>1, boot \in Int, clock \in Nat, TimeOfPlus
    <3>3. Shows(r.globalDutyAvail, nq2)
      BY <2>2, <3>2 DEF AfterTransmit
    <3>4. nq2 \in 0..(clock + Hours8) /\ rx2 <= nq2 + Window
      BY <1>1, <1>3, <1>5, <2>2
    <3>5. HeldUntil(r, nq2, nq2, sp2, rx2)
      BY <1>5, <3>3, <3>4 DEF HeldUntil
    <3>6. QED BY <3>4, <3>5, <1>9 DEF Held
  <2>3. QED BY <2>1, <2>2
<1>13. QED BY <1>4, <1>5, <1>6, <1>8, <1>9, <1>10, <1>11, <1>12 DEF SentState
-----------------------------------------------------------------------------
(* The engine while joining                                                *)

(* What engineUpdate may make of m: a frame that is sent, or a state with  *)
(* the histories of before.                                                *)
Effect(m, r, q, nq, sp, rx) ==
  /\ r.frame # m.frame => Sent(r, q, nq, sp)
  /\ r.frame = m.frame => Good(r, q, nq, sp, rx)
Outcome(m, r, q, nq, sp, rx) ==
  /\ Effect(m, r, q, nq, sp, rx)
  /\ (Joining(r) <=> Joining(m)) /\ (r.dutyCapAns => m.dutyCapAns)

LEMMA FrameTurns == ASSUME NEW m \in Struct PROVE 1 - m.frame # m.frame
<1>1. m.frame \in {0, 1}
  BY DEF Struct
<1>2. QED BY <1>1

(* A time that is not at least TX_RAMPUP away is not before now + RampUp.  *)
LEMMA TimeToSend ==
  ASSUME boot \in Int, clock \in Nat, NEW t, NEW x \in Int, Shows(t, x),
         x <= clock + Half, Before(t, now + RampUp)
  PROVE  x < clock + RampUp
<1> DEFINE u == Plus(now, RampUp)
<1>1. RampUp \in Int /\ RampUp > 0 /\ Half \in Nat /\ W \in Nat \ {0}
  BY Numbers
<1>2. Shows(u, clock + RampUp)
  BY ONLY <1>1, boot \in Int, clock \in Nat, TimeOfPlus
<1>3. Before(t, u)
  <2>1. now \in Int
    BY ShowsNow, ShowsTime, Numbers DEF Time
  <2>2. t \in Int
    BY ShowsTime, Numbers DEF Time
  <2>3. (t - u) % W = (t - (now + RampUp)) % W
    <3>1. \A a \in Int : a % W \in Int
      BY <1>1
    <3>2. (boot + x) % W = t /\ boot + x \in Int
      BY DEF Shows
    <3>3. (((boot + x) % W) - ((now + RampUp) % W)) % W = ((boot + x) - (now + RampUp)) % W
      <4>1. now + RampUp \in Int
        BY <1>1, <2>1
      <4>2. QED BY ONLY <1>1, <3>2, <4>1, RemainderOfDifference
    <3>4. (((boot + x) % W) + (-(now + RampUp))) % W = ((boot + x) + (-(now + RampUp))) % W
      <4>1. -(now + RampUp) \in Int
        BY <1>1, <2>1
      <4>2. QED BY ONLY <1>1, <3>2, <4>1, RemainderOfSum
    <3>5. /\ ((boot + x) % W) + (-(now + RampUp)) = t - (now + RampUp)
          /\ (boot + x) + (-(now + RampUp)) = (boot + x) - (now + RampUp)
      BY <1>1, <2>1, <2>2, <3>2
    <3>6. QED BY <3>2, <3>3, <3>4, <3>5 DEF Plus
  <2>4. QED BY <2>3 DEF Before
<1>4. CASE x >= clock + RampUp
  <2>1. clock + RampUp \in Int /\ -Half <= x - (clock + RampUp) /\ x - (clock + RampUp) < Half
    BY <1>1, <1>4
  <2>2. Before(t, u) <=> x < clock + RampUp
    BY ONLY boot \in Int, x \in Int, Shows(t, x), <1>2, <2>1, Comparison
  <2>3. QED BY <1>3, <2>2
<1>5. QED BY <1>1, <1>4

LEMMA SendsJoinRequest ==
  ASSUME boot \in Int, clock \in Nat, NEW m, NEW q, NEW nq, NEW sp, NEW rx,
         JoinReady(m, q, nq, sp, rx), q[MILLI] < clock + RampUp, Past(sp)
  PROVE  Outcome(m, transmit(m), q, nq, sp, rx)
<1> DEFINE r == transmit(m)
           q2 == [q EXCEPT ![BandOf(m)] = clock + Airtime[m.datarate] * TxCap[BandOf(m)]]
           nq2 == IF m.globalDutyRate # 0
                  THEN clock + DutyAir(m.datarate, m.globalDutyRate) ELSE nq
           rx2 == clock + Airtime[m.datarate] + Window
<1>1. /\ Idle(m, q, nq, sp, rx) /\ m \in Struct /\ Joining(m) /\ ~m.devaddr /\ sp \in Nat
      /\ m.globalDutyRate = 0 /\ m.channelMap = 0..2 /\ DefaultOnes(m, MILLI) /\ m.txChnl \in 0..2
  BY DEF JoinReady, Idle, JoinPhase
<1>2. AfterTransmit(m, r)
  BY <1>1, TransmitFields
<1> HIDE DEF r
<1>3. /\ r.frame = 1 - m.frame /\ r.dutyCapAns = m.dutyCapAns /\ ~r.devaddr
      /\ r.globalDutyRate = 0 /\ r.channelMap = 0..2 /\ r.channels = m.channels
      /\ r.txChnl = m.txChnl /\ r.datarate = m.datarate /\ "RNDTX" \notin r.opmode
  BY <1>1, <1>2 DEF AfterTransmit
<1>4. BandOf(m) = MILLI /\ BandOf(r) = MILLI /\ m.datarate \in m.channels[m.txChnl].drs
  BY <1>1, <1>3 DEF BandOf, DefaultOnes, Struct
<1>5. ASSUME NEW sp2 \in Nat, Past(sp2)
      PROVE  /\ r \in Struct /\ ~r.stuck /\ nq2 \in Nat /\ rx2 \in Nat /\ q2 \in [Bands -> Nat]
             /\ BandsShow(r, q2) /\ Underway(r, sp2, rx2) /\ Pending(r) /\ Joining(r)
  <2>1. m.devaddr <=> ~Joining(m)
    BY <1>1
  <2>2. SentState(m, r, q2, nq2, sp2, rx2)
    BY ONLY boot \in Int, clock \in Nat, <1>1, <1>2, <1>5, <2>1, SendsFrame
  <2>3. QED BY <1>1, <2>2 DEF SentState
<1>6. sp \in Nat /\ Past(sp) /\ 0 \in Nat /\ Past(0)
  BY <1>1, Numbers DEF Past
<1>7. Joining(r)
  BY <1>5, <1>6
<1> HIDE DEF q2, nq2, rx2
<1>8. ASSUME NEW sp2 \in {0, sp}
      PROVE  Good(r, q2, nq2, sp2, rx2)
  <2>1. sp2 \in Nat /\ Past(sp2)
    BY <1>6
  <2>2. JoinPhase(r, q2, sp2)
    BY <1>1, <1>3, <1>5, <2>1 DEF JoinPhase, DefaultOnes
  <2>3. QED BY <1>3, <1>5, <2>1, <2>2 DEF Good
<1>9. Sent(r, q, nq, sp)
  <2>1. r.txChnl \in r.channelMap /\ r.datarate \in r.channels[r.txChnl].drs
    BY <1>1, <1>3, <1>4
  <2>2. q2 = [q EXCEPT ![BandOf(r)] = clock + Airtime[r.datarate] * TxCap[BandOf(r)]]
        /\ rx2 = clock + Airtime[r.datarate] + Window
        /\ nq2 = IF r.globalDutyRate # 0
                 THEN clock + DutyAir(r.datarate, r.globalDutyRate) ELSE nq
    BY <1>1, <1>3, <1>4 DEF q2, nq2, rx2
  <2>3. QED BY <1>3, <1>4, <1>6, <1>7, <1>8, <2>1, <2>2, Zenon DEF Sent
<1>10. r.frame # m.frame
  BY <1>1, <1>3, FrameTurns
<1>11. QED BY <1>1, <1>3, <1>7, <1>9, <1>10 DEF Outcome, Effect, r

(* A state that waits for its time: osjob is set to it.                    *)
Waiting(m) == [m EXCEPT !.due = Plus(Begin(m), -RampUp), !.armed = TRUE]

LEMMA EngineOf ==
  ASSUME NEW m, ~m.stuck, ~Pending(m), m.devaddr \/ Joining(m), NEW r \in engineUpdate(m),
         NEW c, c = IF "NEXTCHNL" \in m.opmode THEN nextTx(m) ELSE m, ~c.stuck
  PROVE  \/ r = m /\ ~Joining(m)
         \/ r = transmit(c) /\ Before(Begin(c), now + RampUp)
         \/ r = Waiting(c)
<1>1. "TXRXPEND" \notin m.opmode
  BY DEF Pending
<1>2. CASE ~Has(m, {"JOINING", "TXDATA"})
  <2>1. engineUpdate(m) = {m}
    BY <1>1, <1>2 DEF engineUpdate, Joining
  <2>2. QED BY <1>2, <2>1 DEF Has, Joining
<1>3. CASE Has(m, {"JOINING", "TXDATA"})
  <2>1. engineUpdate(m) =
          IF c.stuck THEN {c}
          ELSE IF Before(Begin(c), now + RampUp) THEN {transmit(c)} ELSE {Waiting(c)}
    BY <1>1, <1>3 DEF engineUpdate, Joining, Waiting
  <2>2. QED BY <2>1
<1>4. QED BY <1>2, <1>3

LEMMA WaitingFields ==
  ASSUME boot \in Int, NEW m \in Struct
  PROVE  LET r == Waiting(m) IN
         /\ r \in Struct
         /\ r.opmode = m.opmode /\ r.bands = m.bands /\ r.globalDutyAvail = m.globalDutyAvail
         /\ r.frame = m.frame /\ r.rxtime = m.rxtime /\ r.dutyCapAns = m.dutyCapAns
         /\ r.devaddr = m.devaddr /\ r.datarate = m.datarate /\ r.channels = m.channels
         /\ r.channelMap = m.channelMap /\ r.txChnl = m.txChnl /\ r.stuck = m.stuck
         /\ r.globalDutyRate = m.globalDutyRate /\ r.txend = m.txend
<1>1. m.txend \in Time /\ m.globalDutyAvail \in Time /\ W \in Nat \ {0} /\ RampUp \in Nat
  BY Numbers DEF Struct
<1>2. Begin(m) \in Int
  <2>1. Begin(m) \in {m.txend, m.globalDutyAvail}
    BY DEF Begin, Later
  <2>2. QED BY <1>1, <2>1 DEF Time
<1>3. Plus(Begin(m), -RampUp) \in Time
  BY <1>1, <1>2 DEF Plus, Time
<1> DEFINE due == Plus(Begin(m), -RampUp)
           r == Waiting(m)
<1>4. r = [m EXCEPT !.due = due, !.armed = TRUE] /\ due \in Time
  BY <1>3 DEF Waiting
<1> HIDE DEF due, r
<1>5. r \in Struct
  BY <1>4 DEF Struct
<1>6. /\ r.opmode = m.opmode /\ r.bands = m.bands /\ r.globalDutyAvail = m.globalDutyAvail
      /\ r.frame = m.frame /\ r.rxtime = m.rxtime /\ r.dutyCapAns = m.dutyCapAns
      /\ r.devaddr = m.devaddr /\ r.datarate = m.datarate /\ r.channels = m.channels
      /\ r.channelMap = m.channelMap /\ r.txChnl = m.txChnl /\ r.stuck = m.stuck
      /\ r.globalDutyRate = m.globalDutyRate /\ r.txend = m.txend
  BY <1>4 DEF Struct
<1>7. QED BY <1>5, <1>6 DEF r

LEMMA JoinReadyIsGood ==
  ASSUME NEW m, NEW q, NEW nq, NEW sp, NEW rx, JoinReady(m, q, nq, sp, rx)
  PROVE  Good(m, q, nq, sp, rx)
<1>1. m.devaddr = FALSE
  BY DEF JoinReady, Idle, JoinPhase, Struct
<1>2. QED BY <1>1 DEF JoinReady, Idle, Good, BandsShow

LEMMA EngineWhileJoining ==
  ASSUME boot \in Int, clock \in Nat, NEW m, NEW q, NEW nq, NEW sp, NEW rx,
         JoinReady(m, q, nq, sp, rx), NEW r \in engineUpdate(m)
  PROVE  Outcome(m, r, q, nq, sp, rx)
<1>1. /\ m \in Struct /\ Joining(m) /\ ~Pending(m) /\ ~m.stuck /\ sp \in Nat
      /\ "NEXTCHNL" \notin m.opmode /\ "RNDTX" \notin m.opmode /\ m.globalDutyRate = 0
      /\ q \in [Bands -> Nat]
  BY DEF JoinReady, Idle, JoinPhase, BandsShow
<1>2. PICK x \in 0..(clock + Half - 1) : Shows(m.txend, x) /\ q[MILLI] <= x /\ sp <= x
  BY <1>1 DEF JoinReady, JoinPhase
<1>3. Begin(m) = m.txend
  BY <1>1 DEF Begin
<1>4. \/ r = transmit(m) /\ Before(Begin(m), now + RampUp)
      \/ r = Waiting(m)
  BY <1>1, EngineOf
<1>5. CASE r = transmit(m) /\ Before(Begin(m), now + RampUp)
  <2>1. x < clock + RampUp
    <3>1. x \in Int /\ x <= clock + Half
      BY <1>2, Numbers
    <3>2. Shows(m.txend, x) /\ Before(m.txend, now + RampUp)
      BY <1>2, <1>3, <1>5
    <3>3. QED BY ONLY boot \in Int, clock \in Nat, <3>1, <3>2, TimeToSend
  <2>2. q[MILLI] < clock + RampUp /\ Past(sp)
    <3>1. q[MILLI] \in Nat
      BY <1>1, BandsOfStruct
    <3>2. QED BY <1>1, <1>2, <2>1, <3>1, Numbers DEF Past
  <2>3. QED BY <1>5, <2>2, SendsJoinRequest
<1>6. CASE r = Waiting(m)
  <2> DEFINE s == Waiting(m)
  <2>1. /\ s \in Struct
        /\ s.opmode = m.opmode /\ s.bands = m.bands /\ s.globalDutyAvail = m.globalDutyAvail
        /\ s.frame = m.frame /\ s.rxtime = m.rxtime /\ s.dutyCapAns = m.dutyCapAns
        /\ s.devaddr = m.devaddr /\ s.datarate = m.datarate /\ s.channels = m.channels
        /\ s.channelMap = m.channelMap /\ s.txChnl = m.txChnl /\ s.stuck = m.stuck
        /\ s.globalDutyRate = m.globalDutyRate /\ s.txend = m.txend
    BY <1>1, WaitingFields
  <2> HIDE DEF s
  <2>2. JoinReady(s, q, nq, sp, rx)
    BY <2>1 DEF JoinReady, Idle, JoinPhase, Joining, Pending, DefaultOnes, BandsShow, FreshIn
  <2>3. QED BY <1>6, <2>1, <2>2, JoinReadyIsGood DEF Outcome, Effect, Joining, s
<1>7. QED BY <1>4, <1>5, <1>6
-----------------------------------------------------------------------------
(* The engine in a session                                                 *)

LEMMA ReadyIsSearchable ==
  ASSUME NEW m, NEW q, NEW nq, NEW sp, NEW rx, SessionReady(m, q, nq, sp, rx)
  PROVE  Searchable(m, q)
<1>1. m \in Struct /\ BandsShow(m, q) /\ FreshIn(m, q) /\ DefaultOnes(m, CENTI)
      /\ m.channelMap \intersect 0..2 # {}
  BY DEF SessionReady, Idle, Session
<1>2. PICK c \in m.channelMap : c \in 0..2
  BY <1>1
<1>3. m.channels[c].band = CENTI /\ m.channels[c].drs = DataRates /\ m.datarate \in DataRates
  BY <1>1, <1>2 DEF DefaultOnes, Struct
<1>4. c \in UsableIn(m, CENTI)
  BY <1>2, <1>3 DEF UsableIn
<1>5. QED BY <1>1, <1>4 DEF Searchable

(* The choice of nextTx is the channel and the time of a band that is the  *)
(* first of those with a channel; nothing else of the state is changed.    *)
LEMMA NextTxChooses ==
  ASSUME boot \in Int, clock \in Nat, NEW m, NEW q, NEW nq, NEW sp, NEW rx,
         SessionReady(m, q, nq, sp, rx)
  PROVE  LET n == nextTx(m) IN
         /\ SessionReady(n, q, nq, sp, rx) /\ "NEXTCHNL" \notin n.opmode
         /\ n.frame = m.frame /\ n.dutyCapAns = m.dutyCapAns
<1> DEFINE n == nextTx(m)
<1>1. Searchable(m, q) /\ m \in Struct /\ BandsShow(m, q)
  BY ReadyIsSearchable DEF SessionReady, Idle
<1>2. PICK f : Found(m, f, q) /\ n = Clear(f, {"NEXTCHNL"})
  BY <1>1, NextTxFinds
<1> HIDE DEF n
<1> DEFINE Choice(b, c) ==
      /\ f = [m EXCEPT !.txend = m.bands[b].avail, !.txChnl = c, !.bands[b].lastchnl = c]
      /\ \A d \in Bands : UsableIn(m, d) # {} => q[b] <= q[d]
<1>14. PICK b \in Bands : \E c \in UsableIn(m, b) : Choice(b, c)
  BY <1>2 DEF Found
<1>3. PICK c \in UsableIn(m, b) : Choice(b, c)
  BY <1>14
<1>4. /\ c \in m.channelMap /\ c \in Channel /\ m.channels[c].band = b
      /\ m.datarate \in m.channels[c].drs /\ m.bands[b].avail \in Time
      /\ m.bands \in [MILLI..AUX -> [avail : Time, cap : Nat, lastchnl : Channel]]
      /\ b \in MILLI..AUX
  BY <1>1, <1>3, BandsOfStruct DEF UsableIn, Struct
<1> DEFINE bands == [m.bands EXCEPT ![b].lastchnl = c]
<1>5. /\ bands \in [MILLI..AUX -> [avail : Time, cap : Nat, lastchnl : Channel]]
      /\ \A d \in MILLI..AUX : bands[d].avail = m.bands[d].avail /\ bands[d].cap = m.bands[d].cap
  BY <1>4
<1>6. n = [m EXCEPT !.opmode = m.opmode \ {"NEXTCHNL"}, !.txend = m.bands[b].avail,
                    !.txChnl = c, !.bands = bands]
  BY <1>1, <1>2, <1>3 DEF Clear, Struct
<1> HIDE DEF bands
<1>7. n \in Struct
  <2>1. m.opmode \ {"NEXTCHNL"} \in SUBSET Flags
    BY <1>1 DEF Struct
  <2>2. QED BY <1>1, <1>4, <1>5, <1>6, <2>1 DEF Struct
<1>8. /\ n.opmode = m.opmode \ {"NEXTCHNL"} /\ n.bands = bands /\ n.txChnl = c
      /\ n.txend = m.bands[b].avail
      /\ n.globalDutyAvail = m.globalDutyAvail /\ n.globalDutyRate = m.globalDutyRate
      /\ n.frame = m.frame /\ n.dutyCapAns = m.dutyCapAns
      /\ n.devaddr = m.devaddr /\ n.datarate = m.datarate /\ n.channels = m.channels
      /\ n.channelMap = m.channelMap /\ n.stuck = m.stuck
  BY <1>1, <1>6 DEF Struct
<1>9. BandsShow(n, q)
  BY <1>1, <1>5, <1>8, BandsOfStruct DEF BandsShow
<1>10. Chosen(n, q)
  <2>1. BandOf(n) = b /\ n.txend = n.bands[b].avail
    BY <1>4, <1>5, <1>8 DEF BandOf
  <2>2. \A d \in Bands : UsableIn(n, d) = UsableIn(m, d)
    BY <1>8 DEF UsableIn
  <2>3. QED BY <1>3, <1>4, <1>8, <2>1, <2>2 DEF Chosen
<1>11. Session(n, q, nq, sp, rx)
  <2>1. Held(n, nq, sp, rx) <=> Held(m, nq, sp, rx)
    BY <1>8 DEF Held, Delayed, HeldUntil
  <2>2. QED BY <1>8, <1>10, <2>1 DEF SessionReady, Session, DefaultOnes
<1>12. Idle(n, q, nq, sp, rx)
  BY <1>7, <1>8, <1>9 DEF SessionReady, Idle, Pending, FreshIn
<1>13. QED BY <1>8, <1>11, <1>12 DEF SessionReady, Joining, n

(* What engineUpdate waits for is not before the band of the channel is    *)
(* free, the node may send and the delay of a retry is over.               *)
LEMMA BeginIsLate ==
  ASSUME boot \in Int, clock \in Nat, NEW m, NEW q, NEW nq, NEW sp, NEW rx,
         SessionReady(m, q, nq, sp, rx), "NEXTCHNL" \notin m.opmode,
         Before(Begin(m), now + RampUp)
  PROVE  /\ q[BandOf(m)] < clock + RampUp /\ Past(sp)
         /\ m.globalDutyRate # 0 => nq < clock + RampUp
<1> DEFINE b == BandOf(m)
<1>1. /\ m \in Struct /\ nq \in Nat /\ sp \in Nat /\ rx \in Nat /\ BandsShow(m, q)
      /\ FreshIn(m, q) /\ Chosen(m, q) /\ Held(m, nq, sp, rx)
      /\ \A d \in Bands : q[d] < rx + Hours8
  BY DEF SessionReady, Idle, Session
<1>2. b \in Bands
  BY <1>1, AirOfFrame
<1>3. /\ q[b] \in Nat /\ Shows(m.txend, q[b]) /\ q[b] < clock + Hours8
      /\ clock - q[b] < MaxIdle /\ q[b] < rx + Hours8
  BY <1>1, <1>2 DEF BandsShow, Chosen, FreshIn, BandOf
<1> HIDE DEF b
<1>4. ASSUME NEW y \in Int, Shows(Begin(m), y), y <= clock + Hours8
      PROVE  y < clock + RampUp
  <2>1. y <= clock + Half
    BY <1>4, Numbers
  <2>2. QED
    BY ONLY boot \in Int, clock \in Nat, <1>4, <2>1, Before(Begin(m), now + RampUp), TimeToSend
<1>5. CASE Delayed(m)
  <2>1. PICK g \in 0..(clock + Hours8) : HeldUntil(m, g, nq, sp, rx)
    BY <1>1, <1>5 DEF Held
  <2>2. /\ g \in Int /\ g <= clock + Hours8 /\ Shows(m.globalDutyAvail, g) /\ rx <= g + Window
        /\ (m.globalDutyRate # 0 => nq <= g) /\ (Past(sp) \/ sp <= g)
    BY <2>1, Numbers DEF HeldUntil
  <2>3. -Half <= q[b] - g /\ q[b] - g < Half
    BY <1>1, <1>3, <2>2, Numbers
  <2> DEFINE y == IF q[b] < g THEN g ELSE q[b]
  <2>4. Begin(m) = Later(m.txend, m.globalDutyAvail)
    BY <1>5 DEF Delayed, Begin
  <2>5. Shows(Later(m.txend, m.globalDutyAvail), y)
    <3>1. q[b] \in Int
      BY <1>3
    <3>2. QED BY ONLY boot \in Int, <1>3, <2>2, <2>3, <3>1, LaterOne
  <2>6. y \in Int /\ y <= clock + Hours8 /\ q[b] <= y /\ g <= y
    BY <1>3, <2>2, Numbers
  <2> HIDE DEF y
  <2>7. y < clock + RampUp
    BY <1>4, <2>4, <2>5, <2>6
  <2>8. g < clock + RampUp /\ q[b] < clock + RampUp
    BY <1>3, <2>2, <2>6, <2>7, Numbers
  <2>9. Past(sp) /\ (m.globalDutyRate # 0 => nq < clock + RampUp)
    BY <1>1, <2>2, <2>8, Numbers DEF Past
  <2>10. QED BY <2>8, <2>9 DEF b
<1>6. CASE ~Delayed(m)
  <2>1. Begin(m) = m.txend /\ Past(sp) /\ m.globalDutyRate = 0
    BY <1>1, <1>6 DEF Delayed, Begin, Held
  <2>2. q[b] \in Int /\ q[b] <= clock + Hours8
    BY <1>3, Numbers
  <2>3. q[b] < clock + RampUp
    BY <1>3, <1>4, <2>1, <2>2
  <2>4. QED BY <2>1, <2>3 DEF b
<1>7. QED BY <1>5, <1>6

LEMMA SendsInSession ==
  ASSUME boot \in Int, clock \in Nat, NEW m, NEW q, NEW nq, NEW sp, NEW rx,
         SessionReady(m, q, nq, sp, rx), "NEXTCHNL" \notin m.opmode,
         Before(Begin(m), now + RampUp)
  PROVE  Outcome(m, transmit(m), q, nq, sp, rx)
<1> DEFINE r == transmit(m)
           q2 == [q EXCEPT ![BandOf(m)] = clock + Airtime[m.datarate] * TxCap[BandOf(m)]]
           nq2 == IF m.globalDutyRate # 0
                  THEN clock + DutyAir(m.datarate, m.globalDutyRate) ELSE nq
           rx2 == clock + Airtime[m.datarate] + Window
<1>1. /\ Idle(m, q, nq, sp, rx) /\ m \in Struct /\ m.devaddr /\ ~Joining(m) /\ sp \in Nat
      /\ nq \in Nat /\ BandsShow(m, q) /\ Chosen(m, q) /\ DefaultOnes(m, CENTI)
      /\ m.channelMap \intersect 0..2 # {}
  BY DEF SessionReady, Idle, Session
<1>2. AfterTransmit(m, r)
  BY <1>1, TransmitFields
<1>3. /\ q[BandOf(m)] < clock + RampUp /\ Past(sp)
      /\ m.globalDutyRate # 0 => nq < clock + RampUp
  BY BeginIsLate
<1> HIDE DEF r
<1>4. /\ r.frame = 1 - m.frame /\ r.dutyCapAns = FALSE /\ r.devaddr /\ ~Joining(r)
      /\ r.globalDutyRate = m.globalDutyRate /\ r.channelMap = m.channelMap
      /\ r.channels = m.channels /\ r.txChnl = m.txChnl /\ r.datarate = m.datarate
  BY <1>1, <1>2 DEF AfterTransmit, Joining
<1>5. ASSUME NEW sp2 \in Nat, Past(sp2)
      PROVE  /\ r \in Struct /\ ~r.stuck /\ nq2 \in Nat /\ rx2 \in Nat /\ q2 \in [Bands -> Nat]
             /\ BandsShow(r, q2) /\ Underway(r, sp2, rx2) /\ \A b \in Bands : q2[b] < rx2 + Hours8
             /\ Held(r, nq2, sp2, rx2) /\ Pending(r) /\ "NEXTCHNL" \in r.opmode
  <2>1. m.devaddr <=> ~Joining(m)
    BY <1>1
  <2>2. SentState(m, r, q2, nq2, sp2, rx2)
    BY ONLY boot \in Int, clock \in Nat, <1>1, <1>2, <1>5, <2>1, SendsFrame
  <2> HIDE DEF q2, nq2, rx2
  <2>3. QED BY <2>2 DEF SentState
<1>6. sp \in Nat /\ Past(sp) /\ 0 \in Nat /\ Past(0)
  BY <1>1, <1>3, Numbers DEF Past
<1> HIDE DEF q2, nq2, rx2
<1>7. ASSUME NEW sp2 \in {0, sp}
      PROVE  Good(r, q2, nq2, sp2, rx2)
  <2>1. sp2 \in Nat /\ Past(sp2)
    BY <1>6
  <2>2. Session(r, q2, nq2, sp2, rx2)
    BY <1>1, <1>4, <1>5, <2>1 DEF Session, DefaultOnes
  <2>3. QED BY <1>4, <1>5, <2>1, <2>2 DEF Good
<1>8. Sent(r, q, nq, sp)
  <2>1. BandOf(r) = BandOf(m) /\ \A b \in Bands : UsableIn(r, b) = UsableIn(m, b)
    BY <1>4 DEF BandOf, UsableIn
  <2>2. /\ r.txChnl \in r.channelMap /\ r.datarate \in r.channels[r.txChnl].drs
        /\ \A b \in Bands : UsableIn(r, b) # {} => q[BandOf(r)] <= q[b]
    BY <1>1, <1>4, <2>1 DEF Chosen
  <2>3. q2 = [q EXCEPT ![BandOf(r)] = clock + Airtime[r.datarate] * TxCap[BandOf(r)]]
        /\ rx2 = clock + Airtime[r.datarate] + Window
        /\ nq2 = IF r.globalDutyRate # 0
                 THEN clock + DutyAir(r.datarate, r.globalDutyRate) ELSE nq
    BY <1>4, <2>1 DEF q2, nq2, rx2
  <2>4. clock + RampUp > q[BandOf(r)] /\ (r.globalDutyRate # 0 => clock + RampUp > nq)
    <3>1. q[BandOf(m)] \in Nat
      BY <1>1, AirOfFrame DEF BandsShow
    <3>2. QED BY <1>1, <1>3, <1>4, <2>1, <3>1, Numbers
  <2>5. QED BY <1>3, <1>7, <2>2, <2>3, <2>4, Zenon DEF Sent
<1>9. r.frame # m.frame
  BY <1>1, <1>4, FrameTurns
<1>10. QED BY <1>1, <1>4, <1>8, <1>9 DEF Outcome, Effect, r

LEMMA SessionReadyIsGood ==
  ASSUME NEW m, NEW q, NEW nq, NEW sp, NEW rx, SessionReady(m, q, nq, sp, rx)
  PROVE  Good(m, q, nq, sp, rx)
  BY DEF SessionReady, Idle, Good, BandsShow

LEMMA EngineInSession ==
  ASSUME boot \in Int, clock \in Nat, NEW m, NEW q, NEW nq, NEW sp, NEW rx,
         SessionReady(m, q, nq, sp, rx), NEW r \in engineUpdate(m)
  PROVE  Outcome(m, r, q, nq, sp, rx)
<1> DEFINE c == IF "NEXTCHNL" \in m.opmode THEN nextTx(m) ELSE m
<1>1. /\ SessionReady(c, q, nq, sp, rx) /\ "NEXTCHNL" \notin c.opmode
      /\ c.frame = m.frame /\ c.dutyCapAns = m.dutyCapAns
  BY NextTxChooses
<1> HIDE DEF c
<1>2. /\ ~m.stuck /\ ~Pending(m) /\ m.devaddr /\ ~Joining(m) /\ ~c.stuck /\ c \in Struct
      /\ c.devaddr /\ ~Joining(c)
  BY <1>1 DEF SessionReady, Idle
<1>3. \/ r = m
      \/ r = transmit(c) /\ Before(Begin(c), now + RampUp)
      \/ r = Waiting(c)
  BY <1>2, EngineOf DEF c
<1>4. CASE r = m
  BY <1>2, <1>4, SessionReadyIsGood DEF Outcome, Effect
<1>5. CASE r = transmit(c) /\ Before(Begin(c), now + RampUp)
  <2>1. Outcome(c, r, q, nq, sp, rx)
    BY <1>1, <1>5, SendsInSession
  <2>2. QED BY <1>1, <1>2, <2>1 DEF Outcome, Effect
<1>6. CASE r = Waiting(c)
  <2> DEFINE s == Waiting(c)
  <2>1. /\ s \in Struct
        /\ s.opmode = c.opmode /\ s.bands = c.bands /\ s.globalDutyAvail = c.globalDutyAvail
        /\ s.frame = c.frame /\ s.rxtime = c.rxtime /\ s.dutyCapAns = c.dutyCapAns
        /\ s.devaddr = c.devaddr /\ s.datarate = c.datarate /\ s.channels = c.channels
        /\ s.channelMap = c.channelMap /\ s.txChnl = c.txChnl /\ s.stuck = c.stuck
        /\ s.globalDutyRate = c.globalDutyRate /\ s.txend = c.txend
    BY <1>2, WaitingFields
  <2> HIDE DEF s
  <2>2. SessionReady(s, q, nq, sp, rx)
    <3>1. Idle(s, q, nq, sp, rx)
      BY <1>1, <2>1 DEF SessionReady, Idle, Pending, BandsShow, FreshIn
    <3>2. Held(s, nq, sp, rx) <=> Held(c, nq, sp, rx)
      BY <2>1 DEF Held, Delayed, HeldUntil
    <3>3. Chosen(c, q) => Chosen(s, q)
      BY <2>1 DEF Chosen, BandOf, UsableIn
    <3>4. Session(s, q, nq, sp, rx)
      BY <1>1, <2>1, <3>2, <3>3 DEF SessionReady, Session, DefaultOnes
    <3>5. QED BY <1>2, <2>1, <3>1, <3>4 DEF SessionReady, Joining
  <2>3. QED BY <1>1, <1>2, <1>6, <2>1, <2>2, SessionReadyIsGood DEF Outcome, Effect, Joining, s
<1>7. QED BY <1>3, <1>4, <1>5, <1>6
-----------------------------------------------------------------------------
(* A step of the MAC                                                       *)

(* The three properties of a step, as DutyKept, RetrySpaced and            *)
(* GoodChannel state them.                                                 *)
StepKept ==
  Transmits =>
    /\ clock + RampUp > QuietBefore[Band]
    /\ LMIC'.globalDutyRate # 0 => clock + RampUp > NodeQuietBefore
    /\ ~Renewed => clock + RampUp > (IF spaced' # 0 THEN spaced' ELSE spaced)
    /\ LMIC'.txChnl \in LMIC'.channelMap
    /\ LMIC'.datarate \in LMIC'.channels[LMIC'.txChnl].drs
    /\ "JOINING" \notin LMIC'.opmode =>
         \A b \in MILLI..DECI : UsableIn(LMIC', b) # {} => QuietBefore[Band] <= QuietBefore[b]

LEMMA GoodPrime ==
  ASSUME clock' = clock, boot' = boot, Good(LMIC', quiet', nodeQuiet', spaced', rxend')
  PROVE  Good(LMIC, quiet, nodeQuiet, spaced, rxend)'
  BY DEF Good, Struct, ChannelSet, Time, Joining, Pending, Blanked, BandsShow, JoinPhase,
         Session, Underway, Shows, Past, Held, HeldUntil, Delayed, Chosen, BandOf, DefaultOnes,
         UsableIn

LEMMA FreshPrime ==
  ASSUME ~Sleeps, Observe, LMIC' \in Struct, clock' = clock
  PROVE  FreshIn(LMIC, quiet)'
<1>1. Fresh'
  BY DEF Observe
<1>2. \A c \in LMIC'.channelMap : LMIC'.channels[c].band \in MILLI..DECI
  BY DEF Struct, ChannelSet, Bands
<1>3. QED BY <1>1, <1>2 DEF Fresh, FreshIn

(* A step that is not the clock's, whose engine starts from m: with the    *)
(* histories of an outcome of m it keeps the invariant and the properties. *)
LEMMA EffectStep ==
  ASSUME ~Sleeps, boot \in Time, clock \in Nat, clock' = clock, Observe,
         NEW m, m.frame = LMIC.frame, NEW sp,
         Effect(m, LMIC', QuietBefore, NodeQuietBefore, sp, rxend),
         Transmits => spaced' \in {0, sp}, ~Transmits => spaced' = sp,
         Transmits => Renewed \/ Past(spaced) \/ sp = spaced
  PROVE  ChannelsInv' /\ StepKept
<1>1. boot' = boot
  BY DEF Observe
<1>2. CASE ~Transmits
  <2>1. Good(LMIC', QuietBefore, NodeQuietBefore, sp, rxend)
    BY <1>2 DEF Effect, Transmits
  <2>2. quiet' = QuietBefore /\ nodeQuiet' = NodeQuietBefore /\ rxend' = rxend /\ spaced' = sp
    BY <1>2 DEF Observe
  <2>3. Good(LMIC, quiet, nodeQuiet, spaced, rxend)'
    BY <1>1, <2>1, <2>2, GoodPrime
  <2>4. FreshIn(LMIC, quiet)'
    BY <2>1, FreshPrime DEF Good
  <2>5. QED BY <1>1, <1>2, <2>3, <2>4 DEF ChannelsInv, StepKept
<1>3. CASE Transmits
  <2>1. Sent(LMIC', QuietBefore, NodeQuietBefore, sp)
    BY <1>3 DEF Effect, Transmits
  <2>2. Band = BandOf(LMIC') /\ Air = Airtime[LMIC'.datarate]
    BY DEF Band, Air, BandOf
  <2>3. /\ quiet' = [QuietBefore EXCEPT ![Band] = clock + Air * TxCap[Band]]
        /\ nodeQuiet' = IF LMIC'.globalDutyRate # 0
                        THEN clock + DutyAir(LMIC'.datarate, LMIC'.globalDutyRate)
                        ELSE NodeQuietBefore
        /\ rxend' = clock + Air + Window
    BY <1>3 DEF Observe
  <2>4. Good(LMIC', quiet', nodeQuiet', spaced', rxend')
    BY <1>3, <2>1, <2>2, <2>3 DEF Sent
  <2>5. Good(LMIC, quiet, nodeQuiet, spaced, rxend)'
    BY <1>1, <2>4, GoodPrime
  <2>6. FreshIn(LMIC, quiet)'
    BY <2>4, FreshPrime DEF Good
  <2>7. ChannelsInv'
    BY <1>1, <2>5, <2>6 DEF ChannelsInv
  <2>8. /\ clock + RampUp > QuietBefore[Band]
        /\ LMIC'.globalDutyRate # 0 => clock + RampUp > NodeQuietBefore
        /\ LMIC'.txChnl \in LMIC'.channelMap
        /\ LMIC'.datarate \in LMIC'.channels[LMIC'.txChnl].drs
        /\ Past(sp)
    BY <2>1, <2>2 DEF Sent
  <2>9. "JOINING" \notin LMIC'.opmode =>
           \A b \in MILLI..DECI : UsableIn(LMIC', b) # {} => QuietBefore[Band] <= QuietBefore[b]
    BY <2>1, <2>2 DEF Sent, Joining, Bands
  <2>10. ~Renewed => clock + RampUp > (IF spaced' # 0 THEN spaced' ELSE spaced)
    <3>1. (sp < clock + RampUp => clock + RampUp > sp)
          /\ (spaced < clock + RampUp => clock + RampUp > spaced)
      OBVIOUS
    <3>2. QED BY <1>3, <2>8, <3>1 DEF Past
  <2>11. QED BY <2>7, <2>8, <2>9, <2>10 DEF StepKept
<1>4. QED BY <1>2, <1>3
-----------------------------------------------------------------------------
(* Joining                                                                 *)

QuietNow == [b \in Bands |-> clock]

LEMMA QuietNowFresh ==
  ASSUME clock \in Nat
  PROVE  /\ QuietNow \in [Bands -> Nat] /\ \A b \in Bands : QuietNow[b] = clock
         /\ \A m \in Struct : FreshIn(m, QuietNow)
<1>1. QuietNow \in [Bands -> Nat] /\ \A b \in Bands : QuietNow[b] = clock
  BY DEF QuietNow
<1>2. ASSUME NEW m \in Struct
      PROVE  FreshIn(m, QuietNow)
  <2>1. \A c \in m.channelMap : m.channels[c].band \in Bands
    BY DEF Struct, ChannelSet
  <2>2. QED BY <1>1, <2>1, Numbers DEF FreshIn
<1>3. QED BY <1>1, <1>2

LEMMA DefaultChannels ==
  ASSUME boot \in Int, clock \in Nat, NEW m \in Struct, NEW join \in BOOLEAN, NEW rnd \in Rnd
  PROVE  LET n == initDefaultChannels(m, join, rnd) IN
         /\ n \in Struct /\ n.channelMap = 0..2 /\ DefaultOnes(n, IF join THEN MILLI ELSE CENTI)
         /\ BandsShow(n, QuietNow)
         /\ n.opmode = m.opmode /\ n.frame = m.frame /\ n.stuck = m.stuck
         /\ n.devaddr = m.devaddr /\ n.dutyCapAns = m.dutyCapAns
         /\ n.globalDutyRate = m.globalDutyRate
<1> USE BandsOfStruct
<1> DEFINE band == IF join THEN MILLI ELSE CENTI
           channels == [c \in Channel |-> IF c \in 0..2 THEN [band |-> band, drs |-> DataRates]
                                          ELSE NoChannel]
           bands == [b \in MILLI..AUX |->
                       IF b = AUX THEN [avail |-> 0, cap |-> 0, lastchnl |-> 0]
                       ELSE [avail |-> now, cap |-> TxCap[b], lastchnl |-> rnd[b]]]
           n == initDefaultChannels(m, join, rnd)
<1>1. n = [m EXCEPT !.channels = channels, !.channelMap = 0..2, !.bands = bands]
  BY DEF initDefaultChannels
<1>2. channels \in [Channel -> ChannelSet]
  BY DEF ChannelSet, NoChannel
<1>3. now \in Time /\ 0 \in Time /\ 0 \in Channel
  <2>1. now \in Time
    BY ShowsNow, ShowsTime
  <2>2. QED BY <2>1, Numbers DEF Time
<1>4. \A b \in Bands : TxCap[b] \in Nat /\ rnd[b] \in Channel
  BY RatesAssumption DEF Rnd, Bands
<1>5. bands \in [MILLI..AUX -> [avail : Time, cap : Nat, lastchnl : Channel]]
  BY <1>3, <1>4
<1>6. \A b \in Bands : bands[b].avail = now /\ bands[b].cap = TxCap[b]
  OBVIOUS
<1>7. \A c \in 0..2 : channels[c] = [band |-> band, drs |-> DataRates]
  BY Numbers
<1> HIDE DEF channels, bands, n
<1>8. n \in Struct
  BY <1>1, <1>2, <1>5, Numbers DEF Struct
<1>9. /\ n.channels = channels /\ n.channelMap = 0..2 /\ n.bands = bands
      /\ n.opmode = m.opmode /\ n.frame = m.frame /\ n.stuck = m.stuck
      /\ n.devaddr = m.devaddr /\ n.dutyCapAns = m.dutyCapAns
      /\ n.globalDutyRate = m.globalDutyRate
  BY <1>1 DEF Struct
<1>10. BandsShow(n, QuietNow)
  BY <1>6, <1>9, QuietNowFresh, ShowsNow, Numbers DEF BandsShow
<1>11. DefaultOnes(n, band)
  BY <1>7, <1>9 DEF DefaultOnes
<1>12. QED BY <1>8, <1>9, <1>10, <1>11 DEF n

(* LMIC_startJoining: every band is free, the first request goes after a   *)
(* random delay.                                                           *)
LEMMA StartsJoining ==
  ASSUME boot \in Int, clock \in Nat, NEW m \in Struct, ~m.devaddr, ~m.stuck,
         m.opmode \subseteq {"TXDATA"}, NEW nq \in Nat, NEW rx \in Nat,
         NEW r \in LMIC_startJoining(m)
  PROVE  /\ Good(r, QuietNow, nq, 0, rx) /\ Joining(r)
         /\ r.frame = m.frame /\ r.dutyCapAns = m.dutyCapAns
<1>1. PICK rnd \in Rnd, c \in 0..2, d \in Delays : r = initJoinLoop(m, rnd, c, d)
  BY DEF LMIC_startJoining
<1> DEFINE n == initDefaultChannels(m, TRUE, rnd)
<1>2. /\ n \in Struct /\ n.channelMap = 0..2 /\ DefaultOnes(n, MILLI)
      /\ BandsShow(n, QuietNow)
      /\ n.opmode = m.opmode /\ n.frame = m.frame /\ n.stuck = m.stuck
      /\ n.devaddr = m.devaddr /\ n.dutyCapAns = m.dutyCapAns
  BY <1>1, DefaultChannels
<1> HIDE DEF n
<1> DEFINE opmode == (m.opmode \ {"NEXTCHNL"}) \union {"JOINING"}
           t == Plus(now, d)
<1>3. r = [n EXCEPT !.opmode = opmode, !.globalDutyRate = 0, !.txCnt = 0, !.txChnl = c,
                    !.datarate = MaxDR, !.txend = t, !.due = now, !.armed = TRUE]
  BY <1>1, <1>2 DEF initJoinLoop, n, Set, Clear, Struct
<1>4. d \in 0..Hours8
  BY TimesAssumption, HorizonAssumption, Numbers
<1>5. t \in Time /\ Shows(t, clock + d) /\ now \in Time
  <2>1. d \in Int
    BY <1>4, Numbers
  <2>2. QED BY <2>1, TimeOfPlus, ShowsNow, ShowsTime
<1>6. opmode \in SUBSET Flags /\ "JOINING" \in opmode /\ "TXRXPEND" \notin opmode
      /\ "NEXTCHNL" \notin opmode /\ "RNDTX" \notin opmode
  BY DEF Flags
<1>7. c \in Channel /\ MaxDR \in DataRates
  BY Numbers DEF DataRates
<1> HIDE DEF opmode, t
<1>8. r \in Struct
  BY <1>2, <1>3, <1>5, <1>6, <1>7 DEF Struct
<1>9. /\ r.opmode = opmode /\ r.globalDutyRate = 0 /\ r.txChnl = c /\ r.txend = t
      /\ r.channels = n.channels /\ r.channelMap = n.channelMap /\ r.bands = n.bands
      /\ r.frame = n.frame /\ r.stuck = n.stuck /\ r.devaddr = n.devaddr
      /\ r.dutyCapAns = n.dutyCapAns
  BY <1>2, <1>3 DEF Struct
<1>10. BandsShow(r, QuietNow)
  BY <1>2, <1>9 DEF BandsShow
<1>11. JoinPhase(r, QuietNow, 0)
  <2>1. DefaultOnes(r, MILLI)
    BY <1>2, <1>9 DEF DefaultOnes
  <2>2. clock + d \in 0..(clock + Half - 1) /\ clock <= clock + d /\ 0 <= clock + d
    BY <1>4, Numbers
  <2>3. QuietNow[MILLI] = clock
    BY QuietNowFresh, BandsOfStruct
  <2>4. QED BY <1>2, <1>5, <1>6, <1>9, <2>1, <2>2, <2>3 DEF JoinPhase
<1>12. QED BY <1>2, <1>6, <1>8, <1>9, <1>10, <1>11, QuietNowFresh DEF Good, Joining, Pending
-----------------------------------------------------------------------------
(* The steps, by what the engine starts from                               *)

(* The random time of a step, and the one of before.                       *)
Spacing(sp) ==
  /\ Transmits => spaced' \in {0, sp} /\ (Renewed \/ Past(spaced) \/ sp = spaced)
  /\ ~Transmits => spaced' = sp

(* engineUpdate, with the histories of before or with fresh bands.         *)
LEMMA EngineStep ==
  ASSUME ~Sleeps, boot \in Time, clock \in Nat, clock' = clock, Observe,
         NEW m, m.frame = LMIC.frame, m.dutyCapAns => LMIC.dutyCapAns,
         NEW q, q = IF Joining(m) <=> Joining(LMIC) THEN quiet ELSE QuietNow,
         NEW sp, Spacing(sp), LMIC' \in engineUpdate(m),
         \/ SessionReady(m, q, nodeQuiet, sp, rxend)
         \/ JoinReady(m, q, nodeQuiet, sp, rxend)
  PROVE  ChannelsInv' /\ StepKept
<1>1. boot \in Int
  BY Numbers DEF Time
<1>2. Outcome(m, LMIC', q, nodeQuiet, sp, rxend)
  BY <1>1, EngineInSession, EngineWhileJoining
<1>3. Effect(m, LMIC', q, nodeQuiet, sp, rxend)
      /\ (Joining(LMIC') <=> Joining(m)) /\ (LMIC'.dutyCapAns => m.dutyCapAns)
  BY <1>2 DEF Outcome
<1>4. QuietBefore = q
  BY <1>3 DEF QuietBefore, QuietNow, Renewed, Joining, Bands
<1>5. NodeQuietBefore = nodeQuiet
  BY <1>3 DEF NodeQuietBefore
<1>6. QED BY <1>3, <1>4, <1>5, EffectStep DEF Spacing

(* engineUpdate after a reset.                                             *)
LEMMA BlankStep ==
  ASSUME ~Sleeps, ChannelsInv, clock' = clock, Observe, Unspaced,
         ~LMIC.devaddr, ~Joining(LMIC),
         NEW m \in Struct, m.frame = LMIC.frame, m.dutyCapAns = LMIC.dutyCapAns,
         ~m.devaddr, ~m.stuck, m.opmode \subseteq {"TXDATA"}, LMIC' \in engineUpdate(m)
  PROVE  ChannelsInv' /\ StepKept
<1>1. boot \in Time /\ boot \in Int /\ clock \in Nat /\ nodeQuiet \in Nat /\ rxend \in Nat
      /\ spaced = 0
  BY Numbers DEF ChannelsInv, Good, Time, Blanked
<1>2. engineUpdate(m) = LMIC_startJoining(m)
  BY DEF engineUpdate
<1>3. /\ Good(LMIC', QuietNow, nodeQuiet, 0, rxend) /\ Joining(LMIC')
      /\ LMIC'.frame = m.frame /\ LMIC'.dutyCapAns = m.dutyCapAns
  BY <1>1, <1>2, StartsJoining
<1>4. QuietBefore = QuietNow /\ NodeQuietBefore = nodeQuiet /\ ~Transmits
  BY <1>3 DEF QuietBefore, QuietNow, NodeQuietBefore, Renewed, Joining, Bands, Transmits
<1>5. Effect(m, LMIC', QuietBefore, NodeQuietBefore, 0, rxend)
  BY <1>3, <1>4 DEF Effect
<1>6. spaced' = 0
  BY <1>1, <1>4 DEF Unspaced
<1>7. QED BY <1>1, <1>4, <1>5, <1>6, EffectStep

(* No frame is sent.                                                       *)
LEMMA SilentStep ==
  ASSUME ~Sleeps, ChannelsInv, clock' = clock, Observe, LMIC'.frame = LMIC.frame,
         Joining(LMIC') <=> Joining(LMIC),
         NEW nq, nq = IF LMIC'.dutyCapAns /\ ~LMIC.dutyCapAns THEN clock ELSE nodeQuiet,
         Good(LMIC', quiet, nq, spaced', rxend)
  PROVE  ChannelsInv' /\ StepKept
<1>1. QuietBefore = quiet /\ NodeQuietBefore = nq /\ ~Transmits
  BY DEF QuietBefore, NodeQuietBefore, Renewed, Joining, Transmits
<1>2. Effect(LMIC, LMIC', QuietBefore, NodeQuietBefore, spaced', rxend)
  BY <1>1 DEF Effect
<1>3. QED BY <1>1, <1>2, EffectStep DEF ChannelsInv

(* Whatever the state, with changes that leave a state of its kind.        *)
LEMMA Kinds ==
  ASSUME ChannelsInv
  PROVE  /\ boot \in Time /\ clock \in Nat /\ boot \in Int
         /\ LMIC \in Struct /\ ~LMIC.stuck /\ nodeQuiet \in Nat /\ spaced \in Nat /\ rxend \in Nat
         /\ quiet \in [Bands -> Nat] /\ FreshIn(LMIC, quiet)
         /\ \/ LMIC.devaddr /\ ~Joining(LMIC) /\ BandsShow(LMIC, quiet)
               /\ Session(LMIC, quiet, nodeQuiet, spaced, rxend)
            \/ ~LMIC.devaddr /\ Joining(LMIC) /\ BandsShow(LMIC, quiet)
               /\ JoinPhase(LMIC, quiet, spaced)
            \/ ~LMIC.devaddr /\ ~Joining(LMIC) /\ Blanked(LMIC, spaced)
<1>1. Joining(LMIC) => ~LMIC.devaddr
  BY DEF ChannelsInv, Good, JoinPhase
<1>2. boot \in Int
  BY Numbers DEF ChannelsInv, Time
<1>3. QED BY <1>1, <1>2 DEF ChannelsInv, Good
-----------------------------------------------------------------------------
(* States that have the channels of another                                *)

SameChannels(a, b) ==
  /\ b.devaddr = a.devaddr /\ b.stuck = a.stuck /\ b.frame = a.frame /\ b.rxtime = a.rxtime
  /\ b.channels = a.channels /\ b.channelMap = a.channelMap /\ b.bands = a.bands
  /\ b.dutyCapAns = a.dutyCapAns
SameDuty(a, b) ==
  /\ b.globalDutyRate = a.globalDutyRate /\ b.globalDutyAvail = a.globalDutyAvail
  /\ "RNDTX" \in b.opmode <=> "RNDTX" \in a.opmode
SameChoice(a, b) ==
  /\ b.txChnl = a.txChnl /\ b.txend = a.txend /\ b.datarate = a.datarate
  /\ "NEXTCHNL" \in b.opmode <=> "NEXTCHNL" \in a.opmode

LEMMA SameChannelsKept ==
  ASSUME NEW a, NEW b, NEW q, SameChannels(a, b), BandsShow(a, q), FreshIn(a, q)
  PROVE  BandsShow(b, q) /\ FreshIn(b, q)
  BY DEF SameChannels, BandsShow, FreshIn

LEMMA SameDutyKept ==
  ASSUME NEW a, NEW b, NEW nq, NEW sp, NEW rx, SameDuty(a, b)
  PROVE  Held(b, nq, sp, rx) <=> Held(a, nq, sp, rx)
  BY DEF SameDuty, Held, HeldUntil, Delayed

LEMMA SessionKept ==
  ASSUME NEW a, NEW b, NEW q, NEW nq, NEW sp, NEW sp2, NEW rx, SameChannels(a, b),
         Session(a, q, nq, sp, rx), SameChoice(a, b) \/ "NEXTCHNL" \in b.opmode,
         Held(b, nq, sp2, rx)
  PROVE  Session(b, q, nq, sp2, rx)
<1>1. SameChoice(a, b) /\ Chosen(a, q) => Chosen(b, q)
  BY DEF SameChannels, SameChoice, Chosen, BandOf, UsableIn
<1>2. SameChoice(a, b) => ("NEXTCHNL" \in b.opmode <=> "NEXTCHNL" \in a.opmode)
  BY DEF SameChoice
<1>3. QED BY <1>1, <1>2 DEF SameChannels, Session, DefaultOnes

LEMMA JoinPhaseKept ==
  ASSUME NEW a, NEW b, NEW q, NEW sp, SameChannels(a, b), SameDuty(a, b), SameChoice(a, b),
         Pending(a) => Pending(b), JoinPhase(a, q, sp)
  PROVE  JoinPhase(b, q, sp)
  BY DEF SameChannels, SameDuty, SameChoice, JoinPhase, DefaultOnes

LEMMA UnspacedSpacing ==
  ASSUME Unspaced
  PROVE  Spacing(spaced)
  BY DEF Unspaced, Spacing

(* engineUpdate with the channels as they are, and perhaps new data.       *)
LEMMA EngineRuns ==
  ASSUME ~Sleeps, ChannelsInv, clock' = clock, Observe, Unspaced, ~Pending(LMIC),
         NEW m \in Struct, SameChannels(LMIC, m), SameDuty(LMIC, m), SameChoice(LMIC, m),
         m.opmode \in {LMIC.opmode, LMIC.opmode \union {"TXDATA"}}, LMIC' \in engineUpdate(m)
  PROVE  ChannelsInv' /\ StepKept
<1>2. /\ boot \in Time /\ clock \in Nat /\ boot \in Int
      /\ LMIC \in Struct /\ ~LMIC.stuck /\ nodeQuiet \in Nat /\ spaced \in Nat /\ rxend \in Nat
      /\ quiet \in [Bands -> Nat] /\ FreshIn(LMIC, quiet)
  BY Kinds
<1>4. m.frame = LMIC.frame /\ m.dutyCapAns = LMIC.dutyCapAns /\ ~m.stuck
      /\ m.devaddr = LMIC.devaddr /\ ~Pending(m) /\ (Joining(m) <=> Joining(LMIC))
  BY <1>2 DEF SameChannels, Pending, Joining
<1>5. CASE LMIC.devaddr /\ ~Joining(LMIC) /\ BandsShow(LMIC, quiet)
           /\ Session(LMIC, quiet, nodeQuiet, spaced, rxend)
  <2>1. Held(m, nodeQuiet, spaced, rxend)
    BY <1>5, SameDutyKept DEF Session
  <2>2. Session(m, quiet, nodeQuiet, spaced, rxend)
    BY <1>5, <2>1, SessionKept
  <2>3. SessionReady(m, quiet, nodeQuiet, spaced, rxend)
    BY <1>2, <1>4, <1>5, <2>2, SameChannelsKept DEF SessionReady, Idle
  <2>4. QED BY <1>2, <1>4, <2>3, EngineStep, UnspacedSpacing
<1>6. CASE ~LMIC.devaddr /\ Joining(LMIC) /\ BandsShow(LMIC, quiet)
           /\ JoinPhase(LMIC, quiet, spaced)
  <2>1. JoinPhase(m, quiet, spaced)
    BY <1>6, JoinPhaseKept
  <2>2. JoinReady(m, quiet, nodeQuiet, spaced, rxend)
    BY <1>2, <1>4, <1>6, <2>1, SameChannelsKept DEF JoinReady, Idle
  <2>3. QED BY <1>2, <1>4, <2>2, EngineStep, UnspacedSpacing
<1>7. CASE ~LMIC.devaddr /\ ~Joining(LMIC) /\ Blanked(LMIC, spaced)
  <2>1. m.opmode \subseteq {"TXDATA"}
    BY <1>7 DEF Blanked
  <2>2. QED BY <1>4, <1>7, <2>1, BlankStep
<1>8. QED BY <1>5, <1>6, <1>7, Kinds

LEMMA RunOsjobStep ==
  ASSUME ~Sleeps, ChannelsInv, RunOsjob
  PROVE  ChannelsInv' /\ StepKept
<1> DEFINE m == [LMIC EXCEPT !.armed = FALSE]
<1>1. ~Pending(LMIC) /\ LMIC' \in engineUpdate(m) /\ clock' = clock /\ Observe /\ Unspaced
  BY DEF RunOsjob, Pending
<1>2. LMIC \in Struct
  BY Kinds
<1>3. m \in Struct /\ m.opmode = LMIC.opmode /\ SameChannels(LMIC, m) /\ SameDuty(LMIC, m)
      /\ SameChoice(LMIC, m)
  BY <1>2 DEF Struct, SameChannels, SameDuty, SameChoice
<1> HIDE DEF m
<1>4. QED BY <1>1, <1>3, EngineRuns

LEMMA SetTxData2Step ==
  ASSUME ~Sleeps, ChannelsInv, SetTxData2
  PROVE  ChannelsInv' /\ StepKept
<1>1. clock' = clock /\ Observe /\ Unspaced
  BY DEF SetTxData2, Call
<1>2. PICK conf \in BOOLEAN : LMIC' \in LMIC_setTxData2(LMIC, conf)
  BY DEF SetTxData2
<1> DEFINE cnt == IF "JOINING" \in LMIC.opmode THEN LMIC.txCnt ELSE 0
           m == [LMIC EXCEPT !.opmode = LMIC.opmode \union {"TXDATA"}, !.pendTxConf = conf,
                             !.txCnt = cnt]
<1>3. LMIC \in Struct /\ ~LMIC.stuck
  BY Kinds
<1>4. LMIC' \in engineUpdate(m)
  <2>1. [Set(LMIC, {"TXDATA"}) EXCEPT !.pendTxConf = conf,
                                      !.txCnt = IF "JOINING" \in LMIC.opmode THEN @ ELSE 0] = m
    BY <1>3 DEF Set, Struct
  <2>2. QED BY <1>2, <2>1 DEF LMIC_setTxData2
<1>5. cnt \in Nat
  BY <1>3 DEF Struct
<1> HIDE DEF cnt
<1>6. m \in Struct
  <2>1. LMIC.opmode \union {"TXDATA"} \in SUBSET Flags
    BY <1>3 DEF Struct, Flags
  <2>2. QED BY <1>3, <1>5, <2>1 DEF Struct
<1>7. m.opmode = LMIC.opmode \union {"TXDATA"} /\ SameChannels(LMIC, m) /\ SameDuty(LMIC, m)
      /\ SameChoice(LMIC, m)
  BY <1>3 DEF Struct, SameChannels, SameDuty, SameChoice
<1> HIDE DEF m
<1>8. CASE ~Pending(LMIC)
  BY <1>1, <1>4, <1>6, <1>7, <1>8, EngineRuns
<1>9. CASE Pending(LMIC)
  <2>1. LMIC' = m
    BY <1>4, <1>7, <1>9 DEF engineUpdate, Pending
  <2>2. /\ (Joining(m) <=> Joining(LMIC)) /\ Pending(m) /\ m.devaddr = LMIC.devaddr
        /\ m.frame = LMIC.frame /\ m.dutyCapAns = LMIC.dutyCapAns /\ ~m.stuck
    BY <1>3, <1>7, <1>9 DEF Joining, Pending, SameChannels
  <2>3. Underway(m, spaced, rxend) /\ (LMIC.devaddr \/ Joining(LMIC)) /\ spaced' = spaced
    <3>1. Underway(LMIC, spaced, rxend)
      BY <1>9 DEF ChannelsInv, Good
    <3>2. spaced' = spaced
      BY <1>1, <2>1, <2>2 DEF Unspaced, Transmits
    <3>3. QED BY <1>7, <3>1, <3>2 DEF Underway, SameChannels, Joining
  <2>4. Good(m, quiet, nodeQuiet, spaced, rxend)
    <3>1. LMIC.devaddr => Session(m, quiet, nodeQuiet, spaced, rxend)
      <4>1. ASSUME LMIC.devaddr
            PROVE  Session(LMIC, quiet, nodeQuiet, spaced, rxend)
        BY <4>1, Kinds
      <4>2. LMIC.devaddr => Held(m, nodeQuiet, spaced, rxend)
        BY <1>7, <4>1, SameDutyKept DEF Session
      <4>3. QED BY <1>7, <4>1, <4>2, SessionKept
    <3>2. Joining(LMIC) => JoinPhase(m, quiet, spaced)
      BY <1>7, <1>9, <2>2, Kinds, JoinPhaseKept
    <3>3. BandsShow(m, quiet)
      BY <1>7, <2>3, Kinds, SameChannelsKept
    <3>4. QED BY <1>6, <2>2, <2>3, <3>1, <3>2, <3>3, Kinds DEF Good
  <2>5. QED BY <1>1, <2>1, <2>2, <2>3, <2>4, SilentStep
<1>10. QED BY <1>8, <1>9

(* A change in a session that sends nothing: of the data and the state of  *)
(* the engine, the data rate or the channels that are not default ones.    *)
LEMMA SessionStep ==
  ASSUME ~Sleeps, ChannelsInv, clock' = clock, Observe, spaced' = spaced, LMIC.devaddr,
         LMIC' \in Struct, LMIC'.devaddr, ~LMIC'.stuck, LMIC'.frame = LMIC.frame,
         ~Joining(LMIC'), Pending(LMIC') => Pending(LMIC),
         LMIC'.rxtime = LMIC.rxtime, LMIC'.bands = LMIC.bands,
         NEW nq \in Nat, nq = IF LMIC'.dutyCapAns /\ ~LMIC.dutyCapAns THEN clock ELSE nodeQuiet,
         Pending(LMIC') => ~LMIC'.dutyCapAns,
         DefaultOnes(LMIC', CENTI), LMIC'.channelMap \intersect 0..2 # {},
         Held(LMIC', nq, spaced, rxend), "RNDTX" \in LMIC'.opmode => "RNDTX" \in LMIC.opmode,
         \/ SameChannels(LMIC, LMIC') /\ SameChoice(LMIC, LMIC')
         \/ "NEXTCHNL" \in LMIC'.opmode
  PROVE  ChannelsInv' /\ StepKept
<1>1. /\ LMIC \in Struct /\ spaced \in Nat /\ rxend \in Nat /\ quiet \in [Bands -> Nat]
      /\ ~Joining(LMIC) /\ BandsShow(LMIC, quiet)
      /\ Session(LMIC, quiet, nodeQuiet, spaced, rxend)
  BY Kinds
<1>2. Session(LMIC', quiet, nq, spaced, rxend)
  <2>1. CASE SameChannels(LMIC, LMIC') /\ SameChoice(LMIC, LMIC')
    <3>1. nq = nodeQuiet
      BY <2>1 DEF SameChannels
    <3>2. QED BY <1>1, <2>1, <3>1, SessionKept
  <2>2. CASE "NEXTCHNL" \in LMIC'.opmode
    BY <1>1, <2>2 DEF Session
  <2>3. QED BY <2>1, <2>2
<1>3. BandsShow(LMIC', quiet)
  BY <1>1 DEF BandsShow
<1>4. Pending(LMIC') => Underway(LMIC', spaced, rxend)
  <2>1. Pending(LMIC) => Underway(LMIC, spaced, rxend)
    BY DEF ChannelsInv, Good
  <2>2. ASSUME Pending(LMIC')
        PROVE  "NEXTCHNL" \in LMIC'.opmode
    BY <2>1, <2>2 DEF Underway, SameChoice
  <2>3. QED BY <2>1, <2>2 DEF Underway
<1>5. Good(LMIC', quiet, nq, spaced, rxend)
  BY <1>1, <1>2, <1>3, <1>4 DEF Good
<1>6. Joining(LMIC') <=> Joining(LMIC)
  BY <1>1
<1>7. QED BY <1>5, <1>6, SilentStep

LEMMA ClrTxDataStep ==
  ASSUME ~Sleeps, ChannelsInv, ClrTxData
  PROVE  ChannelsInv' /\ StepKept
<1> DEFINE m == [LMIC EXCEPT !.opmode = LMIC.opmode \ {"TXDATA", "TXRXPEND"}, !.armed = FALSE]
<1>1. clock' = clock /\ Observe /\ Unspaced /\ LMIC.devaddr
  BY DEF ClrTxData, Call
<1>2. /\ LMIC \in Struct /\ ~LMIC.stuck /\ nodeQuiet \in Nat
      /\ ~Joining(LMIC) /\ Session(LMIC, quiet, nodeQuiet, spaced, rxend)
  BY <1>1, Kinds
<1>3. [Clear(LMIC, {"TXDATA", "TXRXPEND"}) EXCEPT !.armed = FALSE] = m
  BY <1>2 DEF Clear, Struct
<1>4. LMIC' \in engineUpdate(m)
  BY <1>2, <1>3 DEF ClrTxData, LMIC_clrTxData, Joining
<1>5. m \in Struct
  <2>1. LMIC.opmode \ {"TXDATA", "TXRXPEND"} \in SUBSET Flags
    BY <1>2 DEF Struct
  <2>2. QED BY <1>2, <2>1 DEF Struct
<1>6. /\ SameChannels(LMIC, m) /\ SameDuty(LMIC, m) /\ SameChoice(LMIC, m)
      /\ m.opmode = LMIC.opmode \ {"TXDATA", "TXRXPEND"}
  BY <1>2 DEF Struct, SameChannels, SameDuty, SameChoice
<1> HIDE DEF m
<1>7. /\ m.devaddr /\ ~m.stuck /\ m.frame = LMIC.frame /\ ~Joining(m) /\ ~Pending(m)
      /\ m.rxtime = LMIC.rxtime /\ m.bands = LMIC.bands /\ m.dutyCapAns = LMIC.dutyCapAns
      /\ m.channels = LMIC.channels /\ m.channelMap = LMIC.channelMap
      /\ "RNDTX" \in m.opmode <=> "RNDTX" \in LMIC.opmode
  BY <1>1, <1>2, <1>6 DEF SameChannels, Joining, Pending
<1>8. LMIC' = m
  BY <1>4, <1>6, <1>7 DEF engineUpdate, Has, Joining
<1>9. spaced' = spaced
  BY <1>1, <1>7, <1>8 DEF Unspaced, Transmits
<1>10. Held(m, nodeQuiet, spaced, rxend) /\ DefaultOnes(m, CENTI)
       /\ m.channelMap \intersect 0..2 # {}
  BY <1>2, <1>6, <1>7, SameDutyKept DEF Session, DefaultOnes
<1>11. QED BY <1>1, <1>2, <1>5, <1>6, <1>7, <1>8, <1>9, <1>10, SessionStep

(* setDrTxpow changes the data rate, and then a channel has to be chosen.  *)
LEMMA SetDrTxpow ==
  ASSUME NEW m \in Struct, NEW dr \in DataRates
  PROVE  LET n == setDrTxpow(m, dr) IN
         /\ n \in Struct /\ SameChannels(m, n) /\ SameDuty(m, n)
         /\ n.opmode \in {m.opmode, m.opmode \union {"NEXTCHNL"}}
         /\ SameChoice(m, n) \/ "NEXTCHNL" \in n.opmode
<1> DEFINE n == setDrTxpow(m, dr)
<1>1. CASE m.datarate = dr
  BY <1>1 DEF setDrTxpow, SameChannels, SameDuty, SameChoice
<1>2. CASE m.datarate # dr
  <2>1. n = [m EXCEPT !.datarate = dr, !.opmode = m.opmode \union {"NEXTCHNL"}]
    BY <1>2 DEF setDrTxpow, Set, Struct
  <2>2. m.opmode \union {"NEXTCHNL"} \in SUBSET Flags
    BY DEF Struct, Flags
  <2> HIDE DEF n
  <2>3. n \in Struct
    BY <2>1, <2>2 DEF Struct
  <2>4. SameChannels(m, n) /\ SameDuty(m, n) /\ n.opmode = m.opmode \union {"NEXTCHNL"}
    BY <2>1 DEF Struct, SameChannels, SameDuty
  <2>5. QED BY <2>3, <2>4 DEF n
<1>3. QED BY <1>1, <1>2

LEMMA SetDrStep ==
  ASSUME ~Sleeps, ChannelsInv, SetDr
  PROVE  ChannelsInv' /\ StepKept
<1>1. clock' = clock /\ Observe /\ Unspaced /\ LMIC.devaddr
  BY DEF SetDr, Call
<1>2. PICK dr \in DataRates : LMIC' = setDrTxpow(LMIC, dr)
  BY DEF SetDr
<1>3. /\ LMIC \in Struct /\ ~LMIC.stuck /\ nodeQuiet \in Nat
      /\ ~Joining(LMIC) /\ Session(LMIC, quiet, nodeQuiet, spaced, rxend)
  BY <1>1, Kinds
<1>4. /\ LMIC' \in Struct /\ SameChannels(LMIC, LMIC') /\ SameDuty(LMIC, LMIC')
      /\ LMIC'.opmode \in {LMIC.opmode, LMIC.opmode \union {"NEXTCHNL"}}
      /\ SameChoice(LMIC, LMIC') \/ "NEXTCHNL" \in LMIC'.opmode
  BY <1>2, <1>3, SetDrTxpow
<1>5. /\ LMIC'.devaddr /\ ~LMIC'.stuck /\ LMIC'.frame = LMIC.frame /\ ~Joining(LMIC')
      /\ (Pending(LMIC') => Pending(LMIC))
      /\ LMIC'.rxtime = LMIC.rxtime /\ LMIC'.bands = LMIC.bands
      /\ LMIC'.dutyCapAns = LMIC.dutyCapAns
      /\ LMIC'.channels = LMIC.channels /\ LMIC'.channelMap = LMIC.channelMap
      /\ "RNDTX" \in LMIC'.opmode <=> "RNDTX" \in LMIC.opmode
  BY <1>1, <1>3, <1>4 DEF SameChannels, Joining, Pending
<1>6. spaced' = spaced
  BY <1>1, <1>5 DEF Unspaced, Transmits
<1>7. Pending(LMIC') => ~LMIC'.dutyCapAns
  BY <1>1, <1>5 DEF ChannelsInv, Good, Underway
<1>8. Held(LMIC', nodeQuiet, spaced, rxend) /\ DefaultOnes(LMIC', CENTI)
      /\ LMIC'.channelMap \intersect 0..2 # {}
  BY <1>3, <1>4, <1>5, SameDutyKept DEF Session, DefaultOnes
<1>9. QED BY <1>1, <1>3, <1>4, <1>5, <1>6, <1>7, <1>8, SessionStep
-----------------------------------------------------------------------------
(* Changes of channels and data rate                                       *)

Defaults(m) == DefaultOnes(m, CENTI) /\ m.channelMap \intersect 0..2 # {}

(* What the functions about channels leave as it was.                      *)
Alike(m, n) ==
  /\ n \in Struct /\ n.bands = m.bands /\ n.frame = m.frame /\ n.rxtime = m.rxtime
  /\ n.devaddr = m.devaddr /\ n.stuck = m.stuck /\ n.dutyCapAns = m.dutyCapAns
  /\ SameDuty(m, n) /\ n.opmode \in {m.opmode, m.opmode \union {"NEXTCHNL"}}

LEMMA ExtraChannel ==
  ASSUME NEW e \in Extras
  PROVE  /\ e.chnl \in Channel /\ e.chnl \notin 0..2
         /\ [band |-> e.band, drs |-> e.drs] \in ChannelSet
<1>1. e \in [chnl : Channel \ (0..2), band : MILLI..DECI, drs : SUBSET DataRates]
  BY ChannelsAssumption
<1>2. QED BY <1>1 DEF ChannelSet, Bands

LEMMA SetupKeepsDefaults ==
  ASSUME NEW m \in Struct, Defaults(m), NEW e \in Extras
  PROVE  LET n == LMIC_setupChannel(m, e) IN Alike(m, n) /\ Defaults(n)
<1> DEFINE set == [band |-> e.band, drs |-> e.drs]
           channels == [m.channels EXCEPT ![e.chnl] = set]
           n == LMIC_setupChannel(m, e)
<1>1. e.chnl \in Channel /\ e.chnl \notin 0..2 /\ set \in ChannelSet
  BY ExtraChannel
<1> HIDE DEF set
<1>2. n = [m EXCEPT !.channels = channels, !.channelMap = m.channelMap \union {e.chnl}]
  BY DEF LMIC_setupChannel, Struct, set
<1>3. m.channels \in [Channel -> ChannelSet] /\ m.channelMap \in SUBSET Channel
  BY DEF Struct
<1>4. channels \in [Channel -> ChannelSet] /\ \A c \in 0..2 : channels[c] = m.channels[c]
  BY <1>1, <1>3, Numbers
<1> HIDE DEF channels, n
<1>5. n \in Struct
  BY <1>1, <1>2, <1>3, <1>4 DEF Struct
<1>6. n.channels = channels /\ n.channelMap = m.channelMap \union {e.chnl}
  BY <1>2 DEF Struct
<1>7. Alike(m, n)
  BY <1>2, <1>5 DEF Struct, Alike, SameDuty
<1>8. Defaults(n)
  BY <1>4, <1>6 DEF Defaults, DefaultOnes
<1>9. QED BY <1>7, <1>8 DEF n

LEMMA DisableKeepsDefaults ==
  ASSUME NEW m \in Struct, Defaults(m), NEW e \in Extras
  PROVE  LET n == LMIC_disableChannel(m, e.chnl) IN Alike(m, n) /\ Defaults(n)
<1> DEFINE channels == [m.channels EXCEPT ![e.chnl] = NoChannel]
           n == LMIC_disableChannel(m, e.chnl)
<1>1. e.chnl \in Channel /\ e.chnl \notin 0..2
  BY ExtraChannel
<1>2. NoChannel \in ChannelSet
  BY BandsOfStruct DEF NoChannel, ChannelSet
<1>3. n = [m EXCEPT !.channels = channels, !.channelMap = m.channelMap \ {e.chnl}]
  BY DEF LMIC_disableChannel, Struct
<1>4. m.channels \in [Channel -> ChannelSet] /\ m.channelMap \in SUBSET Channel
  BY DEF Struct
<1>5. channels \in [Channel -> ChannelSet] /\ \A c \in 0..2 : channels[c] = m.channels[c]
  BY <1>1, <1>2, <1>4, Numbers
<1> HIDE DEF channels, n
<1>6. n \in Struct
  BY <1>3, <1>4, <1>5 DEF Struct
<1>7. n.channels = channels /\ n.channelMap = m.channelMap \ {e.chnl}
  BY <1>3 DEF Struct
<1>8. Alike(m, n)
  BY <1>3, <1>6 DEF Struct, Alike, SameDuty
<1>9. Defaults(n)
  BY <1>1, <1>5, <1>7 DEF Defaults, DefaultOnes
<1>10. QED BY <1>8, <1>9 DEF n

LEMMA MapKeepsDefaults ==
  ASSUME NEW m \in Struct, Defaults(m), NEW map \in Maps
  PROVE  LET n == mapChannels(m, map) IN Alike(m, n) /\ Defaults(n)
<1> DEFINE n == mapChannels(m, map)
           new == {c \in map : m.channels[c] # NoChannel}
<1>1. map \intersect 0..2 # {}
  BY ChannelsAssumption
<1>2. CASE map = {} \/ ~(map \subseteq m.channelMap)
  <2>1. n = m
    BY <1>2 DEF mapChannels
  <2>2. QED BY <2>1 DEF Alike, SameDuty
<1>3. CASE ~(map = {} \/ ~(map \subseteq m.channelMap))
  <2>1. n = [m EXCEPT !.channelMap = new]
    BY <1>3 DEF mapChannels
  <2>2. new \in SUBSET Channel
    BY <1>3 DEF Struct
  <2>3. new \intersect 0..2 # {}
    <3>1. PICK c \in map : c \in 0..2
      BY <1>1
    <3>2. m.channels[c].band = CENTI
      BY <3>1 DEF Defaults, DefaultOnes
    <3>3. m.channels[c] # NoChannel
      BY <3>2, BandsOfStruct DEF NoChannel
    <3>4. QED BY <3>1, <3>3
  <2> HIDE DEF n, new
  <2>4. n \in Struct
    BY <2>1, <2>2 DEF Struct
  <2>5. n.channels = m.channels /\ n.channelMap = new
    BY <2>1 DEF Struct
  <2>6. Alike(m, n)
    BY <2>1, <2>4 DEF Struct, Alike, SameDuty
  <2>7. Defaults(n)
    BY <2>3, <2>5 DEF Defaults, DefaultOnes
  <2>8. QED BY <2>6, <2>7 DEF n
<1>4. QED BY <1>2, <1>3

LEMMA LinkADRKeepsDefaults ==
  ASSUME NEW m \in Struct, Defaults(m), NEW map \in Maps, NEW dr
  PROVE  LET n == LinkADRReq(m, dr, map) IN Alike(m, n) /\ Defaults(n)
<1> DEFINE c == mapChannels(m, map)
           n == LinkADRReq(m, dr, map)
<1>1. Alike(m, c) /\ Defaults(c)
  BY MapKeepsDefaults
<1> HIDE DEF c
<1>2. CASE dr \in DataRates /\ MapAccepted(m, map)
  <2>1. n = setDrTxpow(c, dr)
    BY <1>2 DEF LinkADRReq, c
  <2> HIDE DEF n
  <2>2. c \in Struct
    BY <1>1 DEF Alike
  <2>3. /\ n \in Struct /\ SameChannels(c, n) /\ SameDuty(c, n)
        /\ n.opmode \in {c.opmode, c.opmode \union {"NEXTCHNL"}}
    BY <1>2, <2>1, <2>2, SetDrTxpow
  <2>4. Alike(m, n)
    <3>1. n.opmode \in {m.opmode, m.opmode \union {"NEXTCHNL"}}
      BY <1>1, <2>3 DEF Alike
    <3>2. QED BY <1>1, <2>3, <3>1 DEF Alike, SameChannels, SameDuty
  <2>5. Defaults(n)
    BY <1>1, <2>3 DEF SameChannels, Defaults, DefaultOnes
  <2>6. QED BY <2>4, <2>5 DEF n
<1>3. CASE ~(dr \in DataRates /\ MapAccepted(m, map))
  BY <1>1, <1>3 DEF LinkADRReq, c
<1>4. QED BY <1>2, <1>3

LEMMA ChangeChannelsStep ==
  ASSUME ~Sleeps, ~Withdrawn, ChannelsInv, ChangeChannels
  PROVE  ChannelsInv' /\ StepKept
<1>1. clock' = clock /\ Observe /\ Unspaced /\ LMIC.devaddr /\ "NEXTCHNL" \in LMIC.opmode
      /\ ~Pending(LMIC)
  BY DEF ChangeChannels, Call, Has, Pending
<1>2. PICK e \in Extras : LMIC' \in {LMIC_setupChannel(LMIC, e), LMIC_disableChannel(LMIC, e.chnl)}
  BY DEF ChangeChannels
<1>3. /\ LMIC \in Struct /\ ~LMIC.stuck /\ nodeQuiet \in Nat
      /\ ~Joining(LMIC) /\ Session(LMIC, quiet, nodeQuiet, spaced, rxend)
  BY <1>1, Kinds
<1>4. Defaults(LMIC)
  BY <1>3 DEF Session, Defaults
<1>5. Alike(LMIC, LMIC') /\ Defaults(LMIC')
  BY <1>2, <1>3, <1>4, SetupKeepsDefaults, DisableKeepsDefaults
<1>6. /\ LMIC' \in Struct /\ LMIC'.devaddr /\ ~LMIC'.stuck /\ LMIC'.frame = LMIC.frame
      /\ ~Joining(LMIC') /\ ~Pending(LMIC') /\ LMIC'.rxtime = LMIC.rxtime
      /\ LMIC'.bands = LMIC.bands /\ LMIC'.dutyCapAns = LMIC.dutyCapAns
      /\ "NEXTCHNL" \in LMIC'.opmode /\ SameDuty(LMIC, LMIC')
  BY <1>1, <1>3, <1>5 DEF Alike, Joining, Pending
<1>7. spaced' = spaced
  BY <1>1, <1>6 DEF Unspaced, Transmits
<1>8. Held(LMIC', nodeQuiet, spaced, rxend)
  BY <1>3, <1>6, SameDutyKept DEF Session
<1>9. QED BY <1>1, <1>3, <1>5, <1>6, <1>7, <1>8, SessionStep DEF Defaults, SameDuty
-----------------------------------------------------------------------------
(* The end of a transaction                                                *)

LEMMA WhenPending ==
  ASSUME ChannelsInv, Pending(LMIC)
  PROVE  Underway(LMIC, spaced, rxend)
  BY DEF ChannelsInv, Good

(* A downlink in a session: no frame is sent at once.                      *)
LEMMA CompleteStep ==
  ASSUME ~Sleeps, ChannelsInv, clock' = clock, Observe, Unspaced, LMIC.devaddr, Pending(LMIC),
         NEW n \in Struct, Defaults(n), n.devaddr, ~n.stuck, n.frame = LMIC.frame,
         n.rxtime = LMIC.rxtime, n.bands = LMIC.bands,
         n.opmode \in {LMIC.opmode, LMIC.opmode \union {"NEXTCHNL"}},
         NEW nq \in Nat, nq = IF n.dutyCapAns /\ ~LMIC.dutyCapAns THEN clock ELSE nodeQuiet,
         Held(n, nq, spaced, rxend), LMIC' \in TxComplete(n)
  PROVE  ChannelsInv' /\ StepKept
<1> DEFINE m == Clear(n, {"TXDATA", "TXRXPEND"})
<1>1. m = [n EXCEPT !.opmode = n.opmode \ {"TXDATA", "TXRXPEND"}]
  BY DEF Clear, Struct
<1>2. LMIC' \in engineUpdate(m)
  BY DEF TxComplete
<1>3. ~Joining(LMIC) /\ "NEXTCHNL" \in LMIC.opmode
  BY Kinds, WhenPending DEF Underway
<1> HIDE DEF m
<1>4. m \in Struct
  <2>1. n.opmode \ {"TXDATA", "TXRXPEND"} \in SUBSET Flags
    BY DEF Struct
  <2>2. QED BY <1>1, <2>1 DEF Struct
<1>5. /\ m.opmode = n.opmode \ {"TXDATA", "TXRXPEND"} /\ SameChannels(n, m) /\ SameDuty(n, m)
  BY <1>1 DEF Struct, SameChannels, SameDuty
<1>6. /\ "NEXTCHNL" \in m.opmode /\ ~Joining(m) /\ ~Pending(m)
      /\ ("RNDTX" \in m.opmode => "RNDTX" \in LMIC.opmode)
      /\ m.devaddr /\ ~m.stuck /\ m.frame = LMIC.frame /\ m.rxtime = LMIC.rxtime
      /\ m.bands = LMIC.bands /\ m.dutyCapAns = n.dutyCapAns
      /\ m.channels = n.channels /\ m.channelMap = n.channelMap
  BY <1>3, <1>5 DEF Joining, Pending, SameChannels
<1>7. LMIC' = m
  BY <1>2, <1>5, <1>6 DEF engineUpdate, Has, Joining
<1>8. spaced' = spaced
  BY <1>6, <1>7 DEF Unspaced, Transmits
<1>9. Held(m, nq, spaced, rxend) /\ DefaultOnes(m, CENTI) /\ m.channelMap \intersect 0..2 # {}
  BY <1>5, <1>6, SameDutyKept DEF Defaults, DefaultOnes
<1>10. QED BY <1>4, <1>6, <1>7, <1>8, <1>9, SessionStep

LEMMA DownlinkStep ==
  ASSUME ~Sleeps, ChannelsInv, Downlink
  PROVE  ChannelsInv' /\ StepKept
<1>1. /\ clock' = clock /\ Observe /\ Unspaced /\ Pending(LMIC) /\ ~Joining(LMIC)
      /\ clock >= rxend
  BY DEF Downlink, InTransaction, Pending, Joining
<1>2. /\ Underway(LMIC, spaced, rxend) /\ LMIC.devaddr /\ "RNDTX" \notin LMIC.opmode
      /\ ~LMIC.dutyCapAns /\ Past(spaced)
  BY <1>1, WhenPending DEF Underway
<1>3. /\ LMIC \in Struct /\ ~LMIC.stuck /\ nodeQuiet \in Nat /\ spaced \in Nat /\ rxend \in Nat
      /\ boot \in Int /\ clock \in Nat /\ Session(LMIC, quiet, nodeQuiet, spaced, rxend)
  BY <1>2, Kinds
<1>4. Defaults(LMIC)
  BY <1>3 DEF Session, Defaults
<1>5. ASSUME NEW n, Alike(LMIC, n), Defaults(n), LMIC' \in TxComplete(n)
      PROVE  ChannelsInv' /\ StepKept
  <2>1. /\ n \in Struct /\ n.devaddr /\ ~n.stuck /\ n.frame = LMIC.frame
        /\ n.rxtime = LMIC.rxtime /\ n.bands = LMIC.bands /\ ~n.dutyCapAns
        /\ n.opmode \in {LMIC.opmode, LMIC.opmode \union {"NEXTCHNL"}} /\ SameDuty(LMIC, n)
    BY <1>2, <1>3, <1>5 DEF Alike
  <2>2. Held(n, nodeQuiet, spaced, rxend)
    BY <1>3, <2>1, SameDutyKept DEF Session
  <2>3. QED BY <1>1, <1>2, <1>3, <1>5, <2>1, <2>2, CompleteStep
<1>6. CASE LMIC' \in TxComplete(LMIC)
  BY <1>3, <1>4, <1>5, <1>6 DEF Alike, SameDuty
<1>7. CASE \E dr \in DataRates \union {MaxDR + 1}, map \in Maps :
             LMIC' \in TxComplete(LinkADRReq(LMIC, dr, map))
  BY <1>3, <1>4, <1>5, <1>7, LinkADRKeepsDefaults
<1>8. CASE \E e \in Extras : LMIC' \in TxComplete(NewChannelReq(LMIC, e))
  BY <1>3, <1>4, <1>5, <1>8, SetupKeepsDefaults DEF NewChannelReq
<1>9. CASE \E rate \in Rates : LMIC' \in TxComplete(DutyCycleReq(LMIC, rate))
  <2>1. PICK rate \in Rates : LMIC' \in TxComplete(DutyCycleReq(LMIC, rate))
    BY <1>9
  <2> DEFINE n == DutyCycleReq(LMIC, rate)
  <2>2. n = [LMIC EXCEPT !.globalDutyRate = rate, !.globalDutyAvail = now, !.dutyCapAns = TRUE]
    BY DEF DutyCycleReq
  <2>3. now \in Time
    BY <1>3, ShowsNow, ShowsTime
  <2> HIDE DEF n
  <2>4. n \in Struct
    BY <1>3, <2>2, <2>3 DEF Struct
  <2>5. /\ n.opmode = LMIC.opmode /\ n.devaddr /\ ~n.stuck /\ n.frame = LMIC.frame
        /\ n.rxtime = LMIC.rxtime /\ n.bands = LMIC.bands /\ n.dutyCapAns
        /\ n.channels = LMIC.channels /\ n.channelMap = LMIC.channelMap
        /\ n.globalDutyRate = rate /\ n.globalDutyAvail = now
    BY <1>2, <1>3, <2>2 DEF Struct
  <2>6. Defaults(n)
    BY <1>4, <2>5 DEF Defaults, DefaultOnes
  <2>7. Held(n, clock, spaced, rxend)
    <3>1. HeldUntil(n, clock, clock, spaced, rxend)
      <4>1. rxend <= clock + Window /\ clock <= clock
        BY <1>1, <1>3, Numbers
      <4>2. QED BY <1>2, <2>5, <4>1, ShowsNow DEF HeldUntil
    <3>2. clock \in 0..(clock + Hours8)
      BY <1>3, Numbers
    <3>3. QED BY <1>2, <3>1, <3>2 DEF Held
  <2>8. clock \in Nat /\ clock = IF n.dutyCapAns /\ ~LMIC.dutyCapAns THEN clock ELSE nodeQuiet
    BY <1>2, <1>3, <2>5
  <2>9. LMIC' \in TxComplete(n) /\ n.opmode \in {LMIC.opmode, LMIC.opmode \union {"NEXTCHNL"}}
    BY <2>1, <2>5 DEF n
  <2>10. QED BY <1>1, <1>2, <2>4, <2>5, <2>6, <2>7, <2>8, <2>9, CompleteStep
<1>10. QED BY <1>6, <1>7, <1>8, <1>9 DEF Downlink

LEMMA LowerDR ==
  ASSUME NEW dr \in DataRates, NEW k \in Nat
  PROVE  lowerDR(dr, k) \in DataRates
<1>1. dr \in 0..MaxDR /\ MaxDR \in Nat
  BY Numbers DEF DataRates
<1>2. QED BY <1>1 DEF lowerDR, DataRates

(* No join accept: the next request goes after the band is free and a      *)
(* random delay is over.                                                   *)
LEMMA NextJoinStep ==
  ASSUME ~Sleeps, ChannelsInv, clock' = clock, Observe, Pending(LMIC), Joining(LMIC),
         NEW d \in Delays, LMIC' = nextJoinState(Clear(LMIC, {"TXRXPEND"}), d),
         spaced' = (IF clock < quiet[MILLI] THEN quiet[MILLI] ELSE clock) + Zone + d
  PROVE  ChannelsInv' /\ StepKept
<1> DEFINE opmode == LMIC.opmode \ {"TXRXPEND", "NEXTCHNL"}
           dr == IF (LMIC.txCnt + 1) % 2 = 0 THEN lowerDR(LMIC.datarate, 1) ELSE LMIC.datarate
           x == (IF clock < quiet[MILLI] THEN quiet[MILLI] ELSE clock) + Zone + d
           t == Plus(Later(now, LMIC.bands[MILLI].avail), Zone + d)
           c == (LMIC.txChnl + 1) % 3
           over == Clear(LMIC, {"TXRXPEND"})
<1>1. /\ boot \in Int /\ clock \in Nat /\ LMIC \in Struct /\ ~LMIC.stuck
      /\ ~LMIC.devaddr /\ BandsShow(LMIC, quiet) /\ JoinPhase(LMIC, quiet, spaced)
      /\ FreshIn(LMIC, quiet) /\ nodeQuiet \in Nat /\ rxend \in Nat /\ quiet \in [Bands -> Nat]
  BY Kinds
<1>2. /\ "RNDTX" \notin LMIC.opmode /\ LMIC.globalDutyRate = 0
      /\ LMIC.channelMap = 0..2 /\ DefaultOnes(LMIC, MILLI) /\ LMIC.txChnl \in 0..2
  BY <1>1 DEF JoinPhase
<1>3. over = [LMIC EXCEPT !.opmode = LMIC.opmode \ {"TXRXPEND"}]
  BY DEF Clear
<1> HIDE DEF over
<1>4. LMIC' = [LMIC EXCEPT !.opmode = opmode, !.txChnl = c, !.txCnt = LMIC.txCnt + 1,
                           !.datarate = dr, !.txend = t, !.due = now, !.armed = TRUE]
  <2> DEFINE base == [LMIC EXCEPT !.opmode = opmode]
  <2>1. /\ over.txCnt = LMIC.txCnt /\ over.bands = LMIC.bands
        /\ Clear(over, {"NEXTCHNL"}) = base
    BY <1>1, <1>3 DEF Clear, Struct
  <2>2. LMIC' = nextJoinState(over, d)
    BY DEF over
  <2>3. base.txChnl = LMIC.txChnl /\ base.txCnt = LMIC.txCnt /\ base.datarate = LMIC.datarate
    BY <1>1 DEF Struct
  <2> HIDE DEF base
  <2>4. LMIC' = [base EXCEPT !.txChnl = (@ + 1) % 3, !.txCnt = @ + 1,
                   !.datarate = IF (LMIC.txCnt + 1) % 2 = 0 THEN lowerDR(@, 1) ELSE @,
                   !.txend = t, !.due = now, !.armed = TRUE]
    BY <2>1, <2>2 DEF nextJoinState
  <2> DEFINE cnt == LMIC.txCnt + 1
  <2> HIDE DEF c, dr, t, opmode, cnt
  <2>5. LMIC' = [base EXCEPT !.txChnl = c, !.txCnt = cnt, !.datarate = dr,
                             !.txend = t, !.due = now, !.armed = TRUE]
    BY <2>3, <2>4 DEF base, c, dr, cnt, Struct
  <2>6. LMIC' = [LMIC EXCEPT !.opmode = opmode, !.txChnl = c, !.txCnt = cnt,
                             !.datarate = dr, !.txend = t, !.due = now, !.armed = TRUE]
    BY <2>5 DEF base
  <2>7. QED BY <2>6 DEF cnt
<1>5. /\ quiet[MILLI] \in Nat /\ Shows(LMIC.bands[MILLI].avail, quiet[MILLI])
      /\ quiet[MILLI] < clock + Hours8 /\ clock - quiet[MILLI] < MaxIdle
  <2>1. 0 \in LMIC.channelMap /\ LMIC.channels[0].band = MILLI
    BY <1>2 DEF DefaultOnes
  <2>2. QED BY <1>1, <2>1, BandsOfStruct DEF BandsShow, FreshIn
<1>6. d \in Nat /\ Zone \in Nat /\ Hours8 + Zone + d < Half
  BY TimesAssumption, HorizonAssumption, Numbers
<1>7. Shows(t, x) /\ t \in Time
  <2> DEFINE y == IF clock < quiet[MILLI] THEN quiet[MILLI] ELSE clock
             u == Later(now, LMIC.bands[MILLI].avail)
  <2>1. Shows(u, y)
    <3>1. /\ clock \in Int /\ quiet[MILLI] \in Int /\ -Half <= clock - quiet[MILLI]
          /\ clock - quiet[MILLI] < Half
      BY <1>1, <1>5, Numbers
    <3>2. QED BY ONLY <1>1, <1>5, <3>1, ShowsNow, LaterOne
  <2>2. y \in Int /\ Zone + d \in Int
    BY <1>1, <1>5, <1>6
  <2> HIDE DEF y, u
  <2>3. Shows(Plus(u, Zone + d), y + (Zone + d))
    BY ONLY <1>1, <2>1, <2>2, ShowsPlus
  <2>4. y + (Zone + d) = x /\ x \in Int
    BY <1>6, <2>2 DEF y
  <2>5. Shows(t, x)
    BY <2>3, <2>4 DEF u
  <2>6. QED BY <1>1, <2>4, <2>5, ShowsTime
<1>8. x \in 0..(clock + Half - 1) /\ quiet[MILLI] <= x
  BY <1>1, <1>5, <1>6, Numbers
<1>9. c \in 0..2 /\ c \in Channel
  BY <1>2, Numbers
<1>10. dr \in DataRates /\ LMIC.txCnt + 1 \in Nat
  <2>1. LMIC.datarate \in DataRates /\ LMIC.txCnt \in Nat
    BY <1>1 DEF Struct
  <2>2. QED BY <2>1, LowerDR
<1>11. now \in Time /\ opmode \in SUBSET Flags
  BY <1>1, ShowsNow, ShowsTime DEF Struct
<1>12. "JOINING" \in opmode /\ "TXRXPEND" \notin opmode /\ "NEXTCHNL" \notin opmode
       /\ "RNDTX" \notin opmode
  BY <1>2 DEF Joining
<1>13. spaced' = x
  OBVIOUS
<1> HIDE DEF opmode, dr, x, t, c
<1>14. LMIC' \in Struct
  <2> DEFINE cnt == LMIC.txCnt + 1
  <2>1. cnt \in Nat
    BY <1>10
  <2>2. LMIC' = [LMIC EXCEPT !.opmode = opmode, !.txChnl = c, !.txCnt = cnt,
                             !.datarate = dr, !.txend = t, !.due = now, !.armed = TRUE]
    BY <1>4
  <2> HIDE DEF cnt
  <2>3. /\ LMIC \in Struct /\ opmode \in SUBSET Flags /\ c \in Channel /\ dr \in DataRates
        /\ t \in Time /\ now \in Time
    BY <1>1, <1>7, <1>9, <1>10, <1>11
  <2>4. QED BY ONLY <2>1, <2>2, <2>3 DEF Struct
<1>15. /\ LMIC'.opmode = opmode /\ LMIC'.txChnl = c /\ LMIC'.txend = t
       /\ LMIC'.channels = LMIC.channels /\ LMIC'.channelMap = LMIC.channelMap
       /\ LMIC'.bands = LMIC.bands /\ LMIC'.frame = LMIC.frame /\ LMIC'.stuck = LMIC.stuck
       /\ LMIC'.devaddr = LMIC.devaddr /\ LMIC'.dutyCapAns = LMIC.dutyCapAns
       /\ LMIC'.globalDutyRate = LMIC.globalDutyRate
  BY <1>1, <1>4 DEF Struct
<1>16. JoinPhase(LMIC', quiet, x)
  <2>1. DefaultOnes(LMIC', MILLI)
    BY <1>2, <1>15 DEF DefaultOnes
  <2>2. x <= x
    BY <1>1, <1>8, Numbers
  <2>3. QED BY <1>1, <1>2, <1>7, <1>8, <1>9, <1>12, <1>15, <2>1, <2>2 DEF JoinPhase
<1>17. BandsShow(LMIC', quiet)
  BY <1>1, <1>15 DEF BandsShow
<1>18. x \in Nat
  BY <1>1, <1>8, Numbers
<1>19. Joining(LMIC') /\ ~Pending(LMIC') /\ ~LMIC'.devaddr /\ ~LMIC'.stuck
  BY <1>1, <1>12, <1>15 DEF Joining, Pending
<1>20. Good(LMIC', quiet, nodeQuiet, spaced', rxend)
  BY <1>1, <1>13, <1>14, <1>16, <1>17, <1>18, <1>19 DEF Good
<1>21. QED BY <1>15, <1>19, <1>20, SilentStep

(* txDelay holds the node until the random time of the retry, without      *)
(* letting it go before its own duty cycle allows.                         *)
LEMMA TxDelayHolds ==
  ASSUME boot \in Int, clock \in Nat, NEW m \in Struct, NEW nq \in Nat, NEW sp, NEW rx \in Nat,
         NEW d \in Delays, NEW ref, Shows(ref, rx + d), Held(m, nq, sp, rx),
         "RNDTX" \notin m.opmode, rx <= clock, clock <= rx + Late
  PROVE  LET n == txDelay(m, ref) IN
         /\ n \in Struct /\ SameChannels(m, n)
         /\ n.opmode \in {m.opmode, m.opmode \union {"RNDTX"}}
         /\ Held(n, nq, rx + d, rx)
<1> DEFINE n == txDelay(m, ref)
<1>1. d \in Nat /\ d <= Hours8 /\ d + Window < Half
  BY TimesAssumption, HorizonAssumption
<1>2. rx + d \in Int /\ rx + d \in 0..(clock + Hours8) /\ rx <= rx + d + Window /\ ref \in Time
  <2>1. rx + d \in Int /\ rx + d \in 0..(clock + Hours8) /\ rx <= rx + d + Window
    BY <1>1, Numbers
  <2>2. QED BY ONLY <2>1, boot \in Int, Shows(ref, rx + d), ShowsTime
<1>3. m.globalDutyRate # 0 =>
        \E g \in 0..(clock + Hours8) :
           /\ Shows(m.globalDutyAvail, g) /\ nq <= g
           /\ After(ref, m.globalDutyAvail) <=> rx + d > g
           /\ rx <= g + Window
  <2>1. SUFFICES ASSUME m.globalDutyRate # 0
                 PROVE  \E g \in 0..(clock + Hours8) :
                          /\ Shows(m.globalDutyAvail, g) /\ nq <= g
                          /\ After(ref, m.globalDutyAvail) <=> rx + d > g
                          /\ rx <= g + Window
    OBVIOUS
  <2>2. PICK g \in 0..(clock + Hours8) : HeldUntil(m, g, nq, sp, rx)
    BY <2>1 DEF Held, Delayed
  <2>3. Shows(m.globalDutyAvail, g) /\ rx <= g + Window /\ nq <= g /\ g \in Int
    BY <2>1, <2>2, Numbers DEF HeldUntil
  <2>4. -Half <= (rx + d) - g /\ (rx + d) - g < Half
    BY <1>1, <2>3, Numbers
  <2>5. After(ref, m.globalDutyAvail) <=> rx + d > g
    BY ONLY boot \in Int, <1>2, <2>3, <2>4, Shows(ref, rx + d), Comparison
  <2>6. QED BY <2>3, <2>5
<1>4. CASE m.globalDutyRate = 0 \/ After(ref, m.globalDutyAvail)
  <2>1. n = [m EXCEPT !.globalDutyAvail = ref, !.opmode = m.opmode \union {"RNDTX"}]
    BY <1>4 DEF txDelay, Set, Struct
  <2>2. m.opmode \union {"RNDTX"} \in SUBSET Flags
    BY DEF Struct, Flags
  <2> HIDE DEF n
  <2>3. n \in Struct
    BY <1>2, <2>1, <2>2 DEF Struct
  <2>4. /\ SameChannels(m, n) /\ n.opmode = m.opmode \union {"RNDTX"}
        /\ n.globalDutyAvail = ref /\ n.globalDutyRate = m.globalDutyRate
    BY <2>1 DEF Struct, SameChannels
  <2>5. m.globalDutyRate # 0 => nq <= rx + d
    BY <1>2, <1>3, <1>4, Numbers
  <2>6. rx + d <= rx + d
    BY <1>2
  <2>7. HeldUntil(n, rx + d, nq, rx + d, rx)
    BY <1>2, <2>4, <2>5, <2>6 DEF HeldUntil
  <2>8. Held(n, nq, rx + d, rx)
    BY <1>2, <2>4, <2>7 DEF Held, Delayed
  <2>9. QED BY <2>3, <2>4, <2>8 DEF n
<1>5. CASE m.globalDutyRate # 0 /\ ~After(ref, m.globalDutyAvail)
  <2>1. n = m
    BY <1>5 DEF txDelay
  <2>2. PICK g \in 0..(clock + Hours8) :
           Shows(m.globalDutyAvail, g) /\ nq <= g /\ ~(rx + d > g) /\ rx <= g + Window
    BY <1>3, <1>5
  <2>3. rx + d <= g
    BY <1>2, <2>2, Numbers
  <2>4. HeldUntil(m, g, nq, rx + d, rx)
    BY <2>2, <2>3 DEF HeldUntil
  <2>5. Held(m, nq, rx + d, rx)
    BY <1>5, <2>4 DEF Held, Delayed
  <2>6. QED BY <2>1, <2>5 DEF SameChannels
<1>6. QED BY <1>4, <1>5

(* A confirmed frame without its acknowledgement: the next try.            *)
LEMMA RetryStep ==
  ASSUME ~Sleeps, ChannelsInv, clock' = clock, Observe, Pending(LMIC), ~Joining(LMIC),
         clock >= rxend, Retries(LMIC), NEW d \in Delays, spaced' = rxend + d,
         LMIC' \in engineUpdate(
                     txDelay(setDrTxpow([Clear(LMIC, {"TXRXPEND"}) EXCEPT !.txCnt = @ + 1],
                                        lowerDR(LMIC.datarate, Adjust[LMIC.txCnt + 1])),
                             Plus(LMIC.rxtime, d)))
  PROVE  ChannelsInv' /\ StepKept
<1> DEFINE over == [Clear(LMIC, {"TXRXPEND"}) EXCEPT !.txCnt = @ + 1]
           dr == lowerDR(LMIC.datarate, Adjust[LMIC.txCnt + 1])
           slower == setDrTxpow(over, dr)
           m == txDelay(slower, Plus(LMIC.rxtime, d))
           opmode == LMIC.opmode \ {"TXRXPEND"}
<1>1. /\ Underway(LMIC, spaced, rxend) /\ LMIC.devaddr /\ "RNDTX" \notin LMIC.opmode
      /\ "NEXTCHNL" \in LMIC.opmode /\ Shows(LMIC.rxtime, rxend) /\ clock <= rxend + Late
      /\ Past(spaced)
  BY WhenPending DEF Underway
<1>2. /\ LMIC \in Struct /\ ~LMIC.stuck /\ nodeQuiet \in Nat /\ spaced \in Nat /\ rxend \in Nat
      /\ boot \in Int /\ boot \in Time /\ clock \in Nat /\ BandsShow(LMIC, quiet)
      /\ FreshIn(LMIC, quiet) /\ Session(LMIC, quiet, nodeQuiet, spaced, rxend)
  BY <1>1, Kinds
<1>3. dr \in DataRates /\ LMIC.txCnt + 1 \in Nat
  <2>1. LMIC.txCnt \in Nat /\ LMIC.txCnt \in 1..(Attempts - 1) /\ Attempts \in Nat
        /\ Adjust \in [1..Attempts -> Nat]
    BY <1>2, RatesAssumption DEF Struct, Retries
  <2>2. Adjust[LMIC.txCnt + 1] \in Nat
    BY <2>1
  <2>3. QED BY <1>2, <2>1, <2>2, LowerDR DEF Struct
<1>4. over = [LMIC EXCEPT !.opmode = opmode, !.txCnt = LMIC.txCnt + 1]
  BY <1>2 DEF Clear, Struct
<1> HIDE DEF over
<1>5. opmode \in SUBSET Flags
  BY <1>2 DEF Struct
<1>6. over \in Struct
  <2> DEFINE cnt == LMIC.txCnt + 1
  <2>1. cnt \in Nat /\ over = [LMIC EXCEPT !.opmode = opmode, !.txCnt = cnt]
    BY <1>3, <1>4
  <2> HIDE DEF cnt, opmode
  <2>2. LMIC \in Struct
    BY <1>2
  <2>3. QED BY ONLY <1>5, <2>1, <2>2 DEF Struct
<1>7. over.opmode = opmode /\ SameChannels(LMIC, over) /\ SameDuty(LMIC, over)
  BY <1>2, <1>4 DEF Struct, SameChannels, SameDuty
<1> HIDE DEF slower, dr
<1>8. /\ slower \in Struct /\ SameChannels(over, slower) /\ SameDuty(over, slower)
      /\ slower.opmode \in {opmode, opmode \union {"NEXTCHNL"}}
  BY <1>3, <1>6, <1>7, SetDrTxpow DEF slower
<1>9. Held(slower, nodeQuiet, spaced, rxend) /\ "RNDTX" \notin slower.opmode
  <2>1. Held(LMIC, nodeQuiet, spaced, rxend)
    BY <1>2 DEF Session
  <2>2. Held(over, nodeQuiet, spaced, rxend)
    BY <1>7, <2>1, SameDutyKept
  <2>3. QED BY <1>1, <1>8, <2>2, SameDutyKept
<1>10. Shows(Plus(LMIC.rxtime, d), rxend + d) /\ rxend <= clock
  <2>1. d \in Int /\ rxend \in Int /\ rxend <= clock
    BY <1>2, TimesAssumption
  <2>2. QED BY ONLY <1>1, <1>2, <2>1, ShowsPlus
<1> HIDE DEF m
<1>11. /\ m \in Struct /\ SameChannels(slower, m)
       /\ m.opmode \in {slower.opmode, slower.opmode \union {"RNDTX"}}
       /\ Held(m, nodeQuiet, rxend + d, rxend)
  BY <1>1, <1>2, <1>8, <1>9, <1>10, TxDelayHolds DEF m
<1>12. SameChannels(LMIC, m)
  BY <1>7, <1>8, <1>11 DEF SameChannels
<1>13. "NEXTCHNL" \in m.opmode /\ ~Joining(m) /\ ~Pending(m)
  BY <1>1, <1>8, <1>11 DEF Joining, Pending
<1>14. Session(m, quiet, nodeQuiet, rxend + d, rxend)
  BY <1>2, <1>11, <1>12, <1>13, SessionKept
<1>15. SessionReady(m, quiet, nodeQuiet, rxend + d, rxend)
  <2>1. rxend + d \in Nat
    BY <1>2, TimesAssumption
  <2>2. BandsShow(m, quiet) /\ FreshIn(m, quiet)
    BY <1>2, <1>12, SameChannelsKept
  <2>3. QED BY <1>1, <1>2, <1>11, <1>12, <1>13, <1>14, <2>1, <2>2
        DEF SessionReady, Idle, SameChannels
<1>16. Spacing(rxend + d)
  BY <1>1 DEF Spacing
<1>17. LMIC' \in engineUpdate(m) /\ m.frame = LMIC.frame /\ m.dutyCapAns = LMIC.dutyCapAns
       /\ quiet = IF Joining(m) <=> Joining(LMIC) THEN quiet ELSE QuietNow
  BY <1>12, <1>13 DEF SameChannels, m, slower, over, dr
<1>18. QED BY <1>2, <1>15, <1>16, <1>17, EngineStep

LEMMA WindowsCloseStep ==
  ASSUME ~Sleeps, ChannelsInv, WindowsClose
  PROVE  ChannelsInv' /\ StepKept
<1>1. /\ clock' = clock /\ Observe /\ Pending(LMIC) /\ clock >= rxend
  BY DEF WindowsClose, InTransaction, Pending
<1>2. PICK d \in Delays :
        /\ LMIC' \in NothingReceived(LMIC, d)
        /\ spaced' = IF "JOINING" \in LMIC.opmode
                     THEN (IF clock < quiet[MILLI] THEN quiet[MILLI] ELSE clock) + Zone + d
                     ELSE IF Retries(LMIC) THEN rxend + d ELSE spaced
  BY DEF WindowsClose
<1>3. CASE Joining(LMIC)
  <2>1. LMIC' = nextJoinState(Clear(LMIC, {"TXRXPEND"}), d)
    BY <1>2, <1>3 DEF NothingReceived, Joining
  <2>2. spaced' = (IF clock < quiet[MILLI] THEN quiet[MILLI] ELSE clock) + Zone + d
    BY <1>2, <1>3 DEF Joining
  <2>3. QED BY <1>1, <1>3, <2>1, <2>2, NextJoinStep
<1>4. CASE ~Joining(LMIC) /\ Retries(LMIC)
  <2>1. LMIC' \in engineUpdate(
                    txDelay(setDrTxpow([Clear(LMIC, {"TXRXPEND"}) EXCEPT !.txCnt = @ + 1],
                                       lowerDR(LMIC.datarate, Adjust[LMIC.txCnt + 1])),
                            Plus(LMIC.rxtime, d)))
    BY <1>2, <1>4 DEF NothingReceived, Joining
  <2>2. spaced' = rxend + d
    BY <1>2, <1>4 DEF Joining
  <2>3. QED BY <1>1, <1>4, <2>1, <2>2, RetryStep
<1>5. CASE ~Joining(LMIC) /\ ~Retries(LMIC)
  <2>1. /\ LMIC \in Struct /\ ~LMIC.stuck /\ nodeQuiet \in Nat /\ spaced' = spaced
        /\ LMIC.devaddr /\ Session(LMIC, quiet, nodeQuiet, spaced, rxend)
        /\ ~LMIC.dutyCapAns
    BY <1>1, <1>2, <1>5, Kinds, WhenPending DEF Joining, Underway
  <2> DEFINE over == Clear(Clear(LMIC, {"TXRXPEND"}), {"TXDATA"})
  <2>2. LMIC' \in engineUpdate(over)
    BY <1>2, <1>5 DEF NothingReceived, Joining
  <2>3. over = Clear(LMIC, {"TXDATA", "TXRXPEND"})
    <3>1. (LMIC.opmode \ {"TXRXPEND"}) \ {"TXDATA"} = LMIC.opmode \ {"TXDATA", "TXRXPEND"}
      OBVIOUS
    <3>2. QED BY <2>1, <3>1 DEF Clear, Struct
  <2>4. LMIC' \in TxComplete(LMIC)
    BY <2>2, <2>3 DEF TxComplete
  <2> HIDE DEF over
  <2>5. Defaults(LMIC) /\ Held(LMIC, nodeQuiet, spaced, rxend)
    BY <2>1 DEF Session, Defaults
  <2>6. nodeQuiet = IF LMIC.dutyCapAns /\ ~LMIC.dutyCapAns THEN clock ELSE nodeQuiet
    OBVIOUS
  <2>7. Unspaced
    <3>1. LMIC'.frame = LMIC.frame
      <4>1. Clear(LMIC, {"TXDATA", "TXRXPEND"})
              = [LMIC EXCEPT !.opmode = LMIC.opmode \ {"TXDATA", "TXRXPEND"}]
        BY <2>1 DEF Clear, Struct
      <4>2. /\ Clear(LMIC, {"TXDATA", "TXRXPEND"}).frame = LMIC.frame
            /\ Clear(LMIC, {"TXDATA", "TXRXPEND"}).devaddr
            /\ "TXDATA" \notin Clear(LMIC, {"TXDATA", "TXRXPEND"}).opmode
            /\ "JOINING" \notin Clear(LMIC, {"TXDATA", "TXRXPEND"}).opmode
        BY <1>5, <2>1, <4>1 DEF Struct, Joining
      <4>3. LMIC' = Clear(LMIC, {"TXDATA", "TXRXPEND"})
        BY <2>4, <4>2 DEF TxComplete, engineUpdate, Has
      <4>4. QED BY <4>2, <4>3
    <3>2. QED BY <2>1, <3>1 DEF Unspaced, Transmits
  <2>8. QED BY <1>1, <2>1, <2>4, <2>5, <2>6, <2>7, CompleteStep
<1>6. QED BY <1>3, <1>4, <1>5

LEMMA JoinAcceptedStep ==
  ASSUME ~Sleeps, ChannelsInv, JoinAccepted
  PROVE  ChannelsInv' /\ StepKept
<1>1. /\ clock' = clock /\ Observe /\ Pending(LMIC) /\ Joining(LMIC) /\ clock >= rxend
      /\ spaced' = 0
  BY DEF JoinAccepted, InTransaction, Pending, Joining
<1>2. PICK rnd \in Rnd, cflist \in {{}} \union {{e} : e \in Extras} :
        LMIC' \in processJoinAccept(LMIC, cflist, rnd)
  BY DEF JoinAccepted
<1>3. /\ boot \in Int /\ boot \in Time /\ clock \in Nat /\ LMIC \in Struct /\ ~LMIC.stuck
      /\ nodeQuiet \in Nat /\ rxend \in Nat /\ JoinPhase(LMIC, quiet, spaced)
  BY <1>1, Kinds
<1>4. /\ Underway(LMIC, spaced, rxend) /\ "NEXTCHNL" \in LMIC.opmode
      /\ "RNDTX" \notin LMIC.opmode /\ clock <= rxend + Late /\ LMIC.globalDutyRate = 0
  BY <1>1, <1>3, WhenPending DEF Underway, JoinPhase
<1> DEFINE base == initDefaultChannels(LMIC, FALSE, rnd)
           all == IF cflist = {} THEN base
                  ELSE LMIC_setupChannel(base, CHOOSE e \in cflist : TRUE)
           m == [Clear(all, {"JOINING", "TXRXPEND"}) EXCEPT !.txCnt = 0, !.devaddr = TRUE]
           opmode == LMIC.opmode \ {"JOINING", "TXRXPEND"}
<1>5. /\ base \in Struct /\ base.channelMap = 0..2 /\ DefaultOnes(base, CENTI)
      /\ BandsShow(base, QuietNow) /\ base.opmode = LMIC.opmode /\ base.frame = LMIC.frame
      /\ base.stuck = LMIC.stuck /\ base.dutyCapAns = LMIC.dutyCapAns
      /\ base.globalDutyRate = 0
  BY <1>3, <1>4, DefaultChannels
<1> HIDE DEF base
<1>6. Defaults(base)
  BY <1>5 DEF Defaults
<1>7. /\ all \in Struct /\ Defaults(all) /\ BandsShow(all, QuietNow)
      /\ all.frame = LMIC.frame /\ ~all.stuck /\ all.dutyCapAns = LMIC.dutyCapAns
      /\ all.globalDutyRate = 0
      /\ all.opmode = LMIC.opmode
  <2>1. CASE cflist = {}
    BY <1>3, <1>5, <1>6, <2>1
  <2>2. CASE cflist # {}
    <3>1. PICK e \in Extras : cflist = {e}
      BY <2>2
    <3>2. (CHOOSE f \in cflist : TRUE) = e
      BY <3>1
    <3>3. all = LMIC_setupChannel(base, e)
      BY <2>2, <3>2
    <3>4. Alike(base, all) /\ Defaults(all)
      BY <1>5, <1>6, <3>3, SetupKeepsDefaults
    <3> HIDE DEF all
    <3>5. BandsShow(all, QuietNow)
      BY <1>5, <3>4 DEF Alike, BandsShow
    <3>6. all.opmode = base.opmode
      BY <1>4, <1>5, <3>4 DEF Alike
    <3>7. QED BY <1>3, <1>5, <3>4, <3>5, <3>6 DEF Alike, SameDuty
  <2>3. QED BY <2>1, <2>2
<1>8. LMIC' \in engineUpdate(m)
  BY <1>2 DEF processJoinAccept, base
<1> HIDE DEF all
<1>9. m = [all EXCEPT !.opmode = opmode, !.txCnt = 0, !.devaddr = TRUE]
  BY <1>7 DEF Clear, Struct
<1>10. opmode \in SUBSET Flags
  BY <1>3 DEF Struct
<1> HIDE DEF m
<1>11. m \in Struct
  <2> HIDE DEF opmode
  <2>1. QED BY <1>7, <1>9, <1>10 DEF Struct
<1>12. /\ m.opmode = opmode /\ m.devaddr /\ m.frame = LMIC.frame /\ ~m.stuck
       /\ m.dutyCapAns = LMIC.dutyCapAns /\ m.globalDutyRate = 0
       /\ m.channels = all.channels /\ m.channelMap = all.channelMap /\ m.bands = all.bands
  BY <1>7, <1>9 DEF Struct
<1>13. /\ "NEXTCHNL" \in m.opmode /\ "RNDTX" \notin m.opmode /\ ~Joining(m) /\ ~Pending(m)
  BY <1>4, <1>12 DEF Joining, Pending
<1>14. BandsShow(m, QuietNow) /\ FreshIn(m, QuietNow)
  BY <1>3, <1>7, <1>11, <1>12, QuietNowFresh DEF BandsShow
<1>15. Session(m, QuietNow, nodeQuiet, 0, rxend)
  <2>1. \A b \in Bands : QuietNow[b] < rxend + Hours8
    BY <1>3, <1>4, QuietNowFresh, Numbers
  <2>2. Held(m, nodeQuiet, 0, rxend)
    BY <1>3, <1>12, <1>13, Numbers DEF Held, Delayed, Past
  <2>3. DefaultOnes(m, CENTI) /\ m.channelMap \intersect 0..2 # {}
    BY <1>7, <1>12 DEF Defaults, DefaultOnes
  <2>4. QED BY <1>13, <2>1, <2>2, <2>3 DEF Session
<1>16. SessionReady(m, QuietNow, nodeQuiet, 0, rxend)
  BY <1>3, <1>11, <1>12, <1>13, <1>14, <1>15 DEF SessionReady, Idle
<1>17. Spacing(0)
  <2>1. Past(spaced)
    BY <1>4 DEF Underway
  <2>2. QED BY <1>1, <2>1 DEF Spacing
<1>18. QuietNow = IF Joining(m) <=> Joining(LMIC) THEN quiet ELSE QuietNow
  BY <1>1, <1>13
<1>19. m.frame = LMIC.frame /\ (m.dutyCapAns => LMIC.dutyCapAns)
  BY <1>12
<1>20. boot \in Time /\ clock \in Nat
  BY <1>3
<1>21. QED
  BY ONLY ~Sleeps, <1>1, <1>8, <1>16, <1>17, <1>18, <1>19, <1>20, EngineStep
-----------------------------------------------------------------------------
(* The clock, and the first state                                          *)

LEMMA TickStep ==
  ASSUME ~Sleeps, ChannelsInv, Tick
  PROVE  ChannelsInv' /\ StepKept
<1>1. LMIC' = LMIC /\ spaced' = spaced /\ clock' = clock + 1 /\ Observe
  BY DEF Tick
<1>2. ~Transmits /\ ~Renewed
  BY <1>1 DEF Transmits, Renewed
<1>3. quiet' = quiet /\ nodeQuiet' = nodeQuiet /\ rxend' = rxend /\ boot' = boot
  <2>1. NodeQuietBefore = nodeQuiet
    BY <1>1 DEF NodeQuietBefore
  <2>2. QuietBefore = quiet
    BY <1>2 DEF QuietBefore
  <2>3. quiet' = QuietBefore /\ rxend' = rxend
    BY <1>1, <1>2 DEF Observe
  <2>4. nodeQuiet' = NodeQuietBefore /\ boot' = boot
    BY <1>1, <1>2 DEF Observe
  <2>5. QED BY <2>1, <2>2, <2>3, <2>4
<1>4. /\ boot \in Time /\ clock \in Nat /\ LMIC \in Struct /\ ~LMIC.stuck
      /\ nodeQuiet \in Nat /\ spaced \in Nat /\ rxend \in Nat /\ quiet \in [Bands -> Nat]
  BY Kinds
<1>5. clock' \in Nat
  BY <1>1, <1>4
<1>6. BandsShow(LMIC, quiet) => BandsShow(LMIC, quiet)'
  <2>1. ASSUME NEW x \in Nat, x < clock + Hours8
        PROVE  x < clock' + Hours8
    BY <1>1, <1>4, <2>1, Numbers
  <2>2. QED BY <1>1, <1>3, <1>4, <2>1 DEF BandsShow, Shows
<1>7. ASSUME NEW x \in Nat
      PROVE  /\ x < clock + RampUp => x < clock' + RampUp
             /\ x \in 0..(clock + Hours8) => x \in 0..(clock' + Hours8)
             /\ x \in 0..(clock + Half - 1) => x \in 0..(clock' + Half - 1)
  BY <1>1, <1>4, Numbers
<1>8. Past(spaced) => Past(spaced)'
  BY <1>1, <1>4, <1>7 DEF Past
<1>9. JoinPhase(LMIC, quiet, spaced) => JoinPhase(LMIC, quiet, spaced)'
  <2>1. ASSUME NEW x \in 0..(clock + Half - 1)
        PROVE  x \in 0..(clock' + Half - 1)
    BY <1>1, <1>4, Numbers
  <2>2. QED BY <1>1, <1>3, <2>1 DEF JoinPhase, Pending, DefaultOnes, Shows
<1>10. Held(LMIC, nodeQuiet, spaced, rxend) => Held(LMIC, nodeQuiet, spaced, rxend)'
  <2>1. SUFFICES ASSUME Held(LMIC, nodeQuiet, spaced, rxend)
                 PROVE  Held(LMIC, nodeQuiet, spaced, rxend)'
    OBVIOUS
  <2>2. CASE Delayed(LMIC)
    <3>1. PICK g \in 0..(clock + Hours8) : HeldUntil(LMIC, g, nodeQuiet, spaced, rxend)
      BY <2>1, <2>2 DEF Held
    <3>2. g \in 0..(clock' + Hours8)
      BY <1>1, <1>4, Numbers
    <3>3. /\ Shows(LMIC.globalDutyAvail, g)' /\ rxend' <= g + Window
          /\ (LMIC'.globalDutyRate # 0 => nodeQuiet' <= g)
          /\ (Past(spaced)' \/ spaced' <= g)
      BY <1>1, <1>3, <1>8, <3>1 DEF HeldUntil, Shows
    <3>4. Delayed(LMIC)'
      BY <1>1, <2>2 DEF Delayed
    <3>5. QED BY <3>2, <3>3, <3>4 DEF Held, HeldUntil
  <2>3. CASE ~Delayed(LMIC)
    BY <1>1, <1>8, <2>1, <2>3 DEF Held, Delayed
  <2>4. QED BY <2>2, <2>3
<1>11. Session(LMIC, quiet, nodeQuiet, spaced, rxend)
         => Session(LMIC, quiet, nodeQuiet, spaced, rxend)'
  <2>1. Chosen(LMIC, quiet) => Chosen(LMIC, quiet)'
    BY <1>1, <1>3 DEF Chosen, BandOf, UsableIn
  <2>2. QED BY <1>1, <1>3, <1>10, <2>1 DEF Session, DefaultOnes
<1>12. Pending(LMIC) => Underway(LMIC, spaced, rxend)'
  <2>1. SUFFICES ASSUME Pending(LMIC)
                 PROVE  Underway(LMIC, spaced, rxend)'
    OBVIOUS
  <2>2. Underway(LMIC, spaced, rxend)
    BY <2>1, WhenPending
  <2>3. clock < rxend + Late
    BY <1>4, <2>1 DEF Tick, InTransaction, Pending
  <2>4. clock' <= rxend' + Late
    BY <1>1, <1>3, <1>4, <2>3, Numbers
  <2>5. QED BY <1>1, <1>3, <1>8, <2>2, <2>4 DEF Underway, Joining, Shows
<1>13. Good(LMIC, quiet, nodeQuiet, spaced, rxend)'
  <2>1. Good(LMIC, quiet, nodeQuiet, spaced, rxend)
    BY DEF ChannelsInv
  <2>2. (LMIC \in Struct)'
    BY <1>1, <1>4 DEF Struct, ChannelSet, Time
  <2>3. Blanked(LMIC, spaced) => Blanked(LMIC, spaced)'
    BY <1>1 DEF Blanked
  <2>4. /\ ~LMIC'.stuck /\ nodeQuiet' \in Nat /\ spaced' \in Nat /\ rxend' \in Nat
        /\ quiet' \in [Bands -> Nat]
    BY <1>1, <1>3, <1>4
  <2>5. (Joining(LMIC)' <=> Joining(LMIC)) /\ (Pending(LMIC)' <=> Pending(LMIC))
    BY <1>1 DEF Joining, Pending
  <2>6. QED BY <1>1, <1>6, <1>9, <1>11, <1>12, <2>1, <2>2, <2>3, <2>4, <2>5 DEF Good
<1>14. FreshIn(LMIC, quiet)'
  <2>1. Fresh'
    BY <1>1 DEF Observe
  <2>2. \A c \in LMIC'.channelMap : LMIC'.channels[c].band \in MILLI..DECI
    BY <1>1, <1>4 DEF Struct, ChannelSet, Bands
  <2>3. QED BY <2>1, <2>2 DEF Fresh, FreshIn
<1>15. QED BY <1>2, <1>3, <1>4, <1>5, <1>13, <1>14 DEF ChannelsInv, StepKept, Time

LEMMA ChannelsInit ==
  ASSUME Init
  PROVE  ChannelsInv
<1> USE BandsOfStruct
<1>1. /\ boot \in Time /\ boot \in Int /\ clock = 0 /\ clock \in Nat
      /\ quiet = [b \in Bands |-> 0] /\ nodeQuiet = 0 /\ spaced = 0 /\ rxend = 0
  <2>1. boot \in 0..(W - 1) /\ clock = 0
    BY TimesAssumption DEF Init
  <2>2. QED BY <2>1, Numbers DEF Init, Time, Bands
<1>2. quiet \in [Bands -> Nat] /\ quiet = QuietNow
  BY <1>1 DEF QuietNow
<1>3. /\ Blank.opmode = {} /\ ~Blank.devaddr /\ ~Blank.stuck /\ Blank.channelMap = {}
      /\ Blank.globalDutyRate = 0
  BY DEF Blank
<1>4. Blank \in Struct
  <2>1. 0 \in Time /\ 0 \in Channel /\ 0 \in DataRates
    BY Numbers DEF Time, DataRates
  <2>2. NoChannel \in ChannelSet
    BY DEF NoChannel, ChannelSet
  <2>3. QED BY <2>1, <2>2 DEF Blank, Struct
<1>5. CASE LMIC = Blank
  <2>1. Good(Blank, quiet, nodeQuiet, spaced, rxend)
    BY <1>1, <1>2, <1>3, <1>4 DEF Good, Joining, Pending, Blanked
  <2>2. FreshIn(Blank, quiet)
    BY <1>3 DEF FreshIn
  <2>3. QED BY <1>1, <1>5, <2>1, <2>2 DEF ChannelsInv
<1>6. CASE LMIC \in {LMIC_setSession(rnd) : rnd \in Rnd}
  <2>1. PICK rnd \in Rnd : LMIC = LMIC_setSession(rnd)
    BY <1>6
  <2> DEFINE base == initDefaultChannels(Blank, FALSE, rnd)
             m == LMIC_setSession(rnd)
  <2>2. /\ base \in Struct /\ base.channelMap = 0..2 /\ DefaultOnes(base, CENTI)
        /\ BandsShow(base, QuietNow) /\ base.opmode = {} /\ ~base.stuck
        /\ base.globalDutyRate = 0
    BY ONLY <1>1, <1>3, <1>4, rnd \in Rnd, DefaultChannels
  <2> HIDE DEF base
  <2>3. m = [base EXCEPT !.devaddr = TRUE, !.datarate = MaxDR, !.opmode = {"NEXTCHNL"}]
    BY <2>2 DEF LMIC_setSession, base, Set, Struct
  <2> HIDE DEF m
  <2>4. m \in Struct
    <3>1. MaxDR \in DataRates /\ {"NEXTCHNL"} \in SUBSET Flags
      BY Numbers DEF DataRates, Flags
    <3>2. QED BY <2>2, <2>3, <3>1 DEF Struct
  <2>5. /\ m.opmode = {"NEXTCHNL"} /\ m.devaddr /\ ~m.stuck /\ m.globalDutyRate = 0
        /\ m.channels = base.channels /\ m.channelMap = base.channelMap /\ m.bands = base.bands
    BY <2>2, <2>3 DEF Struct
  <2>6. BandsShow(m, quiet) /\ FreshIn(m, quiet)
    BY <1>1, <1>2, <2>2, <2>4, <2>5, QuietNowFresh DEF BandsShow
  <2>7. Session(m, quiet, nodeQuiet, spaced, rxend)
    <3>1. \A b \in Bands : quiet[b] < rxend + Hours8
      BY <1>1, Numbers
    <3>2. Held(m, nodeQuiet, spaced, rxend)
      BY <1>1, <2>5, Numbers DEF Held, Delayed, Past
    <3>3. 0 \in m.channelMap \intersect 0..2
      BY <2>2, <2>5
    <3>4. QED BY <2>2, <2>5, <3>1, <3>2, <3>3 DEF Session, DefaultOnes
  <2>8. ~Joining(m) /\ ~Pending(m)
    BY <2>5 DEF Joining, Pending
  <2>9. Good(m, quiet, nodeQuiet, spaced, rxend)
    BY <1>1, <1>2, <2>4, <2>5, <2>6, <2>7, <2>8 DEF Good
  <2>10. QED BY <1>1, <2>1, <2>6, <2>9 DEF ChannelsInv, m
<1>7. QED BY <1>5, <1>6 DEF Init

LEMMA ChannelsStutter ==
  ASSUME ChannelsInv, UNCHANGED vars
  PROVE  ChannelsInv' /\ ~Transmits
<1>1. LMIC' = LMIC /\ boot' = boot /\ clock' = clock /\ quiet' = quiet
      /\ nodeQuiet' = nodeQuiet /\ spaced' = spaced /\ rxend' = rxend
  BY DEF vars
<1>2. Good(LMIC, quiet, nodeQuiet, spaced, rxend)'
  BY <1>1, GoodPrime DEF ChannelsInv
<1>3. FreshIn(LMIC, quiet)' /\ boot' \in Time /\ clock' \in Nat
  BY <1>1 DEF ChannelsInv, FreshIn, Time
<1>4. QED BY <1>1, <1>2, <1>3 DEF ChannelsInv, Transmits

LEMMA ChannelsNext ==
  ASSUME ~Sleeps, ~Withdrawn, ChannelsInv, [Next]_vars
  PROVE  ChannelsInv' /\ StepKept
<1>1. CASE Next
  BY <1>1, RunOsjobStep, WindowsCloseStep, JoinAcceptedStep, DownlinkStep, SetTxData2Step,
     ClrTxDataStep, SetDrStep, ChangeChannelsStep, TickStep DEF Next
<1>2. CASE UNCHANGED vars
  BY <1>2, ChannelsStutter DEF StepKept
<1>3. QED BY <1>1, <1>2
-----------------------------------------------------------------------------
(* The theorems                                                            *)

(* The state of the MAC agrees with the true times of its histories, in    *)
(* every state of a node that never leaves a band with an enabled channel  *)
(* unused for longer than MaxIdle and changes its channels only before a   *)
(* choice: the fields that engineUpdate compares with its clock.           *)
THEOREM ChannelsInvariant ==
  ASSUME ~Sleeps, ~Withdrawn
  PROVE  Spec => []ChannelsInv
<1>1. Init => ChannelsInv
  BY ChannelsInit
<1>2. ChannelsInv /\ [Next]_vars => ChannelsInv'
  BY ChannelsNext
<1>3. QED BY <1>1, <1>2, PTL DEF Spec

(* nextTx always finds a channel: the loop that takes bands out of bmap    *)
(* ends (lmic.c:641-667), also over the wrap of the clock.                 *)
THEOREM NextTxAlwaysReturns ==
  ASSUME ~Sleeps, ~Withdrawn
  PROVE  Spec => []NextTxReturns
<1>1. ChannelsInv => NextTxReturns
  BY DEF ChannelsInv, Good, NextTxReturns
<1>2. QED BY <1>1, ChannelsInvariant, PTL

(* Every frame of the node keeps the duty cycle of its band and, after a   *)
(* DutyCycleReq, that of the node: the comparisons of engineUpdate         *)
(* (lmic.c:2017-2106) and txDelay, modulo W, decide as the true times do.  *)
THEOREM DutyCycleKept ==
  ASSUME ~Sleeps, ~Withdrawn
  PROVE  Spec => DutyKept
<1>1. ChannelsInv /\ [Next]_vars =>
        [Transmits => /\ clock + RampUp > QuietBefore[Band]
                      /\ LMIC'.globalDutyRate # 0 => clock + RampUp > NodeQuietBefore]_vars
  BY ChannelsNext DEF StepKept
<1>2. QED BY <1>1, ChannelsInvariant, PTL DEF Spec, DutyKept

(* A retry (txDelay, lmic.c:475-481) and a join request (nextJoinState,    *)
(* lmic.c:691-721) wait for the random time drawn for them, whatever the   *)
(* application calls in between.                                           *)
THEOREM RetriesSpaced ==
  ASSUME ~Sleeps, ~Withdrawn
  PROVE  Spec => RetrySpaced
<1>1. ChannelsInv /\ [Next]_vars =>
        [Transmits /\ ~Renewed =>
           clock + RampUp > (IF spaced' # 0 THEN spaced' ELSE spaced)]_vars
  BY ChannelsNext DEF StepKept
<1>2. QED BY <1>1, ChannelsInvariant, PTL DEF Spec, RetrySpaced

(* Every frame goes out on an enabled channel that has its data rate, in a *)
(* session in the band that may be used first: the choice of nextTx        *)
(* (lmic.c:2051-2060) is still right when the frame is sent.               *)
THEOREM ChannelsGood ==
  ASSUME ~Sleeps, ~Withdrawn
  PROVE  Spec => GoodChannel
<1>1. ChannelsInv /\ [Next]_vars =>
        [Transmits =>
           /\ LMIC'.txChnl \in LMIC'.channelMap
           /\ LMIC'.datarate \in LMIC'.channels[LMIC'.txChnl].drs
           /\ "JOINING" \notin LMIC'.opmode =>
                \A b \in MILLI..DECI :
                  UsableIn(LMIC', b) # {} => QuietBefore[Band] <= QuietBefore[b]]_vars
  BY ChannelsNext DEF StepKept
<1>2. QED BY <1>1, ChannelsInvariant, PTL DEF Spec, GoodChannel
=============================================================================
