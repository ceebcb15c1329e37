--------------------------- MODULE SchcLinkProofs ---------------------------
(* Proofs about SchcCodec and SchcLink.                                    *)
EXTENDS SchcLink, TLAPS, SequenceTheorems

(* The bytes of frames and addresses, for any three stations.              *)
Stations == {Device, RouterId, Host}
Octet == ({"fe80", "aaaa", "ff02", "zero", "two", "echo"} \union Stations) \X Nat
Word(n) == {s \in Seq(Octet) : Len(s) = n}

LEMMA Words ==
  /\ LocalNet \in Word(8) /\ Bytes("aaaa", 8) \in Word(8) /\ MulticastNet \in Word(8)
  /\ \A iid \in Stations : Bytes(iid, 8) \in Word(8)
  /\ Zeros(16) \in Word(16)
BY DEF Word, Octet, LocalNet, MulticastNet, Bytes, Zeros

LEMMA Concat8 ==
  ASSUME NEW a \in Seq(Octet), NEW b \in Seq(Octet), Len(a) = 8, Len(b) = 8
  PROVE  /\ a \o b \in Seq(Octet) /\ Len(a \o b) = 16
         /\ \A i \in 1..16 : (a \o b)[i] = IF i <= 8 THEN a[i] ELSE b[i - 8]
<1> DEFINE c == a \o b
<1>1. /\ c \in Seq(Octet) /\ Len(c) = Len(a) + Len(b)
      /\ \A i \in 1..(Len(a) + Len(b)) :
           c[i] = IF i <= Len(a) THEN a[i] ELSE b[i - Len(a)]
  BY ConcatProperties, Zenon
<1> HIDE DEF c
<1>2. /\ c \in Seq(Octet) /\ Len(c) = 16
      /\ \A i \in 1..16 : c[i] = IF i <= 8 THEN a[i] ELSE b[i - 8]
  BY <1>1
<1>3. QED BY <1>2 DEF c

LEMMA Half ==
  ASSUME NEW c \in Seq(Octet), Len(c) = 16
  PROVE  /\ SubSeq(c, 1, 8) \in Seq(Octet) /\ Len(SubSeq(c, 1, 8)) = 8
         /\ \A i \in 1..8 : SubSeq(c, 1, 8)[i] = c[i]
         /\ SubSeq(c, 9, 16) \in Seq(Octet) /\ Len(SubSeq(c, 9, 16)) = 8
         /\ \A i \in 1..8 : SubSeq(c, 9, 16)[i] = c[i + 8]
<1>1. ASSUME NEW m \in {1, 9}, NEW n \in Int, n = m + 7
      PROVE  /\ SubSeq(c, m, n) \in Seq(Octet) /\ Len(SubSeq(c, m, n)) = 8
             /\ \A i \in 1..8 : SubSeq(c, m, n)[i] = c[m + i - 1]
  <2>1. m \in Int /\ \A i \in m..n : c[i] \in Octet
    <3>1. m \in Int /\ \A i \in m..n : i \in 1..Len(c)
      BY <1>1
    <3>2. QED BY <3>1, ElementOfSeq
  <2> DEFINE u == SubSeq(c, m, n)
  <2>2. /\ u \in Seq(Octet)
        /\ Len(u) = IF m <= n THEN n - m + 1 ELSE 0
        /\ \A i \in 1..(n - m + 1) : u[i] = c[m + i - 1]
    BY <1>1, <2>1, SubSeqProperties
  <2> HIDE DEF u
  <2>3. n - m + 1 = 8 /\ m <= n
    BY <1>1
  <2>4. u \in Seq(Octet) /\ Len(u) = 8 /\ \A i \in 1..8 : u[i] = c[m + i - 1]
    BY <2>2, <2>3
  <2>5. QED BY <2>4 DEF u
<1> DEFINE a == SubSeq(c, 1, 8)
           b == SubSeq(c, 9, 16)
<1>2. a \in Seq(Octet) /\ Len(a) = 8 /\ \A i \in 1..8 : a[i] = c[1 + i - 1]
  BY <1>1
<1>3. b \in Seq(Octet) /\ Len(b) = 8 /\ \A i \in 1..8 : b[i] = c[9 + i - 1]
  BY <1>1
<1> HIDE DEF a, b
<1>4. \A i \in 1..8 : 1 + i - 1 = i /\ 9 + i - 1 = i + 8
  OBVIOUS
<1>5. a \in Seq(Octet) /\ Len(a) = 8 /\ \A i \in 1..8 : a[i] = c[i]
  BY <1>2, <1>4
<1>6. b \in Seq(Octet) /\ Len(b) = 8 /\ \A i \in 1..8 : b[i] = c[i + 8]
  BY <1>3, <1>4
<1>7. QED BY <1>5, <1>6 DEF a, b

(* An address is the net and the interface identifier.                     *)
LEMMA Halves ==
  ASSUME NEW a \in Word(8), NEW b \in Word(8)
  PROVE  /\ a \o b \in Word(16)
         /\ SubSeq(a \o b, 1, 8) = a
         /\ SubSeq(a \o b, 9, 16) = b
<1>1. /\ a \in Seq(Octet) /\ b \in Seq(Octet) /\ Len(a) = 8 /\ Len(b) = 8
  BY DEF Word
<1> DEFINE c == a \o b
<1>2. /\ c \in Seq(Octet) /\ Len(c) = 16
      /\ \A i \in 1..16 : c[i] = IF i <= 8 THEN a[i] ELSE b[i - 8]
  BY <1>1, Concat8
<1> HIDE DEF c
<1>3. SubSeq(c, 1, 8) = a
  <2>1. /\ SubSeq(c, 1, 8) \in Seq(Octet) /\ Len(SubSeq(c, 1, 8)) = 8
        /\ \A i \in 1..8 : SubSeq(c, 1, 8)[i] = c[i]
    BY <1>2, Half
  <2>2. \A i \in 1..8 : SubSeq(c, 1, 8)[i] = a[i]
    BY <1>2, <2>1
  <2>3. QED BY <1>1, <2>1, <2>2, SeqEqual
<1>4. SubSeq(c, 9, 16) = b
  <2>1. /\ SubSeq(c, 9, 16) \in Seq(Octet) /\ Len(SubSeq(c, 9, 16)) = 8
        /\ \A i \in 1..8 : SubSeq(c, 9, 16)[i] = c[i + 8]
    BY <1>2, Half
  <2>2. \A i \in 1..8 : SubSeq(c, 9, 16)[i] = b[i]
    BY <1>2, <2>1
  <2>3. QED BY <1>1, <2>1, <2>2, SeqEqual
<1>5. QED BY <1>2, <1>3, <1>4 DEF c, Word

LEMMA Rejoined ==
  ASSUME NEW x \in Word(16)
  PROVE  /\ SubSeq(x, 1, 8) \in Word(8) /\ Iid(x) \in Word(8)
         /\ x = SubSeq(x, 1, 8) \o Iid(x)
<1> DEFINE a == SubSeq(x, 1, 8)
           b == SubSeq(x, 9, 16)
<1>1. x \in Seq(Octet) /\ Len(x) = 16
  BY DEF Word
<1>2. /\ a \in Seq(Octet) /\ Len(a) = 8 /\ \A i \in 1..8 : a[i] = x[i]
      /\ b \in Seq(Octet) /\ Len(b) = 8 /\ \A i \in 1..8 : b[i] = x[i + 8]
  BY <1>1, Half
<1> HIDE DEF a, b
<1>3. /\ a \o b \in Seq(Octet) /\ Len(a \o b) = 16
      /\ \A i \in 1..16 : (a \o b)[i] = IF i <= 8 THEN a[i] ELSE b[i - 8]
  BY <1>2, Concat8
<1>4. \A i \in 1..16 : (a \o b)[i] = x[i]
  BY <1>2, <1>3
<1>5. a \o b = x
  BY <1>1, <1>3, <1>4, SeqEqual
<1>6. QED BY <1>2, <1>5 DEF a, b, Iid, Word

(* What is read at the offset at which it was put.                         *)
LEMMA ReadAlone ==
  ASSUME NEW n \in Nat, NEW a \in Word(n), NEW rule, NEW behind
  PROVE  Read(Frame(rule, a), 0, n, behind) = a
<1>1. a \in Seq(Octet) /\ Len(a) = n
  BY DEF Word
<1>2. Read(Frame(rule, a), 0, n, behind) = [i \in 1..n |-> a[i]]
  BY <1>1 DEF Read, Frame
<1>3. QED BY <1>1, <1>2

LEMMA ReadPair ==
  ASSUME NEW m \in Nat, NEW n \in Nat, NEW a \in Word(m), NEW b \in Word(n),
         NEW rule, NEW behind
  PROVE  /\ Read(Frame(rule, a \o b), 0, m, behind) = a
         /\ Read(Frame(rule, a \o b), m, n, behind) = b
<1>1. a \in Seq(Octet) /\ Len(a) = m /\ b \in Seq(Octet) /\ Len(b) = n
  BY DEF Word
<1> DEFINE c == a \o b
<1>2. /\ c \in Seq(Octet) /\ Len(c) = m + n
      /\ \A i \in 1..(m + n) : c[i] = IF i <= m THEN a[i] ELSE b[i - m]
  BY <1>1, ConcatProperties
<1> HIDE DEF c
<1>3. Read(Frame(rule, c), 0, m, behind) = [i \in 1..m |-> a[i]]
  BY <1>2 DEF Read, Frame
<1>4. Read(Frame(rule, c), m, n, behind) = [i \in 1..n |-> b[i]]
  BY <1>2 DEF Read, Frame
<1>5. QED BY <1>1, <1>3, <1>4 DEF c
-----------------------------------------------------------------------------
(* The addresses of the link.                                              *)
LEMMA NetsDiffer == Bytes("aaaa", 8) # LocalNet
<1>1. Bytes("aaaa", 8)[1] = <<"aaaa", 1>> /\ LocalNet[1] = <<"fe80", 1>>
  BY DEF Bytes, LocalNet
<1>2. <<"aaaa", 1>> # <<"fe80", 1>>
  OBVIOUS
<1>3. QED BY <1>1, <1>2

LEMMA Addresses ==
  ASSUME NEW iid \in Stations
  PROVE  /\ IPv6_address(iid, 0) \in Word(16) /\ IPv6_address(iid, 1) \in Word(16)
         /\ IPv6_address(iid, 0) = LocalNet \o Bytes(iid, 8)
         /\ IsLocal(IPv6_address(iid, 0)) /\ ~IsLocal(IPv6_address(iid, 1))
         /\ Iid(IPv6_address(iid, 0)) = Bytes(iid, 8)
         /\ IPv6_address(iid, 0) # <<>> /\ IPv6_address(iid, 1) # <<>>
<1>1. /\ IPv6_address(iid, 0) = LocalNet \o Bytes(iid, 8)
      /\ IPv6_address(iid, 1) = Bytes("aaaa", 8) \o Bytes(iid, 8)
  BY DEF IPv6_address
<1>2. LocalNet \in Word(8) /\ Bytes("aaaa", 8) \in Word(8) /\ Bytes(iid, 8) \in Word(8)
  BY Words
<1>3. /\ IPv6_address(iid, 0) \in Word(16)
      /\ SubSeq(IPv6_address(iid, 0), 1, 8) = LocalNet
      /\ SubSeq(IPv6_address(iid, 0), 9, 16) = Bytes(iid, 8)
      /\ IPv6_address(iid, 1) \in Word(16)
      /\ SubSeq(IPv6_address(iid, 1), 1, 8) = Bytes("aaaa", 8)
  <2>1. ASSUME NEW net \in Word(8)
        PROVE  /\ net \o Bytes(iid, 8) \in Word(16)
               /\ SubSeq(net \o Bytes(iid, 8), 1, 8) = net
               /\ SubSeq(net \o Bytes(iid, 8), 9, 16) = Bytes(iid, 8)
    BY <1>2, Halves, Zenon
  <2>2. QED BY <1>1, <1>2, <2>1, Zenon
<1>4. <<>> \notin Word(16)
  BY DEF Word
<1>5. QED BY <1>1, <1>3, <1>4, NetsDiffer DEF IsLocal, Iid

(* An address whose net is the link-local one is that net and its own      *)
(* interface identifier.                                                   *)
LEMMA LocalRejoined ==
  ASSUME NEW x \in Word(16), IsLocal(x)
  PROVE  LocalNet \o Iid(x) = x
BY Rejoined DEF IsLocal

(* The types, and the three fields of the rule byte.                       *)
LEMMA Types ==
  /\ TypeOf("request") = 0 /\ TypeOf("RS") = 2 /\ TypeOf("RA") = 3
  /\ TypeOf("NS") = 4 /\ TypeOf("NA") = 5
<1>1. /\ DOMAIN Kinds = 1..7
      /\ Kinds[1] = "request" /\ Kinds[2] = "reply" /\ Kinds[3] = "RS"
      /\ Kinds[4] = "RA" /\ Kinds[5] = "NS" /\ Kinds[6] = "NA" /\ Kinds[7] = "redirect"
  BY DEF Kinds
<1>2. ASSUME NEW n \in 1..7
      PROVE  TypeOf(Kinds[n]) = n - 1
  <2>1. \A i \in DOMAIN Kinds : Kinds[i] = Kinds[n] => i = n
    BY <1>1
  <2>2. (CHOOSE i \in DOMAIN Kinds : Kinds[i] = Kinds[n]) = n
    BY <1>1, <2>1
  <2>3. QED BY <2>2 DEF TypeOf
<1>3. QED BY <1>1, <1>2

LEMMA Fields ==
  ASSUME NEW a \in 0..1, NEW t \in 0..6, NEW b \in 0..1
  PROVE  /\ SourceBit(64 * a + 4 * t + 2 * b) = a
         /\ TypeBits(64 * a + 4 * t + 2 * b) = t
         /\ TargetBit(64 * a + 4 * t + 2 * b) = b
BY DEF SourceBit, TypeBits, TargetBit
-----------------------------------------------------------------------------
(* What the rule byte of a packet says of it.                              *)
Discovery == {"RS", "RA", "NS", "NA"}

LEMMA RuleBits ==
  ASSUME NEW p, p.kind \in Discovery \union {"request"}
  PROVE  /\ SourceBit(Rule(p)) = Bit(~IsLocal(p.src))
         /\ TypeBits(Rule(p)) = TypeOf(p.kind)
         /\ TargetBit(Rule(p)) = Bit(p.kind \in {"NS", "NA"} /\ ~IsLocal(p.target))
<1> DEFINE a == Bit(~IsLocal(p.src))
           t == TypeOf(p.kind)
           b == Bit(p.kind \in {"NS", "NA"} /\ ~IsLocal(p.target))
<1>1. a \in 0..1 /\ b \in 0..1
  BY DEF Bit
<1>2. t \in 0..6
  BY Types DEF Discovery
<1>3. Rule(p) = 64 * a + 4 * t + 2 * b
  BY DEF Rule
<1> HIDE DEF a, t, b
<1>4. QED BY <1>1, <1>2, <1>3, Fields DEF a, t, b

LEMMA PacketFields ==
  ASSUME NEW kind, NEW src, NEW dst, NEW target, NEW mac, NEW body
  PROVE  /\ Packet(kind, src, dst, target, mac, body).kind = kind
         /\ Packet(kind, src, dst, target, mac, body).src = src
         /\ Packet(kind, src, dst, target, mac, body).dst = dst
         /\ Packet(kind, src, dst, target, mac, body).target = target
         /\ Packet(kind, src, dst, target, mac, body).body = body
BY DEF Packet

LEMMA FrameParts ==
  ASSUME NEW rule, NEW fields
  PROVE  Frame(rule, fields).rule = rule /\ Frame(rule, fields).fields = fields
BY DEF Frame

LEMMA OwnAddresses ==
  /\ RouterLocal \in Word(16) /\ IsLocal(RouterLocal) /\ RouterLocal # <<>>
  /\ Own(0) \in Word(16) /\ IsLocal(Own(0)) /\ Own(0) # <<>>
  /\ Own(1) \in Word(16) /\ ~IsLocal(Own(1)) /\ Own(1) # <<>>
BY Addresses DEF RouterLocal, Own, Stations

(* What the packets of the downlink are.                                   *)
LEMMA DownlinkPackets ==
  ASSUME NEW p \in Downlink
  PROVE  /\ p.kind \in {"request", "RA", "NS", "NA"}
         /\ p.src \in Word(16)
         /\ p.kind = "RA" => p.src = RouterLocal
         /\ p.kind \in {"NS", "NA"} => p.target \in Word(16)
         /\ p.kind = "request" <=> p \in Requests
<1>1. \A iid \in Stations, type \in {0, 1} : IPv6_address(iid, type) \in Word(16)
  BY Addresses
<1>2. CASE p \in Requests
  BY <1>1, <1>2, PacketFields DEF Requests, Stations, RouterLocal
<1>3. CASE p \in Advertisements
  <2>1. p \notin Requests /\ p.kind \in {"RA", "NA"}
    BY <1>3, PacketFields DEF Advertisements, Requests
  <2>2. QED
    BY <1>1, <1>3, <2>1, PacketFields DEF Advertisements, Stations, RouterLocal
<1>4. CASE p \in Solicitations
  <2>1. p \notin Requests /\ p.kind = "NS"
    BY <1>4, PacketFields DEF Solicitations, Requests
  <2>2. QED
    BY <1>1, <1>4, <2>1, OwnAddresses, PacketFields DEF Solicitations, Stations
<1>5. QED BY <1>2, <1>3, <1>4 DEF Downlink
-----------------------------------------------------------------------------
(* listening_mode puts the link-local net before what it reads.            *)
LEMMA HeardAlone ==
  ASSUME NEW a \in Word(8), NEW rule
  PROVE  Heard(Frame(rule, a), 0) = LocalNet \o a
<1>1. \A behind : Read(Frame(rule, a), 0, 8, behind) = a
  BY ReadAlone
<1>2. QED BY <1>1 DEF Heard

LEMMA HeardPair ==
  ASSUME NEW a \in Word(8), NEW b \in Word(8), NEW rule
  PROVE  /\ Heard(Frame(rule, a \o b), 0) = LocalNet \o a
         /\ Heard(Frame(rule, a \o b), 8) = LocalNet \o b
<1>1. \A behind : /\ Read(Frame(rule, a \o b), 0, 8, behind) = a
                  /\ Read(Frame(rule, a \o b), 8, 8, behind) = b
  BY ReadPair
<1>2. QED BY <1>1 DEF Heard

(* The device finds the source first, and the target of a solicitation     *)
(* behind it; an echo request teaches it nothing.                          *)
LEMMA Understands ==
  ASSUME NEW p \in Downlink
  PROVE  LET f == GatewayCompress(p)
         IN  /\ p.kind = "RA" => Learns(f) = [source |-> p.src]
             /\ p.kind = "NS" /\ IsLocal(p.src) /\ IsLocal(p.target)
                  => Learns(f) = [source |-> p.src, target |-> p.target]
             /\ p.kind = "NS" /\ ~(IsLocal(p.src) /\ IsLocal(p.target))
                  => Learns(f) = [source |-> Zeros(16), target |-> Zeros(16)]
             /\ p.kind = "NA" /\ IsLocal(p.src) /\ IsLocal(p.target)
                  => Learns(f) = [target |-> p.target]
             /\ p.kind = "NA" /\ ~(IsLocal(p.src) /\ IsLocal(p.target))
                  => Learns(f) = Nothing
             /\ p.kind = "request" => Learns(f) = Nothing /\ TypeBits(f.rule) = 0
<1> DEFINE f == GatewayCompress(p)
           rule == Rule(p)
<1>1. /\ p.kind \in {"request", "RA", "NS", "NA"} /\ p.src \in Word(16)
      /\ p.kind = "RA" => p.src = RouterLocal
      /\ p.kind \in {"NS", "NA"} => p.target \in Word(16)
  BY DownlinkPackets
<1>2. /\ f.rule = rule
      /\ f = Frame(rule, CompressedFields(p, <<>>))
  BY FrameParts DEF GatewayCompress
<1>3. /\ SourceBit(rule) = Bit(~IsLocal(p.src))
      /\ TypeBits(rule) = TypeOf(p.kind)
      /\ TargetBit(rule) = Bit(p.kind \in {"NS", "NA"} /\ ~IsLocal(p.target))
  BY <1>1, RuleBits DEF Discovery
<1> HIDE DEF f, rule
<1>4. CASE p.kind = "RA"
  <2>1. IsLocal(p.src) /\ Iid(p.src) \in Word(8) /\ LocalNet \o Iid(p.src) = p.src
    BY <1>1, <1>4, OwnAddresses, Rejoined, LocalRejoined
  <2>2. f = Frame(rule, Iid(p.src))
    BY <1>2, <1>4, <2>1 DEF CompressedFields, Shortened
  <2>3. Heard(f, 0) = p.src
    BY <2>1, <2>2, HeardAlone
  <2>4. TypeBits(f.rule) = 3
    BY <1>2, <1>3, <1>4, Types
  <2>5. Learns(f) = [source |-> p.src]
    BY <2>3, <2>4 DEF Learns
  <2>6. QED BY <1>4, <2>5 DEF f
<1>5. CASE p.kind = "NS"
  <2>1. TypeBits(f.rule) = 4
    BY <1>2, <1>3, <1>5, Types
  <2>2. CASE IsLocal(p.src) /\ IsLocal(p.target)
    <3>1. /\ Iid(p.src) \in Word(8) /\ LocalNet \o Iid(p.src) = p.src
          /\ Iid(p.target) \in Word(8) /\ LocalNet \o Iid(p.target) = p.target
      BY <1>1, <1>5, <2>2, Rejoined, LocalRejoined
    <3>2. f = Frame(rule, Iid(p.src) \o Iid(p.target))
      BY <1>2, <1>5, <2>2 DEF CompressedFields, Shortened
    <3>3. Heard(f, 0) = p.src /\ Heard(f, 8) = p.target
      BY <3>1, <3>2, HeardPair
    <3>4. SourceBit(f.rule) = 0 /\ TargetBit(f.rule) = 0
      BY <1>2, <1>3, <2>2 DEF Bit
    <3>5. Learns(f) = [source |-> p.src, target |-> p.target]
      BY <2>1, <3>3, <3>4 DEF Learns
    <3>6. QED BY <1>5, <2>2, <3>5 DEF f
  <2>3. CASE ~(IsLocal(p.src) /\ IsLocal(p.target))
    <3>1. SourceBit(f.rule) = 1 \/ TargetBit(f.rule) = 1
      BY <1>2, <1>3, <1>5, <2>3 DEF Bit
    <3>2. Learns(f) = [source |-> Zeros(16), target |-> Zeros(16)]
      BY <2>1, <3>1 DEF Learns
    <3>3. QED BY <1>5, <2>3, <3>2 DEF f
  <2>4. QED BY <2>2, <2>3
<1>6. CASE p.kind = "NA"
  <2>1. TypeBits(f.rule) = 5
    BY <1>2, <1>3, <1>6, Types
  <2>2. CASE IsLocal(p.src) /\ IsLocal(p.target)
    <3>1. Iid(p.target) \in Word(8) /\ LocalNet \o Iid(p.target) = p.target
      BY <1>1, <1>6, <2>2, Rejoined, LocalRejoined
    <3>2. f = Frame(rule, Iid(p.target))
      BY <1>2, <1>6, <2>2 DEF CompressedFields, Shortened
    <3>3. Heard(f, 0) = p.target
      BY <3>1, <3>2, HeardAlone
    <3>4. SourceBit(f.rule) = 0 /\ TargetBit(f.rule) = 0
      BY <1>2, <1>3, <2>2 DEF Bit
    <3>5. Learns(f) = [target |-> p.target]
      BY <2>1, <3>3, <3>4 DEF Learns
    <3>6. QED BY <1>6, <2>2, <3>5 DEF f
  <2>3. CASE ~(IsLocal(p.src) /\ IsLocal(p.target))
    <3>1. SourceBit(f.rule) = 1 \/ TargetBit(f.rule) = 1
      BY <1>2, <1>3, <1>6, <2>3 DEF Bit
    <3>2. Learns(f) = Nothing
      BY <2>1, <3>1 DEF Learns, Nothing
    <3>3. QED BY <1>6, <2>3, <3>2 DEF f
  <2>4. QED BY <2>2, <2>3
<1>7. CASE p.kind = "request"
  <2>1. TypeBits(f.rule) = 0
    BY <1>2, <1>3, <1>7, Types
  <2>2. Learns(f) = Nothing
    BY <2>1 DEF Learns, Nothing
  <2>3. QED BY <1>7, <2>1, <2>2 DEF f
<1>8. QED BY <1>1, <1>4, <1>5, <1>6, <1>7

(* What the gateway makes of the frame f, with the pair s of addresses.    *)
Reception(f, s) ==
  CASE TypeBits(f.rule) = 1 -> GatewayDecompress(f, s.dst, s.src, MacOf(Device))
    [] TypeBits(f.rule) = 2 -> GatewayDecompress(f, <<>>, <<>>, MacOf(Device))
    [] TypeBits(f.rule) = 4 -> GatewayDecompress(f, <<>>, RouterLocal, MacOf(Device))
    [] OTHER -> Nothing

PairOf(p) == [src |-> p.src, dst |-> p.dst]

(* The length of an echo packet is counted in a byte and does not overflow *)
(* it: the whole body is sent.                                             *)
LEMMA BodySent ==
  ASSUME NEW n \in DataLengths
  PROVE  LET paylength == (4 + Len(Body(n))) % 256
         IN  SubSeq(Body(n), 1, paylength - 4) = Body(n)
<1>1. n \in 0..51
  BY DataLengthsAssumption
<1>2. Body(n) \in Seq(Octet) /\ Len(Body(n)) = 4 + n
  BY <1>1 DEF Body, Bytes, Octet
<1>3. ((4 + Len(Body(n))) % 256) - 4 = Len(Body(n))
  BY <1>1, <1>2
<1>4. SubSeq(Body(n), 1, Len(Body(n))) = Body(n)
  BY <1>2, SubSeqFull
<1>5. QED BY <1>3, <1>4

(* The echoed frame becomes the reply.                                     *)
LEMMA EchoReceived ==
  ASSUME NEW p \in Requests
  PROVE  /\ p.kind = "request"
         /\ Reception(AsReply(GatewayCompress(p)), PairOf(p))
              = Packet("reply", p.dst, p.src, <<>>, <<>>, p.body)
<1> DEFINE f == AsReply(GatewayCompress(p))
           rule == Rule(p)
<1>1. PICK n \in DataLengths : p.body = Body(n)
  BY PacketFields DEF Requests
<1>2. p.kind = "request" /\ p.dst # <<>> /\ p.src # <<>>
  BY PacketFields, OwnAddresses, Addresses DEF Requests, Stations
<1>3. GatewayCompress(p) = Frame(rule, p.body)
  BY <1>1, <1>2, BodySent DEF GatewayCompress, CompressedFields
<1>4. /\ TypeBits(rule) = 0
      /\ rule \in {0, 64}
  <2>1. TypeBits(rule) = 0
    BY <1>2, RuleBits, Types
  <2>2. rule \in {0, 64}
    BY <1>2, Types DEF Rule, Bit
  <2>3. QED BY <2>1, <2>2
<1> HIDE DEF rule
<1>5. f = Frame(rule + 4, p.body)
  BY <1>3, <1>4 DEF AsReply, Frame
<1> HIDE DEF f
<1>6. TypeBits(f.rule) = 1 /\ f.fields = p.body
  <2>1. TypeBits(rule + 4) = 1
    BY <1>4 DEF TypeBits
  <2>2. QED BY <1>5, <2>1, FrameParts
<1>7. Reception(f, PairOf(p)) = GatewayDecompress(f, p.dst, p.src, MacOf(Device))
  BY <1>6 DEF Reception, PairOf
<1>8. SourceField(f, p.dst) = p.dst /\ DestinationField(f, p.src) = p.src
  BY <1>2, <1>6 DEF SourceField, DestinationField
<1>9. Kinds[1 + 1] = "reply"
  BY DEF Kinds
<1>10. GatewayDecompress(f, p.dst, p.src, MacOf(Device))
         = Packet("reply", p.dst, p.src, <<>>, <<>>, p.body)
  BY <1>6, <1>8, <1>9 DEF GatewayDecompress
<1>11. QED BY <1>2, <1>7, <1>10 DEF f

(* The two solicitations, when x is what the sketch remembers.             *)
UplinkTo(x) ==
  {Packet("RS", Own(0), AllRouters, <<>>, MacOf(Device), <<>>),
   Packet("NS", Own(1), x, x, MacOf(Device), <<>>)}

(* The gateway puts the solicitation together again: the net of a local    *)
(* source or target, the destination and the MAC are its own.              *)
LEMMA SolicitationReceived ==
  ASSUME NEW x \in Word(16), NEW p \in UplinkTo(x), NEW s
  PROVE  /\ p.kind \in {"RS", "NS"}
         /\ Reception(DeviceCompress(p), s)
              = [p EXCEPT !.dst = IF p.kind = "NS" THEN RouterLocal ELSE @]
<1> DEFINE f == DeviceCompress(p)
           rule == Rule(p)
<1>0. p.kind \in {"RS", "NS"} /\ p.kind \in Discovery
  BY PacketFields DEF UplinkTo, Discovery
<1>1. /\ f.rule = rule
      /\ f = Frame(rule, CompressedFields(p, Iid(p.src)))
  BY FrameParts DEF DeviceCompress
<1>2. /\ SourceBit(rule) = Bit(~IsLocal(p.src))
      /\ TypeBits(rule) = TypeOf(p.kind)
      /\ TargetBit(rule) = Bit(p.kind \in {"NS", "NA"} /\ ~IsLocal(p.target))
  BY <1>0, RuleBits
<1> HIDE DEF f, rule
<1>3. CASE p = Packet("RS", Own(0), AllRouters, <<>>, MacOf(Device), <<>>)
  <2>1. p.kind = "RS" /\ p.src = Own(0) /\ p.dst = AllRouters
    BY <1>3, PacketFields
  <2>2. Iid(Own(0)) \in Word(8) /\ LocalNet \o Iid(Own(0)) = Own(0)
    BY OwnAddresses, Rejoined, LocalRejoined
  <2>3. f = Frame(rule, Iid(Own(0)))
    BY <1>1, <2>1 DEF CompressedFields
  <2>4. ReadZero(f, 0, 8) = Iid(Own(0))
    <3>1. \A z : Read(Frame(rule, Iid(Own(0))), 0, 8, z) = Iid(Own(0))
      BY <2>2, ReadAlone
    <3>2. QED BY <2>3, <3>1 DEF ReadZero
  <2>5. TypeBits(f.rule) = 2 /\ SourceBit(f.rule) = 0
    BY <1>1, <1>2, <2>1, Types, OwnAddresses DEF Bit
  <2>6. SourceField(f, <<>>) = Own(0) /\ DestinationField(f, <<>>) = AllRouters
    BY <2>2, <2>4, <2>5 DEF SourceField, DestinationField, Prefix
  <2>7. Reception(f, s) = Packet("RS", Own(0), AllRouters, <<>>, MacOf(Device), <<>>)
    BY <2>5, <2>6 DEF Reception, GatewayDecompress
  <2>8. [p EXCEPT !.dst = IF p.kind = "NS" THEN RouterLocal ELSE @] = p
    BY <1>3, <2>1 DEF Packet
  <2>9. QED BY <1>0, <1>3, <2>7, <2>8 DEF f
<1>4. CASE p = Packet("NS", Own(1), x, x, MacOf(Device), <<>>)
  <2>1. p.kind = "NS" /\ p.src = Own(1) /\ p.target = x
    BY <1>4, PacketFields
  <2>2. /\ Own(1) \in Word(16) /\ ~IsLocal(Own(1))
        /\ Iid(x) \in Word(8) /\ (IsLocal(x) => LocalNet \o Iid(x) = x)
    BY OwnAddresses, Rejoined, LocalRejoined
  <2>3. f = Frame(rule, Own(1) \o Shortened(x))
    BY <1>1, <2>1, <2>2 DEF CompressedFields, Shortened
  <2>4. /\ TypeBits(f.rule) = 4 /\ SourceBit(f.rule) = 1
        /\ TargetBit(f.rule) = Bit(~IsLocal(x))
    BY <1>1, <1>2, <2>1, <2>2, Types DEF Bit
  <2>5. ReadZero(f, 0, 16) = Own(1) /\ TargetField(f) = x
    <3>1. CASE IsLocal(x)
      <4>1. Shortened(x) = Iid(x) /\ Iid(x) \in Word(8)
        BY <3>1, <2>2 DEF Shortened
      <4>2. \A z : /\ Read(Frame(rule, Own(1) \o Iid(x)), 0, 16, z) = Own(1)
                   /\ Read(Frame(rule, Own(1) \o Iid(x)), 16, 8, z) = Iid(x)
        BY <2>2, ReadPair
      <4>3. QED BY <3>1, <2>2, <2>3, <2>4, <4>1, <4>2 DEF ReadZero, TargetField, Bit
    <3>2. CASE ~IsLocal(x)
      <4>1. Shortened(x) = x
        BY <3>2 DEF Shortened
      <4>2. \A z : /\ Read(Frame(rule, Own(1) \o x), 0, 16, z) = Own(1)
                   /\ Read(Frame(rule, Own(1) \o x), 16, 16, z) = x
        BY <2>2, ReadPair
      <4>3. QED BY <3>2, <2>3, <2>4, <4>1, <4>2 DEF ReadZero, TargetField, Bit
    <3>3. QED BY <3>1, <3>2
  <2>6. SourceField(f, <<>>) = Own(1) /\ DestinationField(f, RouterLocal) = RouterLocal
    BY <2>4, <2>5, OwnAddresses DEF SourceField, DestinationField
  <2>7. Reception(f, s) = Packet("NS", Own(1), RouterLocal, x, MacOf(Device), <<>>)
    BY <2>4, <2>5, <2>6 DEF Reception, GatewayDecompress
  <2>8. [p EXCEPT !.dst = IF p.kind = "NS" THEN RouterLocal ELSE @]
          = Packet("NS", Own(1), RouterLocal, x, MacOf(Device), <<>>)
    BY <1>4, <2>1 DEF Packet
  <2>9. QED BY <1>0, <2>7, <2>8 DEF f
<1>5. QED BY <1>3, <1>4 DEF UplinkTo
-----------------------------------------------------------------------------
(* The invariant of the link: the frame is what was made of the packet,    *)
(* and what each end remembers belongs to it.                              *)
Stages == {"idle", "down", "heard", "up", "delivered"}
Echoed == packet \in Requests /\ frame = AsReply(GatewayCompress(packet))
Solicited == \E x \in Word(16) : packet \in UplinkTo(x) /\ frame = DeviceCompress(packet)

LinkInv ==
  /\ stage \in Stages
  /\ src_NS \in Word(16)
  /\ stage \in {"down", "heard"} => packet \in Downlink /\ frame = GatewayCompress(packet)
  /\ stage = "heard" => result = Learns(frame)
  /\ stage \in {"up", "delivered"} => Echoed \/ Solicited
  /\ stage = "delivered" => result = Reception(frame, saved)
  /\ stage # "idle" /\ packet.kind = "request" => saved = PairOf(packet)

LEMMA LinkInit == Init => LinkInv
BY Words DEF Init, LinkInv, Stages

(* The device remembers a whole address.                                   *)
LEMMA RemembersAddress ==
  ASSUME LinkInv, DeviceHears
  PROVE  src_NS' \in Word(16)
<1>1. /\ packet \in Downlink /\ frame = GatewayCompress(packet)
      /\ result' = Learns(frame)
      /\ src_NS' = IF "source" \in DOMAIN result' THEN result'.source ELSE src_NS
      /\ src_NS \in Word(16)
  BY DEF LinkInv, DeviceHears
<1>2. /\ packet.kind \in {"request", "RA", "NS", "NA"} /\ packet.src \in Word(16)
      /\ Zeros(16) \in Word(16)
  BY <1>1, DownlinkPackets, Words
<1>3. \/ result' = Nothing
      \/ \E t : result' = [target |-> t]
      \/ \E s \in Word(16) : result' = [source |-> s]
      \/ \E s \in Word(16) : \E t : result' = [source |-> s, target |-> t]
  BY <1>1, <1>2, Understands
<1>4. /\ "source" \notin DOMAIN Nothing
      /\ \A t : "source" \notin DOMAIN [target |-> t]
  BY DEF Nothing
<1>5. CASE result' = Nothing \/ \E t : result' = [target |-> t]
  BY <1>1, <1>4, <1>5
<1>6. CASE \E s \in Word(16) : result' = [source |-> s]
  BY <1>1, <1>6
<1>7. CASE \E s \in Word(16) : \E t : result' = [source |-> s, target |-> t]
  BY <1>1, <1>7
<1>8. QED BY <1>3, <1>5, <1>6, <1>7

LEMMA LinkStep ==
  ASSUME LinkInv, [Next]_vars
  PROVE  LinkInv'
<1>1. ASSUME NEW p \in Downlink, GatewaySends(p)
      PROVE  LinkInv'
  BY <1>1 DEF GatewaySends, LinkInv, Stages, PairOf
<1>2. ASSUME NEW p \in Uplink, DeviceSends(p)
      PROVE  LinkInv'
  <2>1. p \in UplinkTo(src_NS) /\ src_NS \in Word(16)
    BY <1>2 DEF Uplink, UplinkTo, LinkInv
  <2>2. packet' = p /\ frame' = DeviceCompress(p) /\ stage' = "up" /\ src_NS' = src_NS
    BY <1>2 DEF DeviceSends
  <2>3. p.kind # "request"
    <3>1. p.kind \in {"RS", "NS"}
      BY <2>1, SolicitationReceived
    <3>2. QED BY <3>1
  <2>4. Solicited'
    BY <2>1, <2>2 DEF Solicited
  <2>5. QED BY <2>1, <2>2, <2>3, <2>4 DEF LinkInv, Stages
<1>3. CASE DeviceHears
  BY <1>3, RemembersAddress DEF DeviceHears, LinkInv, Stages, PairOf
<1>4. CASE DeviceEchoes
  <2>1. /\ packet \in Requests /\ frame = GatewayCompress(packet)
        /\ frame' = AsReply(frame) /\ packet' = packet
    BY <1>4, DownlinkPackets DEF DeviceEchoes, LinkInv
  <2>2. Echoed'
    BY <2>1 DEF Echoed
  <2>3. QED BY <1>4, <2>2 DEF DeviceEchoes, LinkInv, Stages, PairOf
<1>5. CASE GatewayHears
  <2>1. /\ stage = "up" /\ stage' = "delivered" /\ result' = Reception(frame, saved)
        /\ UNCHANGED <<packet, frame, saved, src_NS>>
    BY <1>5 DEF GatewayHears, Reception
  <2>2. (Echoed \/ Solicited) => (Echoed \/ Solicited)'
    BY <2>1 DEF Echoed, Solicited
  <2>3. QED BY <2>1, <2>2 DEF LinkInv, Stages, Reception, PairOf
<1>6. CASE UNCHANGED vars
  BY <1>6 DEF vars, LinkInv, Echoed, Solicited, Reception, PairOf
<1>7. QED BY <1>1, <1>2, <1>3, <1>4, <1>5, <1>6 DEF Next

(* Whatever was sent before, the frame on the air and the saved addresses  *)
(* belong to the packet under way.                                         *)
THEOREM LinkInvariant == Spec => []LinkInv
BY LinkInit, LinkStep, PTL DEF Spec

(* For any three interface identifiers and any length of data that fits a  *)
(* frame, the host receives the reply to the request it sent, although the *)
(* frame holds no address.                                                 *)
THEOREM EchoComesBack == Spec => []EchoRoundTrip
<1>1. ASSUME LinkInv, stage = "delivered", packet.kind = "request"
      PROVE  result = Packet("reply", packet.dst, packet.src, <<>>, <<>>, packet.body)
  <2>1. result = Reception(frame, saved) /\ saved = PairOf(packet)
    BY <1>1 DEF LinkInv
  <2>2. Echoed
    BY <1>1, SolicitationReceived DEF LinkInv, Solicited
  <2>3. QED BY <2>1, <2>2, EchoReceived DEF Echoed
<1>2. LinkInv => EchoRoundTrip
  BY <1>1 DEF EchoRoundTrip
<1>3. QED BY <1>2, LinkInvariant, PTL

(* The router receives the solicitation that the sketch built, whatever    *)
(* address the sketch had last heard.                                      *)
THEOREM SolicitationComesThrough == Spec => []SolicitationRoundTrip
<1>1. ASSUME LinkInv, stage = "delivered", packet.kind \in {"RS", "NS"}
      PROVE  result = [packet EXCEPT !.dst = IF packet.kind = "NS" THEN RouterLocal ELSE @]
  <2>1. result = Reception(frame, saved)
    BY <1>1 DEF LinkInv
  <2>2. ~Echoed
    BY <1>1, EchoReceived DEF Echoed
  <2>3. Solicited
    BY <1>1, <2>2 DEF LinkInv
  <2>4. QED BY <2>1, <2>3, SolicitationReceived DEF Solicited
<1>2. LinkInv => SolicitationRoundTrip
  BY <1>1 DEF SolicitationRoundTrip
<1>3. QED BY <1>2, LinkInvariant, PTL

(* The device reads the addresses of the packet and no byte that an        *)
(* earlier frame left in the buffer.                                       *)
THEOREM DownlinkIsUnderstood == Spec => []DownlinkUnderstood
<1>1. LinkInv => DownlinkUnderstood
  BY Understands DEF LinkInv, DownlinkUnderstood
<1>2. QED BY <1>1, LinkInvariant, PTL
=============================================================================
