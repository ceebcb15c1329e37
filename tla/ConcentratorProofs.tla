------------------------- MODULE ConcentratorProofs -------------------------
(* Proofs about Concentrator, for any packets, any senders and any sizes   *)
(* of FIFO and array.                                                      *)
EXTENDS Concentrator, TLAPS, SequenceTheorems

CallType == [name : {"idle", "send", "receive"},
             access : 1..Len(SendAccesses),
             stage : {"test", "assign", "switch", "transfer", "write"},
             packet : Packets \union {None}]

(* Who is in which call, and which stages an access has: accesses 6 and 7  *)
(* of lgw_send do not depend on the page, 3 and 8 are narrow.              *)
CallInv ==
  \A t \in Threads :
    /\ call[t].name = "send" =>
         /\ t \in Senders /\ call[t].packet \in Packets
         /\ call[t].access \in {6, 7} => call[t].stage = "transfer"
    /\ call[t].name = "receive" =>
         t = "recive_package" /\ call[t].access \in 1..3 /\ call[t].stage = "transfer"
    /\ call[t].name = "idle" => call[t].stage = "test"
    /\ call[t].stage = "write" => call[t].access \in {3, 8}

(* Two calls of lgw_send that overlap know each other's packet.            *)
RivalInv ==
  \A t, u \in Threads :
    t # u /\ call[t].name = "send" /\ call[u].name = "send"
      => call[u].packet \in rivals[t]

(* The page of lgw_send, once selected, stays so; the variable is ahead of *)
(* the chip while a thread is between the two steps of page_switch; and an *)
(* access past its test has the variable on its page.                      *)
PageInv ==
  /\ page = TxPage => lgw_regpage = TxPage
  /\ lgw_regpage = TxPage => page = TxPage \/ \E t \in Threads : call[t].stage = "switch"
  /\ \A t \in Threads :
       /\ call[t].stage = "switch" => lgw_regpage = TxPage
       /\ call[t].name = "send" /\ call[t].access \notin {6, 7}
            /\ call[t].stage \in {"transfer", "write"}
              => lgw_regpage = TxPage

(* How far lgw_send is with the TX data buffer: what it starts with is the *)
(* packet of the call or of one that overlaps with it, from its own load   *)
(* on, and before if the address has moved since it was set.               *)
Fresh(t) == loaded \in {call[t].packet} \union rivals[t]

BufferInv ==
  \A t \in Threads : call[t].name = "send" =>
    /\ call[t].access = 7 => rewound \/ Fresh(t)
    /\ call[t].access = 8 => Fresh(t)

(* How far lgw_receive is with the first packet of the FIFO.               *)
FifoInv ==
  call["recive_package"].name = "receive" =>
    /\ rounds = 0
    /\ call["recive_package"].access \in {2, 3} => fifo # <<>>
    /\ call["recive_package"].access \in {1, 2} => Len(rxpkt) < MaxPkt

Inv == TypeOK /\ CallInv /\ RivalInv /\ PageInv /\ BufferInv /\ FifoInv

-----------------------------------------------------------------------------
(* The accesses of lgw_send by number.                                     *)
LEMMA SendRegisters ==
  /\ Len(SendAccesses) = 8
  /\ SendAccesses[1] = "TX_OFFSET_I" /\ SendAccesses[2] = "TX_OFFSET_Q"
  /\ SendAccesses[3] = "TX_GAIN" /\ SendAccesses[4] = "TX_START_DELAY"
  /\ SendAccesses[5] = "TX_TRIG_ALL" /\ SendAccesses[6] = "TX_DATA_BUF_ADDR"
  /\ SendAccesses[7] = "TX_DATA_BUF_DATA" /\ SendAccesses[8] = "TX_TRIG_IMMEDIATE"
BY DEF SendAccesses

(* Where each of them begins.                                              *)
LEMMA SendStages ==
  ASSUME NEW k \in 1..8
  PROVE  FirstStage(SendAccesses[k]) = IF k \in {6, 7} THEN "transfer" ELSE "test"
<1>1. k = 1 \/ k = 2 \/ k = 3 \/ k = 4 \/ k = 5 \/ k = 6 \/ k = 7 \/ k = 8
  OBVIOUS
<1>2. QED BY <1>1, SendRegisters DEF FirstStage, Unpaged

(* Those of lgw_receive are transferred at once.                           *)
LEMMA ReceiveStages ==
  ASSUME NEW k \in 1..3
  PROVE  FirstStage(ReceiveAccesses[k]) = "transfer"
<1>1. ReceiveAccesses[1] = "RX_PACKET_DATA_FIFO_NUM_STORED"
      /\ ReceiveAccesses[2] = "RX_DATA_BUF_DATA"
      /\ ReceiveAccesses[3] = "RX_PACKET_DATA_FIFO_NUM_STORED"
  BY DEF ReceiveAccesses
<1>2. k = 1 \/ k = 2 \/ k = 3
  OBVIOUS
<1>3. QED BY <1>1, <1>2 DEF FirstStage, Unpaged

(* What a call begins with.                                                *)
LEMMA Beginnings ==
  /\ Idle = [name |-> "idle", access |-> 1, packet |-> None, stage |-> "test"]
  /\ \A p : Begin("send", p)
              = [name |-> "send", access |-> 1, packet |-> p, stage |-> "test"]
  /\ Begin("receive", None)
       = [name |-> "receive", access |-> 1, packet |-> None, stage |-> "transfer"]
<1>1. FirstStage(SendAccesses[1]) = "test" /\ FirstStage(ReceiveAccesses[1]) = "transfer"
  BY SendStages, ReceiveStages
<1>2. Accesses("send") = SendAccesses /\ Accesses("receive") = ReceiveAccesses
  BY DEF Accesses
<1>3. QED BY <1>1, <1>2 DEF Idle, Begin

(* Which of them do not depend on the page, which are narrow.              *)
LEMMA SendRegister ==
  ASSUME NEW t \in Threads, call[t].name = "send", call[t].access \in 1..8
  PROVE  /\ Register(t) \in Unpaged <=> call[t].access \in {6, 7}
         /\ Register(t) \in Narrow <=> call[t].access \in {3, 8}
         /\ Register(t) = "TX_TRIG_ALL" <=> call[t].access = 5
         /\ Register(t) = "TX_DATA_BUF_ADDR" <=> call[t].access = 6
         /\ Register(t) = "TX_DATA_BUF_DATA" <=> call[t].access = 7
         /\ Register(t) = "TX_TRIG_IMMEDIATE" <=> call[t].access = 8
<1>1. Register(t) = SendAccesses[call[t].access]
  BY DEF Register, Accesses
<1>2. \/ call[t].access = 1 \/ call[t].access = 2 \/ call[t].access = 3
      \/ call[t].access = 4 \/ call[t].access = 5 \/ call[t].access = 6
      \/ call[t].access = 7 \/ call[t].access = 8
  OBVIOUS
<1>3. QED BY <1>1, <1>2, SendRegisters DEF Unpaged, Narrow

-----------------------------------------------------------------------------
(* The invariant holds after lgw_start.                                    *)
LEMMA InitInv == Init => Inv
<1> SUFFICES ASSUME Init PROVE Inv
  OBVIOUS
<1> USE DEF Init
<1>1. Len(SendAccesses) = 8 /\ MaxPkt \in Nat \ {0} /\ FifoSize \in Nat
      /\ FrameIds \in Nat \ {0}
  BY SendRegisters, FifoAssumption, FrameIdsAssumption
<1>2. <<>> \in Seq(0..(FrameIds - 1)) /\ Len(<<>>) = 0
  OBVIOUS
<1>3. Idle \in CallType
  BY <1>1, Beginnings DEF CallType
<1>4. call \in [Threads -> CallType] /\ rivals \in [Threads -> SUBSET Packets]
  BY <1>3
<1>5. next \in 0..(FrameIds - 1) /\ rounds \in 0..MaxPkt
      /\ fifo = <<>> /\ rxpkt = <<>> /\ 0 <= FifoSize /\ 0 <= MaxPkt
  BY <1>1
<1>6. /\ lgw_regpage \in {StartPage, TxPage} /\ page \in {StartPage, TxPage}
      /\ rewound \in BOOLEAN /\ valid \in BOOLEAN
      /\ loaded \in Packets \union {None} /\ onAir \in Packets \union {None}
  OBVIOUS
<1>7. CallInv /\ RivalInv /\ BufferInv /\ FifoInv
  BY Beginnings DEF CallInv, RivalInv, BufferInv, FifoInv, Threads
<1>8. PageInv
  BY Beginnings DEF PageInv, StartPage, TxPage
<1> HIDE DEF Init
<1>9. TypeOK
  BY <1>2, <1>4, <1>5, <1>6 DEF TypeOK, CallType
<1>10. QED BY <1>7, <1>8, <1>9 DEF Inv

(* A step of the register layer.                                           *)
LEMMA AccessStep ==
  ASSUME Inv, NEW t \in Threads, Register_access(t)
  PROVE  Inv'
<1> USE DEF Inv, transmitter, receiver, pages
<1>1. Len(SendAccesses) = 8
  BY SendRegisters
<1>2. call \in [Threads -> CallType] /\ call[t] \in CallType
  BY DEF TypeOK, CallType
<1>3. PICK stage \in {"transfer", "assign", "switch", "write"} :
        call' = [call EXCEPT ![t].stage = stage]
  BY DEF Register_access, TestPage, AssignPage, SwitchPage, ReadByte, Stage
<1>4. /\ \A u \in Threads : u # t => call'[u] = call[u]
      /\ call'[t].name = call[t].name /\ call'[t].access = call[t].access
      /\ call'[t].packet = call[t].packet /\ call'[t].stage = stage
      /\ call' \in [Threads -> CallType]
  BY <1>2, <1>3 DEF CallType
<1>5. UNCHANGED <<rewound, loaded, onAir, fifo, valid, next, rivals, rxpkt, rounds>>
  BY DEF Register_access, TestPage, AssignPage, SwitchPage, ReadByte
<1>6. call[t].name = "send"
  <2>1. call[t].name # "idle"
    BY DEF Register_access, TestPage, AssignPage, SwitchPage, ReadByte
  <2>2. call[t].name = "receive" => call[t].stage = "transfer"
    BY DEF CallInv
  <2>3. call[t].stage \in {"test", "assign", "switch"} \/ call[t].name = "send"
    BY DEF Register_access, TestPage, AssignPage, SwitchPage, ReadByte
  <2>4. QED BY <1>2, <2>1, <2>2, <2>3 DEF CallType
<1>7. /\ call[t].access \in 1..8
      /\ Register(t) \in Narrow <=> call[t].access \in {3, 8}
  BY <1>1, <1>2, <1>6, SendRegister DEF CallType
<1>8. RivalInv' /\ BufferInv' /\ FifoInv'
  <2>1. \A u \in Threads : /\ call'[u].name = call[u].name
                           /\ call'[u].access = call[u].access
                           /\ call'[u].packet = call[u].packet
    BY <1>4
  <2>2. RivalInv'
    BY <1>5, <2>1 DEF RivalInv
  <2>3. BufferInv'
    BY <1>5, <2>1 DEF BufferInv, Fresh
  <2>4. FifoInv'
    BY <1>5, <2>1 DEF FifoInv, Threads
  <2>5. QED BY <2>2, <2>3, <2>4
<1>9. CASE TestPage(t)
  <2>1. /\ call[t].stage = "test" /\ UNCHANGED <<lgw_regpage, page>>
        /\ call' = [call EXCEPT ![t].stage =
                      IF lgw_regpage = TxPage THEN "transfer" ELSE "assign"]
    BY <1>9 DEF TestPage, Stage
  <2>2. call'[t].stage = IF lgw_regpage = TxPage THEN "transfer" ELSE "assign"
    BY <1>2, <2>1 DEF CallType
  <2>3. TypeOK'
    BY <1>4, <1>5, <2>1 DEF TypeOK, CallType
  <2>4. CallInv'
    BY <1>4, <1>6, <2>1, <2>2 DEF CallInv
  <2>5. PageInv'
    BY <1>4, <2>1, <2>2 DEF PageInv
  <2>6. QED BY <1>8, <2>3, <2>4, <2>5
<1>10. CASE AssignPage(t)
  <2>1. call[t].stage = "assign" /\ lgw_regpage' = TxPage /\ UNCHANGED page
        /\ call' = [call EXCEPT ![t].stage = "switch"]
    BY <1>10 DEF AssignPage, Stage
  <2>2. call'[t].stage = "switch"
    BY <1>2, <2>1 DEF CallType
  <2>3. TypeOK'
    BY <1>4, <1>5, <2>1 DEF TypeOK, CallType
  <2>4. CallInv'
    BY <1>4, <1>6, <2>1, <2>2 DEF CallInv
  <2>5. PageInv'
    BY <1>4, <2>1, <2>2 DEF PageInv
  <2>6. QED BY <1>8, <2>3, <2>4, <2>5
<1>11. CASE SwitchPage(t)
  <2>1. call[t].stage = "switch" /\ page' = lgw_regpage /\ UNCHANGED lgw_regpage
        /\ call' = [call EXCEPT ![t].stage = "transfer"]
    BY <1>11 DEF SwitchPage, Stage
  <2>2. call'[t].stage = "transfer" /\ lgw_regpage = TxPage
    BY <1>2, <2>1 DEF CallType, PageInv
  <2>3. TypeOK'
    BY <1>4, <1>5, <2>1 DEF TypeOK, CallType
  <2>4. CallInv'
    BY <1>4, <1>6, <2>1, <2>2 DEF CallInv
  <2>5. PageInv'
    BY <1>4, <2>1, <2>2 DEF PageInv
  <2>6. QED BY <1>8, <2>3, <2>4, <2>5
<1>12. CASE ReadByte(t)
  <2>1. call[t].stage = "transfer" /\ UNCHANGED <<lgw_regpage, page>>
        /\ call' = [call EXCEPT ![t].stage = "write"] /\ Register(t) \in Narrow
    BY <1>12 DEF ReadByte, Stage
  <2>2. call'[t].stage = "write" /\ call[t].access \in {3, 8}
    BY <1>2, <1>7, <2>1 DEF CallType
  <2>3. TypeOK'
    BY <1>4, <1>5, <2>1 DEF TypeOK, CallType
  <2>4. CallInv'
    BY <1>4, <1>6, <2>1, <2>2 DEF CallInv
  <2>5. PageInv'
    BY <1>4, <1>6, <2>1, <2>2 DEF PageInv
  <2>6. QED BY <1>8, <2>3, <2>4, <2>5
<1>13. QED BY <1>9, <1>10, <1>11, <1>12 DEF Register_access

(* A call of lgw_send.                                                     *)
LEMMA CallSendStep ==
  ASSUME Inv, NEW t \in Threads, NEW p \in Packets, CallSend(t, p)
  PROVE  Inv'
<1> USE DEF Inv, transmitter, pages
<1>1. Len(SendAccesses) = 8 /\ MaxPkt \in Nat
  BY SendRegisters, FifoAssumption
<1>2. call \in [Threads -> CallType] /\ call[t] \in CallType
      /\ rivals \in [Threads -> SUBSET Packets]
  BY DEF TypeOK, CallType
<1>3. /\ t \in Senders /\ call[t] = Idle
      /\ call' = [call EXCEPT ![t] = Begin("send", p)]
      /\ UNCHANGED <<lgw_regpage, page, rewound, loaded, onAir, fifo, valid, next, rxpkt>>
  BY DEF CallSend
<1>4. /\ call'[t].name = "send" /\ call'[t].access = 1 /\ call'[t].stage = "test"
      /\ call'[t].packet = p /\ call[t].stage = "test" /\ call[t].name = "idle"
      /\ \A u \in Threads : u # t => call'[u] = call[u]
      /\ call' \in [Threads -> CallType]
  <2>1. Begin("send", p) \in CallType
    BY <1>1, Beginnings DEF CallType
  <2>2. call' \in [Threads -> CallType] /\ call'[t] = Begin("send", p)
        /\ \A u \in Threads : u # t => call'[u] = call[u]
    BY <1>2, <1>3, <2>1
  <2>3. call[t].stage = "test" /\ call[t].name = "idle"
    BY <1>3, Beginnings
  <2>4. QED BY <2>2, <2>3, Beginnings
<1>5. rounds' \in 0..MaxPkt
  <2>1. rounds \in 0..MaxPkt
    BY DEF TypeOK
  <2>2. /\ t = "recive_package" => rounds > 0
        /\ rounds' = IF t = "recive_package" THEN rounds - 1 ELSE rounds
    BY DEF CallSend
  <2>3. QED BY <1>1, <2>1, <2>2
<1>6. /\ rivals' \in [Threads -> SUBSET Packets]
      /\ rivals'[t] = {call[v].packet : v \in Others(t)}
      /\ \A u \in Others(t) : rivals'[u] = rivals[u] \union {p}
      /\ \A u \in Threads \ {t} : rivals[u] \subseteq rivals'[u]
  <2>1. rivals' = [u \in Threads |->
                    IF u = t THEN {call[v].packet : v \in Others(t)}
                    ELSE IF u \in Others(t) THEN rivals[u] \union {p} ELSE rivals[u]]
    BY DEF CallSend
  <2>2. \A v \in Others(t) : v \in Threads /\ v # t /\ call[v].packet \in Packets
    BY DEF Others, CallInv
  <2>3. {call[v].packet : v \in Others(t)} \in SUBSET Packets
    BY <2>2
  <2>4. \A u \in Threads : rivals[u] \in SUBSET Packets
    BY <1>2
  <2>5. rivals' \in [Threads -> SUBSET Packets]
    BY <2>1, <2>3, <2>4
  <2>6. \A u \in Threads \ {t} :
          rivals'[u] = IF u \in Others(t) THEN rivals[u] \union {p} ELSE rivals[u]
    BY <2>1
  <2>7. rivals'[t] = {call[v].packet : v \in Others(t)}
    BY <2>1
  <2>8. \A u \in Others(t) : rivals'[u] = rivals[u] \union {p}
    BY <2>2, <2>6
  <2>9. QED BY <2>5, <2>6, <2>7, <2>8
<1>7. TypeOK'
  BY <1>3, <1>4, <1>5, <1>6 DEF TypeOK, CallType
<1>8. CallInv' /\ PageInv'
  BY <1>3, <1>4 DEF CallInv, PageInv
<1>9. BufferInv'
  <2>1. SUFFICES ASSUME NEW u \in Threads, u # t, call[u].name = "send"
                 PROVE  /\ call[u].access = 7 => rewound \/ Fresh(u)'
                        /\ call[u].access = 8 => Fresh(u)'
    BY <1>3, <1>4 DEF BufferInv
  <2>2. Fresh(u) => Fresh(u)'
    BY <1>3, <1>4, <1>6, <2>1 DEF Fresh
  <2>3. QED BY <2>1, <2>2 DEF BufferInv
<1>10. RivalInv'
  <2>1. SUFFICES ASSUME NEW u \in Threads, NEW v \in Threads, u # v,
                        call'[u].name = "send", call'[v].name = "send"
                 PROVE  call'[v].packet \in rivals'[u]
    BY DEF RivalInv
  <2>2. CASE u = t
    <3>1. v \in Others(t) /\ call'[v].packet = call[v].packet
      BY <1>4, <2>1, <2>2 DEF Others
    <3>2. QED BY <1>6, <2>2, <3>1
  <2>3. CASE v = t
    <3>1. u \in Others(t) /\ call'[v].packet = p
      BY <1>4, <2>1, <2>3 DEF Others
    <3>2. QED BY <1>6, <3>1
  <2>4. CASE u # t /\ v # t
    <3>1. call[v].packet \in rivals[u] /\ call'[v].packet = call[v].packet
      BY <1>4, <2>1, <2>4 DEF RivalInv
    <3>2. QED BY <1>6, <2>4, <3>1
  <2>5. QED BY <2>2, <2>3, <2>4
<1>11. FifoInv'
  BY <1>3, <1>4 DEF FifoInv, CallSend, Threads
<1>12. QED BY <1>7, <1>8, <1>9, <1>10, <1>11

(* How an access of lgw_send ends: with the next one or the return.        *)
LEMMA DoneEffect ==
  ASSUME TypeOK, NEW t \in Threads, call[t].name = "send", Done(t)
  PROVE  /\ \A u \in Threads : u # t => call'[u] = call[u] /\ rivals'[u] = rivals[u]
         /\ call' \in [Threads -> CallType] /\ rivals' \in [Threads -> SUBSET Packets]
         /\ call[t].access \in 1..8
         /\ call[t].access # 8 =>
              /\ call'[t].name = "send" /\ call'[t].packet = call[t].packet
              /\ call'[t].access = call[t].access + 1
              /\ call'[t].stage = IF call'[t].access \in {6, 7} THEN "transfer" ELSE "test"
              /\ rivals' = rivals
         /\ call[t].access = 8 => call'[t].name = "idle" /\ call'[t].stage = "test"
<1>1. Len(SendAccesses) = 8
  BY SendRegisters
<1>2. call \in [Threads -> CallType] /\ call[t] \in CallType
      /\ rivals \in [Threads -> SUBSET Packets]
  BY DEF TypeOK, CallType
<1>3. CASE call[t].access = 8
  <2>1. call' = [call EXCEPT ![t] = Idle] /\ rivals' = [rivals EXCEPT ![t] = {}]
    BY <1>1, <1>3 DEF Done
  <2>2. Idle \in CallType
    BY <1>1, Beginnings DEF CallType
  <2>3. call'[t] = Idle
    BY <1>2, <2>1
  <2>4. QED BY <1>2, <1>3, <2>1, <2>2, <2>3, Beginnings
<1>4. CASE call[t].access # 8
  <2> DEFINE k == call[t].access + 1
             stage == FirstStage(SendAccesses[k])
  <2>1. call[t].access \in 1..7 /\ k \in 1..8
    BY <1>1, <1>2, <1>4 DEF CallType
  <2>2. stage = IF k \in {6, 7} THEN "transfer" ELSE "test"
    BY <2>1, SendStages
  <2>3. call' = [call EXCEPT ![t].access = k, ![t].stage = stage] /\ rivals' = rivals
    BY <1>1, <1>4, <2>1 DEF Done
  <2> HIDE DEF k, stage
  <2>4. /\ call'[t].name = call[t].name /\ call'[t].packet = call[t].packet
        /\ call'[t].access = k /\ call'[t].stage = stage
        /\ call' \in [Threads -> CallType]
        /\ \A u \in Threads : u # t => call'[u] = call[u]
    BY <1>1, <1>2, <2>1, <2>2, <2>3 DEF CallType
  <2>5. QED BY <1>2, <1>4, <2>1, <2>2, <2>3, <2>4 DEF k
<1>5. QED BY <1>3, <1>4

(* A transfer of lgw_send.                                                 *)
LEMMA SendStep ==
  ASSUME Inv, NEW t \in Threads, lgw_send(t)
  PROVE  Inv'
<1> USE DEF Inv, transmitter, receiver, pages
<1>1. PICK r \in {"TX_OFFSET_I", "TX_OFFSET_Q", "TX_GAIN", "TX_START_DELAY",
                  "TX_TRIG_ALL", "TX_DATA_BUF_ADDR", "TX_DATA_BUF_DATA",
                  "TX_TRIG_IMMEDIATE"},
            stage \in {"transfer", "write"} : At(t, r, stage)
  BY DEF lgw_send, Configure, Abort, Rewind, Load, Trigger
<1>2. call[t].name = "send" /\ call[t].stage \in {"transfer", "write"} /\ Done(t)
  BY <1>1 DEF At, lgw_send, Configure, Abort, Rewind, Load, Trigger
<1>3. /\ \A u \in Threads : u # t => call'[u] = call[u] /\ rivals'[u] = rivals[u]
      /\ call' \in [Threads -> CallType] /\ rivals' \in [Threads -> SUBSET Packets]
      /\ call[t].access \in 1..8
      /\ call[t].access # 8 =>
           /\ call'[t].name = "send" /\ call'[t].packet = call[t].packet
           /\ call'[t].access = call[t].access + 1
           /\ call'[t].stage = IF call'[t].access \in {6, 7} THEN "transfer" ELSE "test"
           /\ rivals' = rivals
      /\ call[t].access = 8 => call'[t].name = "idle" /\ call'[t].stage = "test"
  BY <1>2, DoneEffect
<1>4. UNCHANGED <<lgw_regpage, page, fifo, valid, next, rxpkt, rounds>>
  BY DEF lgw_send, Configure, Abort, Rewind, Load, Trigger
<1>5. /\ Register(t) = "TX_DATA_BUF_ADDR" <=> call[t].access = 6
      /\ Register(t) = "TX_DATA_BUF_DATA" <=> call[t].access = 7
  BY <1>2, <1>3, SendRegister
<1>6. call[t].packet \in Packets
  BY <1>2 DEF CallInv
<1>7. TypeOK'
  <2>1. rewound' \in BOOLEAN /\ loaded' \in Packets \union {None}
        /\ onAir' \in Packets \union {None}
    BY <1>6 DEF lgw_send, Configure, Abort, Rewind, Load, Trigger, TypeOK
  <2>2. QED BY <1>3, <1>4, <2>1 DEF TypeOK, CallType
<1>8. CallInv'
  <2>1. call'[t].name # "receive"
    BY <1>3
  <2>2. call'[t].stage # "write"
    BY <1>3
  <2>3. QED BY <1>2, <1>3, <2>1, <2>2 DEF CallInv
<1>9. PageInv'
  <2>1. call'[t].stage # "switch" /\ call[t].stage # "switch"
    BY <1>2, <1>3
  <2>2. call'[t].name = "send" /\ call'[t].access \notin {6, 7} => call'[t].stage = "test"
    BY <1>3
  <2>3. QED BY <1>3, <1>4, <2>1, <2>2 DEF PageInv
<1>10. FifoInv'
  BY <1>2, <1>3, <1>4 DEF FifoInv, Threads
<1>11. RivalInv'
  <2>1. SUFFICES ASSUME NEW u \in Threads, NEW v \in Threads, u # v,
                        call'[u].name = "send", call'[v].name = "send"
                 PROVE  call'[v].packet \in rivals'[u]
    BY DEF RivalInv
  <2>2. /\ call[u].name = "send" /\ call[v].name = "send"
        /\ rivals'[u] = rivals[u] /\ call'[v].packet = call[v].packet
    BY <1>2, <1>3, <2>1
  <2>3. QED BY <2>1, <2>2 DEF RivalInv
<1>12. BufferInv'
  <2>1. SUFFICES ASSUME NEW u \in Threads, call'[u].name = "send"
                 PROVE  /\ call'[u].access = 7 => rewound' \/ Fresh(u)'
                        /\ call'[u].access = 8 => Fresh(u)'
    BY DEF BufferInv
  <2>2. call[u].name = "send" /\ rivals'[u] = rivals[u] /\ call'[u].packet = call[u].packet
        /\ (u # t => call'[u].access = call[u].access)
        /\ (u = t => call'[u].access = call[u].access + 1 /\ call[u].access # 8)
    BY <1>2, <1>3, <2>1
  <2>3. UNCHANGED loaded => (Fresh(u) => Fresh(u)')
    BY <2>2 DEF Fresh
  <2>4. CASE Load(t)
    <3>1. call[t].access = 7 /\ loaded' = (IF rewound THEN call[t].packet ELSE loaded)
      BY <1>5, <2>4 DEF Load, At
    <3>2. CASE rewound
      <4>1. loaded' = call[t].packet
        BY <3>1, <3>2
      <4>2. u # t => call[t].packet \in rivals[u]
        BY <1>2, <2>2 DEF RivalInv
      <4>3. Fresh(u)'
        BY <2>2, <4>1, <4>2 DEF Fresh
      <4>4. QED BY <4>3
    <3>3. CASE ~rewound
      <4>1. UNCHANGED loaded
        BY <3>1, <3>3
      <4>2. call[u].access \in {7, 8} => Fresh(u)
        BY <2>2, <3>3 DEF BufferInv
      <4>3. call'[u].access \in {7, 8} => call[u].access \in {7, 8}
        BY <2>2, <3>1
      <4>4. QED BY <2>3, <4>1, <4>2, <4>3
    <3>4. QED BY <3>2, <3>3 DEF TypeOK
  <2>5. CASE Rewind(t)
    <3>1. rewound' /\ UNCHANGED loaded /\ call[t].access = 6
      BY <1>5, <2>5 DEF Rewind, At
    <3>2. call'[u].access = 8 => call[u].access = 8
      BY <2>2, <3>1
    <3>3. QED BY <2>2, <2>3, <3>1, <3>2 DEF BufferInv
  <2>6. CASE Configure(t) \/ Abort(t) \/ Trigger(t)
    <3>1. UNCHANGED <<rewound, loaded>> /\ call[t].access \notin {6, 7}
      BY <1>5, <2>6 DEF Configure, Abort, Trigger, At
    <3>2. call'[u].access \in {7, 8} => call[u].access = call'[u].access
      BY <1>3, <2>2, <3>1
    <3>3. QED BY <2>2, <2>3, <3>1, <3>2 DEF BufferInv
  <2>7. QED BY <2>4, <2>5, <2>6 DEF lgw_send
<1>13. QED BY <1>7, <1>8, <1>9, <1>10, <1>11, <1>12

(* A step of lgw_receive, of the loop over its packets, or of the chip.    *)
LEMMA ReceiveStep ==
  ASSUME Inv, CallReceive \/ lgw_receive \/ Handle
  PROVE  Inv'
<1> DEFINE t == "recive_package"
<1> USE DEF Inv, transmitter, pages
<1>1. Len(SendAccesses) = 8 /\ MaxPkt \in Nat \ {0} /\ FifoSize \in Nat
      /\ t \in Threads
  BY SendRegisters, FifoAssumption DEF Threads
<1>2. call \in [Threads -> CallType] /\ call[t] \in CallType
      /\ fifo \in Seq(0..(FrameIds - 1)) /\ rxpkt \in Seq(0..(FrameIds - 1))
      /\ Len(fifo) <= FifoSize /\ Len(rxpkt) <= MaxPkt /\ rounds \in 0..MaxPkt
      /\ Len(fifo) \in Nat /\ Len(rxpkt) \in Nat
  BY <1>1 DEF TypeOK, CallType
<1>3. UNCHANGED <<lgw_regpage, page, rewound, loaded, onAir, next, rivals>>
      /\ valid' \in BOOLEAN
  BY DEF CallReceive, lgw_receive, ReadFifo, ReadData, Advance, Handle, TypeOK
<1> HIDE DEF t
<1>4. ASSUME /\ \A u \in Threads : u # t => call'[u] = call[u]
             /\ call' \in [Threads -> CallType]
             /\ call[t].stage \in {"test", "transfer"} /\ call[t].name # "send"
             /\ call'[t].name # "send"
             /\ call'[t].stage = IF call'[t].name = "idle" THEN "test" ELSE "transfer"
             /\ call'[t].name = "receive" => call'[t].access \in 1..3
             /\ fifo' \in Seq(0..(FrameIds - 1)) /\ Len(fifo') <= FifoSize
             /\ rxpkt' \in Seq(0..(FrameIds - 1)) /\ Len(rxpkt') <= MaxPkt
             /\ rounds' \in 0..MaxPkt
             /\ FifoInv'
      PROVE  Inv'
  <2>1. TypeOK'
    BY <1>3, <1>4 DEF TypeOK, CallType
  <2>2. CallInv'
    BY <1>4 DEF CallInv, t, Threads
  <2>3. PageInv' /\ BufferInv' /\ RivalInv'
    <3>1. \A u \in Threads : call'[u].name = "send" => call'[u] = call[u]
      BY <1>4
    <3>2. \A u \in Threads : call'[u].stage = "switch" => call'[u] = call[u]
      BY <1>4
    <3>3. \A u \in Threads : call[u].stage = "switch" => call'[u] = call[u]
      BY <1>4
    <3>4. PageInv'
      BY <1>3, <3>1, <3>2, <3>3 DEF PageInv
    <3>5. BufferInv'
      BY <1>3, <3>1 DEF BufferInv, Fresh
    <3>6. RivalInv'
      BY <1>3, <3>1 DEF RivalInv
    <3>7. QED BY <3>4, <3>5, <3>6
  <2>4. QED BY <1>4, <2>1, <2>2, <2>3
<1>5. CASE CallReceive
  <2>1. /\ call[t] = Idle /\ rounds = 0
        /\ call' = [call EXCEPT ![t] = Begin("receive", None)]
        /\ rxpkt' = <<>> /\ UNCHANGED <<fifo, rounds>>
    BY <1>5 DEF CallReceive, t
  <2>2. /\ call'[t].name = "receive" /\ call'[t].access = 1 /\ call'[t].stage = "transfer"
        /\ call' \in [Threads -> CallType]
        /\ \A u \in Threads : u # t => call'[u] = call[u]
        /\ call[t].name = "idle" /\ call[t].stage = "test"
    BY <1>1, <1>2, <2>1, Beginnings DEF CallType
  <2>3. rxpkt' \in Seq(0..(FrameIds - 1)) /\ Len(rxpkt') = 0
    BY <2>1
  <2>4. FifoInv'
    BY <1>1, <2>1, <2>2, <2>3 DEF FifoInv, t
  <2>5. QED BY <1>1, <1>2, <1>4, <2>1, <2>2, <2>3, <2>4
<1>6. CASE Handle
  <2>1. /\ call[t] = Idle /\ rounds > 0 /\ rounds' = rounds - 1
        /\ UNCHANGED <<call, fifo, rxpkt>>
    BY <1>6 DEF Handle, t
  <2>2. call[t].name = "idle" /\ call[t].stage = "test"
    BY <2>1, Beginnings
  <2>3. FifoInv'
    BY <2>1, <2>2 DEF FifoInv, t
  <2>4. rounds' \in 0..MaxPkt
    BY <1>1, <1>2, <2>1
  <2>5. QED BY <1>2, <1>4, <2>1, <2>2, <2>3, <2>4
<1>7. ASSUME /\ call[t].name = "receive" /\ call[t].stage = "transfer"
             /\ \/ Return /\ rounds' = Len(rxpkt')
                \/ \E n \in 1..3 : /\ GoTo(n) /\ UNCHANGED rounds
                                   /\ n \in {2, 3} => fifo' # <<>>
                                   /\ n \in {1, 2} => Len(rxpkt') < MaxPkt
             /\ fifo' \in Seq(0..(FrameIds - 1)) /\ Len(fifo') <= FifoSize
             /\ rxpkt' \in Seq(0..(FrameIds - 1)) /\ Len(rxpkt') <= MaxPkt
      PROVE  Inv'
  <2>1. rounds = 0
    BY <1>7 DEF FifoInv, t
  <2>2. Len(rxpkt') \in Nat
    BY <1>7
  <2>3. CASE Return /\ rounds' = Len(rxpkt')
    <3>1. call' = [call EXCEPT ![t] = Idle] /\ Idle \in CallType
      BY <1>1, <2>3, Beginnings DEF Return, t, CallType
    <3>2. /\ call' \in [Threads -> CallType] /\ call'[t] = Idle
          /\ \A u \in Threads : u # t => call'[u] = call[u]
      BY <1>1, <1>2, <3>1
    <3>3. call'[t].name = "idle" /\ call'[t].stage = "test"
      BY <3>2, Beginnings
    <3>4. FifoInv'
      BY <3>3 DEF FifoInv, t
    <3>5. QED BY <1>1, <1>4, <1>7, <2>2, <2>3, <3>2, <3>3, <3>4
  <2>4. CASE \E n \in 1..3 : /\ GoTo(n) /\ UNCHANGED rounds
                             /\ n \in {2, 3} => fifo' # <<>>
                             /\ n \in {1, 2} => Len(rxpkt') < MaxPkt
    <3>1. PICK n \in 1..3 : /\ GoTo(n) /\ UNCHANGED rounds
                            /\ n \in {2, 3} => fifo' # <<>>
                            /\ n \in {1, 2} => Len(rxpkt') < MaxPkt
      BY <2>4
    <3>2. call' = [call EXCEPT ![t].access = n, ![t].stage = "transfer"]
      BY <3>1, ReceiveStages DEF GoTo, t
    <3>3. /\ call' \in [Threads -> CallType]
          /\ call'[t].name = "receive" /\ call'[t].access = n /\ call'[t].stage = "transfer"
          /\ \A u \in Threads : u # t => call'[u] = call[u]
      <4>1. n \in 1..Len(SendAccesses)
        BY <1>1
      <4>2. call' = [call EXCEPT ![t] = [call[t] EXCEPT !.access = n, !.stage = "transfer"]]
        BY <1>2, <3>2
      <4>3. [call[t] EXCEPT !.access = n, !.stage = "transfer"] \in CallType
        BY <1>2, <4>1 DEF CallType
      <4>4. call'[t] = [call[t] EXCEPT !.access = n, !.stage = "transfer"]
        BY <1>1, <1>2, <4>2
      <4>5. call'[t].name = call[t].name /\ call'[t].access = n /\ call'[t].stage = "transfer"
        BY <1>2, <4>4 DEF CallType
      <4>6. call' \in [Threads -> CallType]
            /\ \A u \in Threads : u # t => call'[u] = call[u]
        BY <1>2, <4>2, <4>3
      <4>7. QED BY <1>7, <4>5, <4>6
    <3>4. FifoInv'
      BY <2>1, <3>1, <3>3 DEF FifoInv, t
    <3>5. rounds' \in 0..MaxPkt
      BY <1>2, <3>1
    <3>6. call[t].stage \in {"test", "transfer"} /\ call[t].name # "send"
      BY <1>7
    <3>7. call'[t].name # "send" /\ call'[t].access \in 1..3
      BY <3>1, <3>3
    <3>8. QED BY <1>4, <1>7, <3>3, <3>4, <3>5, <3>6, <3>7
  <2>5. QED BY <1>7, <2>3, <2>4
<1>8. CASE ReadFifo
  <2>1. /\ call[t].name = "receive" /\ call[t].stage = "transfer" /\ call[t].access = 1
        /\ UNCHANGED <<fifo, rxpkt>>
        /\ \/ Return /\ rounds' = Len(rxpkt)
           \/ fifo # <<>> /\ GoTo(2) /\ UNCHANGED rounds
    BY <1>8 DEF ReadFifo, Reading, t
  <2>2. Len(rxpkt) < MaxPkt
    BY <2>1 DEF FifoInv, t
  <2>3. \/ Return /\ rounds' = Len(rxpkt')
        \/ \E n \in 1..3 : /\ GoTo(n) /\ UNCHANGED rounds
                           /\ n \in {2, 3} => fifo' # <<>>
                           /\ n \in {1, 2} => Len(rxpkt') < MaxPkt
    BY <2>1, <2>2
  <2>4. QED BY <1>2, <1>7, <2>1, <2>3
<1>9. CASE ReadData
  <2>1. /\ call[t].name = "receive" /\ call[t].stage = "transfer" /\ call[t].access = 2
        /\ UNCHANGED fifo
        /\ \/ rxpkt' = Append(rxpkt, Head(fifo)) /\ GoTo(3) /\ UNCHANGED rounds
           \/ Return /\ rounds' = Len(rxpkt) /\ UNCHANGED rxpkt
    BY <1>9 DEF ReadData, Reading, t
  <2>2. fifo # <<>> /\ Len(rxpkt) < MaxPkt
    BY <2>1 DEF FifoInv, t
  <2>3. CASE rxpkt' = Append(rxpkt, Head(fifo)) /\ GoTo(3) /\ UNCHANGED rounds
    <3>1. Head(fifo) \in 0..(FrameIds - 1)
      BY <1>2, <2>2, HeadTailProperties
    <3>2. rxpkt' \in Seq(0..(FrameIds - 1)) /\ Len(rxpkt') = Len(rxpkt) + 1
      BY <1>2, <2>3, <3>1, AppendProperties
    <3>3. \E n \in 1..3 : /\ GoTo(n) /\ UNCHANGED rounds
                          /\ n \in {2, 3} => fifo' # <<>>
                          /\ n \in {1, 2} => Len(rxpkt') < MaxPkt
      <4>1. 3 \in 1..3 /\ 3 \notin {1, 2}
        OBVIOUS
      <4>2. QED BY <2>1, <2>2, <2>3, <4>1
    <3>4. QED BY <1>1, <1>2, <1>7, <2>1, <2>2, <3>2, <3>3
  <2>4. CASE Return /\ rounds' = Len(rxpkt) /\ UNCHANGED rxpkt
    BY <1>2, <1>7, <2>1, <2>4
  <2>5. QED BY <2>1, <2>3, <2>4
<1>10. CASE Advance
  <2>1. /\ call[t].name = "receive" /\ call[t].stage = "transfer" /\ call[t].access = 3
        /\ fifo' = Tail(fifo) /\ UNCHANGED rxpkt
        /\ \/ Return /\ rounds' = Len(rxpkt)
           \/ Len(rxpkt) # MaxPkt /\ GoTo(1) /\ UNCHANGED rounds
    BY <1>10 DEF Advance, Reading, t
  <2>2. fifo # <<>>
    BY <2>1 DEF FifoInv, t
  <2>3. fifo' \in Seq(0..(FrameIds - 1)) /\ Len(fifo') = Len(fifo) - 1
    BY <1>2, <2>1, <2>2, HeadTailProperties
  <2>4. \/ Return /\ rounds' = Len(rxpkt')
        \/ \E n \in 1..3 : /\ GoTo(n) /\ UNCHANGED rounds
                           /\ n \in {2, 3} => fifo' # <<>>
                           /\ n \in {1, 2} => Len(rxpkt') < MaxPkt
    <3>1. CASE Len(rxpkt) # MaxPkt /\ GoTo(1) /\ UNCHANGED rounds
      <4>1. 1 \in 1..3 /\ 1 \notin {2, 3}
        OBVIOUS
      <4>2. Len(rxpkt') < MaxPkt
        BY <1>1, <1>2, <2>1, <3>1
      <4>3. QED BY <3>1, <4>1, <4>2
    <3>2. QED BY <2>1, <3>1
  <2>5. QED BY <1>1, <1>2, <1>7, <2>1, <2>3, <2>4
<1>11. QED BY <1>5, <1>6, <1>8, <1>9, <1>10 DEF lgw_receive

(* The chip: a frame received, an emission over.                           *)
LEMMA ChipStep ==
  ASSUME Inv, Receive \/ EmissionDone
  PROVE  Inv'
<1> USE DEF Inv, transmitter, receiver, pages
<1>1. UNCHANGED <<lgw_regpage, page, rewound, loaded, valid, call, rivals, rxpkt, rounds>>
  BY DEF Receive, EmissionDone
<1>2. CallInv' /\ RivalInv' /\ PageInv' /\ BufferInv'
  BY <1>1 DEF CallInv, RivalInv, PageInv, BufferInv, Fresh
<1>3. TypeOK' /\ FifoInv'
  <2>1. CASE EmissionDone
    <3>1. UNCHANGED <<fifo, next>> /\ onAir' \in Packets \union {None}
      BY <2>1 DEF EmissionDone
    <3>2. QED BY <1>1, <3>1 DEF TypeOK, FifoInv
  <2>2. CASE Receive
    <3>1. /\ Len(fifo) < FifoSize /\ fifo' = Append(fifo, next)
          /\ next' = (next + 1) % FrameIds /\ UNCHANGED onAir
      BY <2>2 DEF Receive
    <3>2. /\ fifo \in Seq(0..(FrameIds - 1)) /\ next \in 0..(FrameIds - 1)
          /\ FrameIds \in Nat \ {0} /\ FifoSize \in Nat
      BY FrameIdsAssumption, FifoAssumption DEF TypeOK
    <3>3. /\ fifo' \in Seq(0..(FrameIds - 1)) /\ Len(fifo') = Len(fifo) + 1
          /\ Len(fifo) \in Nat
      BY <3>1, <3>2, AppendProperties
    <3>4. Len(fifo') <= FifoSize /\ fifo' # <<>>
      BY <3>1, <3>2, <3>3
    <3>5. next' \in 0..(FrameIds - 1)
      BY <3>1, <3>2
    <3>6. FifoInv'
      BY <1>1, <3>4 DEF FifoInv
    <3>7. TypeOK'
      BY <1>1, <3>1, <3>3, <3>4, <3>5 DEF TypeOK
    <3>8. QED BY <3>6, <3>7
  <2>3. QED BY <2>1, <2>2
<1>4. QED BY <1>2, <1>3

(* Every step preserves the invariant.                                     *)
LEMMA StepInv ==
  ASSUME Inv, [Next]_vars
  PROVE  Inv'
<1>1. CASE UNCHANGED vars
  BY <1>1 DEF vars, Inv, TypeOK, CallInv, RivalInv, PageInv, BufferInv, Fresh, FifoInv
<1>2. ASSUME NEW t \in Threads, Register_access(t)
      PROVE  Inv'
  BY <1>2, AccessStep
<1>3. ASSUME NEW t \in Threads, lgw_send(t)
      PROVE  Inv'
  BY <1>3, SendStep
<1>4. ASSUME NEW t \in Threads, NEW p \in Packets, CallSend(t, p)
      PROVE  Inv'
  BY <1>4, CallSendStep
<1>5. CASE CallReceive \/ lgw_receive \/ Handle
  BY <1>5, ReceiveStep
<1>6. CASE Receive \/ EmissionDone
  BY <1>6, ChipStep
<1>7. QED BY <1>1, <1>2, <1>3, <1>4, <1>5, <1>6 DEF Next

-----------------------------------------------------------------------------
(* The inductive invariant holds in every state, whoever sends.            *)
THEOREM ConcentratorInvariant == Spec => []Inv
<1>1. Init => Inv
  BY InitInv
<1>2. Inv /\ [Next]_vars => Inv'
  BY StepInv
<1>3. QED BY <1>1, <1>2, PTL DEF Spec

(* Every variable keeps its type: lgw_receive never writes behind the      *)
(* MaxPkt elements of rxpkt, whatever arrives while it runs.               *)
THEOREM ConcentratorTypes == Spec => []TypeOK
<1>1. Inv => TypeOK
  BY DEF Inv
<1>2. QED BY <1>1, ConcentratorInvariant, PTL

(* Whoever sends, a transfer of lgw_send to a register of a page is made   *)
(* with that page selected, or while the other thread is inside            *)
(* page_switch.                                                            *)
LEMMA TransferSelected == Inv => RightRegister
<1>1. SUFFICES ASSUME Inv, NEW t \in Threads, call[t].name = "send",
                      Register(t) \notin Unpaged,
                      call[t].stage \in {"transfer", "write"}
               PROVE  Selected \/ Switching(t)
  BY DEF RightRegister
<1>2. call[t].access \in 1..8
  BY SendRegisters, <1>1 DEF Inv, TypeOK
<1>3. call[t].access \notin {6, 7}
  BY <1>1, <1>2, SendRegister
<1>4. lgw_regpage = TxPage
  BY <1>1, <1>3 DEF Inv, PageInv
<1>5. page = TxPage \/ \E u \in Threads : call[u].stage = "switch"
  BY <1>1, <1>4 DEF Inv, PageInv
<1>6. QED BY <1>1, <1>5 DEF Selected, Switching

THEOREM TransfersReachTheirRegister == Spec => []RightRegister
BY TransferSelected, ConcentratorInvariant, PTL

(* Whoever sends, lgw_send starts the emission of its own packet or of one *)
(* whose call overlaps with it.                                            *)
LEMMA LoadedAtTrigger == Inv => OwnPacket
<1>1. SUFFICES ASSUME Inv, NEW t \in Threads, call[t].name = "send",
                      Register(t) = "TX_TRIG_IMMEDIATE"
               PROVE  loaded \in {call[t].packet} \union rivals[t]
  BY DEF OwnPacket
<1>2. call[t].access \in 1..8
  BY SendRegisters, <1>1 DEF Inv, TypeOK
<1>3. call[t].access = 8
  BY <1>1, <1>2, SendRegister
<1>4. QED BY <1>1, <1>3 DEF Inv, BufferInv, Fresh

THEOREM SenderEmitsItsPacket == Spec => []OwnPacket
BY LoadedAtTrigger, ConcentratorInvariant, PTL

(* A call of lgw_send that no other has overlapped with has its packet on  *)
(* air when it returns: no other thread can be inside page_switch then.    *)
THEOREM LoneCallsSend == Spec => SendStarts
<1>1. ASSUME Inv, [Next]_vars, NEW t \in Threads,
             call[t].name = "send", call'[t] = Idle, rivals[t] = {}
      PROVE  onAir' = call[t].packet
  <2>1. call \in [Threads -> CallType] /\ call[t] \in CallType
    BY <1>1 DEF Inv, TypeOK, CallType
  <2>2. call'[t].name = "idle"
    BY <1>1, Beginnings
  <2>3. lgw_send(t)
    <3>1. CASE UNCHANGED vars
      BY <1>1, <2>2, <3>1 DEF vars
    <3>2. ASSUME NEW u \in Threads, Register_access(u)
          PROVE  FALSE
      <4>1. PICK stage : call' = [call EXCEPT ![u].stage = stage]
        BY <3>2 DEF Register_access, TestPage, AssignPage, SwitchPage, ReadByte, Stage
      <4>2. call'[t].name = call[t].name
        BY <2>1, <4>1 DEF CallType
      <4>3. QED BY <1>1, <2>2, <4>2
    <3>3. ASSUME NEW u \in Threads, lgw_send(u)
          PROVE  u = t
      <4>1. call[u].name = "send" /\ Done(u)
        BY <3>3 DEF At, lgw_send, Configure, Abort, Rewind, Load, Trigger
      <4>2. u # t => call'[t] = call[t]
        BY <1>1, <4>1, DoneEffect DEF Inv
      <4>3. QED BY <1>1, <2>2, <4>2
    <3>4. ASSUME NEW u \in Threads, NEW p \in Packets, CallSend(u, p)
          PROVE  FALSE
      <4>1. call[u] = Idle /\ call' = [call EXCEPT ![u] = Begin("send", p)]
        BY <3>4 DEF CallSend
      <4>2. u # t
        BY <1>1, <4>1, Beginnings
      <4>3. call'[t] = call[t]
        BY <2>1, <4>1, <4>2
      <4>4. QED BY <1>1, <2>2, <4>3
    <3>5. CASE CallReceive \/ lgw_receive
      <4>1. /\ call["recive_package"].name \in {"idle", "receive"}
            /\ \E r : call' = [call EXCEPT !["recive_package"] = r]
        <5>1. CASE CallReceive
          <6>1. /\ call["recive_package"] = Idle
                /\ call' = [call EXCEPT !["recive_package"] = Begin("receive", None)]
            BY <5>1 DEF CallReceive
          <6>2. call["recive_package"].name = "idle"
            BY <6>1, Beginnings
          <6>3. \E r : call' = [call EXCEPT !["recive_package"] = r]
            BY <6>1, Zenon
          <6>4. QED BY <6>2, <6>3
        <5>2. CASE lgw_receive
          <6>1. call["recive_package"].name = "receive" /\ (Return \/ \E n : GoTo(n))
            BY <5>2 DEF lgw_receive, ReadFifo, ReadData, Advance, Reading
          <6>2. ASSUME NEW n, GoTo(n)
                PROVE  \E r : call' = [call EXCEPT !["recive_package"] = r]
            <7>1. call' = [call EXCEPT !["recive_package"] =
                             [call["recive_package"] EXCEPT
                                !.access = n, !.stage = FirstStage(ReceiveAccesses[n])]]
              BY <2>1, <6>2 DEF GoTo
            <7>2. QED BY <7>1
          <6>3. QED BY <6>1, <6>2 DEF Return
        <5>3. QED BY <3>5, <5>1, <5>2
      <4>2. call'[t] = call[t]
        BY <1>1, <2>1, <4>1
      <4>3. QED BY <1>1, <2>2, <4>2
    <3>6. CASE Handle \/ Receive \/ EmissionDone
      BY <1>1, <2>2, <3>6 DEF Handle, Receive, EmissionDone
    <3>7. QED BY <1>1, <3>1, <3>2, <3>3, <3>4, <3>5, <3>6 DEF Next
  <2>4. call[t].access = 8
    <3>1. Done(t)
      BY <2>3 DEF lgw_send, Configure, Abort, Rewind, Load, Trigger
    <3>2. QED BY <1>1, <2>2, <3>1, DoneEffect DEF Inv
  <2>5. Register(t) = "TX_TRIG_IMMEDIATE" /\ Register(t) \notin Unpaged
    BY <1>1, <2>4, SendRegister
  <2>6. Trigger(t)
    BY <2>3, <2>5 DEF lgw_send, Configure, Abort, Rewind, Load, At
  <2>7. loaded = call[t].packet
    BY <1>1, <2>5, LoadedAtTrigger DEF OwnPacket
  <2>8. Selected
    <3>1. call[t].stage = "write"
      BY <2>6 DEF Trigger, At
    <3>2. Selected \/ Switching(t)
      BY <1>1, <2>5, <3>1, TransferSelected DEF RightRegister
    <3>3. ASSUME NEW u \in Threads \ {t}, call[u].stage = "switch"
          PROVE  FALSE
      <4>1. call[u].name = "send"
        <5>1. call[u] \in CallType
          BY <2>1
        <5>2. QED BY <1>1, <3>3, <5>1 DEF Inv, CallInv, CallType
      <4>2. call[u].packet \in rivals[t]
        BY <1>1, <3>3, <4>1 DEF Inv, RivalInv
      <4>3. QED BY <1>1, <4>2
    <3>4. QED BY <3>2, <3>3 DEF Switching
  <2>9. QED BY <2>6, <2>7, <2>8 DEF Trigger
<1>2. Inv /\ [Next]_vars =>
        [\A t \in Threads :
           call[t].name = "send" /\ call'[t] = Idle /\ rivals[t] = {}
             => onAir' = call[t].packet]_vars
  BY <1>1
<1>3. QED BY <1>2, ConcentratorInvariant, PTL DEF Spec, SendStarts

-----------------------------------------------------------------------------
(* The order of the frames.  Their numbers wrap at FrameIds.               *)

(* Remainders of a number that is moved by the divisor, or is in range.    *)
LEMMA ModShift ==
  ASSUME NEW F \in Nat \ {0}, NEW a \in Int
  PROVE  (a + F) % F = a % F
<1> DEFINE q == a \div F
           r == a % F
           p == (a + F) \div F
           s == (a + F) % F
<1>1. a = F * q + r /\ r \in 0..(F - 1) /\ q \in Int
  OBVIOUS
<1>2. a + F = F * p + s /\ s \in 0..(F - 1) /\ p \in Int
  OBVIOUS
<1> HIDE DEF q, r, p, s
<1>3. r \in Int /\ s \in Int /\ r < F /\ s < F /\ 0 <= r /\ 0 <= s
  BY <1>1, <1>2
<1>4. F * (q + 1) = F * q + F
  BY <1>1
<1>5. F * (p - (q + 1)) = r - s
  <2>1. F * (p - (q + 1)) = F * p - F * (q + 1)
    BY <1>1, <1>2
  <2>2. QED BY <2>1, <1>1, <1>2, <1>3, <1>4
<1>6. ASSUME NEW k \in Int, k >= 1
      PROVE  F * k >= F
  BY <1>6
<1>7. ASSUME NEW k \in Int, k <= -1
      PROVE  F * k <= -F
  BY <1>7
<1>8. p - (q + 1) = 0
  BY <1>1, <1>2, <1>3, <1>5, <1>6, <1>7
<1>9. QED BY <1>3, <1>5, <1>8 DEF r, s

LEMMA ModInRange ==
  ASSUME NEW F \in Nat \ {0}, NEW a \in 0..(F - 1)
  PROVE  a % F = a /\ (a + 1) % F = IF a + 1 = F THEN 0 ELSE a + 1
<1>1. a % F = a
  OBVIOUS
<1>2. (0 + F) % F = 0 % F /\ 0 % F = 0
  BY ModShift
<1>3. (a + 1) % F = IF a + 1 = F THEN 0 ELSE a + 1
  BY <1>2
<1>4. QED BY <1>1, <1>3

(* The packet that is read from the FIFO goes to the end of rxpkt.         *)
LEMMA MoveHead ==
  ASSUME NEW S, NEW s \in Seq(S), NEW t \in Seq(S), t # <<>>
  PROVE  Append(s, Head(t)) \o Tail(t) = s \o t
<1>1. /\ Head(t) \in S /\ Tail(t) \in Seq(S) /\ Len(Tail(t)) = Len(t) - 1
      /\ \A i \in 1..Len(Tail(t)) : Tail(t)[i] = t[i + 1]
      /\ Head(t) = t[1]
  BY HeadTailProperties
<1>2. Len(s) \in Nat /\ Len(t) \in Nat \ {0}
  BY LenProperties, EmptySeq
<1> DEFINE u == Append(s, Head(t))
<1>3. /\ u \in Seq(S) /\ Len(u) = Len(s) + 1 /\ u[Len(s) + 1] = t[1]
      /\ \A i \in 1..Len(s) : u[i] = s[i]
  BY <1>1, AppendProperties
<1> HIDE DEF u
<1> DEFINE v == Tail(t)
<1>4. /\ v \in Seq(S) /\ Len(v) = Len(t) - 1
      /\ \A i \in 1..(Len(t) - 1) : v[i] = t[i + 1]
  BY <1>1
<1> HIDE DEF v
<1>5. /\ u \o v \in Seq(S) /\ Len(u \o v) = Len(u) + Len(v)
      /\ \A i \in 1..(Len(u) + Len(v)) :
            (u \o v)[i] = IF i <= Len(u) THEN u[i] ELSE v[i - Len(u)]
  BY <1>3, <1>4, ConcatProperties
<1>6. /\ s \o t \in Seq(S) /\ Len(s \o t) = Len(s) + Len(t)
      /\ \A i \in 1..(Len(s) + Len(t)) :
            (s \o t)[i] = IF i <= Len(s) THEN s[i] ELSE t[i - Len(s)]
  BY ConcatProperties
<1>7. Len(u \o v) = Len(s) + Len(t)
  BY <1>2, <1>3, <1>4, <1>5
<1>8. ASSUME NEW i \in 1..(Len(s) + Len(t))
      PROVE  (u \o v)[i] = (s \o t)[i]
  <2>1. (u \o v)[i] = IF i <= Len(u) THEN u[i] ELSE v[i - Len(u)]
    BY <1>5, <1>7
  <2>2. (s \o t)[i] = IF i <= Len(s) THEN s[i] ELSE t[i - Len(s)]
    BY <1>6
  <2>3. CASE i <= Len(s)
    BY <1>2, <1>3, <2>1, <2>2, <2>3
  <2>4. CASE i = Len(s) + 1
    BY <1>2, <1>3, <2>1, <2>2, <2>4
  <2>5. CASE i > Len(s) + 1
    <3>1. i - Len(u) \in 1..(Len(t) - 1) /\ i - Len(u) + 1 = i - Len(s)
      BY <1>2, <1>3, <2>5
    <3>2. v[i - Len(u)] = t[i - Len(s)]
      BY <1>4, <3>1
    <3>3. QED BY <1>2, <1>3, <2>1, <2>2, <2>5, <3>2
  <2>6. i <= Len(s) \/ i = Len(s) + 1 \/ i > Len(s) + 1
    BY <1>2
  <2>7. QED BY <2>3, <2>4, <2>5, <2>6
<1>9. u \o v = s \o t
  BY <1>5, <1>6, <1>7, <1>8, SeqEqual
<1>10. QED BY <1>9 DEF u, v

(* The first packet of the FIFO has been read and not yet removed.         *)
Fetched == call["recive_package"].name = "receive" /\ call["recive_package"].access = 3

Frames == rxpkt \o (IF Fetched THEN Tail(fifo) ELSE fifo)

Numbered(s, n) ==
  \A i \in DOMAIN s : s[i] = (n + FrameIds - Len(s) + i - 1) % FrameIds

(* A frame with the next number continues the frames.                      *)
LEMMA NextNumber ==
  ASSUME NEW s \in Seq(0..(FrameIds - 1)), NEW n \in 0..(FrameIds - 1), Numbered(s, n)
  PROVE  Numbered(Append(s, n), (n + 1) % FrameIds)
<1> DEFINE F == FrameIds
           m == (n + 1) % F
           u == Append(s, n)
           k == Len(s)
<1>1. F \in Nat \ {0} /\ k \in Nat /\ DOMAIN s = 1..k
  BY FrameIdsAssumption, LenProperties
<1>2. /\ u \in Seq(0..(FrameIds - 1)) /\ Len(u) = k + 1
      /\ \A i \in 1..k : u[i] = s[i]
      /\ u[k + 1] = n
  BY AppendProperties
<1>3. DOMAIN u = 1..(k + 1)
  BY <1>2, LenProperties
<1>4. m = n + 1 \/ (m = 0 /\ n + 1 = F)
  BY <1>1, ModInRange
<1>5. ASSUME NEW i \in 1..(k + 1)
      PROVE  (m + F - (k + 1) + i - 1) % F = (n + F - k + i - 1) % F
  <2> DEFINE a == m + F - (k + 1) + i - 1
  <2>1. n \in Int /\ i \in Int
    BY <1>1
  <2>2. CASE m = n + 1
    BY <1>1, <2>1, <2>2
  <2>3. CASE m = 0 /\ n + 1 = F
    <3>1. a \in Int /\ n + F - k + i - 1 = a + F
      BY <1>1, <2>1, <2>3, SMTT(30)
    <3> HIDE DEF a
    <3>2. (a + F) % F = a % F
      BY <1>1, <3>1, ModShift
    <3>3. QED BY <3>1, <3>2 DEF a
  <2>4. QED BY <1>4, <2>2, <2>3
<1>6. (n + F - k + (k + 1) - 1) % F = n
  <2>1. n \in Int /\ n + F - k + (k + 1) - 1 = n + F
    BY <1>1
  <2>2. (n + F) % F = n
    <3>1. n % F = n
      BY <1>1, ModInRange
    <3>2. (n + F) % F = n % F
      BY <1>1, <2>1, ModShift
    <3>3. QED BY <3>1, <3>2
  <2>3. QED BY <2>1, <2>2
<1>7. ASSUME NEW i \in DOMAIN u
      PROVE  u[i] = (m + F - Len(u) + i - 1) % F
  <2>1. i \in 1..(k + 1)
    BY <1>3
  <2>2. (m + F - Len(u) + i - 1) % F = (n + F - k + i - 1) % F
    BY <1>2, <1>5, <2>1
  <2>3. CASE i \in 1..k
    <3>1. s[i] = (n + F - k + i - 1) % F
      BY <1>1, <2>3 DEF Numbered
    <3>2. QED BY <1>2, <2>2, <2>3, <3>1
  <2>4. CASE i = k + 1
    BY <1>2, <1>6, <2>2, <2>4
  <2>5. QED BY <1>1, <2>1, <2>3, <2>4
<1>8. QED BY <1>7 DEF Numbered

(* Every step keeps the frames in order: it leaves them alone, drops those *)
(* that were returned before, or adds the next one.                        *)
LEMMA OrderStep ==
  ASSUME Inv, Numbered(Frames, next), [Next]_vars
  PROVE  Numbered(Frames, next)'
<1> DEFINE S == 0..(FrameIds - 1)
           t == "recive_package"
<1>1. /\ fifo \in Seq(S) /\ rxpkt \in Seq(S) /\ next \in S /\ t \in Threads
      /\ call \in [Threads -> CallType]
      /\ call[t].name \in {"idle", "send", "receive"}
  BY DEF Inv, TypeOK, CallType, Threads
<1>2. Fetched => fifo # <<>>
  BY DEF Fetched, Inv, FifoInv
<1>3. ASSUME UNCHANGED <<rxpkt, fifo, next>>, Fetched' = Fetched
      PROVE  Numbered(Frames, next)'
  BY <1>3 DEF Numbered, Frames
<1>4. CASE UNCHANGED vars
  BY <1>3, <1>4 DEF vars, receiver, Fetched
<1>5. ASSUME NEW u \in Threads, Register_access(u)
      PROVE  Numbered(Frames, next)'
  <2>1. PICK stage : call' = [call EXCEPT ![u].stage = stage]
    BY <1>5 DEF Register_access, TestPage, AssignPage, SwitchPage, ReadByte, Stage
  <2>2. call'[t].name = call[t].name /\ call'[t].access = call[t].access
    BY <1>1, <2>1
  <2>3. UNCHANGED <<rxpkt, fifo, next>>
    BY <1>5 DEF Register_access, TestPage, AssignPage, SwitchPage, ReadByte, receiver
  <2>4. QED BY <1>3, <2>2, <2>3 DEF Fetched
<1>6. ASSUME NEW u \in Threads, lgw_send(u)
      PROVE  Numbered(Frames, next)'
  <2>1. call[u].name = "send" /\ Done(u) /\ UNCHANGED <<rxpkt, fifo, next>>
    BY <1>6 DEF lgw_send, Configure, Abort, Rewind, Load, Trigger, At, receiver
  <2>2. /\ \A v \in Threads : v # u => call'[v] = call[v]
        /\ call'[u].name \in {"send", "idle"}
    <3>1. /\ \A v \in Threads : v # u => call'[v] = call[v]
          /\ call[u].access # 8 => call'[u].name = "send"
          /\ call[u].access = 8 => call'[u].name = "idle"
      BY <2>1, DoneEffect DEF Inv
    <3>2. QED BY <3>1
  <2>3. Fetched' = Fetched
    BY <1>1, <2>1, <2>2 DEF Fetched
  <2>4. QED BY <1>3, <2>1, <2>3
<1>7. ASSUME NEW u \in Threads, NEW p \in Packets, CallSend(u, p)
      PROVE  Numbered(Frames, next)'
  <2>1. /\ call[u] = Idle /\ call' = [call EXCEPT ![u] = Begin("send", p)]
        /\ UNCHANGED <<rxpkt, fifo, next>>
    BY <1>7 DEF CallSend
  <2>2. call[u].name = "idle" /\ call'[u].name = "send"
        /\ \A v \in Threads : v # u => call'[v] = call[v]
    BY <1>1, <2>1 DEF Idle, Begin
  <2>3. Fetched' = Fetched
    BY <1>1, <2>2 DEF Fetched
  <2>4. QED BY <1>3, <2>1, <2>3
<1>8. CASE Handle \/ EmissionDone
  BY <1>3, <1>8 DEF Handle, EmissionDone, receiver, Fetched
<1>9. CASE CallReceive
  <2>1. /\ call[t] = Idle /\ call'[t] = Begin("receive", None)
        /\ rxpkt' = <<>> /\ UNCHANGED <<fifo, next>>
    BY <1>1, <1>9 DEF CallReceive
  <2>2. ~Fetched /\ ~Fetched'
    BY <2>1 DEF Fetched, Idle, Begin
  <2>3. Frames = rxpkt \o fifo /\ Frames' = fifo
    BY <1>1, <2>1, <2>2, ConcatEmptySeq DEF Frames
  <2>4. /\ Len(rxpkt) \in Nat /\ Len(fifo) \in Nat /\ DOMAIN fifo = 1..Len(fifo)
        /\ rxpkt \o fifo \in Seq(S) /\ Len(rxpkt \o fifo) = Len(rxpkt) + Len(fifo)
        /\ \A i \in 1..(Len(rxpkt) + Len(fifo)) :
              (rxpkt \o fifo)[i] = IF i <= Len(rxpkt) THEN rxpkt[i] ELSE fifo[i - Len(rxpkt)]
    BY <1>1, LenProperties, ConcatProperties
  <2>5. DOMAIN (rxpkt \o fifo) = 1..(Len(rxpkt) + Len(fifo))
    BY <2>4, LenProperties
  <2>6. ASSUME NEW i \in DOMAIN fifo
        PROVE  fifo[i] = (next + FrameIds - Len(fifo) + i - 1) % FrameIds
    <3> DEFINE j == i + Len(rxpkt)
    <3>1. j \in 1..(Len(rxpkt) + Len(fifo)) /\ ~(j <= Len(rxpkt)) /\ j - Len(rxpkt) = i
      BY <2>4
    <3>2. (rxpkt \o fifo)[j] = fifo[i]
      BY <2>4, <3>1
    <3>3. (rxpkt \o fifo)[j]
            = (next + FrameIds - (Len(rxpkt) + Len(fifo)) + j - 1) % FrameIds
      BY <2>3, <2>4, <2>5, <3>1 DEF Numbered
    <3>4. next + FrameIds - (Len(rxpkt) + Len(fifo)) + j - 1
            = next + FrameIds - Len(fifo) + i - 1
      BY <1>1, <2>4, FrameIdsAssumption
    <3>5. QED BY <3>2, <3>3, <3>4
  <2>7. Numbered(fifo, next)
    BY <2>6 DEF Numbered
  <2>8. QED BY <2>1, <2>3, <2>7 DEF Numbered
<1>10. CASE ReadFifo
  <2>1. call[t].access = 1 /\ UNCHANGED <<rxpkt, fifo, next>> /\ (Return \/ GoTo(2))
    BY <1>10 DEF ReadFifo, Reading
  <2>2. call'[t].name = "idle" \/ call'[t].access = 2
    BY <1>1, <2>1 DEF Return, GoTo, Idle, Begin, CallType
  <2>3. Fetched' = Fetched
    BY <2>1, <2>2 DEF Fetched
  <2>4. QED BY <1>3, <2>1, <2>3
<1>11. CASE ReadData
  <2>1. /\ call[t].name = "receive" /\ call[t].access = 2 /\ UNCHANGED <<fifo, next>>
        /\ \/ rxpkt' = Append(rxpkt, Head(fifo)) /\ GoTo(3)
           \/ Return /\ UNCHANGED rxpkt
    BY <1>11 DEF ReadData, Reading
  <2>2. CASE rxpkt' = Append(rxpkt, Head(fifo)) /\ GoTo(3)
    <3>1. call'[t].name = "receive" /\ call'[t].access = 3
      BY <1>1, <2>1, <2>2 DEF GoTo, CallType
    <3>2. ~Fetched /\ Fetched'
      BY <2>1, <3>1 DEF Fetched
    <3>3. fifo # <<>>
      BY <2>1 DEF Inv, FifoInv
    <3>4. Frames' = Append(rxpkt, Head(fifo)) \o Tail(fifo) /\ Frames = rxpkt \o fifo
      BY <2>1, <2>2, <3>2 DEF Frames
    <3>5. Frames' = Frames
      BY <1>1, <3>3, <3>4, MoveHead
    <3>6. QED BY <2>1, <3>5 DEF Numbered
  <2>3. CASE Return /\ UNCHANGED rxpkt
    <3>1. call'[t].name = "idle"
      BY <1>1, <2>3, Beginnings DEF Return
    <3>2. Fetched' = Fetched
      BY <2>1, <3>1 DEF Fetched
    <3>3. QED BY <1>3, <2>1, <2>3, <3>2
  <2>4. QED BY <2>1, <2>2, <2>3
<1>12. CASE Advance
  <2>1. /\ call[t].name = "receive" /\ call[t].access = 3
        /\ fifo' = Tail(fifo) /\ (Return \/ GoTo(1)) /\ UNCHANGED <<rxpkt, next>>
    BY <1>12 DEF Advance, Reading
  <2>2. call'[t].name = "idle" \/ call'[t].access = 1
    BY <1>1, <2>1 DEF Return, GoTo, Idle, Begin, CallType
  <2>3. Fetched /\ ~Fetched'
    BY <2>1, <2>2 DEF Fetched
  <2>4. Frames' = Frames
    BY <2>1, <2>3 DEF Frames
  <2>5. QED BY <2>1, <2>4 DEF Numbered
<1>13. CASE Receive
  <2>1. /\ fifo' = Append(fifo, next) /\ next' = (next + 1) % FrameIds
        /\ UNCHANGED <<call, rxpkt>>
    BY <1>13 DEF Receive
  <2>2. Fetched' = Fetched
    BY <2>1 DEF Fetched
  <2> DEFINE rest == IF Fetched THEN Tail(fifo) ELSE fifo
  <2>3. rest \in Seq(S) /\ (IF Fetched THEN Tail(fifo') ELSE fifo') = Append(rest, next)
    <3>1. CASE Fetched
      BY <1>1, <1>2, <2>1, <3>1, HeadTailProperties, HeadTailAppend
    <3>2. CASE ~Fetched
      BY <1>1, <2>1, <3>2
    <3>3. QED BY <3>1, <3>2
  <2>4. Frames = rxpkt \o rest /\ Frames' = rxpkt \o Append(rest, next)
    BY <2>1, <2>2, <2>3 DEF Frames
  <2> HIDE DEF rest
  <2>5. Frames \in Seq(S) /\ Frames' = Append(Frames, next)
    <3>1. rxpkt \o rest \in Seq(S)
      BY <1>1, <2>3, ConcatProperties
    <3>2. <<next>> \in Seq(S)
      BY <1>1
    <3> HIDE DEF S
    <3>3. Append(rest, next) = rest \o <<next>>
      BY <1>1, <2>3, AppendIsConcat
    <3>4. Append(rxpkt \o rest, next) = (rxpkt \o rest) \o <<next>>
      BY <1>1, <3>1, AppendIsConcat
    <3>5. (rxpkt \o rest) \o <<next>> = rxpkt \o (rest \o <<next>>)
      BY <1>1, <2>3, <3>2, ConcatAssociative, SMTT(30)
    <3>6. QED BY <2>4, <3>1, <3>3, <3>4, <3>5
  <2>6. Numbered(Append(Frames, next), (next + 1) % FrameIds)
    BY <1>1, <2>5, NextNumber
  <2>7. QED BY <2>1, <2>5, <2>6 DEF Numbered
<1>14. QED
  BY <1>4, <1>5, <1>6, <1>7, <1>8, <1>9, <1>10, <1>11, <1>12, <1>13
  DEF Next, lgw_receive

(* lgw_receive returns every frame once and in order, whichever threads    *)
(* send, for any sizes of FIFO and array and any range of numbers.         *)
THEOREM FramesFetchedInOrder == Spec => []FetchedInOrder
<1>1. Init => Numbered(Frames, next)
  <2>1. SUFFICES ASSUME Init PROVE Numbered(Frames, next)
    OBVIOUS
  <2>2. Frames = <<>>
    BY <2>1, ConcatEmptySeq, EmptySeq DEF Init, Frames, Fetched, Idle, Begin, Threads
  <2>3. QED BY <2>2 DEF Numbered
<1>2. Inv /\ Numbered(Frames, next) /\ [Next]_vars => Numbered(Frames, next)'
  BY OrderStep
<1>3. Numbered(Frames, next) => FetchedInOrder
  BY DEF Numbered, Frames, Fetched, FetchedInOrder
<1>4. QED BY <1>1, <1>2, <1>3, ConcentratorInvariant, PTL DEF Spec
=============================================================================
