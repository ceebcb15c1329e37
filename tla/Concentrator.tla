---------------------------- MODULE Concentrator ----------------------------
(***************************************************************************)
(* The gateway's threads at the LoRa concentrator: lgw_send and            *)
(* lgw_receive of libloragw/src/loragw_hal.c down to the single SPI        *)
(* transfers of loragw_reg.c, with the SX1301 as they use it.              *)
(*                                                                         *)
(* A register has a page and an address.  The page is selected in the      *)
(* chip, the program remembers it in the global lgw_regpage, and the test, *)
(* the assignment and the transfers of an access are steps of their own.   *)
(* send_package calls lgw_send with and without the mutex, recive_package  *)
(* without (project_ipv6.c:764): it excludes nothing and is left out.      *)
(* A transfer to a wrong page reaches none of the registers modelled: of a *)
(* narrow one it is the write that counts.                                 *)
(*                                                                         *)
(* The state begins after lgw_start, the link stays open and no transfer   *)
(* fails.  The guards of lgw_send on the parameters hold: apart from the   *)
(* payload every packet of the program has those main() wrote.  LBT is     *)
(* off: the program never calls lgw_lbt_setconf.                           *)
(***************************************************************************)
EXTENDS Integers, Sequences, FiniteSets

CONSTANTS
  Senders,     (* the threads that call lgw_send                           *)
  Packets,     (* what lgw_send is called with                             *)
  MaxPkt,      (* ARRAY_SIZE(rxpkt), 16                                    *)
  FifoSize,    (* LGW_PKT_FIFO_SIZE, 16                                    *)
  FrameIds     (* bound: received frames are numbered modulo this          *)

Threads == {"send_package", "recive_package"}

ASSUME SendersAssumption == Senders \subseteq Threads
ASSUME FifoAssumption == /\ MaxPkt \in Nat \ {0}
                         /\ FifoSize \in Nat
                         /\ MaxPkt <= FifoSize
ASSUME FrameIdsAssumption == FrameIds \in Nat \ {0}

VARIABLES
  lgw_regpage,  (* the global: the page the program believes selected      *)
  page,         (* the page selected in the chip                           *)
  rewound,      (* the address of the TX data buffer is 0                  *)
  loaded,       (* the packet at the start of the TX data buffer           *)
  onAir,        (* the packet being emitted                                *)
  fifo,         (* the RX packet FIFO of the chip, a sequence of frames    *)
  valid,        (* the if_chain of its first frame is < LGW_IF_CHAIN_NB    *)
  next,         (* the number of the next frame the chip receives          *)
  call,         (* of each thread: the call it is in, the access of that   *)
                (* call, the stage of that access, and the packet          *)
  rivals,       (* history, of each lgw_send: the packets of the other     *)
                (* thread's calls that it overlaps with                    *)
  rxpkt,        (* the frames this lgw_receive has written to rxpkt        *)
  rounds        (* rounds of "for (j = 0; j < nb_pkt; j++)" left           *)

transmitter == <<rewound, loaded, onAir>>
receiver == <<fifo, valid, next, rxpkt, rounds>>
pages == <<lgw_regpage, page>>
vars == <<lgw_regpage, page, rewound, loaded, onAir, fifo, valid, next, call, rivals,
          rxpkt, rounds>>

None == "none"

(* Registers whose page is -1: reached whatever page is selected.          *)
Unpaged == {"TX_DATA_BUF_ADDR", "TX_DATA_BUF_DATA", "RX_DATA_BUF_DATA",
            "RX_PACKET_DATA_FIFO_NUM_STORED"}

(* Those of less than a byte, accessed by a read and a write.              *)
Narrow == {"TX_GAIN", "TX_TRIG_IMMEDIATE"}

TxPage == 1     (* of every paged register lgw_send writes                 *)
StartPage == 2  (* of GPS_EN, the last register lgw_start writes           *)

(* Mutant: the payload before the address it goes to.                      *)
SendLoadsFirst ==
  <<"TX_OFFSET_I", "TX_OFFSET_Q", "TX_GAIN", "TX_START_DELAY", "TX_TRIG_ALL",
    "TX_DATA_BUF_DATA", "TX_DATA_BUF_ADDR", "TX_TRIG_IMMEDIATE">>

(* The register accesses of lgw_send.                                      *)
SendAccesses ==
  <<"TX_OFFSET_I", "TX_OFFSET_Q", "TX_GAIN", "TX_START_DELAY", "TX_TRIG_ALL",
    "TX_DATA_BUF_ADDR", "TX_DATA_BUF_DATA", "TX_TRIG_IMMEDIATE">>

(* Those of one turn of the loop of lgw_receive: what the FIFO holds, the  *)
(* payload of its first packet, and its removal.                           *)
ReceiveAccesses ==
  <<"RX_PACKET_DATA_FIFO_NUM_STORED", "RX_DATA_BUF_DATA",
    "RX_PACKET_DATA_FIFO_NUM_STORED">>

Accesses(name) == IF name = "send" THEN SendAccesses ELSE ReceiveAccesses
Register(t) == Accesses(call[t].name)[call[t].access]

(* if ((r.page != -1) && (r.page != lgw_regpage)): a register without a    *)
(* page is transferred at once, the page of another one is tested first.   *)
FirstStage(register) == IF register \in Unpaged THEN "transfer" ELSE "test"

Begin(name, packet) ==
  [name |-> name, access |-> 1, packet |-> packet,
   stage |-> IF name = "idle" THEN "test" ELSE FirstStage(Accesses(name)[1])]

Idle == Begin("idle", None)

(* Thread t is at this stage of an access to this register.                *)
At(t, register, stage) ==
  call[t].name = "send" /\ Register(t) = register /\ call[t].stage = stage

Selected == page = TxPage

-----------------------------------------------------------------------------
(* lgw_reg_w, lgw_reg_wb, lgw_reg_rb and page_switch.                      *)

Stage(t, stage) == call' = [call EXCEPT ![t].stage = stage]

(* Mutant: the page is taken for selected.                                 *)
TestPageNever(t) ==
  /\ call[t].name # "idle" /\ call[t].stage = "test"
  /\ Stage(t, "transfer")
  /\ UNCHANGED <<pages, transmitter, receiver, rivals>>

(* (r.page != lgw_regpage)                                                 *)
TestPage(t) ==
  /\ call[t].name # "idle" /\ call[t].stage = "test"
  /\ Stage(t, IF lgw_regpage = TxPage THEN "transfer" ELSE "assign")
  /\ UNCHANGED <<pages, transmitter, receiver, rivals>>

(* page_switch assigns the variable ...                                    *)
AssignPage(t) ==
  /\ call[t].name # "idle" /\ call[t].stage = "assign"
  /\ lgw_regpage' = TxPage
  /\ Stage(t, "switch")
  /\ UNCHANGED <<page, transmitter, receiver, rivals>>

(* Mutant: the chip is not told.                                           *)
SwitchPageNot(t) ==
  /\ call[t].name # "idle" /\ call[t].stage = "switch"
  /\ Stage(t, "transfer")
  /\ UNCHANGED <<pages, transmitter, receiver, rivals>>

(* ... and then writes the chip's page register with what it holds.        *)
SwitchPage(t) ==
  /\ call[t].name # "idle" /\ call[t].stage = "switch"
  /\ page' = lgw_regpage
  /\ Stage(t, "transfer")
  /\ UNCHANGED <<lgw_regpage, transmitter, receiver, rivals>>

(* reg_w_align32 on less than a byte: the read before the write.           *)
ReadByte(t) ==
  /\ call[t].name = "send" /\ call[t].stage = "transfer"
  /\ Register(t) \in Narrow
  /\ Stage(t, "write")
  /\ UNCHANGED <<pages, transmitter, receiver, rivals>>

-----------------------------------------------------------------------------
(* lgw_send.                                                               *)

(* An access has been made: the next one, or the return.                   *)
Done(t) ==
  \/ /\ call[t].access < Len(SendAccesses)
     /\ call' = [call EXCEPT ![t].access = @ + 1,
                          ![t].stage = FirstStage(SendAccesses[call[t].access + 1])]
     /\ UNCHANGED rivals
  \/ /\ call[t].access = Len(SendAccesses)
     /\ call' = [call EXCEPT ![t] = Idle]
     /\ rivals' = [rivals EXCEPT ![t] = {}]

Others(t) == {u \in Threads \ {t} : call[u].name = "send"}

(* send_package calls it when it likes, recive_package at most once in a   *)
(* round of its loop.                                                      *)
CallSend(t, p) ==
  /\ t \in Senders /\ call[t] = Idle
  /\ t = "recive_package" => rounds > 0
  /\ rounds' = IF t = "recive_package" THEN rounds - 1 ELSE rounds
  /\ call' = [call EXCEPT ![t] = Begin("send", p)]
  /\ rivals' = [u \in Threads |->
                 IF u = t THEN {call[v].packet : v \in Others(t)}
                 ELSE IF u \in Others(t) THEN rivals[u] \union {p} ELSE rivals[u]]
  /\ UNCHANGED <<pages, transmitter, fifo, valid, next, rxpkt>>

(* The settings of the modem, the same for every packet.                   *)
Configure(t) ==
  /\ \/ At(t, "TX_GAIN", "write")
     \/ \E r \in {"TX_OFFSET_I", "TX_OFFSET_Q", "TX_START_DELAY"} : At(t, r, "transfer")
  /\ Done(t)
  /\ UNCHANGED <<pages, transmitter, receiver>>

(* lgw_abort_tx: TX_TRIG_ALL cleared ends the emission.                    *)
Abort(t) ==
  /\ At(t, "TX_TRIG_ALL", "transfer")
  /\ onAir' = IF Selected THEN None ELSE onAir
  /\ Done(t)
  /\ UNCHANGED <<pages, rewound, loaded, receiver>>

Rewind(t) ==
  /\ At(t, "TX_DATA_BUF_ADDR", "transfer")
  /\ rewound' = TRUE
  /\ Done(t)
  /\ UNCHANGED <<pages, loaded, onAir, receiver>>

(* The burst goes where the address is and moves it behind the packet.     *)
Load(t) ==
  /\ At(t, "TX_DATA_BUF_DATA", "transfer")
  /\ loaded' = IF rewound THEN call[t].packet ELSE loaded
  /\ rewound' = FALSE
  /\ Done(t)
  /\ UNCHANGED <<pages, onAir, receiver>>

(* The chip emits what its buffer starts with.                             *)
Trigger(t) ==
  /\ At(t, "TX_TRIG_IMMEDIATE", "write")
  /\ onAir' = IF Selected THEN loaded ELSE onAir
  /\ Done(t)
  /\ UNCHANGED <<pages, rewound, loaded, receiver>>

(* External: the emission ends.                                            *)
EmissionDone ==
  /\ onAir # None
  /\ onAir' = None
  /\ UNCHANGED <<pages, rewound, loaded, receiver, call, rivals>>

-----------------------------------------------------------------------------
(* lgw_receive, in recive_package only.                                    *)

Reading(access) ==
  /\ call["recive_package"].name = "receive"
  /\ call["recive_package"].access = access
  /\ call["recive_package"].stage = "transfer"

GoTo(access) ==
  call' = [call EXCEPT !["recive_package"].access = access,
                       !["recive_package"].stage = FirstStage(ReceiveAccesses[access])]

Return == call' = [call EXCEPT !["recive_package"] = Idle]

CallReceive ==
  /\ call["recive_package"] = Idle /\ rounds = 0
  /\ call' = [call EXCEPT !["recive_package"] = Begin("receive", None)]
  /\ rxpkt' = <<>>
  /\ UNCHANGED <<pages, transmitter, fifo, valid, next, rivals, rounds>>

(* Mutant: a full FIFO is taken for an invalid number.                     *)
ReadFifoNotFull ==
  /\ Reading(1)
  /\ IF fifo = <<>> \/ Len(fifo) >= FifoSize
       THEN Return /\ rounds' = Len(rxpkt)
       ELSE GoTo(2) /\ UNCHANGED rounds
  /\ UNCHANGED <<pages, transmitter, fifo, valid, next, rivals, rxpkt>>

(* buff[0] is the number of packets stored: none or an invalid number, and *)
(* the loop is left.                                                       *)
ReadFifo ==
  /\ Reading(1)
  /\ IF fifo = <<>> \/ Len(fifo) > FifoSize
       THEN Return /\ rounds' = Len(rxpkt)
       ELSE GoTo(2) /\ UNCHANGED rounds
  /\ UNCHANGED <<pages, transmitter, fifo, valid, next, rivals, rxpkt>>

(* A packet of which the chip reports no IF chain there is: the loop is    *)
(* left before the packet is counted or removed.                           *)
ReadData ==
  /\ Reading(2)
  /\ IF valid
       THEN rxpkt' = Append(rxpkt, Head(fifo)) /\ GoTo(3) /\ UNCHANGED rounds
       ELSE Return /\ rounds' = Len(rxpkt) /\ UNCHANGED rxpkt
  /\ UNCHANGED <<pages, transmitter, fifo, valid, next, rivals>>

(* Mutant: the packet stays in the FIFO.                                   *)
AdvanceNot ==
  /\ Reading(3)
  /\ IF Len(rxpkt) = MaxPkt THEN Return /\ rounds' = Len(rxpkt)
                            ELSE GoTo(1) /\ UNCHANGED rounds
  /\ UNCHANGED <<pages, transmitter, fifo, valid, next, rivals, rxpkt>>

(* Mutant: the loop goes one turn too far.                                 *)
AdvancePastEnd ==
  /\ Reading(3)
  /\ fifo' = Tail(fifo) /\ valid' \in BOOLEAN
  /\ IF Len(rxpkt) > MaxPkt THEN Return /\ rounds' = Len(rxpkt)
                            ELSE GoTo(1) /\ UNCHANGED rounds
  /\ UNCHANGED <<pages, transmitter, next, rivals, rxpkt>>

(* "advance packet FIFO", and the test of the for loop.  The frame that is *)
(* the first then has an IF chain of its own.                              *)
Advance ==
  /\ Reading(3)
  /\ fifo' = Tail(fifo) /\ valid' \in BOOLEAN
  /\ IF Len(rxpkt) = MaxPkt THEN Return /\ rounds' = Len(rxpkt)
                            ELSE GoTo(1) /\ UNCHANGED rounds
  /\ UNCHANGED <<pages, transmitter, next, rivals, rxpkt>>

(* A round of the loop over the packets that sends nothing.                *)
Handle ==
  /\ call["recive_package"] = Idle /\ rounds > 0
  /\ rounds' = rounds - 1
  /\ UNCHANGED <<pages, transmitter, fifo, valid, next, call, rivals, rxpkt>>

(* External: the modem receives a frame, and drops it if the FIFO is full. *)
Receive ==
  /\ Len(fifo) < FifoSize
  /\ fifo' = Append(fifo, next)
  /\ next' = (next + 1) % FrameIds
  /\ UNCHANGED <<pages, transmitter, valid, call, rivals, rxpkt, rounds>>

-----------------------------------------------------------------------------
Init ==
  /\ lgw_regpage = StartPage /\ page = StartPage
  /\ rewound = FALSE /\ loaded = None /\ onAir = None
  /\ fifo = <<>> /\ valid \in BOOLEAN /\ next = 0
  /\ call = [t \in Threads |-> Idle]
  /\ rivals = [t \in Threads |-> {}]
  /\ rxpkt = <<>> /\ rounds = 0

Register_access(t) ==
  TestPage(t) \/ AssignPage(t) \/ SwitchPage(t) \/ ReadByte(t)

lgw_send(t) == Configure(t) \/ Abort(t) \/ Rewind(t) \/ Load(t) \/ Trigger(t)

lgw_receive == ReadFifo \/ ReadData \/ Advance

Next ==
  \/ \E t \in Threads : Register_access(t) \/ lgw_send(t)
  \/ \E t \in Threads, p \in Packets : CallSend(t, p)
  \/ CallReceive \/ lgw_receive \/ Handle
  \/ EmissionDone \/ Receive

Spec == Init /\ [][Next]_vars

(* The operating system schedules recive_package: its calls go on, and it  *)
(* calls lgw_receive again.  No more is needed of send_package.            *)
FairSpec ==
  /\ Spec
  /\ WF_vars(\/ CallReceive \/ lgw_receive \/ Handle
             \/ Register_access("recive_package") \/ lgw_send("recive_package"))
-----------------------------------------------------------------------------
(* Types: rxpkt has MaxPkt elements.                                       *)
TypeOK ==
  /\ lgw_regpage \in {StartPage, TxPage} /\ page \in {StartPage, TxPage}
  /\ rewound \in BOOLEAN
  /\ loaded \in Packets \union {None} /\ onAir \in Packets \union {None}
  /\ fifo \in Seq(0..(FrameIds - 1)) /\ Len(fifo) <= FifoSize /\ valid \in BOOLEAN
  /\ next \in 0..(FrameIds - 1)
  /\ call \in [Threads -> [name : {"idle", "send", "receive"},
                           access : 1..Len(SendAccesses),
                           stage : {"test", "assign", "switch", "transfer", "write"},
                           packet : Packets \union {None}]]
  /\ rivals \in [Threads -> SUBSET Packets]
  /\ rxpkt \in Seq(0..(FrameIds - 1)) /\ Len(rxpkt) <= MaxPkt
  /\ rounds \in 0..MaxPkt

(* A transfer reaches the register lgw_reg_w was called with.  The         *)
(* variable lgw_regpage alone decides whether the page is selected, and    *)
(* page_switch assigns it before it tells the chip: a transfer to a wrong  *)
(* page is made at most while the other thread is between the two.         *)
Switching(t) == \E u \in Threads \ {t} : call[u].stage = "switch"

RightRegister ==
  \A t \in Threads :
    call[t].name = "send" /\ Register(t) \notin Unpaged
      /\ call[t].stage \in {"transfer", "write"} => Selected \/ Switching(t)

(* lgw_send starts the emission of the packet it was called with, or of    *)
(* one whose call overlapped with it, since nothing keeps the other thread *)
(* from the TX data buffer between the load and the trigger: never of one  *)
(* whose call had ended before it began.                                   *)
OwnPacket ==
  \A t \in Threads :
    call[t].name = "send" /\ Register(t) = "TX_TRIG_IMMEDIATE"
      => loaded \in {call[t].packet} \union rivals[t]

(* loragw_hal.h:358: "Schedule a packet to be send immediately": the       *)
(* packet of the call.                                                     *)
StartsOwnPacket ==
  \A t \in Threads :
    call[t].name = "send" /\ Register(t) = "TX_TRIG_IMMEDIATE"
      => loaded = call[t].packet

(* lgw_receive, called without the mutex while the other thread sends,     *)
(* returns every frame the FIFO took once and in order: what it has        *)
(* returned and what the FIFO still holds are the last frames received.    *)
FetchedInOrder ==
  LET fetched == call["recive_package"].name = "receive"
                   /\ call["recive_package"].access = 3
      frames == rxpkt \o (IF fetched THEN Tail(fifo) ELSE fifo)
  IN \A i \in DOMAIN frames :
       frames[i] = (next + FrameIds - Len(frames) + i - 1) % FrameIds

(* A call of lgw_send that no call of the other thread overlapped with has *)
(* started the emission of its own packet when it returns, whatever the    *)
(* calls before it, and those that overlapped, left in the chip.           *)
SendStarts ==
  [][\A t \in Threads :
       call[t].name = "send" /\ call'[t] = Idle /\ rivals[t] = {}
         => onAir' = call[t].packet]_vars

(* A FIFO at its limit is emptied, as far as the chip reports an IF chain  *)
(* of its first packet: lgw_receive takes the largest number the FIFO can  *)
(* hold for a valid one.  A packet without one stays there for ever.       *)
FullFifoServed ==
  Len(fifo) = FifoSize /\ valid ~> Len(fifo) < FifoSize

(* libloragw/readme.md:415: the application takes into account the time it *)
(* takes to send a packet before it attempts to send another one, so that  *)
(* an emission ends by itself.                                             *)
EmittedWhole == [][onAir # None /\ onAir' # onAir => EmissionDone]_vars
=============================================================================
