------------------------------ MODULE PingNode ------------------------------
(***************************************************************************)
(* The end device: the sketch end-device/examples/ping/ping.ino on the run *)
(* loop of oslmic.c (module OsLmic), the radio driver radio.c and the pin  *)
(* polling of hal.cpp.                                                     *)
(*                                                                         *)
(* There is one thread.  hal_enableIRQs polls the radio's DIO0 line each   *)
(* time the interrupt level returns to zero, and radio_irq_handler runs    *)
(* from there, in the middle of os_runloop_once, tx, rx and the os_ calls. *)
(* A step of the model is the code between two such polls; poll = TRUE     *)
(* means that the next thing the processor does is that poll.              *)
(*                                                                         *)
(* A frame is a record: mine (the first 8 bytes are DEVEUI), type,         *)
(* srcGlobal and targetGlobal (bits 4..2, 6 and 1 of the rule byte), the   *)
(* addresses src and target, and id (identifier and sequence number).      *)
(***************************************************************************)
EXTENDS Integers, SequencesExt

CONSTANTS
  Frames,     (* what other stations may transmit                          *)
  HalfRange, MaxAhead, MaxLate,   (* of OsLmic                             *)
  Interval    (* TX_INTERVAL in ticks                                      *)

VARIABLES
  scheduledjobs, runnablejobs, deadline, func, now, job,   (* of OsLmic    *)
  at,            (* where the processor is, see below                      *)
  poll,          (* hal_io_check is next                                   *)
  halted,        (* hal_failed: an ASSERT failed, the node loops for ever  *)
  opmode,        (* RegOpMode of the radio                                 *)
  irq,           (* the flag in RegIrqFlags that holds DIO0 high, if any   *)
  fifo,          (* RegFifo, the frame received                            *)
  frame,         (* LMIC.frame[0..dataLen-1]                               *)
  str,           (* the buffer passed to tx                                *)
  solicitation,  (* the global of the sketch                               *)
  src_NS, target_ND,
  asked          (* history: the request Echo_replay was last armed for    *)

os == <<scheduledjobs, runnablejobs, deadline, func>>
radio == <<opmode, irq, fifo>>
nd == <<solicitation, src_NS, target_ND>>
vars == <<os, now, job, at, poll, halted, radio, frame, str, nd, asked>>

Jobs == {"txjob", "osjob"}
Soliciting == {"Router_Solicitation", "Neighbor_Solicitation"}
Callbacks == Soliciting \union {"Echo_replay", "listening_mode", "tx_done", "NULL"}

OS == INSTANCE OsLmic WITH NoJob <- "none", NoCallback <- "none",
                           CmpWraps <- TRUE, pc <- at, running <- "none"

(* The positions of the processor: the run loop, its window between taking *)
(* a job and calling it, then inside a callback before the transmission    *)
(* (tx), before os_setTimedCallback (rearm) and before rx (relisten).      *)
Positions == {"loop", "picked", "send", "rearm", "relisten"}

(* A frame that is not for this node, also what a FIFO that was cleared by *)
(* the sleep mode reads as.                                                *)
Noise == [mine |-> FALSE, type |-> 0, srcGlobal |-> FALSE, targetGlobal |-> FALSE,
          src |-> "other", target |-> "other", id |-> 0]

(* The addresses that the sketch tells apart; type is three bits of the    *)
(* rule byte, whatever a station transmits.                                *)
Addresses == {"own", "router", "other", "zero", "none"}
AnyFrame == [mine : BOOLEAN, type : 0..7, srcGlobal : BOOLEAN, targetGlobal : BOOLEAN,
             src : Addresses, target : Addresses, id : Nat]

ASSUME FramesAssumption == Frames \subseteq AnyFrame

(* The frames the sketch builds; its source is the node itself.            *)
Solicitation(type, global, target) ==
  [mine |-> TRUE, type |-> type, srcGlobal |-> global, targetGlobal |-> FALSE,
   src |-> "own", target |-> target, id |-> 0]

(* LMIC.frame[8] |= (1 << 2): the low bit of the type.                     *)
AsReply(f) == [f EXCEPT !.type = IF @ % 2 = 0 THEN @ + 1 ELSE @]
(* tx is passed LMIC.frame itself.                                         *)
ToAlias == [alias |-> "LMIC.frame"]
-----------------------------------------------------------------------------
(* radio.c and hal.cpp                                                     *)

(* startrx and starttx begin with ASSERT(opmode == SLEEP).  Both clear the *)
(* interrupt flags before the mode changes.                                *)
StartRadio(mode) ==
  IF opmode = "SLEEP"
  THEN opmode' = mode /\ irq' = "none" /\ UNCHANGED <<fifo, halted>>
  ELSE halted' = TRUE /\ UNCHANGED radio

(* rx(listening_mode)                                                      *)
rx ==
  /\ func' = [func EXCEPT !["osjob"] = "listening_mode"]
  /\ StartRadio("RX")

(* hal_io_check at interrupt level 0, with the handler it calls.  os_set-  *)
(* Callback polls again inside the handler; by then the flags are cleared  *)
(* and the second poll only records that the line is low again.            *)
hal_io_check ==
  /\ poll /\ ~halted
  /\ poll' = FALSE
  /\ IF irq = "none"
     THEN UNCHANGED <<os, radio, frame>>
     ELSE /\ frame' = IF irq = "TXDONE" THEN frame
                      ELSE IF opmode = "RX" THEN fifo ELSE Noise
          /\ opmode' = "SLEEP"
          /\ irq' = "none"
          /\ UNCHANGED fifo
          /\ OS!os_setCallback("osjob", func["osjob"])
  /\ UNCHANGED <<now, job, at, halted, str, nd, asked>>

(* The air: a frame is received, over an unread one if need be; a          *)
(* transmission ends and leaves the radio in standby.                      *)
Receive(f) ==
  /\ opmode = "RX"
  /\ fifo' = f
  /\ irq' = "RXDONE"
  /\ UNCHANGED <<os, now, job, at, poll, halted, opmode, frame, str, nd, asked>>

TxDone ==
  /\ opmode = "TX"
  /\ opmode' = "STANDBY"
  /\ irq' = "TXDONE"
  /\ UNCHANGED <<os, now, job, at, poll, halted, fifo, frame, str, nd, asked>>

(* The clock matters while a job is scheduled.  A frame of 64 bytes at SF10 *)
(* is on the air for less than TX_INTERVAL, and its end is polled at once: *)
(* the timer does not expire during a transmission.                        *)
Tick ==
  /\ scheduledjobs # <<>>
  /\ opmode \notin {"TX", "STANDBY"}
  /\ OS!Tick
  /\ UNCHANGED <<at, poll, halted, radio, frame, str, nd, asked>>
-----------------------------------------------------------------------------
Running(position) == at = position /\ ~poll /\ ~halted

(* os_runloop_once: take a job, enable interrupts; then call it.           *)
Pick ==
  /\ Running("loop")
  /\ OS!PickRunnable \/ OS!PickTimed \/ OS!PickNothing
  /\ at' = "picked"
  /\ poll' = TRUE
  /\ UNCHANGED <<deadline, func, now, halted, radio, frame, str, nd, asked>>

CallNothing ==
  /\ Running("picked")
  /\ job = "none"
  /\ at' = "loop"
  /\ UNCHANGED <<os, now, job, poll, halted, radio, frame, str, nd, asked>>

Calls(cb) == Running("picked") /\ job # "none" /\ func[job] = cb

(* The sketch's callbacks up to os_radio(RADIO_RST) in tx.                 *)
BeginTx(buffer) ==
  /\ str' = buffer
  /\ opmode' = "SLEEP"
  /\ at' = "send"
  /\ poll' = TRUE

Router_Solicitation ==
  /\ Calls("Router_Solicitation")
  /\ solicitation = 1
  /\ BeginTx(Solicitation(2, FALSE, "none"))
  /\ UNCHANGED <<os, now, job, halted, irq, fifo, frame, nd, asked>>

Neighbor_Solicitation ==
  /\ Calls("Neighbor_Solicitation")
  /\ solicitation = 1
  /\ target_ND' = src_NS
  /\ BeginTx(Solicitation(4, TRUE, src_NS))
  /\ UNCHANGED <<os, now, job, halted, irq, fifo, frame, solicitation, src_NS, asked>>

(* Both do nothing, and do not arm the job again, once solicitation is 0.  *)
StopSoliciting ==
  /\ \E cb \in Soliciting : Calls(cb)
  /\ solicitation = 0
  /\ at' = "loop"
  /\ job' = "none"
  /\ UNCHANGED <<os, now, poll, halted, radio, frame, str, nd, asked>>

(* Mutant: the reply is not transmitted.                                   *)
Echo_replayNothing ==
  /\ Calls("Echo_replay")
  /\ frame' = AsReply(frame)
  /\ at' = "loop"
  /\ job' = "none"
  /\ UNCHANGED <<os, now, poll, halted, radio, str, nd, asked>>

(* The reply is the request in LMIC.frame with its type changed in place.  *)
Echo_replay ==
  /\ Calls("Echo_replay")
  /\ frame' = AsReply(frame)
  /\ BeginTx(ToAlias)
  /\ UNCHANGED <<os, now, job, halted, irq, fifo, nd, asked>>

(* The rest of tx: copy the buffer to LMIC.frame, name the next callback,  *)
(* os_radio(RADIO_TX).                                                     *)
Send ==
  /\ Running("send")
  /\ frame' = IF str = ToAlias THEN frame ELSE str
  /\ func' = [func EXCEPT !["osjob"] = "tx_done"]
  /\ StartRadio("TX")
  /\ poll' = TRUE
  /\ IF str = ToAlias THEN at' = "loop" /\ job' = "none"
                      ELSE at' = "rearm" /\ UNCHANGED job
  /\ UNCHANGED <<scheduledjobs, runnablejobs, deadline, now, str, nd, asked>>

ArmTxjob(cb) == OS!os_setTimedCallback("txjob", OS!Wrap(now + Interval), cb)

(* Mutant: the job is not armed again.                                     *)
RearmForgotten ==
  /\ Running("rearm")
  /\ at' = "loop"
  /\ job' = "none"
  /\ UNCHANGED <<os, now, poll, halted, radio, frame, str, nd, asked>>

(* The solicitations arm themselves again for the next interval.           *)
Rearm ==
  /\ Running("rearm")
  /\ ArmTxjob(IF str.type = 2 THEN "Router_Solicitation" ELSE "Neighbor_Solicitation")
  /\ poll' = TRUE
  /\ at' = "loop"
  /\ job' = "none"
  /\ UNCHANGED <<now, halted, radio, frame, str, nd, asked>>

(* Mutant: tx_done does not start to receive.                              *)
tx_doneSilent ==
  /\ Calls("tx_done")
  /\ at' = "loop"
  /\ job' = "none"
  /\ UNCHANGED <<os, now, poll, halted, radio, frame, str, nd, asked>>

tx_done ==
  /\ Calls("tx_done")
  /\ rx
  /\ poll' = TRUE
  /\ at' = "loop"
  /\ job' = "none"
  /\ UNCHANGED <<scheduledjobs, runnablejobs, deadline, now, frame, str, nd, asked>>
-----------------------------------------------------------------------------
(* listening_mode, by the kind of the frame in LMIC.frame; the rest of it, *)
(* rx(listening_mode), is Relisten.                                        *)
Listening == Calls("listening_mode")
ToRelisten == at' = "relisten"
Accepts(type) == frame.mine /\ frame.type = type

HearEchoRequest ==
  /\ Listening
  /\ Accepts(0)
  /\ ArmTxjob("Echo_replay")
  /\ asked' = frame
  /\ poll' = TRUE
  /\ UNCHANGED nd

HearRouterAdvertisement ==
  /\ Listening
  /\ Accepts(3)
  /\ solicitation' = 0
  /\ src_NS' = frame.src
  /\ UNCHANGED <<os, poll, target_ND, asked>>

(* Only a solicitation between link-local addresses is stored; any other   *)
(* one leaves both addresses zero.                                         *)
HearNeighborSolicitation ==
  LET local == ~frame.srcGlobal /\ ~frame.targetGlobal
  IN  /\ Listening
      /\ Accepts(4)
      /\ src_NS' = IF local THEN frame.src ELSE "zero"
      /\ target_ND' = IF local THEN frame.target ELSE "zero"
      /\ IF local /\ frame.target = "own"
         THEN /\ solicitation' = 1
              /\ ArmTxjob("Neighbor_Solicitation")
              /\ poll' = TRUE
         ELSE UNCHANGED <<os, poll, solicitation>>
      /\ UNCHANGED asked

(* The node's own link-local target starts a new solicitation, the target  *)
(* it asked for ends it.  (advertisement is written and never read.)       *)
HearNeighborAdvertisement ==
  LET local == ~frame.srcGlobal /\ ~frame.targetGlobal
  IN  /\ Listening
      /\ Accepts(5)
      /\ IF local /\ frame.target = "own"
         THEN /\ solicitation' = 1
              /\ ArmTxjob("Neighbor_Solicitation")
              /\ poll' = TRUE
         ELSE /\ solicitation' = IF local /\ frame.target = target_ND THEN 0
                                 ELSE solicitation
              /\ UNCHANGED <<os, poll>>
      /\ UNCHANGED <<src_NS, target_ND, asked>>

HearOther ==
  /\ Listening
  /\ \A type \in {0, 3, 4, 5} : ~Accepts(type)
  /\ UNCHANGED <<os, poll, nd, asked>>

listening_mode ==
  /\ \/ HearEchoRequest
     \/ HearRouterAdvertisement
     \/ HearNeighborSolicitation
     \/ HearNeighborAdvertisement
     \/ HearOther
  /\ ToRelisten
  /\ UNCHANGED <<now, job, halted, radio, frame, str>>

(* Mutant: listening_mode clears LMIC.frame.                               *)
RelistenClears ==
  /\ Running("relisten")
  /\ rx
  /\ frame' = Noise
  /\ poll' = TRUE
  /\ at' = "loop"
  /\ job' = "none"
  /\ UNCHANGED <<scheduledjobs, runnablejobs, deadline, now, str, nd, asked>>

Relisten ==
  /\ Running("relisten")
  /\ rx
  /\ poll' = TRUE
  /\ at' = "loop"
  /\ job' = "none"
  /\ UNCHANGED <<scheduledjobs, runnablejobs, deadline, now, frame, str, nd, asked>>
-----------------------------------------------------------------------------
(* setup(): os_init leaves the radio asleep; txjob is the first job.       *)
Init ==
  /\ scheduledjobs = <<>>
  /\ runnablejobs = <<"txjob">>
  /\ deadline = [j \in Jobs |-> 0]
  /\ func = [j \in Jobs |-> IF j = "txjob" THEN "Router_Solicitation" ELSE "NULL"]
  /\ now = 0
  /\ job = "none"
  /\ at = "loop"
  /\ poll = FALSE
  /\ halted = FALSE
  /\ opmode = "SLEEP"
  /\ irq = "none"
  /\ fifo = Noise
  /\ frame = Noise
  /\ str = Noise
  /\ solicitation = 1
  /\ src_NS = "zero"
  /\ target_ND = "zero"
  /\ asked = Noise

Callback ==
  \/ Router_Solicitation
  \/ Neighbor_Solicitation
  \/ StopSoliciting
  \/ Echo_replay
  \/ Send
  \/ Rearm
  \/ tx_done
  \/ listening_mode
  \/ Relisten

Processor == hal_io_check \/ Pick \/ CallNothing \/ Callback

Next ==
  \/ Processor
  \/ TxDone
  \/ Tick
  \/ \E f \in Frames : Receive(f)

Spec == Init /\ [][Next]_vars

(* loop() calls os_runloop_once for ever; a transmission ends; the clock   *)
(* runs.  Nothing makes other stations transmit.                           *)
Fairness == WF_vars(Processor) /\ WF_vars(TxDone) /\ WF_vars(Tick)
FairSpec == Spec /\ Fairness
-----------------------------------------------------------------------------
TypeOK ==
  /\ scheduledjobs \in Seq(Jobs) /\ runnablejobs \in Seq(Jobs)
  /\ func \in [Jobs -> Callbacks]
  /\ job \in Jobs \union {"none"}
  /\ at \in Positions
  /\ poll \in BOOLEAN /\ halted \in BOOLEAN
  /\ opmode \in {"SLEEP", "STANDBY", "RX", "TX"}
  /\ irq \in {"none", "RXDONE", "TXDONE"}
  /\ fifo \in AnyFrame /\ frame \in AnyFrame /\ asked \in AnyFrame
  /\ str = ToAlias \/ str \in AnyFrame
  /\ solicitation \in {0, 1}
  /\ src_NS \in Addresses /\ target_ND \in Addresses

(* The reply is built in place from LMIC.frame an interval after the       *)
(* request.  Nothing the node itself does in that interval changes the     *)
(* frame: it still holds the request until another frame is received.      *)
EchoPending == func["txjob"] = "Echo_replay" /\ "txjob" \in ToSet(scheduledjobs)
ReplyUntouched ==
  [][EchoPending /\ EchoPending' /\ frame = asked /\ ~(poll /\ irq = "RXDONE")
       => frame' = asked]_vars

(* What the ASSERTs of starttx and startrx state: the radio is asleep when *)
(* it is started.                                                          *)
NoAssertFailure == ~halted

Flooded == []<><<\E f \in Frames : Receive(f)>>_vars

(* After anything else it does the node listens again.                     *)
ListensAgain == (opmode # "RX") ~> (opmode = "RX" \/ halted)

(* A soliciting node transmits again unless it is answered, the timer is   *)
(* taken by an echo reply, or frames never stop coming.                    *)
SolicitsAgain ==
  \/ Flooded
  \/ (solicitation = 1 /\ func["txjob"] \in Soliciting)
       ~> (\/ opmode = "TX"
           \/ solicitation = 0
           \/ func["txjob"] = "Echo_replay"
           \/ halted)

(* An echo request is answered unless the timer is taken over for a        *)
(* solicitation or frames never stop coming.                               *)
EchoAnswered ==
  \/ Flooded
  \/ EchoPending ~> (opmode = "TX" \/ func["txjob"] # "Echo_replay" \/ halted)
=============================================================================
