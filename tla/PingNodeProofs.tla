--------------------------- MODULE PingNodeProofs ---------------------------
(***************************************************************************)
(* Proofs about PingNode.                                                  *)
(*                                                                         *)
(* The sketch has two jobs, and each is queued in one way only: txjob is   *)
(* timed (setup() alone makes it runnable), osjob is made runnable by the  *)
(* interrupt handler.  So neither list ever holds more than one job, and   *)
(* while a callback of txjob runs the timer is not armed: what the reply   *)
(* is built from is touched by no callback in the interval.                *)
(***************************************************************************)
EXTENDS PingNode, TLAPS

(* The two lists of the run loop.                                          *)
Lists ==
  /\ scheduledjobs \in {<<>>, <<"txjob">>}
  /\ runnablejobs \in {<<>>, <<"osjob">>, <<"txjob">>}

(* The job that setup() armed has not run: nothing else has happened.      *)
AfterSetup ==
  runnablejobs = <<"txjob">> =>
    /\ scheduledjobs = <<>> /\ job = "none" /\ at = "loop"
    /\ opmode = "SLEEP" /\ irq = "none"

(* Which job runs which callbacks.                                         *)
TxjobCallbacks == Soliciting \union {"Echo_replay"}
OsjobCallbacks == {"listening_mode", "tx_done", "NULL"}
CallbacksApart ==
  /\ func = [j \in Jobs |-> func[j]]
  /\ func["txjob"] \in TxjobCallbacks
  /\ func["osjob"] \in OsjobCallbacks

(* The job that is being called: txjob alone transmits, and it is on       *)
(* neither list while it does.                                             *)
JobTaken ==
  /\ job \in Jobs \union {"none"}
  /\ at \in Positions
  /\ at \in {"send", "rearm"} => job = "txjob"
  /\ job = "txjob" => scheduledjobs = <<>> /\ runnablejobs # <<"txjob">>

Flag == irq \in {"none", "RXDONE", "TXDONE"}

TimerInv == Lists /\ AfterSetup /\ CallbacksApart /\ JobTaken /\ Flag
-----------------------------------------------------------------------------
(* The operations on the lists, on lists of at most one job.               *)
LEMMA InEmpty ==
  ASSUME NEW j PROVE j \notin ToSet(<<>>) /\ j \notin OS!ToSet(<<>>)
<1>1. DOMAIN <<>> = {}
  OBVIOUS
<1>2. QED BY <1>1 DEF ToSet, OS!ToSet

LEMMA InOnly ==
  ASSUME NEW j, NEW k
  PROVE  /\ j \in ToSet(<<k>>) <=> j = k
         /\ j \in OS!ToSet(<<k>>) <=> j = k
<1>1. DOMAIN <<k>> = {1} /\ <<k>>[1] = k
  OBVIOUS
<1>2. QED BY <1>1 DEF ToSet, OS!ToSet

LEMMA UnlinkEmpty == ASSUME NEW j PROVE OS!Unlink(<<>>, j) = <<>>
BY InEmpty DEF OS!Unlink

LEMMA UnlinkOnly == ASSUME NEW j PROVE OS!Unlink(<<j>>, j) = <<>>
<1>1. j \in OS!ToSet(<<j>>)
  BY InOnly
<1>2. OS!IndexOf(<<j>>, j) = 1
  BY DEF OS!IndexOf
<1>3. SubSeq(<<j>>, 1, 0) = <<>> /\ SubSeq(<<j>>, 2, 1) = <<>>
  OBVIOUS
<1>4. OS!RemoveAt(<<j>>, 1) = <<>>
  <2>1. OS!RemoveAt(<<j>>, 1) = SubSeq(<<j>>, 1, 1 - 1) \o SubSeq(<<j>>, 1 + 1, Len(<<j>>))
    BY DEF OS!RemoveAt
  <2>2. Len(<<j>>) = 1 /\ 1 - 1 = 0 /\ 1 + 1 = 2
    OBVIOUS
  <2>3. <<>> \o <<>> = <<>>
    OBVIOUS
  <2>4. QED BY <1>3, <2>1, <2>2, <2>3
<1>5. QED BY <1>1, <1>2, <1>4 DEF OS!Unlink

LEMMA UnlinkOther ==
  ASSUME NEW j, NEW k, j # k
  PROVE  OS!Unlink(<<k>>, j) = <<k>>
BY InOnly DEF OS!Unlink

LEMMA InsertEmpty ==
  ASSUME NEW time, NEW j
  PROVE  OS!InsertAt(<<>>, OS!InsertIndex(<<>>, time), j) = <<j>>
<1>1. OS!InsertIndex(<<>>, time) = 1
  BY DEF OS!InsertIndex
<1>2. SubSeq(<<>>, 1, 0) = <<>> /\ SubSeq(<<>>, 1, Len(<<>>)) = <<>>
  OBVIOUS
<1>3. OS!InsertAt(<<>>, 1, j) = <<j>>
  <2>1. OS!InsertAt(<<>>, 1, j)
          = SubSeq(<<>>, 1, 1 - 1) \o <<j>> \o SubSeq(<<>>, 1, Len(<<>>))
    BY DEF OS!InsertAt
  <2>2. 1 - 1 = 0 /\ <<>> \o <<j>> \o <<>> = <<j>>
    OBVIOUS
  <2>3. QED BY <1>2, <2>1, <2>2
<1>4. QED BY <1>1, <1>3

(* ToSet of the two lists.                                                 *)
LEMMA InLists ==
  ASSUME Lists, "txjob" \in ToSet(scheduledjobs)
  PROVE  scheduledjobs = <<"txjob">>
BY DEF Lists, ToSet

(* osjob is armed by the interrupt handler, once setup() is over.          *)
LEMMA ArmOsjob ==
  ASSUME Lists, CallbacksApart, runnablejobs # <<"txjob">>,
         OS!os_setCallback("osjob", func["osjob"])
  PROVE  /\ scheduledjobs' = scheduledjobs
         /\ runnablejobs' = <<"osjob">>
         /\ func' = func
<1>1. OS!ScheduledWithout("osjob") = scheduledjobs
  BY UnlinkEmpty, UnlinkOther DEF Lists, OS!ScheduledWithout
<1>2. OS!RunnableWithout("osjob") = <<>>
  <2>1. "osjob" \notin OS!ToSet(scheduledjobs)
    BY InEmpty, InOnly DEF Lists
  <2>2. OS!RunnableWithout("osjob") = OS!Unlink(runnablejobs, "osjob")
    BY <2>1 DEF OS!RunnableWithout
  <2>3. QED
    BY <2>2, UnlinkEmpty, UnlinkOnly DEF Lists
<1>3. Append(<<>>, "osjob") = <<"osjob">>
  OBVIOUS
<1>4. func' = func
  BY DEF CallbacksApart, OS!os_setCallback
<1>5. QED BY <1>1, <1>2, <1>3, <1>4 DEF OS!os_setCallback

(* txjob is armed by a callback: it leaves whatever list it is on.         *)
LEMMA ArmTimer ==
  ASSUME Lists, CallbacksApart, runnablejobs # <<"txjob">>,
         NEW cb \in TxjobCallbacks, ArmTxjob(cb)
  PROVE  /\ scheduledjobs' = <<"txjob">>
         /\ runnablejobs' = runnablejobs
         /\ CallbacksApart'
<1>1. OS!ScheduledWithout("txjob") = <<>>
  BY UnlinkEmpty, UnlinkOnly DEF Lists, OS!ScheduledWithout
<1>2. scheduledjobs' = <<"txjob">>
  BY <1>1, InsertEmpty DEF ArmTxjob, OS!os_setTimedCallback
<1>3. OS!RunnableWithout("txjob") = runnablejobs
  BY UnlinkEmpty, UnlinkOther DEF Lists, OS!RunnableWithout
<1>4. CallbacksApart'
  BY DEF CallbacksApart, ArmTxjob, OS!os_setTimedCallback, Jobs
<1>5. QED BY <1>2, <1>3, <1>4 DEF ArmTxjob, OS!os_setTimedCallback
-----------------------------------------------------------------------------
(* setup() establishes the invariant.                                      *)
LEMMA TimerInit == Init => TimerInv
BY DEF Init, TimerInv, Lists, AfterSetup, CallbacksApart, JobTaken, Flag, Jobs,
       TxjobCallbacks, OsjobCallbacks, Soliciting, Positions

(* A step that leaves the lists, the callbacks and the job alone, and      *)
(* transmits only for txjob.                                               *)
LEMMA ListsKept ==
  ASSUME TimerInv, UNCHANGED <<scheduledjobs, runnablejobs, func>>,
         job' \in {job, "none"}, at' \in Positions, irq' \in {"none", "RXDONE", "TXDONE"},
         at' \in {"send", "rearm"} => job' = "txjob",
         runnablejobs = <<"txjob">> => UNCHANGED <<at, opmode, irq>>
  PROVE  TimerInv'
BY DEF TimerInv, Lists, AfterSetup, CallbacksApart, JobTaken, Flag

(* The poll of the pins arms osjob, in whatever callback it happens.       *)
LEMMA PollStep ==
  ASSUME TimerInv, hal_io_check
  PROVE  TimerInv'
<1>1. UNCHANGED <<job, at>> /\ at \in Positions
  BY DEF hal_io_check, TimerInv, JobTaken
<1>2. CASE irq = "none"
  <2>1. UNCHANGED <<scheduledjobs, runnablejobs, func, opmode, irq>>
    BY <1>2 DEF hal_io_check, os, radio
  <2>2. QED
    BY <1>1, <1>2, <2>1, ListsKept DEF TimerInv, JobTaken
<1>3. CASE irq # "none"
  <2>1. runnablejobs # <<"txjob">>
    BY <1>3 DEF TimerInv, AfterSetup
  <2>2. OS!os_setCallback("osjob", func["osjob"]) /\ irq' = "none"
    BY <1>3 DEF hal_io_check
  <2>3. /\ scheduledjobs' = scheduledjobs
        /\ runnablejobs' = <<"osjob">>
        /\ func' = func
    BY <2>1, <2>2, ArmOsjob DEF TimerInv
  <2>4. <<"osjob">> # <<"txjob">>
    OBVIOUS
  <2>5. QED
    BY <1>1, <2>2, <2>3, <2>4
    DEF TimerInv, Lists, AfterSetup, CallbacksApart, JobTaken, Flag
<1>4. QED BY <1>2, <1>3

(* os_runloop_once takes a job off its list.                               *)
LEMMA PickStep ==
  ASSUME TimerInv, Pick
  PROVE  TimerInv'
<1>1. /\ at' = "picked" /\ UNCHANGED <<func, opmode, irq>>
      /\ Lists /\ AfterSetup /\ CallbacksApart /\ Flag
  BY DEF Pick, radio, TimerInv
<1>2. /\ \A j : Head(<<j>>) = j /\ Tail(<<j>>) = <<>>
      /\ <<>> # <<"txjob">> /\ <<>> # <<"osjob">>
  OBVIOUS
<1>3. CASE OS!PickRunnable
  <2>1. runnablejobs # <<>> /\ job' = Head(runnablejobs)
        /\ runnablejobs' = Tail(runnablejobs) /\ scheduledjobs' = scheduledjobs
    BY <1>3 DEF OS!PickRunnable
  <2>2. /\ runnablejobs' = <<>> /\ job' \in Jobs
        /\ job' = "txjob" => scheduledjobs = <<>>
    <3>1. CASE runnablejobs = <<"osjob">>
      BY <3>1, <1>2, <2>1 DEF Jobs
    <3>2. CASE runnablejobs = <<"txjob">>
      BY <3>2, <1>1, <1>2, <2>1 DEF Jobs, AfterSetup
    <3>3. QED BY <3>1, <3>2, <1>1, <2>1 DEF Lists
  <2>3. QED
    BY <1>1, <1>2, <2>1, <2>2
    DEF TimerInv, Lists, AfterSetup, CallbacksApart, JobTaken, Flag, Positions
<1>4. CASE OS!PickTimed
  <2>1. runnablejobs = <<>> /\ scheduledjobs # <<>> /\ job' = Head(scheduledjobs)
        /\ scheduledjobs' = Tail(scheduledjobs) /\ runnablejobs' = runnablejobs
    BY <1>4 DEF OS!PickTimed
  <2>2. scheduledjobs' = <<>> /\ job' = "txjob"
    BY <1>1, <1>2, <2>1 DEF Lists
  <2>3. QED
    BY <1>1, <1>2, <2>1, <2>2
    DEF TimerInv, Lists, AfterSetup, CallbacksApart, JobTaken, Flag, Positions, Jobs
<1>5. CASE OS!PickNothing
  <2>1. runnablejobs = <<>> /\ job' = "none" /\ UNCHANGED <<scheduledjobs, runnablejobs>>
    BY <1>5 DEF OS!PickNothing
  <2>2. QED
    BY <1>1, <1>2, <2>1
    DEF TimerInv, Lists, AfterSetup, CallbacksApart, JobTaken, Flag, Positions
<1>6. QED BY <1>3, <1>4, <1>5 DEF Pick

(* What a callback finds: setup() is over.                                 *)
LEMMA InCallback ==
  ASSUME TimerInv, at # "loop"
  PROVE  runnablejobs # <<"txjob">>
BY DEF TimerInv, AfterSetup

LEMMA CallsJob ==
  ASSUME TimerInv, NEW cb, Calls(cb)
  PROVE  /\ at = "picked" /\ job \in Jobs
         /\ cb \in TxjobCallbacks => job = "txjob"
         /\ cb \in OsjobCallbacks => job = "osjob"
BY DEF TimerInv, CallbacksApart, JobTaken, Calls, Running, Jobs, TxjobCallbacks,
       OsjobCallbacks, Soliciting

(* The callbacks of txjob up to the transmission, and those that return    *)
(* without one.                                                            *)
LEMMA TxjobStep ==
  ASSUME TimerInv,
         Router_Solicitation \/ Neighbor_Solicitation \/ StopSoliciting \/ Echo_replay
           \/ CallNothing
  PROVE  TimerInv'
<1>1. CASE Router_Solicitation \/ Neighbor_Solicitation \/ Echo_replay
  <2>1. PICK cb \in TxjobCallbacks : Calls(cb)
    BY <1>1 DEF Router_Solicitation, Neighbor_Solicitation, Echo_replay,
                TxjobCallbacks, Soliciting
  <2>2. job = "txjob" /\ at = "picked"
    BY <2>1, CallsJob
  <2>3. /\ at' = "send" /\ UNCHANGED <<scheduledjobs, runnablejobs, func, job, irq>>
    BY <1>1 DEF Router_Solicitation, Neighbor_Solicitation, Echo_replay, BeginTx, os
  <2>4. QED
    BY <2>2, <2>3, InCallback, ListsKept DEF TimerInv, Flag, Positions
<1>2. CASE StopSoliciting \/ CallNothing
  <2>1. /\ at = "picked" /\ at' = "loop" /\ job' \in {job, "none"}
        /\ UNCHANGED <<scheduledjobs, runnablejobs, func, opmode, irq>>
    BY <1>2 DEF StopSoliciting, CallNothing, Calls, Running, os, radio
  <2>2. QED
    BY <2>1, InCallback, ListsKept DEF TimerInv, Flag, Positions
<1>3. QED BY <1>1, <1>2

(* tx names tx_done as the next callback of osjob; rx, listening_mode.     *)
LEMMA RadioStep ==
  ASSUME TimerInv, Send \/ tx_done \/ Relisten
  PROVE  TimerInv'
<1>1. /\ at # "loop" /\ UNCHANGED <<scheduledjobs, runnablejobs>>
      /\ irq' \in {"none", irq}
  BY DEF Send, tx_done, Relisten, rx, StartRadio, radio, Calls, Running
<1>2. \E cb \in OsjobCallbacks : func' = [func EXCEPT !["osjob"] = cb]
  BY DEF Send, tx_done, Relisten, rx, OsjobCallbacks
<1>3. CallbacksApart'
  BY <1>2 DEF TimerInv, CallbacksApart, Jobs
<1>4. /\ at' \in {"loop", "rearm"} /\ job' \in {job, "none"}
      /\ at' = "rearm" => job' = job /\ at = "send"
  BY DEF Send, tx_done, Relisten, Running
<1>5. QED
  BY <1>1, <1>3, <1>4, InCallback
  DEF TimerInv, Lists, AfterSetup, JobTaken, Flag, Positions

(* The timer is armed by a solicitation, and by what listening_mode hears. *)
LEMMA RearmStep ==
  ASSUME TimerInv, Rearm
  PROVE  TimerInv'
<1>1. /\ at = "rearm" /\ at' = "loop" /\ job' = "none" /\ irq' = irq
      /\ \E cb \in TxjobCallbacks : ArmTxjob(cb)
  BY DEF Rearm, Running, radio, TxjobCallbacks, Soliciting
<1>2. /\ scheduledjobs' = <<"txjob">>
      /\ runnablejobs' = runnablejobs /\ runnablejobs # <<"txjob">>
      /\ CallbacksApart'
  BY <1>1, InCallback, ArmTimer DEF TimerInv
<1>3. QED
  BY <1>1, <1>2 DEF TimerInv, Lists, AfterSetup, JobTaken, Flag, Positions

LEMMA ListeningStep ==
  ASSUME TimerInv, listening_mode
  PROVE  TimerInv'
<1>1. /\ at' = "relisten" /\ UNCHANGED <<job, irq>> /\ Listening
      /\ \/ UNCHANGED os
         \/ \E cb \in TxjobCallbacks : ArmTxjob(cb)
  BY DEF listening_mode, ToRelisten, radio, HearEchoRequest, HearRouterAdvertisement,
         HearNeighborSolicitation, HearNeighborAdvertisement, HearOther,
         TxjobCallbacks, Soliciting
<1>2. job = "osjob" /\ at = "picked" /\ runnablejobs # <<"txjob">>
  BY <1>1, CallsJob, InCallback DEF Listening, OsjobCallbacks
<1>3. CASE UNCHANGED os
  BY <1>1, <1>2, <1>3, ListsKept DEF TimerInv, Flag, Positions, os
<1>4. CASE \E cb \in TxjobCallbacks : ArmTxjob(cb)
  <2>1. /\ scheduledjobs' = <<"txjob">>
        /\ runnablejobs' = runnablejobs
        /\ CallbacksApart'
    BY <1>2, <1>4, ArmTimer DEF TimerInv
  <2>2. QED
    BY <1>1, <1>2, <2>1 DEF TimerInv, Lists, AfterSetup, JobTaken, Flag, Positions
<1>5. QED BY <1>1, <1>3, <1>4

(* The air and the clock.                                                  *)
LEMMA OutsideStep ==
  ASSUME TimerInv, TxDone \/ Tick \/ \E f \in Frames : Receive(f)
  PROVE  TimerInv'
<1>1. /\ UNCHANGED <<scheduledjobs, runnablejobs, func, job, at>>
      /\ irq' \in {irq, "RXDONE", "TXDONE"}
      /\ opmode = "SLEEP" => UNCHANGED <<opmode, irq>>
  BY DEF TxDone, Tick, OS!Tick, Receive, os, radio
<1>2. QED
  BY <1>1, ListsKept DEF TimerInv, AfterSetup, JobTaken, Flag

LEMMA TimerStep ==
  ASSUME TimerInv, [Next]_vars
  PROVE  TimerInv'
<1>1. CASE UNCHANGED vars
  <2>1. UNCHANGED <<scheduledjobs, runnablejobs, func, job, at, opmode, irq>>
    BY <1>1 DEF vars, os, radio
  <2>2. QED BY <2>1, ListsKept DEF TimerInv, JobTaken, Flag
<1>2. CASE Processor
  BY <1>2, PollStep, PickStep, TxjobStep, RadioStep, RearmStep, ListeningStep
  DEF Processor, Callback
<1>3. CASE TxDone \/ Tick \/ \E f \in Frames : Receive(f)
  BY <1>3, OutsideStep
<1>4. QED BY <1>1, <1>2, <1>3 DEF Next

(* The timer is on one list at most and never shares one; while its        *)
(* callback runs it is armed by nobody else.                               *)
THEOREM TimerInvariant == Spec => []TimerInv
BY TimerInit, TimerStep, PTL DEF Spec

(* In the node as in the run loop alone, no job is linked twice.           *)
THEOREM JobsQueuedOnce == Spec => []OS!QueuedOnce
<1>1. TimerInv => OS!QueuedOnce
  BY DEF TimerInv, Lists, AfterSetup, OS!QueuedOnce, OS!Distinct
<1>2. QED BY <1>1, TimerInvariant, PTL

(* In the interval between an echo request and its reply, nothing the node *)
(* does by itself touches the request in LMIC.frame, whatever the other    *)
(* stations send and whenever the pins are polled.                         *)
THEOREM RequestStaysInFrame == Spec => ReplyUntouched
<1>1. ASSUME TimerInv, [Next]_vars, EchoPending, frame = asked,
             ~(poll /\ irq = "RXDONE")
      PROVE  frame' = asked
  <2>1. job # "txjob"
    <3>1. "txjob" \notin ToSet(<<>>)
      BY InEmpty
    <3>2. QED BY <1>1, <3>1 DEF EchoPending, TimerInv, JobTaken
  <2>2. at # "send" /\ \A cb \in TxjobCallbacks : ~Calls(cb)
    BY <1>1, <2>1, CallsJob DEF TimerInv, JobTaken
  <2>3. ~Send /\ ~Echo_replay
    BY <2>2 DEF Send, Echo_replay, Running, TxjobCallbacks
  <2>4. CASE hal_io_check
    BY <1>1, <2>4 DEF hal_io_check, TimerInv, Flag
  <2>5. CASE [Next]_vars /\ ~hal_io_check
    BY <1>1, <2>3, <2>5
    DEF Next, Processor, Callback, Pick, CallNothing, Router_Solicitation,
        Neighbor_Solicitation, StopSoliciting, Rearm, tx_done, listening_mode,
        Relisten, TxDone, Tick, Receive, vars
  <2>6. QED BY <1>1, <2>4, <2>5
<1>2. TimerInv /\ [Next]_vars =>
        [EchoPending /\ EchoPending' /\ frame = asked /\ ~(poll /\ irq = "RXDONE")
           => frame' = asked]_vars
  BY <1>1
<1>3. QED BY <1>2, TimerInvariant, PTL DEF Spec, ReplyUntouched
-----------------------------------------------------------------------------
(* The data next to the lists: frames of the link, the buffer of tx, the   *)
(* globals of the sketch.                                                  *)
DataOK ==
  /\ poll \in BOOLEAN /\ halted \in BOOLEAN
  /\ opmode \in {"SLEEP", "STANDBY", "RX", "TX"}
  /\ fifo \in AnyFrame /\ frame \in AnyFrame /\ asked \in AnyFrame
  /\ str = ToAlias \/ str \in AnyFrame
  /\ solicitation \in {0, 1}
  /\ src_NS \in Addresses /\ target_ND \in Addresses

LEMMA NoiseIsFrame == Noise \in AnyFrame
BY DEF Noise, AnyFrame, Addresses

LEMMA SolicitationIsFrame ==
  ASSUME NEW type \in 0..7, NEW global \in BOOLEAN, NEW target \in Addresses
  PROVE  Solicitation(type, global, target) \in AnyFrame
BY DEF Solicitation, AnyFrame, Addresses

(* The reply has a type of three bits again.                               *)
LEMMA ReplyIsFrame ==
  ASSUME NEW f \in AnyFrame
  PROVE  AsReply(f) \in AnyFrame
<1>1. f.type \in 0..7
  BY DEF AnyFrame
<1>2. (IF f.type % 2 = 0 THEN f.type + 1 ELSE f.type) \in 0..7
  BY <1>1
<1>3. QED BY <1>2 DEF AsReply, AnyFrame

(* A field of a frame has the type of the field.                           *)
LEMMA FrameFields ==
  ASSUME NEW f \in AnyFrame
  PROVE  f.src \in Addresses /\ f.target \in Addresses
BY DEF AnyFrame

LEMMA DataInit == Init => DataOK
BY NoiseIsFrame DEF Init, DataOK, Addresses

(* Every step of the node and of the air keeps the data well typed.        *)
LEMMA DataStep ==
  ASSUME DataOK, [Next]_vars
  PROVE  DataOK'
<1>1. CASE hal_io_check
  BY <1>1, NoiseIsFrame DEF hal_io_check, DataOK, radio, nd
<1>2. CASE Pick \/ CallNothing \/ StopSoliciting \/ Rearm
  BY <1>2 DEF Pick, CallNothing, StopSoliciting, Rearm, DataOK, radio, nd
<1>3. CASE Router_Solicitation
  <2>1. 2 \in 0..7 /\ FALSE \in BOOLEAN /\ "none" \in Addresses
    BY DEF Addresses
  <2>2. Solicitation(2, FALSE, "none") \in AnyFrame
    BY <2>1, SolicitationIsFrame, Zenon
  <2>3. QED BY <1>3, <2>2 DEF Router_Solicitation, BeginTx, DataOK, nd
<1>4. CASE Neighbor_Solicitation
  <2>1. 4 \in 0..7 /\ TRUE \in BOOLEAN /\ src_NS \in Addresses
    BY DEF DataOK
  <2>2. Solicitation(4, TRUE, src_NS) \in AnyFrame
    BY <2>1, SolicitationIsFrame, Zenon
  <2>3. QED BY <1>4, <2>2 DEF Neighbor_Solicitation, BeginTx, DataOK
<1>5. CASE Echo_replay
  BY <1>5, ReplyIsFrame DEF Echo_replay, BeginTx, DataOK, nd
<1>6. CASE Send
  <2>1. frame' \in AnyFrame
    BY <1>6 DEF Send, DataOK
  <2>2. QED BY <1>6, <2>1 DEF Send, StartRadio, DataOK, radio, nd
<1>7. CASE tx_done \/ Relisten
  BY <1>7 DEF tx_done, Relisten, rx, StartRadio, DataOK, radio, nd
<1>8. CASE listening_mode
  <2>1. /\ UNCHANGED <<halted, radio, frame, str>>
        /\ poll' \in {poll, TRUE} /\ asked' \in {asked, frame}
        /\ solicitation' \in {solicitation, 0, 1}
        /\ src_NS' \in {src_NS, frame.src, "zero"}
        /\ target_ND' \in {target_ND, frame.target, "zero"}
    BY <1>8
    DEF listening_mode, HearEchoRequest, HearRouterAdvertisement,
        HearNeighborSolicitation, HearNeighborAdvertisement, HearOther, nd
  <2>2. frame.src \in Addresses /\ frame.target \in Addresses /\ "zero" \in Addresses
    BY FrameFields DEF DataOK, Addresses
  <2>3. QED BY <2>1, <2>2 DEF DataOK, radio
<1>9. CASE TxDone \/ Tick
  BY <1>9 DEF TxDone, Tick, DataOK, radio, nd
<1>10. ASSUME NEW f \in Frames, Receive(f)
       PROVE  DataOK'
  BY <1>10, FramesAssumption DEF Receive, DataOK, nd
<1>11. CASE UNCHANGED vars
  BY <1>11 DEF vars, DataOK, radio, nd
<1>12. QED
  BY <1>1, <1>2, <1>3, <1>4, <1>5, <1>6, <1>7, <1>8, <1>9, <1>10, <1>11
  DEF Next, Processor, Callback

(* Every variable of the node keeps its type, whatever stations transmit.  *)
THEOREM NodeTypes == Spec => []TypeOK
<1>1. <<>> \in Seq(Jobs) /\ <<"txjob">> \in Seq(Jobs) /\ <<"osjob">> \in Seq(Jobs)
  BY DEF Jobs
<1>2. TimerInv => func \in [Jobs -> Callbacks]
  BY DEF TimerInv, CallbacksApart, Jobs, Callbacks, TxjobCallbacks, OsjobCallbacks
<1>3. TimerInv /\ DataOK => TypeOK
  BY <1>1, <1>2 DEF TimerInv, DataOK, TypeOK, Lists, JobTaken, Flag
<1>4. Init => DataOK
  BY DataInit
<1>5. DataOK /\ [Next]_vars => DataOK'
  BY DataStep
<1>6. QED BY <1>3, <1>4, <1>5, TimerInvariant, PTL DEF Spec
=============================================================================
