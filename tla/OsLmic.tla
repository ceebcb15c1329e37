------------------------------- MODULE OsLmic -------------------------------
(***************************************************************************)
(* The run-time of the end device, end-device/src/lmic/oslmic.c: one       *)
(* cooperative run loop over two linked lists of jobs, the runnable ones   *)
(* (first come, first served) and the timed ones (ordered by deadline).    *)
(*                                                                         *)
(* Interrupts are disabled inside every os_ function, so each one is one   *)
(* step.  hal_enableIRQs polls the radio pins, so the radio's handler can  *)
(* call os_setCallback between the moment the loop has unlinked a job and  *)
(* the moment it calls it: the pc value "picked" is that window.           *)
(*                                                                         *)
(* Time is ostime_t, a signed integer of 2 * HalfRange values.             *)
(***************************************************************************)
EXTENDS Integers, SequencesExt

CONSTANTS
  Jobs,        (* the osjob_t structures of the program                    *)
  Callbacks,   (* the functions a job may run                              *)
  NoJob,       (* j == NULL in os_runloop_once                             *)
  NoCallback,  (* no callback is being executed                            *)
  HalfRange,   (* 2^31 in the code                                         *)
  MaxAhead,    (* bound: a job is armed at most this far in the future     *)
  MaxLate,     (* bound: the loop is never later than this for a timed job *)
  CmpWraps     (* the build evaluates the signed "deadline - time" modulo  *)
               (* 2^32; FALSE: it compares deadline > time, which C allows *)

ASSUME JobsAssumption == NoJob \notin Jobs
ASSUME CallbacksAssumption == NoCallback \notin Callbacks
ASSUME HalfRangeAssumption == HalfRange \in Nat \ {0, 1}
ASSUME WindowAssumption == /\ MaxAhead \in Nat
                           /\ MaxLate \in Nat
                           /\ MaxAhead + MaxLate < HalfRange
ASSUME BuildAssumption == CmpWraps \in BOOLEAN

VARIABLES
  scheduledjobs,  (* OS.scheduledjobs, the timed jobs                      *)
  runnablejobs,   (* OS.runnablejobs                                       *)
  deadline,       (* osjob_t.deadline of each job                          *)
  func,           (* osjob_t.func of each job                              *)
  now,            (* hal_ticks(), as an ostime_t                           *)
  pc,             (* "loop", "picked" (irqs enabled, not called), "called" *)
  job,            (* j in os_runloop_once                                  *)
  running         (* the function j->func(j) called                        *)

queues == <<scheduledjobs, runnablejobs, deadline, func>>
loop == <<pc, job, running>>
vars == <<scheduledjobs, runnablejobs, deadline, func, now, pc, job, running>>

Ticks == (-HalfRange)..(HalfRange - 1)

(* Mutant: the highest value is taken for one of 33 bits.                  *)
WrapOffByOne(x) == IF x > HalfRange THEN x - 2 * HalfRange
                   ELSE IF x < -HalfRange THEN x + 2 * HalfRange ELSE x

(* Reduction of a sum or difference of two ticks to 32 bits.               *)
Wrap(x) == IF x >= HalfRange THEN x - 2 * HalfRange
           ELSE IF x < -HalfRange THEN x + 2 * HalfRange ELSE x

(* The test of os_setTimedCallback: next->deadline - time > 0.              *)
Later(a, b) == IF CmpWraps THEN Wrap(a - b) > 0 ELSE a > b

(* hal_checkTimer, on unsigned values and so always modulo 2^32.           *)
Expired(time) == Wrap(time - now) <= 0

-----------------------------------------------------------------------------
(* unlinkjob: the first element that is the job leaves the list.           *)
IndexOf(queue, j) == CHOOSE i \in DOMAIN queue : queue[i] = j
Unlink(queue, j) ==
  IF j \in ToSet(queue) THEN RemoveAt(queue, IndexOf(queue, j)) ELSE queue

(* Mutant: a job that is queued to run is not unlinked when it is armed.   *)
RunnableKept(j) == runnablejobs

(* unlinkjob(scheduled) || unlinkjob(runnable): the second list is looked  *)
(* at only when the job was not in the first.                              *)
ScheduledWithout(j) == Unlink(scheduledjobs, j)
RunnableWithout(j) ==
  IF j \in ToSet(scheduledjobs) THEN runnablejobs ELSE Unlink(runnablejobs, j)

(* Mutant: a timed job is appended, as in os_setCallback.                  *)
InsertLast(queue, time) == Len(queue) + 1

(* The position before the first job with a later deadline, or the end.    *)
InsertIndex(queue, time) ==
  CHOOSE n \in 1..(Len(queue) + 1) :
    /\ \A i \in 1..(n - 1) : ~Later(deadline[queue[i]], time)
    /\ n <= Len(queue) => Later(deadline[queue[n]], time)

os_clearCallback(j) ==
  /\ scheduledjobs' = ScheduledWithout(j)
  /\ runnablejobs' = RunnableWithout(j)
  /\ UNCHANGED <<deadline, func>>

(* Mutant: a runnable job is put in front of the others.                   *)
os_setCallbackFirst(j, cb) ==
  /\ scheduledjobs' = ScheduledWithout(j)
  /\ runnablejobs' = <<j>> \o RunnableWithout(j)
  /\ func' = [func EXCEPT ![j] = cb]
  /\ UNCHANGED deadline

os_setCallback(j, cb) ==
  /\ scheduledjobs' = ScheduledWithout(j)
  /\ runnablejobs' = Append(RunnableWithout(j), j)
  /\ func' = [func EXCEPT ![j] = cb]
  /\ UNCHANGED deadline

os_setTimedCallback(j, time, cb) ==
  LET rest == ScheduledWithout(j)
  IN  /\ scheduledjobs' = InsertAt(rest, InsertIndex(rest, time), j)
      /\ runnablejobs' = RunnableWithout(j)
      /\ deadline' = [deadline EXCEPT ![j] = time]
      /\ func' = [func EXCEPT ![j] = cb]

(* os_runloop_once up to hal_enableIRQs: a runnable job first, else the    *)
(* first timed job if its deadline has passed, else nothing.               *)
PickRunnable ==
  /\ runnablejobs # <<>>
  /\ job' = Head(runnablejobs)
  /\ runnablejobs' = Tail(runnablejobs)
  /\ UNCHANGED scheduledjobs

(* Mutant: a timed job is taken although a job is runnable.                *)
PickTimedFirst ==
  /\ scheduledjobs # <<>>
  /\ Expired(deadline[Head(scheduledjobs)])
  /\ job' = Head(scheduledjobs)
  /\ scheduledjobs' = Tail(scheduledjobs)
  /\ UNCHANGED runnablejobs

PickTimed ==
  /\ runnablejobs = <<>>
  /\ scheduledjobs # <<>>
  /\ Expired(deadline[Head(scheduledjobs)])
  /\ job' = Head(scheduledjobs)
  /\ scheduledjobs' = Tail(scheduledjobs)
  /\ UNCHANGED runnablejobs

PickNothing ==
  /\ runnablejobs = <<>>
  /\ scheduledjobs # <<>> => ~Expired(deadline[Head(scheduledjobs)])
  /\ job' = NoJob
  /\ UNCHANGED <<scheduledjobs, runnablejobs>>

Pick ==
  /\ pc = "loop"
  /\ PickRunnable \/ PickTimed \/ PickNothing
  /\ pc' = "picked"
  /\ UNCHANGED <<deadline, func, now, running>>

(* "if(j) j->func(j)": func is read here, after the poll of the pins.      *)
Call ==
  /\ pc = "picked"
  /\ IF job = NoJob
     THEN pc' = "loop" /\ UNCHANGED running
     ELSE pc' = "called" /\ running' = func[job]
  /\ UNCHANGED <<scheduledjobs, runnablejobs, deadline, func, now, job>>

Return ==
  /\ pc = "called"
  /\ pc' = "loop"
  /\ job' = NoJob
  /\ running' = NoCallback
  /\ UNCHANGED <<scheduledjobs, runnablejobs, deadline, func, now>>
-----------------------------------------------------------------------------
(* The callers: a callback or setup() (pc "called"), or the interrupt      *)
(* handler in the window of os_runloop_once (pc "picked").  A time is a    *)
(* sum of the clock and a delay, as in "os_getTime() + ms2osticks(...)".   *)
CallerActive == pc \in {"picked", "called"}

SetCallback(j, cb) ==
  /\ CallerActive
  /\ os_setCallback(j, cb)
  /\ UNCHANGED <<now, pc, job, running>>

SetTimedCallback(j, time, cb) ==
  /\ CallerActive
  /\ os_setTimedCallback(j, time, cb)
  /\ UNCHANGED <<now, pc, job, running>>

ClearCallback(j) ==
  /\ CallerActive
  /\ os_clearCallback(j)
  /\ UNCHANGED <<now, pc, job, running>>

(* The clock runs at any time, as long as no timed job becomes later than  *)
(* the bound MaxLate.                                                      *)
Tick ==
  /\ \A i \in DOMAIN scheduledjobs :
       Wrap(deadline[scheduledjobs[i]] - now) > -MaxLate
  /\ now' = Wrap(now + 1)
  /\ UNCHANGED <<scheduledjobs, runnablejobs, deadline, func, pc, job, running>>

(* os_init clears the lists; setup() then arms the first job, as a caller. *)
Init ==
  /\ scheduledjobs = <<>>
  /\ runnablejobs = <<>>
  /\ deadline = [j \in Jobs |-> 0]
  /\ func \in [Jobs -> Callbacks]
  /\ now \in Ticks
  /\ pc = "called"
  /\ job = NoJob
  /\ running = NoCallback

Next ==
  \/ Pick
  \/ Call
  \/ Return
  \/ Tick
  \/ \E j \in Jobs :
       \/ ClearCallback(j)
       \/ \E cb \in Callbacks :
            \/ SetCallback(j, cb)
            \/ \E delay \in (-MaxLate)..MaxAhead :
                 SetTimedCallback(j, Wrap(now + delay), cb)

Spec == Init /\ [][Next]_vars

(* loop() runs forever and callbacks return: nothing in oslmic.c blocks.   *)
Fairness == WF_vars(Pick) /\ WF_vars(Call) /\ WF_vars(Return)
FairSpec == Spec /\ Fairness
-----------------------------------------------------------------------------
TypeOK ==
  /\ scheduledjobs \in Seq(Jobs)
  /\ runnablejobs \in Seq(Jobs)
  /\ deadline \in [Jobs -> Ticks]
  /\ func \in [Jobs -> Callbacks]
  /\ now \in Ticks
  /\ pc \in {"loop", "picked", "called"}
  /\ job \in Jobs \union {NoJob}
  /\ running \in Callbacks \union {NoCallback}

(* No job is linked twice: osjob_t has one next pointer, so a job linked   *)
(* in both lists, or twice in one, would join the lists or make a cycle.   *)
Distinct(queue) ==
  \A i, k \in DOMAIN queue : queue[i] = queue[k] => i = k

QueuedOnce ==
  /\ Distinct(scheduledjobs)
  /\ Distinct(runnablejobs)
  /\ \A i \in DOMAIN scheduledjobs, k \in DOMAIN runnablejobs :
       scheduledjobs[i] # runnablejobs[k]

(* The list of timed jobs is ordered by deadline, across the wrap of the   *)
(* clock: the run loop looks at its head only, so a job behind a later one *)
(* would be late.                                                          *)
SortedSchedule ==
  \A i, k \in DOMAIN scheduledjobs :
    i < k => Wrap(deadline[scheduledjobs[i]] - deadline[scheduledjobs[k]]) <= 0

(* A runnable job does not stay behind other jobs for ever, unless it is   *)
(* itself armed again and again (each arming moves it to the end).         *)
RunnableServed ==
  \A j \in Jobs :
    \/ []<><<\E cb \in Callbacks : SetCallback(j, cb)>>_vars
    \/ (j \in ToSet(runnablejobs)) ~> (j \notin ToSet(runnablejobs))
-----------------------------------------------------------------------------
(* What the two lists promise, see module JobService.                      *)
armed ==
  [j \in Jobs |-> IF j \in ToSet(runnablejobs) THEN "ready"
                  ELSE IF j \in ToSet(scheduledjobs) THEN "timed"
                  ELSE "idle"]

Service == INSTANCE JobService WITH taken <- job

(* The run loop implements the job service.                                *)
ServiceSpec == Service!Spec
=============================================================================
