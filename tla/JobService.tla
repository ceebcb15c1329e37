----------------------------- MODULE JobService -----------------------------
(***************************************************************************)
(* What a user of oslmic.h is promised, without lists: a job is idle, or   *)
(* armed to run as soon as possible, or armed for a time.  The last call   *)
(* for a job decides.  One arming is one execution, never before the       *)
(* time; a job that is ready goes before the timed ones, and of the timed  *)
(* ones the earliest deadline goes first.                                  *)
(***************************************************************************)
EXTENDS Integers

CONSTANTS Jobs, Callbacks, NoJob, NoCallback, HalfRange

VARIABLES
  armed,     (* "idle", "ready" or "timed", for each job                   *)
  deadline,
  func,
  now,
  taken,     (* the job being executed                                     *)
  running    (* its function                                               *)

vars == <<armed, deadline, func, now, taken, running>>

Ticks == (-HalfRange)..(HalfRange - 1)

Difference(a, b) ==
  IF a - b >= HalfRange THEN a - b - 2 * HalfRange
  ELSE IF a - b < -HalfRange THEN a - b + 2 * HalfRange ELSE a - b

Arm(j, cb) ==
  /\ armed' = [armed EXCEPT ![j] = "ready"]
  /\ func' = [func EXCEPT ![j] = cb]
  /\ UNCHANGED <<deadline, now, taken, running>>

ArmAt(j, time, cb) ==
  /\ armed' = [armed EXCEPT ![j] = "timed"]
  /\ deadline' = [deadline EXCEPT ![j] = time]
  /\ func' = [func EXCEPT ![j] = cb]
  /\ UNCHANGED <<now, taken, running>>

Disarm(j) ==
  /\ armed' = [armed EXCEPT ![j] = "idle"]
  /\ UNCHANGED <<deadline, func, now, taken, running>>

(* Which job may be taken.                                                 *)
Due(j) ==
  \/ armed[j] = "ready"
  \/ /\ armed[j] = "timed"
     /\ Difference(deadline[j], now) <= 0
     /\ \A k \in Jobs :
          /\ armed[k] # "ready"
          /\ armed[k] = "timed" => Difference(deadline[j], deadline[k]) <= 0

Take(j) ==
  /\ taken = NoJob
  /\ Due(j)
  /\ taken' = j
  /\ armed' = [armed EXCEPT ![j] = "idle"]
  /\ UNCHANGED <<deadline, func, now, running>>

Run ==
  /\ taken # NoJob
  /\ running = NoCallback
  /\ running' = func[taken]
  /\ UNCHANGED <<armed, deadline, func, now, taken>>

Finish ==
  /\ running # NoCallback
  /\ running' = NoCallback
  /\ taken' = NoJob
  /\ UNCHANGED <<armed, deadline, func, now>>

Tick ==
  /\ now' \in Ticks
  /\ Difference(now', now) = 1
  /\ UNCHANGED <<armed, deadline, func, taken, running>>

Init ==
  /\ armed = [j \in Jobs |-> "idle"]
  /\ deadline \in [Jobs -> Ticks]
  /\ func \in [Jobs -> Callbacks]
  /\ now \in Ticks
  /\ taken = NoJob
  /\ running = NoCallback

Next ==
  \/ \E j \in Jobs :
       \/ Take(j)
       \/ Disarm(j)
       \/ \E cb \in Callbacks :
            \/ Arm(j, cb)
            \/ \E time \in Ticks : ArmAt(j, time, cb)
  \/ Run
  \/ Finish
  \/ Tick

Spec == Init /\ [][Next]_vars
=============================================================================
