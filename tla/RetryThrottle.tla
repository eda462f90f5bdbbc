--------------------------- MODULE RetryThrottle ----------------------------
(***************************************************************************)
(* crates/irlume-daemon/src/retry_throttle.rs: the durable retry record of *)
(* one account, and the face attempt that is charged to it before any      *)
(* frame is looked at.                                                     *)
(*                                                                         *)
(* An operation holds the account's .operation flock (non-blocking, so a   *)
(* second one is refused and changes nothing) from its first step to its   *)
(* last: one program counter stands for whichever operation holds it.      *)
(* Time passes, the daemon dies and the machine loses power between any    *)
(* two steps.  A record has the contents a reader sees and the contents    *)
(* that survive a power loss.                                              *)
(***************************************************************************)
EXTENDS Integers

CONSTANTS FACE_LIMIT,         \* unsuccessful requests before a reset is required
          Limits, Durations,  \* the values Policy::configured may return
          NoCooldown,         \* Record::cooldown is None
          MaxNow, MaxBoot     \* bounds of the model: clock per boot, boots

Cooldown == [boot : Nat, deadline : Nat, duration : Nat \ {0}]

ASSUME RetryConstants ==
  /\ FACE_LIMIT \in Nat \ {0}
  /\ Limits \subseteq Nat \ {0}
  /\ Durations \subseteq Nat \ {0}
  /\ MaxNow \in Nat /\ MaxBoot \in Nat
  /\ NoCooldown \notin Cooldown

VARIABLES face, faceDisk,  \* the record as read, and as a power loss leaves it
          boot, now,       \* boot id and CLOCK_MONOTONIC
          pc,              \* what the holder of the operation lock does next
          tick,            \* the clock reading check uses
          policy,          \* the policy this operation was configured with
          began,           \* history: attempts begun since the last reset
          failed           \* history: attempts since then, or since the last
                           \* cooldown, that ended and were not let off

faceVars == <<face, faceDisk>>
clockVars == <<boot, now>>
retryVars == <<face, faceDisk, boot, now, pc, tick, policy, began, failed>>

Tick == [boot : 0..MaxBoot, nanos : 0..MaxNow]
Policy == [limit : Limits, seconds : Durations]

\* budget: whether Record::budget is Some; its two fields are then meaningful.
Record == [strikes : Nat, cooldown : Cooldown \cup {NoCooldown},
           budget : BOOLEAN, count : Nat, pending : BOOLEAN]

Empty == [strikes |-> 0, cooldown |-> NoCooldown, budget |-> FALSE, count |-> 0, pending |-> FALSE]
Reset == [Empty EXCEPT !.budget = TRUE]

\* Record::validate, for what a transition can get wrong.
validate(rec) ==
  /\ rec.count <= FACE_LIMIT
  /\ rec.pending => rec.count > 0
  /\ ~rec.budget => rec.count = 0 /\ ~rec.pending
  /\ rec.cooldown # NoCooldown => rec.strikes = 0 /\ rec.cooldown.deadline >= rec.cooldown.duration

RetryInit ==
  /\ face = Empty /\ faceDisk = Empty
  /\ boot = 0 /\ now = 0
  /\ pc = "idle" /\ tick = [boot |-> 0, nanos |-> 0]
  /\ policy \in Policy
  /\ began = 0 /\ failed = 0

-----------------------------------------------------------------------------
arm(rec, t, duration) ==
  [rec EXCEPT !.strikes = 0,
              !.cooldown = [boot |-> t.boot, deadline |-> t.nanos + duration,
                            duration |-> duration]]

strike(rec, t) ==
  IF rec.cooldown # NoCooldown THEN rec
  ELSE IF rec.strikes + 1 >= policy.limit THEN arm(rec, t, policy.seconds)
  ELSE [rec EXCEPT !.strikes = @ + 1]

\* Faulty variant: an abandoned attempt costs nothing.
settle_forgiving(rec, t) == [rec EXCEPT !.pending = FALSE]

settle_abandoned(rec, t) ==
  IF rec.pending THEN strike([rec EXCEPT !.pending = FALSE], t) ELSE rec

\* The cooldown as check leaves it at reading t: started over in a new boot,
\* lifted once it is over, armed by a threshold that was lowered meanwhile.
refresh(rec, t) ==
  IF rec.cooldown = NoCooldown
  THEN IF rec.strikes >= policy.limit THEN arm(rec, t, policy.seconds) ELSE rec
  ELSE IF rec.cooldown.boot # t.boot THEN arm(rec, t, rec.cooldown.duration)
  ELSE IF t.nanos >= rec.cooldown.deadline
  THEN [rec EXCEPT !.cooldown = NoCooldown, !.strikes = 0]
  ELSE rec

\* check's refusal: "Clock moved backwards or impossible deadline".
backwards(rec, t) ==
  /\ rec.cooldown # NoCooldown
  /\ rec.cooldown.boot = t.boot
  /\ rec.cooldown.deadline - t.nanos > rec.cooldown.duration

limited(rec, t) ==
  \/ rec.budget /\ rec.count >= FACE_LIMIT
  \/ rec.cooldown # NoCooldown /\ t.nanos < rec.cooldown.deadline

Clock == [boot |-> boot, nanos |-> now]

\* Faulty variant: a record that is only visible lets the operation go on.
CommitVisible(rec, next) ==
  /\ face' = rec
  /\ pc' = next
  /\ faceDisk' \in {face, rec}

\* read makes what it read durable; commit then publishes rec durably and the
\* operation goes on to next, or visibly only and the operation fails.
Commit(rec, next) ==
  /\ face' = rec
  /\ \/ faceDisk' = rec /\ pc' = next
     \/ faceDisk' = face /\ pc' = "idle"

\* Faulty variant: the clock is the one an earlier operation read.
BeginCached ==
  /\ pc = "idle"
  /\ policy' \in Policy
  /\ pc' = "check"
  /\ UNCHANGED <<faceVars, clockVars, tick, began, failed>>

\* FaceAttempt::begin takes the operation lock; check reads the clock before
\* it waits for the directory's lock.
Begin ==
  /\ pc = "idle"
  /\ policy' \in Policy
  /\ tick' = Clock
  /\ pc' = "check"
  /\ UNCHANGED <<faceVars, clockVars, began, failed>>

\* A record that enters or leaves a cooldown starts its strikes over.
Forgives(rec) == rec.cooldown # face.cooldown

Check ==
  /\ pc = "check"
  /\ LET settled == settle_abandoned(face, tick)
         rec == refresh(settled, tick)
         next == IF limited(rec, tick) THEN "idle" ELSE "charge"
     IN  /\ ~backwards(settled, tick)
         /\ IF rec # face THEN Commit(rec, next)
            ELSE pc' = next /\ faceDisk' = face /\ UNCHANGED face
         /\ failed' = IF Forgives(rec) THEN 0 ELSE failed
  /\ UNCHANGED <<clockVars, tick, policy, began>>

\* Faulty variant: the charge is written without waiting for the disk.
ChargeLate ==
  /\ pc = "charge" /\ face.count < FACE_LIMIT
  /\ CommitVisible([face EXCEPT !.budget = TRUE, !.count = @ + 1, !.pending = TRUE], "face")
  /\ began' = began + 1
  /\ UNCHANGED <<clockVars, tick, policy, failed>>

\* The reservation: face work starts only once it is durable.
Charge ==
  /\ pc = "charge" /\ face.count < FACE_LIMIT
  /\ Commit([face EXCEPT !.budget = TRUE, !.count = @ + 1, !.pending = TRUE], "face")
  /\ began' = IF pc' = "face" THEN began + 1 ELSE began
  /\ UNCHANGED <<clockVars, tick, policy, failed>>

\* denied: five outcomes, such as NoFace and SetupUnavailable, do not strike;
\* every other one does, an expired deadline and a failed runtime included.
Denied(strikes) ==
  /\ pc = "face" /\ face.pending
  /\ LET released == [face EXCEPT !.pending = FALSE]
         rec == IF strikes THEN strike(released, Clock) ELSE released
     IN  /\ Commit(rec, "idle")
         /\ failed' = IF Forgives(rec) THEN 0 ELSE IF strikes THEN failed + 1 ELSE failed
  /\ UNCHANGED <<clockVars, tick, policy, began>>

\* delivered: the grant was written to its client, and history starts over.
Delivered ==
  /\ pc = "face" /\ face.pending
  /\ Commit(Reset, "idle")
  /\ began' = 0 /\ failed' = 0
  /\ UNCHANGED <<clockVars, tick, policy>>

-----------------------------------------------------------------------------
\* An attempt that ends without an outcome keeps its charge, to be settled.
Ambiguous == failed' = IF pc = "face" THEN failed + 1 ELSE failed

\* The operation ends here: an I/O error, a refusal, the attempt dropped without
\* an outcome, or the daemon's death.  A read may have made the record durable.
Stops ==
  /\ pc # "idle"
  /\ pc' = "idle"
  /\ faceDisk' \in {faceDisk, face}
  /\ Ambiguous
  /\ UNCHANGED <<face, clockVars, tick, policy, began>>

TimePasses ==
  /\ now < MaxNow
  /\ now' = now + 1
  /\ UNCHANGED <<faceVars, boot, pc, tick, policy, began, failed>>

\* A reboot or power loss: what was only visible may or may not be there.
PowerLoss ==
  /\ boot < MaxBoot
  /\ boot' = boot + 1 /\ now' = 0
  /\ face' \in {face, faceDisk} /\ faceDisk' = face'
  /\ pc' = "idle"
  /\ Ambiguous
  /\ UNCHANGED <<tick, policy, began>>

FaceNext ==
  \/ Begin \/ Check \/ Charge \/ Delivered \/ \E strikes \in BOOLEAN : Denied(strikes)
  \/ Stops \/ TimePasses \/ PowerLoss

FaceSpec == RetryInit /\ [][FaceNext]_retryVars

-----------------------------------------------------------------------------
FacePc == {"idle", "check", "charge", "face"}

(* Both copies of the record are records validate accepts, so no commit is *)
(* ever refused by its own validation.                                     *)
RetryTypeOK ==
  /\ face \in Record /\ faceDisk \in Record
  /\ validate(face) /\ validate(faceDisk)
  /\ boot \in 0..MaxBoot /\ now \in 0..MaxNow
  /\ tick \in Tick /\ policy \in Policy
  /\ began \in Nat /\ failed \in Nat

(* Face work is paid for in advance and for good: whatever crashes, lost   *)
(* writes and power losses happen, both copies of the record account for   *)
(* every attempt begun since the last confirmed reset, so there are never  *)
(* more than FACE_LIMIT of them.                                           *)
ChargedForGood ==
  /\ began <= face.count /\ began <= faceDisk.count
  /\ began <= FACE_LIMIT

Remembered(rec) ==
  rec.cooldown = NoCooldown => failed <= rec.strikes + (IF rec.pending THEN 1 ELSE 0)

(* No failure is forgotten: an attempt that ended with a denial that       *)
(* strikes, or without an outcome, is a strike or a pending                *)
(* charge in both copies of the record until a cooldown or a reset; and    *)
(* while a face is looked at fewer than policy.limit such attempts lie     *)
(* behind it and no cooldown runs.                                         *)
FailuresRemembered ==
  /\ Remembered(face) /\ Remembered(faceDisk)
  /\ pc = "face" => failed < policy.limit /\ face.cooldown = NoCooldown

(* check reads the clock before it waits for the directory lock, yet it    *)
(* never meets a cooldown from its own future, which it would report as a  *)
(* clock that moved backwards and refuse face for good.                    *)
ClockNeverBackwards ==
  pc = "check" => ~backwards(settle_abandoned(face, tick), tick)

\* A cooldown of this boot ends within its duration from instant t.
FromThePast(rec, t) ==
  rec.cooldown # NoCooldown =>
    /\ rec.cooldown.boot <= boot
    /\ rec.cooldown.boot = boot => rec.cooldown.deadline <= t + rec.cooldown.duration

\* The inductive invariant behind the three.
RetryInv ==
  /\ RetryTypeOK
  /\ ChargedForGood
  /\ Remembered(face) /\ Remembered(faceDisk)
  /\ FromThePast(face, now) /\ FromThePast(faceDisk, now)
  /\ pc = "check" => tick.boot = boot /\ tick.nanos <= now /\ FromThePast(face, tick.nanos)
  /\ pc \in {"charge", "face"} =>
       failed <= face.strikes /\ face.strikes < policy.limit /\ face.cooldown = NoCooldown
  /\ pc = "face" => face.pending /\ faceDisk = face
=============================================================================
