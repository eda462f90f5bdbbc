--------------------------- MODULE RetryRecovery ----------------------------
(***************************************************************************)
(* crates/irlume-daemon/src/retry_throttle/recovery.rs and                 *)
(* retry_recovery.rs: resetting the face budget by the account password or *)
(* as root.  Password guesses are charged to a second durable file, under  *)
(* the same operation lock as a face attempt.                              *)
(***************************************************************************)
EXTENDS RetryThrottle

CONSTANTS LIMIT, DELAY_AFTER, DELAY   \* guesses, free guesses, delay after those

ASSUME RecoveryConstants ==
  /\ LIMIT \in Nat \ {0} /\ DELAY_AFTER \in 1..LIMIT /\ DELAY \in Nat \ {0}

VARIABLES reset, resetDisk,  \* the .reset.json file, as read and as a power loss leaves it
          guesses,           \* history: verifications begun since the guesses were reset
          ended              \* history: when the last verification ended

resetVars == <<reset, resetDisk>>
recoveryVars == <<retryVars, resetVars, guesses, ended>>

Attempts == [failures : Nat, pending : BOOLEAN, cooldown : Cooldown \cup {NoCooldown}]
NoAttempts == [failures |-> 0, pending |-> FALSE, cooldown |-> NoCooldown]

\* Attempts::validate
validAttempts(a) ==
  /\ a.failures <= LIMIT
  /\ a.pending => a.failures > 0
  /\ a.cooldown # NoCooldown =>
       /\ a.cooldown.duration = DELAY /\ a.cooldown.deadline >= DELAY
       /\ a.failures >= DELAY_AFTER

RecoveryInit ==
  /\ RetryInit
  /\ reset = NoAttempts /\ resetDisk = NoAttempts
  /\ guesses = 0
  /\ ended = [boot |-> 0, nanos |-> 0]

\* Faulty variant: a guess that was never answered arms no delay.
settle_unarmed(a, t) ==
  IF a.cooldown # NoCooldown /\ t.nanos >= a.cooldown.deadline
  THEN [a EXCEPT !.cooldown = NoCooldown, !.pending = FALSE]
  ELSE [a EXCEPT !.pending = FALSE]

\* Attempts::settle: the delay runs from the instant the guess is found ended,
\* starts over in a new boot, and is lifted when it is over.
settle(a, t) ==
  IF a.pending \/ (a.cooldown # NoCooldown /\ a.cooldown.boot # t.boot)
  THEN [a EXCEPT !.pending = FALSE,
                 !.cooldown = IF a.failures < DELAY_AFTER THEN @
                              ELSE [boot |-> t.boot, deadline |-> t.nanos + DELAY, duration |-> DELAY]]
  ELSE IF a.cooldown # NoCooldown /\ t.nanos >= a.cooldown.deadline
  THEN [a EXCEPT !.cooldown = NoCooldown]
  ELSE a

\* settle's refusal of a delay from the future.
settles(a, t) == a.pending \/ ~backwards(a, t)

\* Recovery::commit, after a read that made the file durable.
CommitAttempts(a, next) ==
  /\ reset' = a
  /\ \/ resetDisk' = a /\ pc' = next
     \/ resetDisk' = reset /\ pc' = "idle"

\* Nothing to commit: the operation goes on.
Proceed(next) == resetDisk' = reset /\ UNCHANGED reset /\ pc' = next

-----------------------------------------------------------------------------
\* status_inner: the face record is settled first, then the guesses.  Reading a
\* file makes what was read durable.
OpenStatus ==
  /\ pc = "idle"
  /\ pc' = "status"
  /\ policy' \in Policy
  /\ UNCHANGED <<faceVars, clockVars, tick, began, failed, resetVars, guesses, ended>>

StatusFace ==
  /\ pc = "status"
  /\ tick' = Clock
  /\ LET rec == settle_abandoned(face, Clock)
     IN  /\ IF rec # face THEN Commit(rec, "status2")
            ELSE pc' = "status2" /\ faceDisk' = face /\ UNCHANGED face
         /\ failed' = IF Forgives(rec) THEN 0 ELSE failed
  /\ resetDisk' = reset
  /\ UNCHANGED <<clockVars, policy, began, reset, guesses, ended>>

StatusGuesses ==
  /\ pc = "status2" /\ settles(reset, tick)
  /\ LET a == settle(reset, tick)
     IN  IF a # reset THEN CommitAttempts(a, "idle") ELSE Proceed("idle")
  /\ UNCHANGED <<faceVars, clockVars, tick, policy, began, failed, guesses, ended>>

OpenReset(admin) ==
  /\ pc = "idle"
  /\ pc' = IF admin THEN "apply" ELSE "settle"
  /\ policy' \in Policy
  /\ UNCHANGED <<faceVars, clockVars, tick, began, failed, resetVars, guesses, ended>>

\* Faulty variant: only the delay blocks a guess, not the limit.
SettleResetUnlimited ==
  /\ pc = "settle" /\ settles(reset, Clock)
  /\ LET a == settle(reset, Clock)
         next == IF a.cooldown # NoCooldown THEN "idle" ELSE "guess"
     IN  IF a # reset THEN CommitAttempts(a, next) ELSE Proceed(next)
  /\ faceDisk' = face
  /\ UNCHANGED <<face, clockVars, tick, policy, began, failed, guesses, ended>>

\* The guesses are settled; at the limit or during a delay the reset is refused.
SettleReset ==
  /\ pc = "settle" /\ settles(reset, Clock)
  /\ LET a == settle(reset, Clock)
         next == IF a.failures >= LIMIT \/ a.cooldown # NoCooldown THEN "idle" ELSE "guess"
     IN  IF a # reset THEN CommitAttempts(a, next) ELSE Proceed(next)
  /\ faceDisk' = face
  /\ UNCHANGED <<face, clockVars, tick, policy, began, failed, guesses, ended>>

\* Faulty variant: a guess is charged when it has failed.
ChargeGuessLate ==
  /\ pc = "guess"
  /\ Proceed("verify")
  /\ guesses' = guesses + 1
  /\ UNCHANGED <<faceVars, clockVars, tick, policy, began, failed, ended>>

\* The guess is charged before the password helper runs.
ChargeGuess ==
  /\ pc = "guess"
  /\ CommitAttempts([reset EXCEPT !.failures = @ + 1, !.pending = TRUE], "verify")
  /\ guesses' = IF pc' = "verify" THEN guesses + 1 ELSE guesses
  /\ UNCHANGED <<faceVars, clockVars, tick, policy, began, failed, ended>>

\* The helper answers, is killed at its deadline, or its client leaves.
Verified(success) ==
  /\ pc = "verify"
  /\ pc' = IF success THEN "apply" ELSE "status"
  /\ ended' = Clock
  /\ UNCHANGED <<faceVars, clockVars, tick, policy, began, failed, resetVars, guesses>>

\* Faulty variant: the guesses are given back for a face reset that is visible.
ResetFaceVisible ==
  /\ pc = "apply"
  /\ CommitVisible(Reset, "clear")
  /\ began' = 0 /\ failed' = 0
  /\ resetDisk' = reset
  /\ UNCHANGED <<clockVars, tick, policy, reset, guesses, ended>>

\* Face first, then the guesses: the reset is not confirmed if either fails.
ResetFace ==
  /\ pc = "apply"
  /\ Commit(Reset, "clear")
  /\ began' = 0 /\ failed' = 0
  /\ resetDisk' = reset
  /\ UNCHANGED <<clockVars, tick, policy, reset, guesses, ended>>

ResetGuesses ==
  /\ pc = "clear"
  /\ CommitAttempts(NoAttempts, "idle")
  /\ guesses' = 0
  /\ UNCHANGED <<faceVars, clockVars, tick, policy, began, failed, ended>>

-----------------------------------------------------------------------------
FaceStep ==
  /\ Begin \/ Check \/ Charge \/ Delivered \/ \E strikes \in BOOLEAN : Denied(strikes)
  /\ UNCHANGED <<resetVars, guesses, ended>>

Ends == ended' = IF pc = "verify" THEN Clock ELSE ended

RecoveryStops ==
  /\ Stops
  /\ resetDisk' \in {resetDisk, reset} /\ Ends
  /\ UNCHANGED <<reset, guesses>>

RecoveryTimePasses ==
  /\ TimePasses
  /\ UNCHANGED <<resetVars, guesses, ended>>

RecoveryPowerLoss ==
  /\ PowerLoss
  /\ reset' \in {reset, resetDisk} /\ resetDisk' = reset' /\ Ends
  /\ UNCHANGED guesses

RecoveryNext ==
  \/ FaceStep
  \/ OpenStatus \/ StatusFace \/ StatusGuesses
  \/ \E admin \in BOOLEAN : OpenReset(admin)
  \/ SettleReset \/ ChargeGuess \/ \E success \in BOOLEAN : Verified(success)
  \/ ResetFace \/ ResetGuesses
  \/ RecoveryStops \/ RecoveryTimePasses \/ RecoveryPowerLoss

RecoverySpec == RecoveryInit /\ [][RecoveryNext]_recoveryVars

-----------------------------------------------------------------------------
(* Both files hold records their own validation accepts.                   *)
RecoveryTypeOK ==
  /\ RetryTypeOK
  /\ reset \in Attempts /\ resetDisk \in Attempts
  /\ validAttempts(reset) /\ validAttempts(resetDisk)
  /\ guesses \in Nat /\ ended \in Tick

(* A password guess is paid for in advance and for good: both copies of    *)
(* the file account for every verification begun since the guesses were    *)
(* last reset, so there are never more than LIMIT of them, although the    *)
(* helper may be killed and the machine may lose power at any moment.      *)
GuessesCharged ==
  /\ guesses <= reset.failures /\ guesses <= resetDisk.failures
  /\ guesses <= LIMIT

(* "Face first: a torn two-file reset leaves a conservative recovery       *)
(* charge": the guesses are given back only once the face record's reset   *)
(* survives a power loss.                                                  *)
TornResetKeepsCharge == pc = "clear" => face = Reset /\ faceDisk = Reset

(* After DELAY_AFTER guesses the next one waits: within one boot at least  *)
(* DELAY passes between the end of one verification, however it ended, and *)
(* the start of the next.                                                  *)
GuessesPaced ==
  [][pc # "verify" /\ pc' = "verify" /\ guesses >= DELAY_AFTER /\ ended.boot = boot =>
       now >= ended.nanos + DELAY]_recoveryVars

\* The delay after the last verification is over, running, or still to be armed.
DelayServed ==
  guesses >= DELAY_AFTER /\ ended.boot = boot =>
    \/ reset.pending
    \/ /\ reset.cooldown # NoCooldown /\ reset.cooldown.boot = boot
       /\ reset.cooldown.deadline >= ended.nanos + DELAY
    \/ now >= ended.nanos + DELAY

\* The inductive invariant behind these.
RecoveryInv ==
  /\ RetryInv /\ RecoveryTypeOK /\ GuessesCharged /\ TornResetKeepsCharge /\ DelayServed
  /\ ended.boot <= boot /\ (ended.boot = boot => ended.nanos <= now)
  /\ pc = "status2" =>
       /\ tick.boot = boot /\ tick.nanos <= now
       /\ ended.boot = boot => ended.nanos <= tick.nanos
  /\ pc = "guess" => reset.failures < LIMIT /\ ~reset.pending /\ reset.cooldown = NoCooldown
  /\ pc = "verify" => reset.pending
=============================================================================
