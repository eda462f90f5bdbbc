---------------------------- MODULE RetryProofs -----------------------------
(***************************************************************************)
(* The safety of the face retry record, and of the record and the password *)
(* guesses together, for every limit, every set of policies, any number of *)
(* boots and any clock.                                                    *)
(***************************************************************************)
EXTENDS RetryRecovery, TLAPS

\* What every record the operations write satisfies, at an instant t.
Sound(rec, t) ==
  /\ rec \in Record /\ validate(rec)
  /\ FromThePast(rec, t)

\* A cooldown that reading t finds running.
Running(rec, t) ==
  rec.cooldown # NoCooldown /\ rec.cooldown.boot = t.boot /\ t.nanos < rec.cooldown.deadline

\* Record::arm starts a cooldown now and clears the strikes.
LEMMA ArmSound ==
  ASSUME RetryTypeOK, NEW rec \in Record, validate(rec), NEW t \in Tick, NEW d \in Nat \ {0},
         t.boot = boot
  PROVE  LET new == arm(rec, t, d)
         IN  /\ Sound(new, t.nanos)
             /\ new.count = rec.count /\ new.pending = rec.pending /\ new.budget = rec.budget
             /\ Running(new, t)
<1> DEFINE c == [boot |-> t.boot, deadline |-> t.nanos + d, duration |-> d]
           new == arm(rec, t, d)
<1>1. t.boot \in Nat /\ t.nanos \in Nat
  BY RetryConstants DEF Tick
<1>2. c \in Cooldown /\ c # NoCooldown /\ c.boot = t.boot /\ c.deadline = t.nanos + d /\ c.duration = d
  BY <1>1, RetryConstants DEF Cooldown
<1>3. new = [rec EXCEPT !.strikes = 0, !.cooldown = c]
  BY DEF arm
<1> HIDE DEF c, new
<1>4. /\ new \in Record /\ new.cooldown = c /\ new.strikes = 0
      /\ new.count = rec.count /\ new.pending = rec.pending /\ new.budget = rec.budget
  BY <1>2, <1>3 DEF Record
<1>5. validate(new) /\ FromThePast(new, t.nanos)
  BY <1>1, <1>2, <1>4 DEF validate, FromThePast
<1>6. Running(new, t)
  BY <1>1, <1>2, <1>4 DEF Running
<1> QED BY <1>4, <1>5, <1>6 DEF Sound, new

\* Record::strike counts one more strike or starts a cooldown.
LEMMA StrikeSound ==
  ASSUME RetryTypeOK, NEW rec, NEW t \in Tick, t.boot = boot, Sound(rec, t.nanos)
  PROVE  LET new == strike(rec, t)
         IN  /\ Sound(new, t.nanos)
             /\ new.count = rec.count /\ new.pending = rec.pending /\ new.budget = rec.budget
             /\ new.cooldown = NoCooldown =>
                  rec.cooldown = NoCooldown /\ new.strikes = rec.strikes + 1
             /\ IF rec.cooldown # NoCooldown THEN new = rec
                ELSE new.cooldown = NoCooldown \/ Running(new, t)
<1>1. CASE rec.cooldown # NoCooldown
  BY <1>1 DEF strike
<1>2. CASE rec.cooldown = NoCooldown /\ rec.strikes + 1 >= policy.limit
  <2>1. policy.seconds \in Nat \ {0}
    BY RetryConstants DEF RetryTypeOK, Policy
  <2>2. strike(rec, t) = arm(rec, t, policy.seconds)
    BY <1>2 DEF strike
  <2> QED BY <1>2, <2>1, <2>2, ArmSound DEF Sound, Running
<1>3. CASE rec.cooldown = NoCooldown /\ ~(rec.strikes + 1 >= policy.limit)
  BY <1>3 DEF strike, Sound, Record, validate, FromThePast
<1> QED BY <1>1, <1>2, <1>3

\* settle_abandoned turns a pending charge into a strike.
LEMMA SettleSound ==
  ASSUME RetryTypeOK, NEW rec, NEW t \in Tick, t.boot = boot, Sound(rec, t.nanos)
  PROVE  LET new == settle_abandoned(rec, t)
         IN  /\ Sound(new, t.nanos)
             /\ new.count = rec.count /\ new.budget = rec.budget /\ ~new.pending
             /\ new.cooldown = NoCooldown =>
                  /\ rec.cooldown = NoCooldown
                  /\ new.strikes = rec.strikes + (IF rec.pending THEN 1 ELSE 0)
             /\ IF rec.cooldown # NoCooldown THEN new.cooldown = rec.cooldown
                ELSE new.cooldown = NoCooldown \/ Running(new, t)
<1> DEFINE released == [rec EXCEPT !.pending = FALSE]
<1>1. /\ Sound(released, t.nanos) /\ released.count = rec.count /\ released.budget = rec.budget
      /\ ~released.pending /\ released.cooldown = rec.cooldown /\ released.strikes = rec.strikes
  BY DEF Sound, Record, validate, FromThePast
<1>2. CASE rec.pending
  <2>1. settle_abandoned(rec, t) = strike(released, t)
    BY <1>2 DEF settle_abandoned
  <2> HIDE DEF released
  <2> QED BY <1>1, <1>2, <2>1, StrikeSound
<1>3. CASE ~rec.pending
  BY <1>3 DEF settle_abandoned, Sound, Record
<1> QED BY <1>2, <1>3

\* check's last word on a record that is not dated from the future.
LEMMA RefreshSound ==
  ASSUME RetryTypeOK, NEW rec, NEW t \in Tick, t.boot = boot, Sound(rec, t.nanos)
  PROVE  LET new == refresh(rec, t)
         IN  /\ Sound(new, t.nanos)
             /\ new.count = rec.count /\ new.pending = rec.pending /\ new.budget = rec.budget
             /\ new.cooldown = NoCooldown => new.strikes < policy.limit
             /\ new.cooldown = NoCooldown /\ rec.cooldown = NoCooldown => new = rec
             /\ new.cooldown # NoCooldown => Running(new, t)
             /\ Running(rec, t) => new = rec
<1>0. policy.seconds \in Nat \ {0} /\ policy.limit \in Nat \ {0}
  BY RetryConstants DEF RetryTypeOK, Policy
<1>1. CASE rec.cooldown = NoCooldown /\ rec.strikes >= policy.limit
  <2>1. refresh(rec, t) = arm(rec, t, policy.seconds)
    BY <1>1 DEF refresh
  <2> QED BY <1>0, <1>1, <2>1, ArmSound DEF Sound, Running
<1>2. CASE rec.cooldown = NoCooldown /\ ~(rec.strikes >= policy.limit)
  BY <1>0, <1>2 DEF refresh, Sound, Record, Running
<1>3. CASE rec.cooldown # NoCooldown /\ rec.cooldown.boot # t.boot
  <2>1. refresh(rec, t) = arm(rec, t, rec.cooldown.duration)
    BY <1>3 DEF refresh
  <2>2. rec.cooldown.duration \in Nat \ {0}
    BY <1>3 DEF Sound, Record, Cooldown
  <2> QED BY <1>3, <2>1, <2>2, ArmSound DEF Sound, Running
<1>4. CASE rec.cooldown # NoCooldown /\ rec.cooldown.boot = t.boot /\ t.nanos >= rec.cooldown.deadline
  <2>1. refresh(rec, t) = [rec EXCEPT !.cooldown = NoCooldown, !.strikes = 0]
    BY <1>4 DEF refresh
  <2> DEFINE new == [rec EXCEPT !.cooldown = NoCooldown, !.strikes = 0]
  <2>2. /\ new \in Record /\ new.cooldown = NoCooldown /\ new.strikes = 0
        /\ new.count = rec.count /\ new.pending = rec.pending /\ new.budget = rec.budget
    BY DEF Sound, Record
  <2>3. refresh(rec, t) = new
    BY <2>1
  <2> HIDE DEF new
  <2>4. Sound(new, t.nanos)
    BY <2>2 DEF Sound, validate, FromThePast
  <2>5. ~Running(rec, t)
    BY <1>4, RetryConstants DEF Running, Sound, Record, Cooldown, Tick
  <2> QED BY <1>0, <1>4, <2>2, <2>3, <2>4, <2>5
<1>5. CASE rec.cooldown # NoCooldown /\ rec.cooldown.boot = t.boot /\ ~(t.nanos >= rec.cooldown.deadline)
  <2>1. refresh(rec, t) = rec
    BY <1>5 DEF refresh
  <2>2. t.nanos \in Nat /\ rec.cooldown.deadline \in Nat
    BY <1>5, RetryConstants DEF Sound, Record, Cooldown, Tick
  <2> QED BY <1>5, <2>1, <2>2 DEF Running
<1> QED BY <1>1, <1>2, <1>3, <1>4, <1>5

\* A cooldown that is not from the future of an instant is not from the future
\* of a later one.
LEMMA PastStaysPast ==
  ASSUME NEW rec \in Record, NEW s \in Nat, NEW t \in Nat, s <= t, FromThePast(rec, s)
  PROVE  FromThePast(rec, t)
  BY DEF FromThePast, Record, Cooldown

\* What the proofs below use of the invariant's types.
LEMMA RetryTypes ==
  ASSUME RetryInv
  PROVE  /\ face \in Record /\ faceDisk \in Record /\ validate(face) /\ validate(faceDisk)
         /\ boot \in Nat /\ now \in Nat /\ tick \in Tick /\ tick.nanos \in Nat
         /\ Clock \in Tick /\ Clock.boot = boot /\ Clock.nanos = now
         /\ face.count \in Nat /\ faceDisk.count \in Nat /\ face.strikes \in Nat /\ faceDisk.strikes \in Nat
         /\ face.pending \in BOOLEAN /\ faceDisk.pending \in BOOLEAN
         /\ policy \in Policy /\ policy.limit \in Nat \ {0}
         /\ began \in Nat /\ failed \in Nat /\ FACE_LIMIT \in Nat \ {0}
<1>1. /\ face \in Record /\ faceDisk \in Record /\ validate(face) /\ validate(faceDisk)
      /\ tick \in Tick /\ policy \in Policy /\ began \in Nat /\ failed \in Nat
      /\ boot \in 0..MaxBoot /\ now \in 0..MaxNow
  BY DEF RetryInv, RetryTypeOK
<1>2. /\ face.count \in Nat /\ faceDisk.count \in Nat /\ face.strikes \in Nat /\ faceDisk.strikes \in Nat
      /\ face.pending \in BOOLEAN /\ faceDisk.pending \in BOOLEAN
  BY <1>1, Zenon DEF Record
<1>3. boot \in Nat /\ now \in Nat /\ tick.nanos \in Nat
  BY <1>1, RetryConstants DEF Tick
<1>4. Clock \in Tick /\ Clock.boot = boot /\ Clock.nanos = now
  BY <1>1 DEF Clock, Tick
<1>5. policy.limit \in Nat \ {0} /\ FACE_LIMIT \in Nat \ {0}
  BY <1>1, RetryConstants DEF Policy
<1> QED BY <1>1, <1>2, <1>3, <1>4, <1>5, Zenon

LEMMA InitRetryInv == RetryInit => RetryInv
<1> SUFFICES ASSUME RetryInit PROVE RetryInv
  OBVIOUS
<1>1. Empty \in Record /\ validate(Empty) /\ Empty.cooldown = NoCooldown /\ Empty.count = 0 /\ Empty.strikes = 0
  BY RetryConstants DEF Empty, Record, validate
<1>2. tick \in Tick /\ boot \in 0..MaxBoot /\ now \in 0..MaxNow
  BY RetryConstants DEF RetryInit, Tick
<1>3. RetryTypeOK
  BY <1>1, <1>2, Zenon DEF RetryInit, RetryTypeOK
<1>4. ChargedForGood /\ Remembered(face) /\ Remembered(faceDisk)
      /\ FromThePast(face, now) /\ FromThePast(faceDisk, now)
  BY <1>1, RetryConstants DEF RetryInit, ChargedForGood, Remembered, FromThePast
<1> QED BY <1>3, <1>4 DEF RetryInit, RetryInv

\* Begin reads the clock with the operation lock held: every cooldown on record
\* was armed before.
LEMMA BeginKeeps == RetryInv /\ Begin => RetryInv'
<1> SUFFICES ASSUME RetryInv, Begin PROVE RetryInv'
  OBVIOUS
<1> USE DEF Begin, faceVars, clockVars
<1>1. tick' \in Tick /\ tick'.boot = boot /\ tick'.nanos = now
  BY RetryTypes
<1>2. RetryTypeOK'
  BY <1>1 DEF RetryInv, RetryTypeOK, validate
<1>3. ChargedForGood' /\ Remembered(face)' /\ Remembered(faceDisk)'
  BY DEF RetryInv, ChargedForGood, Remembered
<1>4. FromThePast(face, now)' /\ FromThePast(faceDisk, now)' /\ FromThePast(face, tick.nanos)'
  BY <1>1 DEF RetryInv, FromThePast
<1> QED BY <1>1, <1>2, <1>3, <1>4, RetryTypes DEF RetryInv

\* check settles, refreshes and writes: its reading is older than now and newer
\* than every cooldown on record.
LEMMA CheckKeeps == RetryInv /\ Check => RetryInv'
<1> SUFFICES ASSUME RetryInv, Check PROVE RetryInv'
  OBVIOUS
<1> DEFINE settled == settle_abandoned(face, tick)
           rec == refresh(settled, tick)
<1>0. /\ pc = "check" /\ UNCHANGED <<boot, now, tick, policy, began>>
      /\ face' = rec /\ faceDisk' \in {face, rec}
      /\ failed' = IF rec.cooldown # face.cooldown THEN 0 ELSE failed
      /\ pc' \in {"idle", "charge"}
      /\ pc' = "charge" => ~limited(rec, tick)
  BY DEF Check, Commit, Forgives, clockVars
<1>1. tick.boot = boot /\ tick.nanos <= now /\ Sound(face, tick.nanos)
  BY <1>0, RetryTypes DEF RetryInv, Sound
<1>2. /\ Sound(settled, tick.nanos) /\ settled.count = face.count /\ ~settled.pending
      /\ settled.cooldown = NoCooldown =>
           face.cooldown = NoCooldown /\ settled.strikes = face.strikes + (IF face.pending THEN 1 ELSE 0)
      /\ face.cooldown = NoCooldown => settled.cooldown = NoCooldown \/ Running(settled, tick)
  BY <1>1, RetryTypes, SettleSound DEF RetryInv
<1> HIDE DEF settled
<1>3. /\ Sound(rec, tick.nanos) /\ rec.count = settled.count /\ rec.pending = settled.pending
      /\ rec.cooldown = NoCooldown => rec.strikes < policy.limit
      /\ rec.cooldown = NoCooldown /\ settled.cooldown = NoCooldown => rec = settled
      /\ rec.cooldown # NoCooldown => Running(rec, tick)
      /\ Running(settled, tick) => rec = settled
  BY <1>1, <1>2, RetryTypes, RefreshSound DEF RetryInv
<1> HIDE DEF rec
<1>4. rec \in Record /\ validate(rec) /\ FromThePast(rec, now)
  BY <1>1, <1>3, RetryTypes, PastStaysPast DEF Sound
<1>5. failed' \in Nat /\ (rec.cooldown = NoCooldown => failed' <= rec.strikes) /\ failed' <= failed
  <2>1. CASE rec.cooldown # face.cooldown
    BY <1>0, <1>4, <2>1, RetryTypes DEF Record
  <2>2. CASE rec.cooldown = face.cooldown
    <3>1. failed' = failed
      BY <1>0, <2>2
    <3>2. ASSUME rec.cooldown = NoCooldown PROVE failed <= rec.strikes
      <4>1. failed <= face.strikes + (IF face.pending THEN 1 ELSE 0)
        BY <2>2, <3>2 DEF RetryInv, Remembered
      <4>2. CASE settled.cooldown = NoCooldown
        BY <1>2, <1>3, <3>2, <4>1, <4>2
      <4>3. CASE settled.cooldown # NoCooldown   \* armed just now, so not yet lifted
        BY <1>2, <1>3, <2>2, <3>2, <4>3
      <4> QED BY <4>2, <4>3
    <3> QED BY <3>1, <3>2, RetryTypes
  <2> QED BY <2>1, <2>2
<1>6. RetryTypeOK'
  BY <1>0, <1>4, <1>5, RetryTypes DEF RetryInv, RetryTypeOK, validate
<1>7. ChargedForGood'
  BY <1>0, <1>2, <1>3, RetryTypes DEF RetryInv, ChargedForGood
<1>8. Remembered(face)' /\ Remembered(faceDisk)'
  <2>1. Remembered(face)'
    BY <1>0, <1>4, <1>5 DEF Remembered, Record
  <2>2. CASE faceDisk' = face
    <3>1. face.cooldown = NoCooldown => failed <= face.strikes + (IF face.pending THEN 1 ELSE 0)
      BY DEF RetryInv, Remembered
    <3>2. face.strikes + (IF face.pending THEN 1 ELSE 0) \in Nat
      BY RetryTypes
    <3>3. face.cooldown = NoCooldown => failed' <= face.strikes + (IF face.pending THEN 1 ELSE 0)
      BY <1>5, <3>1, <3>2, RetryTypes
    <3> QED BY <2>1, <2>2, <3>3 DEF Remembered
  <2>3. CASE faceDisk' = face'
    BY <2>1, <2>3 DEF Remembered
  <2> QED BY <1>0, <2>1, <2>2, <2>3
<1>9. FromThePast(face, now)' /\ FromThePast(faceDisk, now)'
  BY <1>0, <1>4 DEF RetryInv, FromThePast
<1>10. pc' = "charge" => failed' <= rec.strikes /\ rec.strikes < policy.limit /\ rec.cooldown = NoCooldown
  BY <1>0, <1>3, <1>5 DEF limited, Running
<1> QED BY <1>0, <1>6, <1>7, <1>8, <1>9, <1>10 DEF RetryInv
\* The reservation: the count grows before, and at least as much as, began.
LEMMA ChargeKeeps == RetryInv /\ Charge => RetryInv'
<1> SUFFICES ASSUME RetryInv, Charge PROVE RetryInv'
  OBVIOUS
<1> DEFINE rec == [face EXCEPT !.budget = TRUE, !.count = @ + 1, !.pending = TRUE]
<1>0. /\ pc = "charge" /\ face.count < FACE_LIMIT /\ face' = rec
      /\ UNCHANGED <<boot, now, tick, policy, failed>>
      /\ \/ faceDisk' = rec /\ pc' = "face" /\ began' = began + 1
         \/ faceDisk' = face /\ pc' = "idle" /\ began' = began
  BY DEF Charge, Commit, clockVars
<1>1. /\ rec \in Record /\ rec.count = face.count + 1 /\ rec.pending /\ rec.budget
      /\ rec.strikes = face.strikes /\ rec.cooldown = face.cooldown
  <2>1. face \in Record /\ face.count + 1 \in Nat
    BY RetryTypes
  <2>2. /\ rec.count = face.count + 1 /\ rec.pending = TRUE /\ rec.budget = TRUE
        /\ rec.strikes = face.strikes /\ rec.cooldown = face.cooldown
    BY <2>1 DEF Record
  <2>3. rec \in Record
    BY <2>1 DEF Record
  <2> QED BY <2>2, <2>3, Zenon
<1> HIDE DEF rec
<1>2. failed <= face.strikes /\ face.strikes < policy.limit /\ face.cooldown = NoCooldown
  BY <1>0 DEF RetryInv
<1>3. validate(rec)
  <2>1. rec.count <= FACE_LIMIT /\ rec.count > 0
    BY <1>0, <1>1, RetryTypes
  <2> QED BY <1>1, <1>2, <2>1 DEF validate
<1>4. RetryTypeOK'
  BY <1>0, <1>1, <1>3, RetryTypes DEF RetryInv, RetryTypeOK, validate
<1>5. ChargedForGood'
  BY <1>0, <1>1, RetryTypes DEF RetryInv, ChargedForGood
<1>6. Remembered(face)' /\ Remembered(faceDisk)'
  BY <1>0, <1>1, <1>2, RetryTypes DEF Remembered
<1>7. FromThePast(face, now)' /\ FromThePast(faceDisk, now)'
  BY <1>0, <1>1, <1>2 DEF FromThePast
<1> QED BY <1>0, <1>1, <1>2, <1>4, <1>5, <1>6, <1>7 DEF RetryInv

\* denied: the strike takes the place of the pending charge.
LEMMA DeniedKeeps ==
  ASSUME RetryInv, NEW strikes \in BOOLEAN, Denied(strikes)
  PROVE  RetryInv'
<1> DEFINE released == [face EXCEPT !.pending = FALSE]
           rec == IF strikes THEN strike(released, Clock) ELSE released
<1>0. /\ pc = "face" /\ face' = rec /\ faceDisk' \in {face, rec} /\ pc' = "idle"
      /\ failed' = IF rec.cooldown # face.cooldown THEN 0 ELSE IF strikes THEN failed + 1 ELSE failed
      /\ UNCHANGED <<boot, now, tick, policy, began>>
  BY DEF Denied, Commit, Forgives, clockVars
<1>1. failed <= face.strikes /\ face.cooldown = NoCooldown /\ face.pending
  BY <1>0 DEF RetryInv
<1>2. /\ released \in Record /\ released.count = face.count /\ ~released.pending
      /\ released.budget = face.budget /\ released.strikes = face.strikes /\ released.cooldown = NoCooldown
  BY <1>1, RetryTypes DEF Record
<1> HIDE DEF released
<1>3. Sound(released, now)
  BY <1>2, RetryTypes DEF Sound, validate, FromThePast
<1>4. /\ Sound(rec, now) /\ rec.count = face.count /\ ~rec.pending
      /\ rec.cooldown = NoCooldown => rec.strikes = face.strikes + (IF strikes THEN 1 ELSE 0)
  <2>1. CASE strikes
    BY <1>2, <1>3, <2>1, RetryTypes, StrikeSound DEF RetryInv
  <2>2. CASE ~strikes
    BY <1>2, <1>3, <2>2, RetryTypes
  <2> QED BY <2>1, <2>2
<1> HIDE DEF rec
<1>5. failed' \in Nat /\ failed' <= face.strikes + 1 /\ (rec.cooldown = NoCooldown => failed' <= rec.strikes)
  BY <1>0, <1>1, <1>4, RetryTypes
<1>6. RetryTypeOK'
  BY <1>0, <1>4, <1>5, RetryTypes DEF RetryInv, RetryTypeOK, validate, Sound
<1>7. ChargedForGood'
  BY <1>0, <1>4, RetryTypes DEF RetryInv, ChargedForGood
<1>8. Remembered(face)' /\ Remembered(faceDisk)'
  <2>1. rec.cooldown = NoCooldown => failed' <= rec.strikes + (IF rec.pending THEN 1 ELSE 0)
    BY <1>4, <1>5, RetryTypes
  <2>2. failed' <= face.strikes + (IF face.pending THEN 1 ELSE 0)
    BY <1>1, <1>5
  <2> QED BY <1>0, <2>1, <2>2 DEF Remembered
<1>9. FromThePast(face, now)' /\ FromThePast(faceDisk, now)'
  BY <1>0, <1>1, <1>4 DEF FromThePast, Sound
<1> QED BY <1>0, <1>6, <1>7, <1>8, <1>9 DEF RetryInv

\* delivered: both histories start over with the record.
LEMMA DeliveredKeeps == RetryInv /\ Delivered => RetryInv'
<1> SUFFICES ASSUME RetryInv, Delivered PROVE RetryInv'
  OBVIOUS
<1>0. /\ pc = "face" /\ face' = Reset /\ faceDisk' \in {face, Reset} /\ pc' = "idle"
      /\ began' = 0 /\ failed' = 0 /\ UNCHANGED <<boot, now, tick, policy>>
  BY DEF Delivered, Commit, clockVars
<1>1. Reset \in Record /\ Reset.cooldown = NoCooldown /\ Reset.count = 0 /\ Reset.strikes = 0
      /\ ~Reset.pending /\ Reset.budget
  <2>1. /\ Empty \in Record /\ Empty.cooldown = NoCooldown /\ Empty.count = 0 /\ Empty.strikes = 0
        /\ Empty.pending = FALSE
    BY DEF Empty, Record
  <2>2. /\ Reset \in Record /\ Reset.cooldown = NoCooldown /\ Reset.count = 0 /\ Reset.strikes = 0
        /\ Reset.pending = FALSE /\ Reset.budget = TRUE
    BY <2>1 DEF Reset, Record
  <2> QED BY <2>2, Zenon
<1>2. validate(Reset)
  BY <1>1, RetryConstants DEF validate
<1>3. RetryTypeOK'
  BY <1>0, <1>1, <1>2, RetryTypes DEF RetryInv, RetryTypeOK, validate
<1>4. ChargedForGood' /\ Remembered(face)' /\ Remembered(faceDisk)'
  BY <1>0, <1>1, RetryTypes DEF ChargedForGood, Remembered
<1>5. FromThePast(face, now)' /\ FromThePast(faceDisk, now)'
  BY <1>0, <1>1 DEF RetryInv, FromThePast
<1> QED BY <1>0, <1>3, <1>4, <1>5 DEF RetryInv

\* An attempt cut short, by the daemon's end or the machine's, is remembered by
\* the charge both copies hold while a face is looked at.
LEMMA CutShortKeeps == RetryInv /\ (Stops \/ PowerLoss) => RetryInv'
<1> SUFFICES ASSUME RetryInv, Stops \/ PowerLoss PROVE RetryInv'
  OBVIOUS
<1>0. /\ face' \in {face, faceDisk} /\ faceDisk' \in {face, faceDisk} /\ pc' = "idle"
      /\ failed' = (IF pc = "face" THEN failed + 1 ELSE failed)
      /\ UNCHANGED <<tick, policy, began>>
      /\ \/ UNCHANGED <<boot, now>>
         \/ boot < MaxBoot /\ boot' = boot + 1 /\ now' = 0
  BY DEF Stops, PowerLoss, Ambiguous, clockVars
<1>1. boot' \in 0..MaxBoot /\ now' \in 0..MaxNow
  BY <1>0, RetryConstants DEF RetryInv, RetryTypeOK
<1>2. RetryTypeOK'
  BY SMTT(20), <1>0, <1>1, RetryTypes DEF RetryInv, RetryTypeOK, validate
<1>3. ChargedForGood'
  BY <1>0 DEF RetryInv, ChargedForGood
<1>4. \A rec \in {face, faceDisk} :
        rec.cooldown = NoCooldown => failed' <= rec.strikes + (IF rec.pending THEN 1 ELSE 0)
  <2>1. CASE pc = "face"
    BY <1>0, <2>1, RetryTypes DEF RetryInv
  <2>2. CASE pc # "face"
    BY <1>0, <2>2 DEF RetryInv, Remembered
  <2> QED BY <2>1, <2>2
<1>5. Remembered(face)' /\ Remembered(faceDisk)'
  BY <1>0, <1>4 DEF Remembered
<1>6. FromThePast(face, now)' /\ FromThePast(faceDisk, now)'
  BY <1>0, RetryTypes DEF RetryInv, FromThePast, Record, Cooldown
<1> QED BY <1>0, <1>2, <1>3, <1>5, <1>6 DEF RetryInv
LEMMA TimeKeeps == RetryInv /\ TimePasses => RetryInv'
<1> SUFFICES ASSUME RetryInv, TimePasses PROVE RetryInv'
  OBVIOUS
<1>0. now < MaxNow /\ now' = now + 1 /\ UNCHANGED <<face, faceDisk, boot, pc, tick, policy, began, failed>>
  BY DEF TimePasses, faceVars
<1>1. now' \in 0..MaxNow /\ now <= now' /\ now' \in Nat
  BY <1>0, RetryConstants DEF RetryInv, RetryTypeOK
<1>2. RetryTypeOK'
  BY <1>0, <1>1 DEF RetryInv, RetryTypeOK, validate
<1>3. ChargedForGood' /\ Remembered(face)' /\ Remembered(faceDisk)'
  BY <1>0 DEF RetryInv, ChargedForGood, Remembered
<1>4. FromThePast(face, now') /\ FromThePast(faceDisk, now')
  BY <1>1, RetryTypes, PastStaysPast DEF RetryInv
<1>5. FromThePast(face, now)' /\ FromThePast(faceDisk, now)'
  BY <1>0, <1>4 DEF FromThePast
<1>6. pc' = "check" => tick'.boot = boot' /\ tick'.nanos <= now' /\ FromThePast(face, tick.nanos)'
  BY <1>0, <1>1, RetryTypes DEF RetryInv, FromThePast
<1> QED BY <1>0, <1>2, <1>3, <1>5, <1>6 DEF RetryInv

LEMMA StutterKeeps == RetryInv /\ UNCHANGED retryVars => RetryInv'
  BY DEF retryVars, RetryInv, RetryTypeOK, validate, ChargedForGood, Remembered, FromThePast

(* Every reachable state of the record and of the attempt that holds its   *)
(* operation lock satisfies the inductive invariant.                       *)
THEOREM RetryInvariant == FaceSpec => []RetryInv
<1>1. RetryInv /\ [FaceNext]_retryVars => RetryInv'
  BY BeginKeeps, CheckKeeps, ChargeKeeps, DeniedKeeps, DeliveredKeeps, CutShortKeeps, TimeKeeps,
     StutterKeeps DEF FaceNext
<1> QED BY InitRetryInv, <1>1, PTL DEF FaceSpec

(* While a face is looked at, fewer than policy.limit failures lie behind. *)
LEMMA InvRemembers ==
  ASSUME RetryInv
  PROVE  FailuresRemembered
<1>1. pc = "face" => failed < policy.limit /\ face.cooldown = NoCooldown
  BY RetryTypes DEF RetryInv
<1> QED BY <1>1 DEF RetryInv, FailuresRemembered

(* The reading check takes is never older than a cooldown it then finds.   *)
LEMMA InvOrdersClock ==
  ASSUME RetryInv
  PROVE  ClockNeverBackwards
<1> SUFFICES ASSUME pc = "check"
             PROVE  ~backwards(settle_abandoned(face, tick), tick)
  BY DEF ClockNeverBackwards
<1> DEFINE settled == settle_abandoned(face, tick)
<1>1. tick.boot = boot /\ Sound(face, tick.nanos)
  BY RetryTypes DEF RetryInv, Sound
<1>2. Sound(settled, tick.nanos)
  BY <1>1, RetryTypes, SettleSound DEF RetryInv
<1> HIDE DEF settled
<1>3. ~backwards(settled, tick)
  BY <1>1, <1>2, RetryTypes DEF Sound, FromThePast, backwards, Record, Cooldown
<1> QED BY <1>3 DEF settled


-----------------------------------------------------------------------------
(* The face record, which status and reset write too.                      *)

\* A step that at most makes the record durable, and goes on to a step of a
\* status or of a reset.
LEMMA QuietFaceKeeps ==
  ASSUME RetryInv, UNCHANGED <<face, boot, now, began, failed>>, faceDisk' \in {face, faceDisk},
         tick' \in Tick, policy' \in Policy, pc' \notin {"check", "charge", "face"}
  PROVE  RetryInv'
<1>1. RetryTypeOK'
  BY DEF RetryInv, RetryTypeOK, validate
<1>2. ChargedForGood' /\ Remembered(face)' /\ Remembered(faceDisk)'
  BY DEF RetryInv, ChargedForGood, Remembered
<1>3. FromThePast(face, now)' /\ FromThePast(faceDisk, now)'
  BY DEF RetryInv, FromThePast
<1> QED
  BY <1>1, <1>2, <1>3 DEF RetryInv

\* status settles an abandoned attempt, as check does.
LEMMA StatusFaceKeeps == RetryInv /\ StatusFace => RetryInv'
<1> SUFFICES ASSUME RetryInv, StatusFace PROVE RetryInv'
  OBVIOUS
<1> DEFINE rec == settle_abandoned(face, Clock)
<1>0. /\ pc = "status" /\ UNCHANGED <<boot, now, policy, began>> /\ tick' = Clock
      /\ face' = rec /\ faceDisk' \in {face, rec}
      /\ failed' = IF rec.cooldown # face.cooldown THEN 0 ELSE failed
      /\ pc' \in {"idle", "status2"}
  BY DEF StatusFace, Commit, Forgives, clockVars
<1>1. Sound(face, Clock.nanos)
  BY RetryTypes DEF RetryInv, Sound
<1>2. /\ Sound(rec, now) /\ rec.count = face.count /\ ~rec.pending
      /\ rec.cooldown = NoCooldown =>
           face.cooldown = NoCooldown /\ rec.strikes = face.strikes + (IF face.pending THEN 1 ELSE 0)
  BY <1>1, RetryTypes, SettleSound DEF RetryInv
<1> HIDE DEF rec
<1>3. failed' \in Nat /\ failed' <= failed
  BY <1>0, RetryTypes
<1>4. RetryTypeOK'
  BY <1>0, <1>2, <1>3, RetryTypes DEF RetryInv, RetryTypeOK, validate, Sound
<1>5. ChargedForGood'
  BY <1>0, <1>2, RetryTypes DEF RetryInv, ChargedForGood
<1>6. Remembered(face)' /\ Remembered(faceDisk)'
  <2>1. face.cooldown = NoCooldown => failed <= face.strikes + (IF face.pending THEN 1 ELSE 0)
    BY DEF RetryInv, Remembered
  <2>2. face.strikes + (IF face.pending THEN 1 ELSE 0) \in Nat
    BY RetryTypes
  <2>3. face.cooldown = NoCooldown => failed' <= face.strikes + (IF face.pending THEN 1 ELSE 0)
    BY <1>3, <2>1, <2>2, RetryTypes
  <2>4. rec.cooldown = NoCooldown => failed' <= rec.strikes + (IF rec.pending THEN 1 ELSE 0)
    BY <1>2, <2>2, <2>3
  <2> QED
    BY <1>0, <2>3, <2>4 DEF Remembered
<1>7. FromThePast(face, now)' /\ FromThePast(faceDisk, now)'
  BY <1>0, <1>2 DEF RetryInv, FromThePast, Sound
<1> QED
  BY <1>0, <1>4, <1>5, <1>6, <1>7 DEF RetryInv

\* A record that starts over.
LEMMA ResetSound ==
  /\ Reset \in Record /\ Reset.cooldown = NoCooldown /\ Reset.count = 0 /\ Reset.strikes = 0
  /\ ~Reset.pending /\ Reset.budget /\ validate(Reset)
<1>1. /\ Empty \in Record /\ Empty.cooldown = NoCooldown /\ Empty.count = 0 /\ Empty.strikes = 0
      /\ Empty.pending = FALSE
  BY DEF Empty, Record
<1>2. /\ Reset \in Record /\ Reset.cooldown = NoCooldown /\ Reset.count = 0 /\ Reset.strikes = 0
      /\ Reset.pending = FALSE /\ Reset.budget = TRUE
  BY <1>1 DEF Reset, Record
<1>3. validate(Reset)
  BY <1>2, RetryConstants DEF validate
<1> QED
  BY <1>2, <1>3, Zenon

\* A confirmed password, or root, starts the face record over.
LEMMA ResetFaceKeeps == RetryInv /\ ResetFace => RetryInv'
<1> SUFFICES ASSUME RetryInv, ResetFace PROVE RetryInv'
  OBVIOUS
<1>0. /\ face' = Reset /\ faceDisk' \in {face, Reset} /\ pc' \in {"idle", "clear"}
      /\ began' = 0 /\ failed' = 0 /\ UNCHANGED <<boot, now, tick, policy>>
  BY DEF ResetFace, Commit, clockVars
<1>1. RetryTypeOK'
  BY <1>0, ResetSound, RetryTypes DEF RetryInv, RetryTypeOK, validate
<1>2. ChargedForGood' /\ Remembered(face)' /\ Remembered(faceDisk)'
  BY <1>0, ResetSound, RetryTypes DEF ChargedForGood, Remembered
<1>3. FromThePast(face, now)' /\ FromThePast(faceDisk, now)'
  BY <1>0, ResetSound DEF RetryInv, FromThePast
<1> QED
  BY <1>0, <1>1, <1>2, <1>3 DEF RetryInv

\* No operation of either kind breaks the face record's invariant.
LEMMA RetryKept == RetryInv /\ [RecoveryNext]_recoveryVars => RetryInv'
<1> SUFFICES ASSUME RetryInv, [RecoveryNext]_recoveryVars PROVE RetryInv'
  OBVIOUS
<1>0. tick \in Tick /\ policy \in Policy /\ Clock \in Tick
  BY RetryTypes
<1>1. CASE FaceStep
  BY <1>1, BeginKeeps, CheckKeeps, ChargeKeeps, DeliveredKeeps, DeniedKeeps DEF FaceStep
<1>2. CASE OpenStatus \/ \E admin \in BOOLEAN : OpenReset(admin)
  BY <1>0, <1>2, QuietFaceKeeps DEF OpenStatus, OpenReset, faceVars, clockVars
<1>3. CASE StatusFace
  BY <1>3, StatusFaceKeeps
<1>4. CASE StatusGuesses
  BY <1>0, <1>4, QuietFaceKeeps DEF StatusGuesses, CommitAttempts, Proceed, faceVars, clockVars
<1>5. CASE SettleReset
  <2>1. pc' \in {"idle", "guess"}
    BY <1>5 DEF SettleReset, CommitAttempts, Proceed
  <2> QED
    BY <1>0, <1>5, <2>1, QuietFaceKeeps DEF SettleReset, clockVars
<1>6. CASE ChargeGuess \/ (\E success \in BOOLEAN : Verified(success)) \/ ResetGuesses
  BY <1>0, <1>6, QuietFaceKeeps
  DEF ChargeGuess, Verified, ResetGuesses, CommitAttempts, Proceed, faceVars, clockVars
<1>7. CASE ResetFace
  BY <1>7, ResetFaceKeeps
<1>8. CASE RecoveryStops \/ RecoveryTimePasses \/ RecoveryPowerLoss
  BY <1>8, CutShortKeeps, TimeKeeps DEF RecoveryStops, RecoveryTimePasses, RecoveryPowerLoss
<1>9. CASE UNCHANGED recoveryVars
  BY <1>9, StutterKeeps DEF recoveryVars
<1> QED
  BY <1>1, <1>2, <1>3, <1>4, <1>5, <1>6, <1>7, <1>8, <1>9 DEF RecoveryNext

-----------------------------------------------------------------------------
(* The guesses.                                                            *)

\* What the invariant says of the second file.
GuessInv ==
  /\ reset \in Attempts /\ resetDisk \in Attempts
  /\ validAttempts(reset) /\ validAttempts(resetDisk)
  /\ guesses \in Nat /\ ended \in Tick
  /\ GuessesCharged /\ TornResetKeepsCharge /\ DelayServed
  /\ ended.boot <= boot /\ (ended.boot = boot => ended.nanos <= now)
  /\ pc = "status2" =>
       /\ tick.boot = boot /\ tick.nanos <= now
       /\ ended.boot = boot => ended.nanos <= tick.nanos
  /\ pc = "guess" => reset.failures < LIMIT /\ ~reset.pending /\ reset.cooldown = NoCooldown
  /\ pc = "verify" => reset.pending

LEMMA Splits == RecoveryInv <=> RetryInv /\ GuessInv
  BY DEF RecoveryInv, GuessInv, RecoveryTypeOK, RetryInv

\* The parts of a guess record.
LEMMA AttemptTypes ==
  ASSUME NEW a \in Attempts
  PROVE  /\ a.failures \in Nat /\ a.pending \in BOOLEAN
         /\ a.cooldown # NoCooldown =>
              a.cooldown \in Cooldown /\ a.cooldown.boot \in Nat /\ a.cooldown.deadline \in Nat
  BY DEF Attempts, Cooldown

\* Attempts::settle ends the guess and keeps its charge; it lifts a delay only
\* when it is over and arms one after a guess that was left pending.
LEMMA SettleGuess ==
  ASSUME NEW a \in Attempts, validAttempts(a), NEW t \in Tick
  PROVE  LET s == settle(a, t)
         IN  /\ s \in Attempts /\ validAttempts(s) /\ s.failures = a.failures /\ ~s.pending
             /\ a.pending /\ a.failures >= DELAY_AFTER =>
                  /\ s.cooldown # NoCooldown /\ s.cooldown.boot = t.boot
                  /\ s.cooldown.deadline = t.nanos + DELAY
             /\ ~a.pending /\ a.cooldown # NoCooldown /\ a.cooldown.boot = t.boot =>
                  s.cooldown = a.cooldown \/ t.nanos >= a.cooldown.deadline
<1>0. /\ t.boot \in Nat /\ t.nanos \in Nat /\ DELAY \in Nat \ {0} /\ DELAY_AFTER \in Nat \ {0}
      /\ LIMIT \in Nat /\ DELAY_AFTER <= LIMIT
  BY RetryConstants, RecoveryConstants DEF Tick
<1> DEFINE c == [boot |-> t.boot, deadline |-> t.nanos + DELAY, duration |-> DELAY]
<1>1. c \in Cooldown /\ c # NoCooldown /\ c.boot = t.boot /\ c.deadline = t.nanos + DELAY /\ c.duration = DELAY
  BY <1>0, RetryConstants DEF Cooldown
<1>2. CASE a.pending \/ (a.cooldown # NoCooldown /\ a.cooldown.boot # t.boot)
  <2>1. CASE a.failures < DELAY_AFTER
    <3> DEFINE s == [failures |-> a.failures, pending |-> FALSE, cooldown |-> a.cooldown]
    <3>1. settle(a, t) = s
      BY <1>2, <2>1 DEF settle, Attempts
    <3>2. s \in Attempts /\ s.failures = a.failures /\ s.pending = FALSE /\ s.cooldown = a.cooldown
      BY DEF Attempts
    <3> HIDE DEF s
    <3>3. a.cooldown = NoCooldown
      BY <1>0, <2>1, AttemptTypes DEF validAttempts
    <3>4. validAttempts(s)
      BY <3>2, <3>3 DEF validAttempts
    <3> QED
      BY SMTT(20), <1>0, <1>2, <2>1, <3>1, <3>2, <3>3, <3>4, AttemptTypes
  <2>2. CASE ~(a.failures < DELAY_AFTER)
    <3> DEFINE s == [failures |-> a.failures, pending |-> FALSE, cooldown |-> c]
    <3>1. settle(a, t) = s
      BY <1>2, <2>2 DEF settle, Attempts
    <3>2. s \in Attempts /\ s.failures = a.failures /\ s.pending = FALSE /\ s.cooldown = c
      BY <1>1 DEF Attempts
    <3> HIDE DEF s, c
    <3>3. validAttempts(s)
      BY <1>0, <1>1, <2>2, <3>2, AttemptTypes DEF validAttempts
    <3> QED
      BY <1>1, <1>2, <3>1, <3>2, <3>3
  <2> QED
    BY <2>1, <2>2
<1>3. CASE /\ ~(a.pending \/ (a.cooldown # NoCooldown /\ a.cooldown.boot # t.boot))
           /\ a.cooldown # NoCooldown /\ t.nanos >= a.cooldown.deadline
  <2> DEFINE s == [failures |-> a.failures, pending |-> a.pending, cooldown |-> NoCooldown]
  <2>1. settle(a, t) = s
    BY <1>3 DEF settle, Attempts
  <2>2. s \in Attempts /\ s.failures = a.failures /\ s.pending = a.pending /\ s.cooldown = NoCooldown
    BY DEF Attempts
  <2> HIDE DEF s
  <2>3. validAttempts(s)
    BY <1>3, <2>2 DEF validAttempts
  <2> QED
    BY <1>3, <2>1, <2>2, <2>3
<1>4. CASE /\ ~(a.pending \/ (a.cooldown # NoCooldown /\ a.cooldown.boot # t.boot))
           /\ ~(a.cooldown # NoCooldown /\ t.nanos >= a.cooldown.deadline)
  <2>1. settle(a, t) = a
    BY <1>4 DEF settle
  <2> QED
    BY <1>4, <2>1
<1> QED
  BY <1>2, <1>3, <1>4

\* What the proofs below use of the types.
LEMMA GuessTypes ==
  ASSUME RetryInv, GuessInv
  PROVE  /\ reset.failures \in Nat /\ resetDisk.failures \in Nat
         /\ guesses \in Nat /\ boot \in Nat /\ now \in Nat
         /\ ended.boot \in Nat /\ ended.nanos \in Nat
         /\ LIMIT \in Nat /\ DELAY \in Nat \ {0} /\ DELAY_AFTER \in Nat \ {0} /\ DELAY_AFTER <= LIMIT
         /\ Clock \in Tick /\ Clock.boot = boot /\ Clock.nanos = now
         /\ NoAttempts \in Attempts /\ validAttempts(NoAttempts) /\ NoAttempts.failures = 0
<1>1. reset.failures \in Nat /\ resetDisk.failures \in Nat /\ guesses \in Nat
  BY AttemptTypes DEF GuessInv
<1>2. ended.boot \in Nat /\ ended.nanos \in Nat
  BY RetryConstants DEF GuessInv, Tick
<1>3. NoAttempts \in Attempts /\ validAttempts(NoAttempts) /\ NoAttempts.failures = 0
  BY RecoveryConstants DEF NoAttempts, Attempts, validAttempts
<1>4. LIMIT \in Nat /\ DELAY \in Nat \ {0} /\ DELAY_AFTER \in Nat \ {0} /\ DELAY_AFTER <= LIMIT
  BY RecoveryConstants
<1> QED
  BY <1>1, <1>2, <1>3, <1>4, RetryTypes

\* A step that leaves the guesses as they are.
LEMMA QuietGuessKeeps ==
  ASSUME RetryInv, GuessInv, UNCHANGED <<reset, guesses, ended, boot, now>>,
         resetDisk' \in {reset, resetDisk}, pc' \notin {"guess", "verify"},
         TornResetKeepsCharge', pc' = "status2" => tick' = Clock
  PROVE  GuessInv'
<1>1. validAttempts(reset)' /\ validAttempts(resetDisk)'
  BY DEF GuessInv, validAttempts
<1>2. GuessesCharged' /\ DelayServed'
  BY DEF GuessInv, GuessesCharged, DelayServed
<1> QED
  BY <1>1, <1>2, GuessTypes DEF GuessInv

\* A verification that ends, by an answer, a deadline, the daemon's end or a
\* power loss: the guess is still pending in the file.
LEMMA EndKeeps ==
  ASSUME RetryInv, GuessInv, RetryInv', Ends, UNCHANGED guesses,
         \/ UNCHANGED <<reset, boot, now>> /\ resetDisk' \in {reset, resetDisk}
         \/ reset' \in {reset, resetDisk} /\ resetDisk' = reset' /\ boot' = boot + 1,
         pc' \in {"apply", "status", "idle"}
  PROVE  GuessInv'
<1>1. /\ reset' \in Attempts /\ resetDisk' \in Attempts
      /\ validAttempts(reset)' /\ validAttempts(resetDisk)' /\ GuessesCharged'
  BY DEF GuessInv, validAttempts, GuessesCharged
<1>2. /\ ended' \in Tick /\ ended'.boot <= boot
      /\ ended' = Clock \/ ended' = ended
  BY GuessTypes DEF Ends, GuessInv
<1>3. boot' \in Nat /\ (ended'.boot = boot' => UNCHANGED <<reset, boot, now>>)
  BY <1>2, GuessTypes DEF GuessInv, Tick
<1>4. ended'.boot <= boot' /\ (ended'.boot = boot' => ended'.nanos <= now')
  BY <1>2, <1>3, GuessTypes DEF GuessInv
<1>5. DelayServed'
  <2>1. CASE pc = "verify"
    BY <1>3, <2>1 DEF GuessInv, DelayServed
  <2>2. CASE pc # "verify"
    BY <1>3, <2>2 DEF GuessInv, DelayServed, Ends
  <2> QED
    BY <2>1, <2>2
<1> QED
  BY <1>1, <1>2, <1>4, <1>5 DEF GuessInv, TornResetKeepsCharge

\* settle at a reading no older than the end of the last verification.
LEMMA SettleKeeps ==
  ASSUME RetryInv, GuessInv, NEW t \in Tick, t.boot = boot, t.nanos <= now,
         ended.boot = boot => ended.nanos <= t.nanos,
         NEW s, s = settle(reset, t), reset' = s, resetDisk' \in {reset, s},
         UNCHANGED <<guesses, ended, boot, now>>, pc' \in {"idle", "guess"},
         pc' = "guess" => s.failures < LIMIT /\ s.cooldown = NoCooldown
  PROVE  GuessInv'
<1>0. t.nanos \in Nat
  BY RetryConstants DEF Tick
<1>1. /\ s \in Attempts /\ validAttempts(s) /\ s.failures = reset.failures /\ ~s.pending
      /\ reset.pending /\ reset.failures >= DELAY_AFTER =>
           /\ s.cooldown # NoCooldown /\ s.cooldown.boot = t.boot
           /\ s.cooldown.deadline = t.nanos + DELAY
      /\ ~reset.pending /\ reset.cooldown # NoCooldown /\ reset.cooldown.boot = t.boot =>
           s.cooldown = reset.cooldown \/ t.nanos >= reset.cooldown.deadline
  BY SettleGuess DEF GuessInv
<1>2. /\ reset' \in Attempts /\ resetDisk' \in Attempts
      /\ validAttempts(reset)' /\ validAttempts(resetDisk)'
  BY <1>1 DEF GuessInv, validAttempts
<1>3. GuessesCharged'
  BY <1>1 DEF GuessInv, GuessesCharged
<1>4. DelayServed'
  <2> SUFFICES ASSUME guesses >= DELAY_AFTER, ended.boot = boot
               PROVE  \/ /\ s.cooldown # NoCooldown /\ s.cooldown.boot = boot
                         /\ s.cooldown.deadline >= ended.nanos + DELAY
                      \/ now >= ended.nanos + DELAY
    BY DEF DelayServed
  <2>1. reset.failures >= DELAY_AFTER
    BY GuessTypes DEF GuessInv, GuessesCharged
  <2>2. CASE reset.pending
    BY <1>0, <1>1, <2>1, <2>2, GuessTypes
  <2>3. CASE ~reset.pending /\ ~(now >= ended.nanos + DELAY)
    <3>1. /\ reset.cooldown # NoCooldown /\ reset.cooldown.boot = boot
          /\ reset.cooldown.deadline >= ended.nanos + DELAY
      BY <2>3 DEF GuessInv, DelayServed
    <3>2. reset.cooldown.deadline \in Nat
      BY <3>1, AttemptTypes DEF GuessInv
    <3> QED
      BY <1>0, <1>1, <2>3, <3>1, <3>2, GuessTypes
  <2> QED
    BY <2>2, <2>3
<1> QED
  BY <1>1, <1>2, <1>3, <1>4 DEF GuessInv, TornResetKeepsCharge

\* The charge is on file before the helper runs.
LEMMA ChargeGuessKeeps ==
  ASSUME RetryInv, GuessInv, ChargeGuess
  PROVE  GuessInv'
<1> DEFINE a == [failures |-> reset.failures + 1, pending |-> TRUE, cooldown |-> reset.cooldown]
<1>0. /\ pc = "guess" /\ UNCHANGED <<ended, boot, now>>
      /\ reset' = [reset EXCEPT !.failures = @ + 1, !.pending = TRUE]
      /\ \/ resetDisk' = reset' /\ pc' = "verify" /\ guesses' = guesses + 1
         \/ resetDisk' = reset /\ pc' = "idle" /\ guesses' = guesses
  BY DEF ChargeGuess, CommitAttempts, clockVars
<1>1. reset' = a
  BY <1>0 DEF GuessInv, Attempts
<1>2. a \in Attempts /\ a.failures = reset.failures + 1 /\ a.pending = TRUE /\ a.cooldown = reset.cooldown
  BY GuessTypes DEF GuessInv, Attempts
<1> HIDE DEF a
<1>3. reset.failures < LIMIT /\ reset.cooldown = NoCooldown
  BY <1>0 DEF GuessInv
<1>4. validAttempts(a)
  BY <1>2, <1>3, GuessTypes DEF validAttempts
<1>5. /\ reset' \in Attempts /\ resetDisk' \in Attempts
      /\ validAttempts(reset)' /\ validAttempts(resetDisk)'
  BY <1>0, <1>1, <1>2, <1>4 DEF GuessInv, validAttempts
<1>6. guesses' \in Nat /\ GuessesCharged'
  BY <1>0, <1>1, <1>2, <1>3, GuessTypes DEF GuessInv, GuessesCharged
<1>7. reset'.pending
  BY <1>1, <1>2
<1> QED
  BY <1>0, <1>5, <1>6, <1>7 DEF GuessInv, TornResetKeepsCharge, DelayServed

\* The guesses are given back once the face record's reset is durable.
LEMMA ResetGuessesKeeps ==
  ASSUME RetryInv, GuessInv, ResetGuesses
  PROVE  GuessInv'
<1>0. /\ UNCHANGED <<ended, boot, now>> /\ pc' = "idle" /\ guesses' = 0
      /\ reset' = NoAttempts /\ resetDisk' \in {reset, NoAttempts}
  BY DEF ResetGuesses, CommitAttempts, clockVars
<1>1. /\ reset' \in Attempts /\ resetDisk' \in Attempts
      /\ validAttempts(reset)' /\ validAttempts(resetDisk)'
  BY <1>0, GuessTypes DEF GuessInv, validAttempts
<1>2. GuessesCharged' /\ DelayServed'
  BY <1>0, GuessTypes DEF GuessesCharged, DelayServed
<1> QED
  BY <1>0, <1>1, <1>2 DEF GuessInv, TornResetKeepsCharge

LEMMA TimeKeepsGuesses ==
  ASSUME RetryInv, GuessInv, RecoveryTimePasses
  PROVE  GuessInv'
<1>0. now' = now + 1 /\ UNCHANGED <<boot, pc, tick, face, faceDisk, reset, resetDisk, guesses, ended>>
  BY DEF RecoveryTimePasses, TimePasses, faceVars, resetVars
<1>1. validAttempts(reset)' /\ validAttempts(resetDisk)' /\ GuessesCharged' /\ TornResetKeepsCharge'
  BY <1>0 DEF GuessInv, validAttempts, GuessesCharged, TornResetKeepsCharge
<1>2. DelayServed'
  BY SMTT(20), <1>0, GuessTypes DEF GuessInv, DelayServed
<1> QED
  BY <1>0, <1>1, <1>2, GuessTypes, RetryTypes DEF GuessInv

\* No step of any operation, and no interruption, breaks the guesses' part.
LEMMA GuessKept == RetryInv /\ RetryInv' /\ GuessInv /\ [RecoveryNext]_recoveryVars => GuessInv'
<1> SUFFICES ASSUME RetryInv, RetryInv', GuessInv, [RecoveryNext]_recoveryVars PROVE GuessInv'
  OBVIOUS
<1>1. CASE FaceStep
  <2>1. pc' \in {"idle", "check", "charge", "face"} /\ UNCHANGED <<boot, now>>
    BY <1>1 DEF FaceStep, Begin, Check, Charge, Delivered, Denied, Commit, clockVars
  <2> QED
    BY <1>1, <2>1, QuietGuessKeeps DEF FaceStep, resetVars, TornResetKeepsCharge
<1>2. CASE OpenStatus \/ \E admin \in BOOLEAN : OpenReset(admin)
  BY <1>2, QuietGuessKeeps DEF OpenStatus, OpenReset, clockVars, resetVars, TornResetKeepsCharge
<1>3. CASE StatusFace
  <2>1. pc' \in {"idle", "status2"} /\ tick' = Clock
    BY <1>3 DEF StatusFace, Commit
  <2> QED
    BY <1>3, <2>1, QuietGuessKeeps DEF StatusFace, clockVars, TornResetKeepsCharge
<1>4. CASE ResetFace
  <2>1. pc' = "idle" \/ (pc' = "clear" /\ face' = Reset /\ faceDisk' = Reset)
    BY <1>4 DEF ResetFace, Commit
  <2> QED
    BY <1>4, <2>1, QuietGuessKeeps DEF ResetFace, clockVars, TornResetKeepsCharge
<1>5. CASE StatusGuesses
  <2>1. PICK s : s = settle(reset, tick)
    OBVIOUS
  <2>2. /\ pc = "status2" /\ UNCHANGED <<guesses, ended, boot, now>> /\ pc' = "idle"
        /\ reset' = s /\ resetDisk' \in {reset, s}
    BY <1>5, <2>1 DEF StatusGuesses, CommitAttempts, Proceed, clockVars
  <2> QED
    BY <2>1, <2>2, SettleKeeps, RetryTypes DEF GuessInv
<1>6. CASE SettleReset
  <2>1. PICK s : s = settle(reset, Clock)
    OBVIOUS
  <2>2. /\ UNCHANGED <<guesses, ended, boot, now>>
        /\ reset' = s /\ resetDisk' \in {reset, s} /\ pc' \in {"idle", "guess"}
        /\ pc' = "guess" => ~(s.failures >= LIMIT) /\ s.cooldown = NoCooldown
    BY <1>6, <2>1 DEF SettleReset, CommitAttempts, Proceed, clockVars
  <2>3. s.failures \in Nat
    BY <2>1, SettleGuess, AttemptTypes, GuessTypes DEF GuessInv
  <2> QED
    BY SMTT(20), <2>1, <2>2, <2>3, SettleKeeps, GuessTypes DEF GuessInv
<1>7. CASE ChargeGuess \/ ResetGuesses
  BY <1>7, ChargeGuessKeeps, ResetGuessesKeeps
<1>8. CASE \E success \in BOOLEAN : Verified(success)
  BY <1>8, EndKeeps DEF Verified, Ends, clockVars, resetVars
<1>9. CASE RecoveryStops \/ RecoveryPowerLoss
  BY <1>9, EndKeeps DEF RecoveryStops, RecoveryPowerLoss, Stops, PowerLoss, clockVars
<1>10. CASE RecoveryTimePasses
  BY <1>10, TimeKeepsGuesses
<1>11. CASE UNCHANGED recoveryVars
  BY <1>11 DEF recoveryVars, retryVars, resetVars, GuessInv, validAttempts, GuessesCharged,
     TornResetKeepsCharge, DelayServed
<1> QED
  BY <1>1, <1>2, <1>3, <1>4, <1>5, <1>6, <1>7, <1>8, <1>9, <1>10, <1>11 DEF RecoveryNext

(* Attempts, status calls and resets share the operation lock and the two  *)
(* files; every reachable state satisfies the inductive invariant.         *)
THEOREM RecoveryInvariant == RecoverySpec => []RecoveryInv
<1>1. RecoveryInit => RetryInv /\ GuessInv
  <2> SUFFICES ASSUME RecoveryInit PROVE RetryInv /\ GuessInv
    OBVIOUS
  <2>1. RetryInv
    BY InitRetryInv DEF RecoveryInit
  <2>2. NoAttempts \in Attempts /\ validAttempts(NoAttempts) /\ NoAttempts.failures = 0
    BY RecoveryConstants DEF NoAttempts, Attempts, validAttempts
  <2>3. ended \in Tick /\ ended.boot = 0 /\ ended.nanos = 0 /\ boot = 0 /\ now = 0 /\ pc = "idle"
    BY RetryConstants DEF RecoveryInit, RetryInit, Tick
  <2>4. GuessesCharged /\ TornResetKeepsCharge /\ DelayServed
    BY <2>2, <2>3, RecoveryConstants DEF RecoveryInit, GuessesCharged, TornResetKeepsCharge, DelayServed
  <2> QED
    BY <2>1, <2>2, <2>3, <2>4 DEF RecoveryInit, GuessInv
<1>2. RetryInv /\ GuessInv /\ [RecoveryNext]_recoveryVars => (RetryInv /\ GuessInv)'
  BY RetryKept, GuessKept
<1> QED
  BY <1>1, <1>2, Splits, PTL DEF RecoverySpec

(* Every record and every guess record that an operation writes passes its *)
(* own validation (Record::validate, Attempts::validate), so no account is *)
(* refused for what the daemon itself wrote.                               *)
THEOREM RecordsValid == RecoverySpec => [](RetryTypeOK /\ RecoveryTypeOK)
<1>1. RecoveryInv => RetryTypeOK /\ RecoveryTypeOK
  BY DEF RecoveryInv, RecoveryTypeOK
<1> QED BY RecoveryInvariant, <1>1, PTL

(* At most FACE_LIMIT face attempts begin between two confirmed resets,    *)
(* whatever crashes, failed writes and power losses interrupt them.        *)
THEOREM AttemptsCharged == RecoverySpec => []ChargedForGood
<1>1. RecoveryInv => ChargedForGood
  BY DEF RecoveryInv, RetryInv
<1> QED BY RecoveryInvariant, <1>1, PTL

(* Face work never starts with policy.limit or more unforgiven failures    *)
(* behind it, and no failure is lost from either copy of the record.       *)
THEOREM FailuresKept == RecoverySpec => []FailuresRemembered
<1>1. RecoveryInv => FailuresRemembered
  BY InvRemembers DEF RecoveryInv
<1> QED BY RecoveryInvariant, <1>1, PTL

(* The clock reading check takes before it waits for the directory lock is *)
(* never older than a cooldown it then finds.                              *)
THEOREM NeverFromTheFuture == RecoverySpec => []ClockNeverBackwards
<1>1. RecoveryInv => ClockNeverBackwards
  BY InvOrdersClock DEF RecoveryInv
<1> QED BY RecoveryInvariant, <1>1, PTL

(* At most LIMIT passwords are verified between two resets of the guesses, *)
(* although a guess may be cut short at any moment (Recovery::reset).      *)
THEOREM GuessesPaid == RecoverySpec => []GuessesCharged
<1>1. RecoveryInv => GuessesCharged
  BY DEF RecoveryInv
<1> QED BY RecoveryInvariant, <1>1, PTL

(* Guesses are given back only behind a durable reset of the face record.  *)
THEOREM ResetInOrder == RecoverySpec => []TornResetKeepsCharge
<1>1. RecoveryInv => TornResetKeepsCharge
  BY DEF RecoveryInv
<1> QED BY RecoveryInvariant, <1>1, PTL

(* After DELAY_AFTER guesses no verification starts within DELAY of the    *)
(* end of the one before, unless the machine was restarted in between.     *)
THEOREM GuessesAreSpaced == RecoverySpec => GuessesPaced
<1>1. RecoveryInv /\ [RecoveryNext]_recoveryVars =>
        (pc # "verify" /\ pc' = "verify" /\ guesses >= DELAY_AFTER /\ ended.boot = boot =>
           now >= ended.nanos + DELAY)
  <2> SUFFICES ASSUME RecoveryInv, [RecoveryNext]_recoveryVars, pc # "verify", pc' = "verify",
                      guesses >= DELAY_AFTER, ended.boot = boot
               PROVE  now >= ended.nanos + DELAY
    OBVIOUS
  <2>1. pc = "guess"
    BY DEF RecoveryNext, recoveryVars, retryVars, FaceStep, Begin, Check, Charge, Delivered, Denied, Commit,
       OpenStatus, StatusFace, StatusGuesses, OpenReset, SettleReset, ChargeGuess, Verified, ResetFace,
       ResetGuesses, CommitAttempts, Proceed, RecoveryStops, Stops, RecoveryTimePasses, TimePasses,
       RecoveryPowerLoss, PowerLoss
  <2> QED
    BY <2>1 DEF RecoveryInv, DelayServed
<1> QED
  BY <1>1, RecoveryInvariant, PTL DEF RecoverySpec, GuessesPaced
=============================================================================
