--------------------------- MODULE ArbiterProofs ----------------------------
(***************************************************************************)
(* The arbiter's safety, for any number of requests, uids and tasks.       *)
(***************************************************************************)
EXTENDS Arbiter, TLAPS

\* The five invariants that hold each other up: what submit, take_work and
\* finish keep is only inductive with the exact meaning of auth_running.
ArbiterInv ==
  /\ ArbiterTypeOK
  /\ AuthRunningExact
  /\ YieldReachesCamera
  /\ NoLostWakeup
  /\ SlotsBacked

\* push_back adds exactly its argument to a queue.
LEMMA QueuedAppend ==
  ASSUME NEW S, NEW s \in Seq(S), NEW x \in S
  PROVE  /\ Append(s, x) \in Seq(S)
         /\ Queued(Append(s, x)) = Queued(s) \cup {x}
  BY DEF Queued

\* pop_front takes exactly the head out of a queue's sequence.
LEMMA QueuedTail ==
  ASSUME NEW S, NEW s \in Seq(S), s # <<>>
  PROVE  /\ Head(s) \in S /\ Tail(s) \in Seq(S)
         /\ Queued(s) = Queued(Tail(s)) \cup {Head(s)}
<1>1. Head(s) \in S /\ Tail(s) \in Seq(S)
  OBVIOUS
<1>2. Len(s) \in Nat \ {0} /\ Head(s) = s[1] /\ Len(Tail(s)) = Len(s) - 1
      /\ \A i \in 1..Len(s) - 1 : Tail(s)[i] = s[i + 1]
  OBVIOUS
<1>3. \A i \in 1..Len(s) : i = 1 \/ i - 1 \in 1..Len(Tail(s))
  BY <1>2
<1>4. \A i \in 1..Len(s) : s[i] \in Queued(Tail(s)) \cup {Head(s)}
  <2> TAKE i \in 1..Len(s)
  <2>1. CASE i = 1
    BY <2>1, <1>2
  <2>2. CASE i - 1 \in 1..Len(Tail(s))
    <3>1. Tail(s)[i - 1] = s[i]
      BY <2>2, <1>2
    <3> QED BY <2>2, <3>1 DEF Queued
  <2> QED BY <1>3, <2>1, <2>2
<1>5. Queued(Tail(s)) \cup {Head(s)} \subseteq Queued(s)
  BY <1>2 DEF Queued
<1> QED BY <1>1, <1>4, <1>5 DEF Queued

\* The slots of a queue that only grows, with the worker holding no camera job
\* less, stay backed.
LEMMA BackedWhenMore ==
  ASSUME SlotsBacked,
         \A u \in camera_slots' : u \in camera_slots \/ (CameraJobs(u))' # {},
         Queued(other) \subseteq Queued(other)',
         \A r \in Requests : worker = r => worker' = r \/ r \in Queued(other)'
  PROVE  SlotsBacked'
  BY DEF SlotsBacked, CameraJobs

LEMMA InitArbiterInv == ArbiterInit => ArbiterInv
<1> SUFFICES ASSUME ArbiterInit PROVE ArbiterInv
  OBVIOUS
<1> USE ArbiterConstants
<1>1. ArbiterTypeOK
  <2>1. /\ auth \in Seq({r \in Requests : class[r] = "Auth"})
        /\ other \in Seq({r \in Requests : class[r] # "Auth"})
        /\ background \in Seq(Tasks)
    BY DEF ArbiterInit
  <2>2. /\ auth_running \in BOOLEAN /\ closed \in BOOLEAN
        /\ yield_requested \in BOOLEAN /\ cancel_requested \in BOOLEAN
    BY Zenon DEF ArbiterInit
  <2> QED BY <2>1, <2>2, Zenon DEF ArbiterInit, ArbiterTypeOK
<1>2. AuthRunningExact /\ YieldReachesCamera /\ NoLostWakeup /\ SlotsBacked
  BY DEF ArbiterInit, AuthRunningExact, YieldReachesCamera, NoLostWakeup, SlotsBacked, Holding
<1> QED BY <1>1, <1>2 DEF ArbiterInv

LEMMA SubmitKeeps ==
  ASSUME ArbiterInv, NEW r \in Requests, Submit(r)
  PROVE  ArbiterInv'
<1> USE RequestConstants, ArbiterConstants
<1>0. worker' = worker \/ (worker = Parked /\ worker' = Awake)
  BY DEF Submit, Notify
<1>1. ArbiterTypeOK'
  <2>1. /\ auth' \in Seq({q \in Requests : class[q] = "Auth"})
        /\ other' \in Seq({q \in Requests : class[q] # "Auth"})
    <3> DEFINE A == {q \in Requests : class[q] = "Auth"}
               B == {q \in Requests : class[q] # "Auth"}
    <3>1. auth \in Seq(A) /\ other \in Seq(B) /\ (r \in A <=> class[r] = "Auth")
          /\ (r \in B <=> class[r] # "Auth")
      BY DEF ArbiterInv, ArbiterTypeOK
    <3>2. \/ r \in A /\ auth' = Append(auth, r) /\ other' = other
          \/ r \in B /\ auth' = auth /\ other' = Append(other, r)
      BY <3>1 DEF Submit, SubmitAuth, SubmitCamera, SubmitPlain
    <3> HIDE DEF A, B
    <3>3. (r \in A => Append(auth, r) \in Seq(A)) /\ (r \in B => Append(other, r) \in Seq(B))
      BY <3>1, QueuedAppend
    <3>4. auth' \in Seq(A) /\ other' \in Seq(B)
      BY <3>1, <3>2, <3>3, Zenon
    <3> QED BY <3>4 DEF A, B
  <2>2. camera_slots' \in SUBSET (Uids \ {Root}) /\ seen' \in SUBSET Requests
    BY DEF ArbiterInv, ArbiterTypeOK, Submit, SubmitAuth, SubmitCamera, SubmitPlain
  <2>3. yield_requested' \in BOOLEAN
    BY Zenon DEF ArbiterInv, ArbiterTypeOK, Submit, SubmitAuth, SubmitCamera, SubmitPlain
  <2>4. worker' \in Requests \cup Tasks \cup {Awake, Parked, Stopped}
    BY <1>0 DEF ArbiterInv, ArbiterTypeOK
  <2> QED BY <2>1, <2>2, <2>3, <2>4, Zenon DEF ArbiterInv, ArbiterTypeOK, Submit
<1>2. AuthRunningExact'
  BY <1>0 DEF ArbiterInv, AuthRunningExact, Submit
<1>3. YieldReachesCamera'
  BY <1>0 DEF ArbiterInv, YieldReachesCamera, Holding, Submit, SubmitAuth, SubmitCamera, SubmitPlain
<1>4. NoLostWakeup'
  BY DEF ArbiterInv, NoLostWakeup, Submit, Notify
<1>5. Queued(other) \subseteq Queued(other)'
      /\ (class[r] = "Camera" => r \in Queued(other)')
  <2>1. CASE SubmitAuth(r)
    BY <2>1 DEF SubmitAuth
  <2>2. CASE SubmitCamera(r) \/ SubmitPlain(r)
    <3>1. other \in Seq({q \in Requests : class[q] # "Auth"}) /\ class[r] # "Auth" /\ other' = Append(other, r)
      BY <2>2 DEF ArbiterInv, ArbiterTypeOK, SubmitCamera, SubmitPlain
    <3>2. Queued(Append(other, r)) = Queued(other) \cup {r}
      BY <3>1, QueuedAppend
    <3>3. Queued(other)' = Queued(Append(other, r))
      BY <3>1 DEF Queued
    <3> QED BY <3>2, <3>3
  <2> QED BY <2>1, <2>2 DEF Submit
<1>6. \A u \in camera_slots' : u \in camera_slots \/ (CameraJobs(u))' # {}
  <2>1. CASE SubmitCamera(r)
    <3>1. \A u \in camera_slots' : u \in camera_slots \/ u = uid[r]
      BY <2>1 DEF SubmitCamera
    <3>2. r \in (CameraJobs(uid[r]))'
      BY <2>1, <1>5 DEF SubmitCamera, CameraJobs
    <3> QED BY <3>1, <3>2
  <2>2. CASE SubmitAuth(r) \/ SubmitPlain(r)
    BY <2>2 DEF SubmitAuth, SubmitPlain
  <2> QED BY <2>1, <2>2 DEF Submit
<1>7. SlotsBacked'
  BY <1>0, <1>5, <1>6, BackedWhenMore DEF ArbiterInv
<1> QED BY <1>1, <1>2, <1>3, <1>4, <1>7 DEF ArbiterInv

\* The steps of other threads and of the worker's pauses, which leave queues
\* and slots alone or let the background queue grow.
LEMMA QuietKeeps ==
  ASSUME ArbiterInv,
         \/ \E r \in Requests : Refuse(r) \/ Cancel(r)
         \/ \E t \in Tasks : SubmitBackground(t)
         \/ TakeNothing \/ Wait \/ Close \/ UNCHANGED arbiterVars
  PROVE  ArbiterInv'
<1> USE ArbiterConstants
<1> USE DEF Refuse, Cancel, RequestCancel, SubmitBackground, TakeNothing, Wait, Close, Notify,
            arbiterVars, queueVars, tokenVars
<1>1. /\ UNCHANGED <<auth, other, camera_slots, auth_running, yield_requested>>
      /\ \/ worker' = worker
         \/ {worker, worker'} \subseteq {Awake, Parked, Stopped}
  OBVIOUS
<1>2. ArbiterTypeOK'
  <2>1. background' \in Seq(Tasks)
    BY QueuedAppend DEF ArbiterInv, ArbiterTypeOK
  <2>2. closed' \in BOOLEAN /\ cancel_requested' \in BOOLEAN
    BY Zenon DEF ArbiterInv, ArbiterTypeOK
  <2>3. seen' \in SUBSET Requests
    BY DEF ArbiterInv, ArbiterTypeOK
  <2>4. worker' \in Requests \cup Tasks \cup {Awake, Parked, Stopped}
    BY <1>1 DEF ArbiterInv, ArbiterTypeOK
  <2> QED BY <1>1, <2>1, <2>2, <2>3, <2>4, Zenon DEF ArbiterInv, ArbiterTypeOK
<1>3. AuthRunningExact'
  BY <1>1 DEF ArbiterInv, AuthRunningExact
<1>4. YieldReachesCamera'
  BY <1>1 DEF ArbiterInv, YieldReachesCamera, Holding
<1>5. NoLostWakeup'
  BY DEF ArbiterInv, NoLostWakeup
<1>6. SlotsBacked'
  <2>1. Queued(other)' = Queued(other) /\ camera_slots' = camera_slots
    BY <1>1 DEF Queued
  <2>2. \A r \in Requests : worker = r => worker' = r
    BY <1>1
  <2> QED BY <2>1, <2>2, BackedWhenMore DEF ArbiterInv
<1> QED BY <1>2, <1>3, <1>4, <1>5, <1>6 DEF ArbiterInv

\* take_work handing out an item: the queue's head becomes what the worker holds.
LEMMA TakeKeeps ==
  ASSUME ArbiterInv, TakeAuth \/ TakeOther \/ TakeBackground
  PROVE  ArbiterInv'
<1> USE ArbiterConstants
<1> DEFINE A == {q \in Requests : class[q] = "Auth"}
           B == {q \in Requests : class[q] # "Auth"}
<1>0. auth \in Seq(A) /\ other \in Seq(B) /\ background \in Seq(Tasks) /\ worker = Awake /\ ~auth_running
  BY DEF ArbiterInv, ArbiterTypeOK, AuthRunningExact, TakeAuth, TakeOther, TakeBackground
<1>1. CASE TakeAuth
  <2>1. worker' \in A /\ auth' \in Seq(A)
    BY <1>0, <1>1, QueuedTail DEF TakeAuth
  <2>2. ArbiterTypeOK'
    BY <1>0, <1>1, <2>1, Zenon DEF ArbiterInv, ArbiterTypeOK, TakeAuth, ResetToken
  <2>3. AuthRunningExact' /\ YieldReachesCamera' /\ NoLostWakeup'
    BY <1>1, <2>1 DEF TakeAuth, AuthRunningExact, YieldReachesCamera, NoLostWakeup
  <2>4. Queued(other)' = Queued(other) /\ camera_slots' = camera_slots
    BY <1>1 DEF TakeAuth, Queued
  <2>5. SlotsBacked'
    BY <1>0, <2>4, BackedWhenMore DEF ArbiterInv
  <2> QED BY <2>2, <2>3, <2>5 DEF ArbiterInv
<1>2. CASE TakeOther
  <2>1. worker' \in B /\ other' \in Seq(B) /\ Queued(other) = Queued(Tail(other)) \cup {worker'}
    BY <1>0, <1>2, QueuedTail DEF TakeOther
  <2>2. ArbiterTypeOK'
    BY <1>0, <1>2, <2>1, Zenon DEF ArbiterInv, ArbiterTypeOK, TakeOther, ResetToken
  <2>3. AuthRunningExact' /\ YieldReachesCamera' /\ NoLostWakeup'
    BY <1>0, <1>2, <2>1 DEF TakeOther, AuthRunningExact, YieldReachesCamera, NoLostWakeup
  <2>4. Queued(other)' = Queued(Tail(other)) /\ camera_slots' = camera_slots
    BY <1>2 DEF TakeOther, Queued
  <2>5. \A u \in camera_slots : CameraJobs(u) \subseteq (CameraJobs(u))'
    BY <1>0, <2>1, <2>4 DEF CameraJobs
  <2>6. SlotsBacked'
    BY <2>4, <2>5 DEF ArbiterInv, SlotsBacked
  <2> QED BY <2>2, <2>3, <2>6 DEF ArbiterInv
<1>3. CASE TakeBackground
  <2>1. worker' \in Tasks /\ background' \in Seq(Tasks)
    BY <1>0, <1>3, QueuedTail DEF TakeBackground
  <2>2. ArbiterTypeOK'
    BY <1>0, <1>3, <2>1, Zenon DEF ArbiterInv, ArbiterTypeOK, TakeBackground, ResetToken
  <2>3. AuthRunningExact' /\ YieldReachesCamera' /\ NoLostWakeup'
    BY <1>0, <1>3, <2>1 DEF TakeBackground, AuthRunningExact, YieldReachesCamera, NoLostWakeup
  <2>4. Queued(other)' = Queued(other) /\ camera_slots' = camera_slots
    BY <1>3 DEF TakeBackground, Queued
  <2>5. SlotsBacked'
    BY <1>0, <2>4, BackedWhenMore DEF ArbiterInv
  <2> QED BY <2>2, <2>3, <2>5 DEF ArbiterInv
<1> QED BY <1>1, <1>2, <1>3

\* finish: a uid that keeps its slot has a camera job that is not the one ending.
LEMMA FinishKeeps ==
  ASSUME ArbiterInv,
         \/ \E r \in Requests : FinishRequest(r)
         \/ \E t \in Tasks : FinishTask(t)
  PROVE  ArbiterInv'
<1> USE ArbiterConstants, RequestConstants
<1>1. UNCHANGED <<auth, other, background, closed, yield_requested, cancel_requested, seen>>
      /\ worker' = Awake /\ worker \in Requests \cup Tasks
  BY DEF FinishRequest, FinishTask, queueVars, tokenVars
<1>2. auth_running' = FALSE
  BY DEF ArbiterInv, ArbiterTypeOK, AuthRunningExact, FinishRequest, FinishTask, Finish
<1>3. camera_slots' \subseteq camera_slots
  BY DEF FinishRequest, FinishTask, Finish
<1>4. ArbiterTypeOK'
  BY <1>1, <1>2, <1>3, Zenon DEF ArbiterInv, ArbiterTypeOK
<1>5. AuthRunningExact' /\ YieldReachesCamera' /\ NoLostWakeup'
  BY <1>1, <1>2 DEF AuthRunningExact, YieldReachesCamera, NoLostWakeup, Holding
<1>6. SlotsBacked'
  <2>1. SUFFICES ASSUME NEW u \in camera_slots' PROVE (CameraJobs(u))' # {}
    BY DEF SlotsBacked
  <2>2. PICK r \in Requests : r \in CameraJobs(u)
    BY <1>3 DEF ArbiterInv, SlotsBacked, CameraJobs
  <2>3. worker # r
    BY <2>2 DEF CameraJobs, FinishRequest, FinishTask, Finish
  <2>4. r \in (CameraJobs(u))'
    BY <1>1, <2>2, <2>3 DEF CameraJobs, Queued
  <2> QED BY <2>4
<1> QED BY <1>4, <1>5, <1>6 DEF ArbiterInv

(* Every reachable state of the arbiter satisfies the inductive invariant. *)
THEOREM ArbiterInvariant == ArbiterSpec => []ArbiterInv
<1>1. ArbiterInv /\ [ArbiterNext]_arbiterVars => ArbiterInv'
  BY SubmitKeeps, QuietKeeps, TakeKeeps, FinishKeeps DEF ArbiterNext
<1> QED BY InitArbiterInv, <1>1, PTL DEF ArbiterSpec

(* auth_running means that the worker holds an authentication: no path of  *)
(* take_work and finish leaves it set, or clears it too early.             *)
THEOREM AuthRunningCorrect == ArbiterSpec => []AuthRunningExact
<1>1. ArbiterInv => AuthRunningExact
  BY DEF ArbiterInv
<1> QED BY ArbiterInvariant, <1>1, PTL

(* However submissions and takes interleave, camera work that keeps an     *)
(* authentication waiting has been asked to yield.                         *)
THEOREM YieldIsNeverLost == ArbiterSpec => []YieldReachesCamera
<1>1. ArbiterInv => YieldReachesCamera
  BY DEF ArbiterInv
<1> QED BY ArbiterInvariant, <1>1, PTL

(* submit, submit_background and close never leave the worker waiting on   *)
(* the condition variable with something to do.                            *)
THEOREM WorkerIsWoken == ArbiterSpec => []NoLostWakeup
<1>1. ArbiterInv => NoLostWakeup
  BY DEF ArbiterInv
<1> QED BY ArbiterInvariant, <1>1, PTL

(* finish leaks no slot: a charged uid has a camera job queued or running. *)
THEOREM NoSlotLeaks == ArbiterSpec => []SlotsBacked
<1>1. ArbiterInv => SlotsBacked
  BY DEF ArbiterInv
<1> QED BY ArbiterInvariant, <1>1, PTL

(* The authentication queue holds only authentications and the other one   *)
(* none, so take_work's order by queue is an order by class.               *)
THEOREM QueuesByClass == ArbiterSpec => []ArbiterTypeOK
<1>1. ArbiterInv => ArbiterTypeOK
  BY DEF ArbiterInv
<1> QED BY ArbiterInvariant, <1>1, PTL

-----------------------------------------------------------------------------
(* The refinement.                                                         *)

(* A queue without duplicates, and one more item or one fewer.             *)
LEMMA DistinctAppend ==
  ASSUME NEW S, NEW s \in Seq(S), NEW x \in S, x \notin Queued(s), Distinct(s)
  PROVE  Distinct(Append(s, x))
BY DEF Distinct, Queued

LEMMA DistinctTail ==
  ASSUME NEW S, NEW s \in Seq(S), s # <<>>, Distinct(s)
  PROVE  Distinct(Tail(s)) /\ Head(s) \notin Queued(Tail(s))
<1>1. /\ Len(s) \in Nat /\ Len(s) > 0 /\ DOMAIN s = 1..Len(s) /\ Head(s) = s[1]
      /\ Tail(s) \in Seq(S) /\ Len(Tail(s)) = Len(s) - 1
      /\ \A i \in 1..Len(Tail(s)) : Tail(s)[i] = s[i + 1]
  OBVIOUS
<1>2. DOMAIN Tail(s) = 1..Len(Tail(s))
  BY <1>1
<1>3. ASSUME NEW i \in 1..Len(Tail(s)), NEW j \in 1..Len(Tail(s)), Tail(s)[i] = Tail(s)[j]
      PROVE  i = j
  <2>1. s[i + 1] = s[j + 1] /\ i + 1 \in DOMAIN s /\ j + 1 \in DOMAIN s
    BY <1>1, <1>3
  <2>2. i + 1 = j + 1
    BY <2>1 DEF Distinct
  <2> QED
    BY <2>2
<1>4. ASSUME NEW i \in 1..Len(Tail(s)), Tail(s)[i] = Head(s)
      PROVE  FALSE
  <2>1. s[i + 1] = s[1] /\ i + 1 \in DOMAIN s /\ 1 \in DOMAIN s
    BY <1>1, <1>4
  <2>2. i + 1 = 1
    BY <2>1 DEF Distinct
  <2> QED
    BY <2>2
<1> QED
  BY <1>2, <1>3, <1>4 DEF Distinct, Queued

(* No item is in two places.                                               *)
LEMMA OnePlaceKept ==
  ASSUME ArbiterInv, OnePlace, [ArbiterNext]_arbiterVars
  PROVE  OnePlace'
<1> USE RequestConstants, ArbiterConstants
<1> DEFINE A == {q \in Requests : class[q] = "Auth"}
           O == {q \in Requests : class[q] # "Auth"}
<1>0. /\ auth \in Seq(A) /\ other \in Seq(O) /\ background \in Seq(Tasks)
      /\ Queued(auth) \subseteq A /\ Queued(other) \subseteq O /\ Queued(background) \subseteq Tasks
  BY DEF ArbiterInv, ArbiterTypeOK, Queued
<1>1. ASSUME NEW r \in Requests, Submit(r)
      PROVE  OnePlace'
  <2>0. /\ r \notin seen /\ seen' = seen \cup {r} /\ background' = background
        /\ worker' = worker \/ (worker = Parked /\ worker' = Awake)
    BY <1>1 DEF Submit, Notify
  <2>1. r \notin Queued(auth) /\ r \notin Queued(other) /\ worker # r
    BY <2>0 DEF OnePlace
  <2>2. /\ Distinct(auth') /\ Distinct(other')
        /\ Queued(auth') \cup Queued(other') = Queued(auth) \cup Queued(other) \cup {r}
    <3>1. CASE class[r] = "Auth" /\ auth' = Append(auth, r) /\ other' = other
      <4>1. r \in A
        BY <3>1
      <4>2. Distinct(auth') /\ Queued(auth') = Queued(auth) \cup {r}
        BY <1>0, <2>1, <3>1, <4>1, DistinctAppend, QueuedAppend DEF OnePlace
      <4> QED
        BY <3>1, <4>2 DEF OnePlace
    <3>2. CASE class[r] # "Auth" /\ other' = Append(other, r) /\ auth' = auth
      <4>1. r \in O
        BY <3>2
      <4>2. Distinct(other') /\ Queued(other') = Queued(other) \cup {r}
        BY <1>0, <2>1, <3>2, <4>1, DistinctAppend, QueuedAppend DEF OnePlace
      <4> QED
        BY <3>2, <4>2 DEF OnePlace
    <3> QED
      BY <1>1, <3>1, <3>2 DEF Submit, SubmitAuth, SubmitCamera, SubmitPlain
  <2>3. /\ Distinct(auth)' /\ Distinct(other)' /\ Distinct(background)'
        /\ Queued(auth)' \cup Queued(other)' = Queued(auth) \cup Queued(other) \cup {r}
        /\ Queued(background)' = Queued(background)
    <3>1. Queued(auth)' = Queued(auth') /\ Queued(other)' = Queued(other')
      BY DEF Queued
    <3>2. Distinct(auth)' /\ Distinct(other)'
      BY <2>2 DEF Distinct
    <3>3. Queued(background)' = Queued(background) /\ Distinct(background)'
      BY <2>0 DEF OnePlace, Distinct, Queued
    <3> QED
      BY <2>2, <3>1, <3>2, <3>3
  <2> QED
    BY <2>0, <2>1, <2>3 DEF OnePlace
<1>2. ASSUME NEW t \in Tasks, SubmitBackground(t)
      PROVE  OnePlace'
  <2>0. /\ UNCHANGED <<auth, other, seen>> /\ background' = Append(background, t)
        /\ t \notin Queued(background) /\ worker # t
        /\ worker' = worker \/ (worker = Parked /\ worker' = Awake)
    BY <1>2 DEF SubmitBackground, Notify
  <2>1. Distinct(background') /\ Queued(background') = Queued(background) \cup {t}
    BY <1>0, <2>0, DistinctAppend, QueuedAppend DEF OnePlace
  <2>2. /\ Distinct(auth)' /\ Distinct(other)' /\ Distinct(background)'
        /\ Queued(auth)' = Queued(auth) /\ Queued(other)' = Queued(other)
        /\ Queued(background)' = Queued(background) \cup {t}
    BY <2>0, <2>1 DEF OnePlace, Distinct, Queued
  <2> QED
    BY <2>0, <2>2 DEF OnePlace
<1>3. CASE TakeAuth
  <2>0. /\ auth # <<>> /\ auth' = Tail(auth) /\ worker' = Head(auth)
        /\ UNCHANGED <<other, background, seen>>
    BY <1>3 DEF TakeAuth
  <2>1. /\ Head(auth) \in A /\ Queued(auth) = Queued(Tail(auth)) \cup {Head(auth)}
        /\ Distinct(Tail(auth)) /\ Head(auth) \notin Queued(Tail(auth))
    BY <1>0, <2>0, QueuedTail, DistinctTail DEF OnePlace
  <2>2. /\ Distinct(auth)' /\ Distinct(other)' /\ Distinct(background)'
        /\ Queued(auth)' = Queued(Tail(auth)) /\ Queued(other)' = Queued(other)
        /\ Queued(background)' = Queued(background)
    BY <2>0, <2>1 DEF OnePlace, Distinct, Queued
  <2>3. Head(auth) \in Requests /\ Head(auth) \notin Queued(other) /\ Head(auth) \notin Tasks
    BY <1>0, <2>1
  <2> QED
    BY <2>0, <2>1, <2>2, <2>3 DEF OnePlace
<1>4. CASE TakeOther
  <2>0. /\ other # <<>> /\ other' = Tail(other) /\ worker' = Head(other)
        /\ UNCHANGED <<auth, background, seen>>
    BY <1>4 DEF TakeOther
  <2>1. /\ Head(other) \in O /\ Queued(other) = Queued(Tail(other)) \cup {Head(other)}
        /\ Distinct(Tail(other)) /\ Head(other) \notin Queued(Tail(other))
    BY <1>0, <2>0, QueuedTail, DistinctTail DEF OnePlace
  <2>2. /\ Distinct(auth)' /\ Distinct(other)' /\ Distinct(background)'
        /\ Queued(other)' = Queued(Tail(other)) /\ Queued(auth)' = Queued(auth)
        /\ Queued(background)' = Queued(background)
    BY <2>0, <2>1 DEF OnePlace, Distinct, Queued
  <2>3. Head(other) \in Requests /\ Head(other) \notin Queued(auth) /\ Head(other) \notin Tasks
    BY <1>0, <2>1
  <2> QED
    BY <2>0, <2>1, <2>2, <2>3 DEF OnePlace
<1>5. CASE TakeBackground
  <2>0. /\ background # <<>> /\ background' = Tail(background) /\ worker' = Head(background)
        /\ UNCHANGED <<auth, other, seen>>
    BY <1>5 DEF TakeBackground
  <2>1. /\ Head(background) \in Tasks /\ Queued(background) = Queued(Tail(background)) \cup {Head(background)}
        /\ Distinct(Tail(background)) /\ Head(background) \notin Queued(Tail(background))
    BY <1>0, <2>0, QueuedTail, DistinctTail DEF OnePlace
  <2>2. /\ Distinct(auth)' /\ Distinct(other)' /\ Distinct(background)'
        /\ Queued(background)' = Queued(Tail(background)) /\ Queued(auth)' = Queued(auth)
        /\ Queued(other)' = Queued(other)
    BY <2>0, <2>1 DEF OnePlace, Distinct, Queued
  <2> QED
    BY <2>0, <2>1, <2>2 DEF OnePlace
<1>6. CASE UNCHANGED queueVars /\ seen \subseteq seen' /\ worker' \in {worker, Awake, Parked, Stopped}
  BY <1>6 DEF OnePlace, Queued, Distinct, queueVars
<1> QED
  <2>1. CASE \/ \E r \in Requests : Refuse(r) \/ FinishRequest(r) \/ Cancel(r)
             \/ \E t \in Tasks : FinishTask(t)
             \/ TakeNothing \/ Wait \/ Close \/ UNCHANGED arbiterVars
    BY <1>6, <2>1 DEF Refuse, FinishRequest, Cancel, FinishTask, TakeNothing, Wait, Close, Notify,
       arbiterVars, queueVars
  <2> QED
    BY <1>1, <1>2, <1>3, <1>4, <1>5, <2>1 DEF ArbiterNext

(* One item's status changes.                                              *)
LEMMA StatusMoves ==
  ASSUME NEW i \in Requests \cup Tasks, NEW x,
         \A j \in Requests \cup Tasks : StatusOf(j)' = IF j = i THEN x ELSE StatusOf(j)
  PROVE  [j \in Requests \cup Tasks |-> StatusOf(j)]' =
           [[j \in Requests \cup Tasks |-> StatusOf(j)] EXCEPT ![i] = x]
OBVIOUS

(* Every step of the arbiter is a step of the promised service, or none.   *)
LEMMA StepKeepsPromise ==
  ASSUME ArbiterInv, OnePlace, [ArbiterNext]_arbiterVars
  PROVE  [Promise!Next]_([i \in Requests \cup Tasks |-> StatusOf(i)])
<1> USE RequestConstants, ArbiterConstants
<1> DEFINE Items == Requests \cup Tasks
           status == [i \in Items |-> StatusOf(i)]
           Line == Queued(auth) \cup Queued(other) \cup Queued(background)
<1>0. /\ Queued(auth) \subseteq {q \in Requests : class[q] = "Auth"}
      /\ Queued(other) \subseteq {q \in Requests : class[q] # "Auth"}
      /\ Queued(background) \subseteq Tasks /\ seen \subseteq Requests
      /\ Len(auth) \in Nat /\ Len(other) \in Nat /\ Len(background) \in Nat
  BY DEF ArbiterInv, ArbiterTypeOK, Queued
<1>1. \A i \in Items :
        StatusOf(i) = IF worker = i THEN "serving" ELSE IF i \in Line THEN "queued"
                      ELSE IF i \in seen THEN "over" ELSE "idle"
  BY DEF StatusOf
<1>2. \A i \in Items :
        StatusOf(i)' = IF worker' = i THEN "serving" ELSE IF i \in Line' THEN "queued"
                       ELSE IF i \in seen' THEN "over" ELSE "idle"
  BY DEF StatusOf
<1>3. ~auth_pending => \A a \in Items : StatusOf(a) \in {"queued", "serving"} => ~Promise!IsAuth(a)
  <2>1. ~auth_pending => Queued(auth) = {} /\ ~(worker \in Requests /\ class[worker] = "Auth")
    BY DEF auth_pending, Queued, ArbiterInv, AuthRunningExact
  <2> QED
    BY <1>0, <1>1, <2>1 DEF Promise!IsAuth
<1>4. ASSUME NEW i \in Items, StatusOf(i) = "idle",
             Promise!UsesCamera(i) => ~auth_pending,
             \A j \in Items : StatusOf(j)' = IF j = i THEN "queued" ELSE StatusOf(j)
      PROVE  Promise!Next
  <2>1. status' = [status EXCEPT ![i] = "queued"]
    BY <1>4, StatusMoves
  <2>2. Promise!Admit(i)
    BY <1>3, <1>4, <2>1 DEF Promise!Admit, Promise!WithStatus, Promise!Items
  <2> QED
    BY <2>2 DEF Promise!Next, Promise!Items
<1>5. ASSUME NEW r \in Requests, StatusOf(r) = "idle",
             \A j \in Items : StatusOf(j)' = IF j = r THEN "over" ELSE StatusOf(j)
      PROVE  Promise!Next
  <2>1. status' = [status EXCEPT ![r] = "over"]
    BY <1>5, StatusMoves
  <2>2. Promise!TurnAway(r)
    BY <1>5, <2>1 DEF Promise!TurnAway
  <2> QED
    BY <2>2 DEF Promise!Next, Promise!Items
<1>6. ASSUME NEW i \in Items, worker = Awake, StatusOf(i) = "queued",
             ~Promise!IsAuth(i) => Queued(auth) = {},
             i \in Tasks => Queued(auth) = {} /\ Queued(other) = {},
             \A j \in Items : StatusOf(j)' = IF j = i THEN "serving" ELSE StatusOf(j)
      PROVE  Promise!Next
  <2>1. status' = [status EXCEPT ![i] = "serving"]
    BY <1>6, StatusMoves
  <2>2. /\ \A j \in Items : StatusOf(j) # "serving"
        /\ \A j \in Items : StatusOf(j) = "queued" => j \in Line
    BY <1>1, <1>6
  <2>3. ~Promise!IsAuth(i) => \A a \in Items : StatusOf(a) = "queued" => ~Promise!IsAuth(a)
    BY <1>0, <1>6, <2>2 DEF Promise!IsAuth
  <2>4. i \in Tasks => \A a \in Items : StatusOf(a) = "queued" => a \in Tasks
    BY <1>0, <1>6, <2>2
  <2>5. Promise!Serve(i)
    BY <1>6, <2>1, <2>2, <2>3, <2>4 DEF Promise!Serve, Promise!WithStatus, Promise!Items
  <2> QED
    BY <2>5 DEF Promise!Next, Promise!Items
<1>7. ASSUME NEW i \in Items, worker = i,
             \A j \in Items : StatusOf(j)' =
               IF j = i THEN (IF i \in Tasks THEN "idle" ELSE "over") ELSE StatusOf(j)
      PROVE  Promise!Next
  <2>1. status' = [status EXCEPT ![i] = IF i \in Tasks THEN "idle" ELSE "over"]
    BY <1>7, StatusMoves
  <2>2. Promise!Complete(i)
    BY <1>1, <1>7, <2>1 DEF Promise!Complete
  <2> QED
    BY <2>2 DEF Promise!Next, Promise!Items
<1>8. ASSUME \A j \in Items : StatusOf(j)' = StatusOf(j)
      PROVE  status' = status
  BY <1>8
<1>9. ASSUME NEW r \in Requests, Submit(r)
      PROVE  Promise!Next
  <2>0. /\ r \notin seen /\ seen' = seen \cup {r} /\ background' = background
        /\ worker' = worker \/ (worker = Parked /\ worker' = Awake)
        /\ class[r] = "Camera" => ~auth_pending
    BY <1>9 DEF Submit, Notify, Refusal
  <2>1. Queued(auth)' \cup Queued(other)' = Queued(auth) \cup Queued(other) \cup {r}
    <3>1. CASE class[r] = "Auth" /\ auth' = Append(auth, r) /\ other' = other
      <4>0. auth \in Seq({q \in Requests : class[q] = "Auth"}) /\ r \in {q \in Requests : class[q] = "Auth"}
        BY <3>1 DEF ArbiterInv, ArbiterTypeOK
      <4>1. Queued(Append(auth, r)) = Queued(auth) \cup {r}
        BY <4>0, QueuedAppend
      <4> QED
        BY <3>1, <4>1 DEF Queued
    <3>2. CASE class[r] # "Auth" /\ other' = Append(other, r) /\ auth' = auth
      <4>0. other \in Seq({q \in Requests : class[q] # "Auth"}) /\ r \in {q \in Requests : class[q] # "Auth"}
        BY <3>2 DEF ArbiterInv, ArbiterTypeOK
      <4>1. Queued(Append(other, r)) = Queued(other) \cup {r}
        BY <4>0, QueuedAppend
      <4> QED
        BY <3>2, <4>1 DEF Queued
    <3> QED
      BY <1>9, <3>1, <3>2 DEF Submit, SubmitAuth, SubmitCamera, SubmitPlain
  <2>2. Line' = Line \cup {r}
    BY <2>0, <2>1 DEF Queued
  <2>3. r \notin Line /\ worker # r /\ r \notin Tasks
    BY <1>0, <2>0 DEF OnePlace
  <2>4. \A j \in Items : StatusOf(j)' = IF j = r THEN "queued" ELSE StatusOf(j)
    BY <1>1, <1>2, <2>0, <2>2, <2>3
  <2> QED
    BY <1>1, <1>4, <2>0, <2>3, <2>4 DEF Promise!UsesCamera
<1>10. ASSUME NEW t \in Tasks, SubmitBackground(t)
       PROVE  Promise!Next
  <2>0. /\ UNCHANGED <<auth, other, seen>> /\ background' = Append(background, t)
        /\ t \notin Queued(background) /\ worker # t /\ ~auth_pending
        /\ worker' = worker \/ (worker = Parked /\ worker' = Awake)
    BY <1>10 DEF SubmitBackground, Notify
  <2>1. Queued(Append(background, t)) = Queued(background) \cup {t}
    BY QueuedAppend DEF ArbiterInv, ArbiterTypeOK
  <2>2. Line' = Line \cup {t}
    BY <2>0, <2>1 DEF Queued
  <2>3. t \notin Line /\ t \notin seen
    BY <1>0, <2>0
  <2>4. \A j \in Items : StatusOf(j)' = IF j = t THEN "queued" ELSE StatusOf(j)
    BY <1>1, <1>2, <2>0, <2>2
  <2> QED
    BY <1>1, <1>4, <2>0, <2>3, <2>4
<1>11. ASSUME NEW r \in Requests, Refuse(r)
       PROVE  Promise!Next
  <2>1. r \notin seen /\ seen' = seen \cup {r} /\ UNCHANGED <<auth, other, background, worker>>
    BY <1>11 DEF Refuse, queueVars
  <2>2. Line' = Line
    BY <2>1 DEF Queued
  <2>3. r \notin Line /\ worker # r
    BY <1>0, <2>1 DEF OnePlace
  <2>4. \A j \in Items : StatusOf(j)' = IF j = r THEN "over" ELSE StatusOf(j)
    BY <1>1, <1>2, <2>1, <2>2, <2>3
  <2> QED
    BY <1>1, <1>5, <2>1, <2>3, <2>4
<1>12. ASSUME TakeAuth \/ TakeOther \/ TakeBackground
       PROVE  Promise!Next
  <2>1. PICK i \in Items :
          /\ worker = Awake /\ worker' = i /\ seen' = seen
          /\ i \in Line /\ Line = Line' \cup {i}
          /\ ~Promise!IsAuth(i) => auth = <<>>
          /\ i \in Tasks => auth = <<>> /\ other = <<>>
    <3>1. CASE TakeAuth
      <4>1. auth # <<>> /\ auth' = Tail(auth) /\ UNCHANGED <<other, background, seen>>
        BY <3>1 DEF TakeAuth
      <4>2. /\ Head(auth) \in {q \in Requests : class[q] = "Auth"}
            /\ Queued(auth) = Queued(Tail(auth)) \cup {Head(auth)}
        BY <4>1, QueuedTail DEF ArbiterInv, ArbiterTypeOK
      <4>3. Head(auth) \in Line /\ Line = Line' \cup {Head(auth)}
        BY <4>1, <4>2 DEF Queued
      <4> QED
        BY <3>1, <4>2, <4>3 DEF TakeAuth, Promise!IsAuth
    <3>2. CASE TakeOther
      <4>1. other # <<>> /\ other' = Tail(other) /\ auth = <<>> /\ UNCHANGED <<auth, background, seen>>
        BY <3>2 DEF TakeOther
      <4>2. /\ Head(other) \in {q \in Requests : class[q] # "Auth"}
            /\ Queued(other) = Queued(Tail(other)) \cup {Head(other)}
        BY <4>1, QueuedTail DEF ArbiterInv, ArbiterTypeOK
      <4>3. Head(other) \in Line /\ Line = Line' \cup {Head(other)}
        BY <4>1, <4>2 DEF Queued
      <4> QED
        BY <3>2, <4>1, <4>2, <4>3 DEF TakeOther
    <3>3. CASE TakeBackground
      <4>1. /\ background # <<>> /\ background' = Tail(background) /\ auth = <<>> /\ other = <<>>
            /\ UNCHANGED <<auth, other, seen>>
        BY <3>3 DEF TakeBackground
      <4>2. /\ Head(background) \in Tasks
            /\ Queued(background) = Queued(Tail(background)) \cup {Head(background)}
        BY <4>1, QueuedTail DEF ArbiterInv, ArbiterTypeOK
      <4>3. Head(background) \in Line /\ Line = Line' \cup {Head(background)}
        BY <4>1, <4>2 DEF Queued
      <4> QED
        BY <3>3, <4>1, <4>2, <4>3 DEF TakeBackground
    <3> QED
      BY <1>12, <3>1, <3>2, <3>3
  <2>2. \A j \in Items : StatusOf(j)' = IF j = i THEN "serving" ELSE StatusOf(j)
    BY <1>1, <1>2, <2>1
  <2>3. (auth = <<>> => Queued(auth) = {}) /\ (other = <<>> => Queued(other) = {})
    BY DEF Queued
  <2> QED
    BY <1>1, <1>6, <2>1, <2>2, <2>3
<1>13. ASSUME NEW i \in Items, worker = i, worker' = Awake, UNCHANGED <<auth, other, background, seen>>
       PROVE  Promise!Next
  <2>1. i \notin Line /\ (i \in Requests <=> i \in seen) /\ (i \in Requests <=> i \notin Tasks)
    BY <1>0, <1>13 DEF OnePlace
  <2>2. Line' = Line
    BY <1>13 DEF Queued
  <2>3. \A j \in Items : StatusOf(j)' =
          IF j = i THEN (IF i \in Tasks THEN "idle" ELSE "over") ELSE StatusOf(j)
    BY <1>1, <1>2, <1>13, <2>1, <2>2
  <2> QED
    BY <1>7, <1>13, <2>3
<1>14. CASE /\ UNCHANGED <<auth, other, background, seen>>
            /\ worker' = worker \/ (worker \notin Items /\ worker' \notin Items)
  <2>1. Line' = Line
    BY <1>14 DEF Queued
  <2> QED
    BY <1>1, <1>2, <1>8, <1>14, <2>1
<1> HIDE DEF status, Line
<1>15. CASE (\E r \in Requests : FinishRequest(r)) \/ (\E t \in Tasks : FinishTask(t))
  BY <1>13, <1>15 DEF FinishRequest, FinishTask, queueVars
<1>16. CASE TakeNothing \/ Wait \/ Close \/ UNCHANGED arbiterVars \/ \E r \in Requests : Cancel(r)
  BY <1>14, <1>16 DEF TakeNothing, Wait, Close, Notify, Cancel, arbiterVars, queueVars
<1> QED
  BY <1>9, <1>10, <1>11, <1>12, <1>15, <1>16 DEF ArbiterNext

(* The arbiter implements the service it promises, for every set of        *)
(* requests, peers and tasks: submit, take_work, finish and close never    *)
(* serve two items, nor any other before an authentication, nor the        *)
(* daemon's own work before a request.                                     *)
THEOREM ArbiterKeepsPromise == ArbiterSpec => KeepsPromise
<1>1. ArbiterInit => OnePlace /\ Promise!Init
  BY ArbiterConstants DEF ArbiterInit, OnePlace, Distinct, Queued, Promise!Init, Promise!Items, StatusOf
<1>2. ArbiterInv /\ OnePlace /\ [ArbiterNext]_arbiterVars => OnePlace'
  BY OnePlaceKept
<1>3. ArbiterInv /\ OnePlace /\ [ArbiterNext]_arbiterVars =>
        [Promise!Next]_([i \in Requests \cup Tasks |-> StatusOf(i)])
  BY StepKeepsPromise
<1> QED
  BY <1>1, <1>2, <1>3, ArbiterInvariant, PTL DEF ArbiterSpec, KeepsPromise, Promise!Spec
=============================================================================
