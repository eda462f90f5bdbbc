------------------------------ MODULE Arbiter -------------------------------
(***************************************************************************)
(* crates/irlume-daemon/src/arbiter.rs: who gets the camera next.          *)
(*                                                                         *)
(* Connection threads submit requests, the daemon submits camera work of   *)
(* its own, and one worker takes the most urgent item, holds it, and       *)
(* finishes it.  Every operation below runs under the arbiter's mutex and  *)
(* so is one step.                                                         *)
(***************************************************************************)
EXTENDS Naturals, Sequences, DaemonRequests

CONSTANTS Tasks,      \* the daemon's own camera work (background scans)
          Awake, Parked, Stopped   \* the worker between two items

\* No request and no task is one of the worker's own states.
ASSUME ArbiterConstants ==
  /\ Requests \cap Tasks = {}
  /\ {Awake, Parked, Stopped} \cap (Requests \cup Tasks) = {}
  /\ Awake # Parked /\ Awake # Stopped /\ Parked # Stopped

VARIABLES auth, other, background,  \* the three queues
          camera_slots,             \* uids charged for a camera operation
          auth_running, closed,
          yield_requested, cancel_requested,   \* CancelToken
          worker,   \* what the worker has taken and not finished
          seen      \* requests that have been submitted or refused

arbiterVars == <<auth, other, background, camera_slots, auth_running, closed,
                 yield_requested, cancel_requested, worker, seen>>
queueVars == <<auth, other, background>>
tokenVars == <<yield_requested, cancel_requested>>

ArbiterInit ==
  /\ auth = <<>> /\ other = <<>> /\ background = <<>>
  /\ camera_slots = {}
  /\ auth_running = FALSE /\ closed = FALSE
  /\ yield_requested = FALSE /\ cancel_requested = FALSE
  /\ worker = Awake
  /\ seen = {}

Holding == worker \in Requests \cup Tasks
auth_pending == auth_running \/ auth # <<>>

\* Condvar::notify_one and notify_all: one thread at most is waiting.
Notify == worker' = IF worker = Parked THEN Awake ELSE worker

ResetToken == yield_requested' = FALSE /\ cancel_requested' = FALSE

\* CancelToken::request_cancel, which the current item's client calls.
RequestCancel == cancel_requested' = TRUE

\* Why submit turns request r away, or "None".
Refusal(r) ==
  IF closed THEN "ShuttingDown"
  ELSE IF class[r] # "Camera" THEN "None"
  ELSE IF auth_pending THEN "Busy"
  ELSE IF uid[r] # Root /\ uid[r] \in camera_slots THEN "AlreadyHoldsSlot"
  ELSE "None"

\* Faulty variant: the running operation is asked to yield only when the
\* worker next looks at the queue.
SubmitAuthSilently(r) ==
  /\ class[r] = "Auth"
  /\ auth' = Append(auth, r)
  /\ UNCHANGED <<yield_requested, other, camera_slots>>

SubmitAuth(r) ==
  /\ class[r] = "Auth"
  /\ yield_requested' = TRUE
  /\ auth' = Append(auth, r)
  /\ UNCHANGED <<other, camera_slots>>

SubmitCamera(r) ==
  /\ class[r] = "Camera"
  /\ camera_slots' = IF uid[r] # Root THEN camera_slots \cup {uid[r]} ELSE camera_slots
  /\ other' = Append(other, r)
  /\ UNCHANGED <<auth, yield_requested>>

SubmitPlain(r) ==
  /\ class[r] \in {"Plain", "Status"}
  /\ other' = Append(other, r)
  /\ UNCHANGED <<auth, camera_slots, yield_requested>>

Submit(r) ==
  /\ r \notin seen
  /\ seen' = seen \cup {r}
  /\ Refusal(r) = "None"
  /\ SubmitAuth(r) \/ SubmitCamera(r) \/ SubmitPlain(r)
  /\ Notify
  /\ UNCHANGED <<background, auth_running, closed, cancel_requested>>

Refuse(r) ==
  /\ r \notin seen
  /\ seen' = seen \cup {r}
  /\ Refusal(r) # "None"
  /\ UNCHANGED <<queueVars, camera_slots, auth_running, closed, tokenVars, worker>>

Queued(s) == {s[i] : i \in 1..Len(s)}

\* A task that is neither queued nor running: the scanner offers one at a time
\* and waits for it.
SubmitBackground(t) ==
  /\ t \notin Queued(background) /\ worker # t
  /\ ~closed /\ ~auth_pending
  /\ background' = Append(background, t)
  /\ Notify
  /\ UNCHANGED <<auth, other, camera_slots, auth_running, closed, tokenVars, seen>>

\* take_work: authentication first, then other requests, then -- unless the
\* arbiter is closed -- the daemon's own work; otherwise exit or wait.
TakeAuth ==
  /\ worker = Awake
  /\ auth # <<>>
  /\ auth' = Tail(auth)
  /\ auth_running' = TRUE
  /\ ResetToken
  /\ worker' = Head(auth)
  /\ UNCHANGED <<other, background, camera_slots, closed, seen>>

\* Faulty variant: other requests are taken first come, first served.
TakeOtherUnordered ==
  /\ worker = Awake
  /\ other # <<>>
  /\ other' = Tail(other)
  /\ ResetToken
  /\ worker' = Head(other)
  /\ UNCHANGED <<auth, background, camera_slots, auth_running, closed, seen>>

TakeOther ==
  /\ worker = Awake
  /\ auth = <<>> /\ other # <<>>
  /\ other' = Tail(other)
  /\ ResetToken
  /\ worker' = Head(other)
  /\ UNCHANGED <<auth, background, camera_slots, auth_running, closed, seen>>

TakeBackground ==
  /\ worker = Awake
  /\ auth = <<>> /\ other = <<>> /\ ~closed /\ background # <<>>
  /\ background' = Tail(background)
  /\ ResetToken
  /\ worker' = Head(background)
  /\ UNCHANGED <<auth, other, camera_slots, auth_running, closed, seen>>

\* Faulty variant: a closed arbiter hands out nothing more.
TakeNothingEarly ==
  /\ worker = Awake
  /\ closed
  /\ worker' = Stopped
  /\ UNCHANGED <<queueVars, camera_slots, auth_running, closed, tokenVars, seen>>

TakeNothing ==
  /\ worker = Awake
  /\ auth = <<>> /\ other = <<>> /\ closed
  /\ worker' = Stopped
  /\ UNCHANGED <<queueVars, camera_slots, auth_running, closed, tokenVars, seen>>

Wait ==
  /\ worker = Awake
  /\ auth = <<>> /\ other = <<>> /\ background = <<>> /\ ~closed
  /\ worker' = Parked
  /\ UNCHANGED <<queueVars, camera_slots, auth_running, closed, tokenVars, seen>>

\* Faulty variant: an authentication's end is noticed by the next take only.
FinishKeepsAuth(jobClass, u) ==
  /\ camera_slots' = camera_slots \ {u}
  /\ UNCHANGED auth_running

\* Faulty variant: the slot is not given back.
FinishKeepsSlot(jobClass, u) ==
  /\ auth_running' = IF jobClass = "Auth" THEN FALSE ELSE auth_running
  /\ UNCHANGED camera_slots

\* Arbiter::finish, which gives back a slot of u whatever the job's class.
Finish(jobClass, u) ==
  /\ auth_running' = IF jobClass = "Auth" THEN FALSE ELSE auth_running
  /\ camera_slots' = camera_slots \ {u}

FinishRequest(r) ==
  /\ worker = r
  /\ worker' = Awake
  /\ Finish(class[r], uid[r])
  /\ UNCHANGED <<queueVars, closed, tokenVars, seen>>

FinishTask(t) ==
  /\ worker = t
  /\ worker' = Awake
  /\ Finish("Camera", Root)
  /\ UNCHANGED <<queueVars, closed, tokenVars, seen>>

\* Faulty variant: closing does not wake the worker.
CloseSilently ==
  /\ closed' = TRUE
  /\ UNCHANGED <<queueVars, camera_slots, auth_running, tokenVars, worker, seen>>

Close ==
  /\ closed' = TRUE
  /\ Notify
  /\ UNCHANGED <<queueVars, camera_slots, auth_running, tokenVars, seen>>

\* The client of the request the worker holds has left.
Cancel(r) ==
  /\ worker = r
  /\ RequestCancel
  /\ UNCHANGED <<queueVars, camera_slots, auth_running, closed, yield_requested, worker, seen>>

ArbiterNext ==
  \/ \E r \in Requests : Submit(r) \/ Refuse(r) \/ FinishRequest(r) \/ Cancel(r)
  \/ \E t \in Tasks : SubmitBackground(t) \/ FinishTask(t)
  \/ TakeAuth \/ TakeOther \/ TakeBackground \/ TakeNothing \/ Wait
  \/ Close

ArbiterSpec == ArbiterInit /\ [][ArbiterNext]_arbiterVars

-----------------------------------------------------------------------------
(* The queues hold what their names say, and root is never charged a slot. *)
ArbiterTypeOK ==
  /\ auth \in Seq({r \in Requests : class[r] = "Auth"})
  /\ other \in Seq({r \in Requests : class[r] # "Auth"})
  /\ background \in Seq(Tasks)
  /\ camera_slots \in SUBSET (Uids \ {Root})
  /\ auth_running \in BOOLEAN /\ closed \in BOOLEAN
  /\ yield_requested \in BOOLEAN /\ cancel_requested \in BOOLEAN
  /\ worker \in Requests \cup Tasks \cup {Awake, Parked, Stopped}
  /\ seen \in SUBSET Requests

\* The camera jobs of uid u that the arbiter has queued or handed out.
CameraJobs(u) ==
  {r \in Requests : /\ class[r] = "Camera" /\ uid[r] = u
                    /\ r \in Queued(other) \/ worker = r}

(* auth_running is exactly "the worker holds an authentication": finish    *)
(* clears it on every path, so a dead authentication refuses nobody's      *)
(* camera work, and a live one always does.                                *)
AuthRunningExact ==
  auth_running <=> (worker \in Requests /\ class[worker] = "Auth")

(* A camera operation or background scan that keeps the worker while an    *)
(* authentication waits has been asked to yield: the reset at each take    *)
(* never wipes out the request of an authentication still queued.          *)
YieldReachesCamera ==
  Holding /\ ~auth_running /\ auth # <<>> => yield_requested

(* A uid is charged a camera slot only while it has a camera job queued or *)
(* running: no uid is locked out of the camera for good.                   *)
SlotsBacked == \A u \in camera_slots : CameraJobs(u) # {}

(* The worker never sleeps on work: it waits on the condition variable     *)
(* only while every queue is empty and the arbiter is open.                *)
NoLostWakeup ==
  worker = Parked => auth = <<>> /\ other = <<>> /\ background = <<>> /\ ~closed

(* "Each unprivileged uid may hold at most one camera slot" (arbiter.rs,   *)
(* module documentation): no unprivileged uid has two camera jobs queued   *)
(* or running.                                                             *)
OneCameraJobPerUid ==
  \A u \in Uids \ {Root} : \A r, s \in CameraJobs(u) : r = s

-----------------------------------------------------------------------------
(* The arbiter implements the promise of CameraService: an item is served  *)
(* while the worker holds it.                                              *)
StatusOf(i) ==
  IF worker = i THEN "serving"
  ELSE IF i \in Queued(auth) \cup Queued(other) \cup Queued(background) THEN "queued"
  ELSE IF i \in seen THEN "over"
  ELSE "idle"

Promise == INSTANCE CameraService
  WITH status <- [i \in Requests \cup Tasks |-> StatusOf(i)]

(* Every step of submit, take_work, finish and close is a step, or no      *)
(* step, of the promised service.                                          *)
KeepsPromise == Promise!Spec

Distinct(s) == \A i, j \in DOMAIN s : s[i] = s[j] => i = j

\* What the implementation rests on: an item is queued once, and not while the
\* worker holds it.
OnePlace ==
  /\ Distinct(auth) /\ Distinct(other) /\ Distinct(background)
  /\ \A r \in Requests :
       /\ r \in Queued(auth) \cup Queued(other) => r \in seen /\ worker # r
       /\ worker = r => r \in seen
  /\ \A t \in Tasks : t \in Queued(background) => worker # t
=============================================================================
