----------------------------- MODULE PathProofs -----------------------------
(***************************************************************************)
(* The request path's safety, for every set of requests, peers and tasks:  *)
(* connection threads, client links, the worker's loop and the arbiter.    *)
(***************************************************************************)
EXTENDS RequestPath, ArbiterProofs, FiniteSetTheorems

(* Every step of the path is one of the arbiter's, or none of them: the    *)
(* daemon calls the arbiter in no other way, and requests a cancellation   *)
(* only of what the worker holds.                                          *)
LEMMA PathStepsArbiter ==
  ASSUME PathInv, [PathNext]_vars
  PROVE  [ArbiterNext]_arbiterVars
<1>1. ASSUME NEW r \in Requests, ConnectionStep(r)
      PROVE  [ArbiterNext]_arbiterVars
  <2>1. CASE EnterAdmission(r) \/ CheckUnknownWork(r) \/ MarkWaiting(r) \/ ReceiveReply(r) \/ TimeOut(r)
    BY <2>1 DEF EnterAdmission, CheckUnknownWork, MarkWaiting, ReceiveReply, TimeOut
  <2>2. CASE SubmitRequest(r) \/ RefuseRequest(r)
    BY <2>2 DEF SubmitRequest, RefuseRequest, ArbiterNext
  <2>3. CASE GiveUp(r)
    <3>1. CASE link[r] = "Running"
      <4>1. worker = r
        BY <3>1 DEF PathInv, LinkFollows, PathTypeOK, Held
      <4>2. Cancel(r)
        BY <2>3, <3>1, <4>1 DEF GiveUp, Abandon, Cancel, queueVars
      <4> QED
        BY <4>2 DEF ArbiterNext
    <3>2. CASE link[r] # "Running"
      BY <2>3, <3>2 DEF GiveUp, Abandon, arbiterVars, queueVars
    <3> QED
      BY <3>1, <3>2
  <2> QED
    BY <1>1, <2>1, <2>2, <2>3 DEF ConnectionStep
<1>2. CASE TakeRequest \/ TakeTask \/ Idle \/ Exit
  BY <1>2 DEF TakeRequest, TakeTask, Idle, Exit, ArbiterNext
<1>3. CASE TaskEnds \/ OfferTask \/ Shutdown
  BY <1>3 DEF TaskEnds, OfferTask, Shutdown, ArbiterNext
<1>4. CASE DropQueued \/ FinishJob
  <2>1. job \in Requests /\ FinishRequest(job)
    BY <1>4 DEF DropQueued, FinishJob, PathInv, PathTypeOK
  <2> QED
    BY <2>1 DEF ArbiterNext
<1>5. CASE \/ Claim \/ DropActivity \/ DeliverEarly \/ \E panicked \in BOOLEAN : RequestEnds(panicked)
           \/ StartRebuild \/ EndRebuild \/ FinishActivity \/ Reply \/ Stopping
  BY <1>5 DEF Claim, DropActivity, DeliverEarly, RequestEnds, StartRebuild, EndRebuild, FinishActivity,
     Reply, Stopping
<1>6. CASE UNCHANGED vars
  BY <1>6 DEF vars
<1> QED
  BY <1>1, <1>2, <1>3, <1>4, <1>5, <1>6 DEF PathNext, WorkerStep

LEMMA ArbiterInvKept == ArbiterInv /\ [ArbiterNext]_arbiterVars => ArbiterInv'
BY SubmitKeeps, QuietKeeps, TakeKeeps, FinishKeeps DEF ArbiterNext

(* The registration calls of live status keep a request's phase a phase.   *)
LEMMA PhaseTyped ==
  ASSUME phase \in [Requests -> Phases], NEW r \in Requests,
         \/ LiveWaiting(r) \/ LiveRunning(r) \/ LiveCancel(r) \/ LiveFinish(r) \/ UNCHANGED liveVars
  PROVE  phase' \in [Requests -> Phases]
BY Zenon DEF LiveWaiting, LiveRunning, LiveCancel, LiveFinish, liveVars, Phases

-----------------------------------------------------------------------------
(* The invariant.                                                          *)

\* What a request's own thread can be doing.
Places == {"new", "wait"} \cup InAdmission \cup Over

(* While both queues stay as they are, the same requests wait, each once.  *)
LEMMA QueuesKept ==
  ASSUME PathInv, UNCHANGED <<auth, other>>
  PROVE  Distinct(auth)' /\ Distinct(other)' /\ \A q : Waits(q)' <=> Waits(q)
<1>1. Distinct(auth) /\ Distinct(other)
  BY DEF PathInv, QueuedOnce
<1>2. Distinct(auth)' /\ Distinct(other)'
  BY <1>1 DEF Distinct
<1>3. \A q : Waits(q)' <=> Waits(q)
  BY DEF Waits, Queued
<1> QED
  BY <1>2, <1>3

(* A connection thread goes on and changes nothing but live status, or is  *)
(* refused.                                                                *)
LEMMA ConnMoves ==
  ASSUME PathInv, ArbiterTypeOK', phase' \in [Requests -> Phases],
         NEW r \in Requests, NEW pc \in Places, conn' = [conn EXCEPT ![r] = pc],
         conn[r] \notin Over, pc # "mark", pc = "wait" => conn[r] = "mark",
         UNCHANGED <<auth, other, closed, worker, cancel_requested, link, answered, step, job, stage>>,
         seen \subseteq seen'
  PROVE  PathInv'
<1>1. conn' \in [Requests -> Places] /\ \A q \in Requests : conn'[q] = IF q = r THEN pc ELSE conn[q]
  BY DEF PathInv, PathTypeOK, Places
<1>2. PathTypeOK'
  BY <1>1 DEF PathInv, PathTypeOK, Places
<1>q. Distinct(auth)' /\ Distinct(other)' /\ \A q : Waits(q)' <=> Waits(q)
  BY QueuesKept
<1>3. QueuedOnce'
  BY <1>q DEF PathInv, QueuedOnce
<1>4. LinkFollows'
  BY <1>1 DEF PathInv, LinkFollows
<1>5. CancelReachesOwnJob' /\ ClosedReadsStopping'
  BY DEF PathInv, CancelReachesOwnJob, ClosedReadsStopping
<1>6. \A q \in Requests : conn'[q] \in {"mark", "wait"} => Served(q)'
  BY <1>1, <1>q DEF PathInv, Served
<1> QED
  BY <1>2, <1>3, <1>4, <1>5, <1>6 DEF PathInv

(* The loop goes on with the same request, or is left where it is.         *)
LEMMA LoopMoves ==
  ASSUME PathInv, PathTypeOK', ClosedReadsStopping',
         UNCHANGED <<auth, other, seen, conn, link, answered, cancel_requested, job>>,
         \/ step' = step
         \/ /\ step # "run" /\ step' \notin {"taken", "run", "drop", "task"}
            /\ step' = "dropped" => step = "drop",
         worker' = Stopped => closed' /\ auth = <<>> /\ other = <<>>
  PROVE  PathInv'
<1>q. Distinct(auth)' /\ Distinct(other)' /\ \A q : Waits(q)' <=> Waits(q)
  BY QueuesKept
<1>1. QueuedOnce'
  BY <1>q DEF PathInv, QueuedOnce
<1>2. LinkFollows'
  BY DEF PathInv, LinkFollows
<1>3. CancelReachesOwnJob'
  BY DEF PathInv, CancelReachesOwnJob
<1>4. \A q \in Requests : conn'[q] \in {"mark", "wait"} => Served(q)'
  BY <1>q DEF PathInv, Served
<1> QED
  BY <1>1, <1>2, <1>3, <1>4 DEF PathInv, PathTypeOK

LEMMA ConnectionKeeps ==
  ASSUME PathInv, ArbiterTypeOK', NEW r \in Requests,
         EnterAdmission(r) \/ CheckUnknownWork(r) \/ RefuseRequest(r) \/ MarkWaiting(r) \/ ReceiveReply(r) \/ TimeOut(r)
  PROVE  PathInv'
<1>0. phase \in [Requests -> Phases]
  BY DEF PathInv, PathTypeOK
<1> USE DEF Places, InAdmission, Over, Refused, Goto
<1>1. CASE EnterAdmission(r)
  <2>1. PICK pc \in {"check", "submit"} : conn' = [conn EXCEPT ![r] = pc]
    BY Zenon, <1>1 DEF EnterAdmission
  <2> QED
    BY Zenon, <1>0, <1>1, <2>1, ConnMoves DEF EnterAdmission, arbiterVars, liveVars
<1>2. CASE CheckUnknownWork(r)
  <2>1. phase' \in [Requests -> Phases]
    BY <1>0, <1>2, PhaseTyped DEF CheckUnknownWork
  <2>2. PICK pc \in {"Busy", "submit"} : conn' = [conn EXCEPT ![r] = pc]
    BY <1>2 DEF CheckUnknownWork
  <2> QED
    BY Zenon, <1>2, <2>1, <2>2, ConnMoves DEF CheckUnknownWork, arbiterVars
<1>3. CASE RefuseRequest(r)
  <2>1. phase' \in [Requests -> Phases]
    BY <1>0, <1>3, PhaseTyped DEF RefuseRequest
  <2>2. PICK pc \in Refused : conn' = [conn EXCEPT ![r] = pc]
    BY Zenon, <1>3 DEF RefuseRequest, Refuse, Refusal
  <2> QED
    BY Zenon, <1>3, <2>1, <2>2, ConnMoves DEF RefuseRequest, Refuse, queueVars, tokenVars
<1>4. CASE MarkWaiting(r)
  <2>1. phase' \in [Requests -> Phases]
    BY <1>0, <1>4, PhaseTyped DEF MarkWaiting
  <2> QED
    BY Zenon, <1>4, <2>1, ConnMoves DEF MarkWaiting, arbiterVars
<1>5. CASE ReceiveReply(r) \/ TimeOut(r)
  <2>1. PICK pc \in {"replied", "timed out"} : conn' = [conn EXCEPT ![r] = pc]
    BY <1>5 DEF ReceiveReply, TimeOut
  <2> QED
    BY Zenon, <1>0, <1>5, <2>1, ConnMoves DEF ReceiveReply, TimeOut, arbiterVars, liveVars
<1> QED
  BY <1>1, <1>2, <1>3, <1>4, <1>5

(* A request joins the queue of its class.                                 *)
LEMMA SubmitMoves ==
  ASSUME PathInv, NEW r \in Requests, SubmitRequest(r)
  PROVE  /\ UNCHANGED <<link, answered, step, job, stage, phase, closed, cancel_requested>>
         /\ r \notin seen /\ seen' = seen \cup {r} /\ ~closed
         /\ conn[r] = "submit" /\ conn' = [conn EXCEPT ![r] = "mark"]
         /\ worker' = IF worker = Parked THEN Awake ELSE worker
         /\ \/ class[r] = "Auth" /\ auth' = Append(auth, r) /\ other' = other
            \/ class[r] # "Auth" /\ other' = Append(other, r) /\ auth' = auth
         /\ ~Waits(r) /\ job # r /\ link[r] = "Queued"
         /\ Distinct(auth)' /\ Distinct(other)'
         /\ \A q : Waits(q)' <=> Waits(q) \/ q = r
<1>0. /\ UNCHANGED <<link, answered, step, job, stage, phase, closed, cancel_requested>>
      /\ r \notin seen /\ seen' = seen \cup {r} /\ ~closed
      /\ conn[r] = "submit" /\ conn' = [conn EXCEPT ![r] = "mark"]
      /\ worker' = IF worker = Parked THEN Awake ELSE worker
      /\ \/ class[r] = "Auth" /\ auth' = Append(auth, r) /\ other' = other
         \/ class[r] # "Auth" /\ other' = Append(other, r) /\ auth' = auth
  BY DEF SubmitRequest, Submit, Refusal, SubmitAuth, SubmitCamera, SubmitPlain, Notify, Goto, liveVars
<1>2. /\ ~Waits(r) /\ job # r /\ link[r] = "Queued"
  BY <1>0 DEF PathInv, QueuedOnce, LinkFollows
<1>3. /\ Distinct(auth') /\ Distinct(other')
      /\ Queued(auth') \cup Queued(other') = Queued(auth) \cup Queued(other) \cup {r}
  <2>1. Distinct(auth) /\ Distinct(other) /\ r \notin Queued(auth) /\ r \notin Queued(other)
    BY <1>2 DEF PathInv, QueuedOnce, Waits
  <2>2. CASE class[r] = "Auth" /\ auth' = Append(auth, r) /\ other' = other
    <3>1. auth \in Seq({q \in Requests : class[q] = "Auth"})
      BY DEF PathInv, ArbiterTypeOK
    <3>2. r \in {q \in Requests : class[q] = "Auth"}
      BY <2>2
    <3>3. Distinct(auth') /\ Queued(auth') = Queued(auth) \cup {r}
      BY <2>1, <2>2, <3>1, <3>2, DistinctAppend, QueuedAppend
    <3> QED
      BY <2>1, <2>2, <3>3
  <2>3. CASE class[r] # "Auth" /\ other' = Append(other, r) /\ auth' = auth
    <3>1. other \in Seq({q \in Requests : class[q] # "Auth"})
      BY DEF PathInv, ArbiterTypeOK
    <3>2. r \in {q \in Requests : class[q] # "Auth"}
      BY <2>3
    <3>3. Distinct(other') /\ Queued(other') = Queued(other) \cup {r}
      BY <2>1, <2>3, <3>1, <3>2, DistinctAppend, QueuedAppend
    <3> QED
      BY <2>1, <2>3, <3>3
  <2> QED
    BY <1>0, <2>2, <2>3
<1>4. \A q : Waits(q)' <=> Waits(q) \/ q = r
  BY Zenon, <1>3 DEF Waits, Queued
<1>5. Distinct(auth)' /\ Distinct(other)'
  BY <1>3 DEF Distinct
<1> QED
  BY <1>0, <1>2, <1>4, <1>5

LEMMA SubmitKeepsPath ==
  ASSUME PathInv, ArbiterTypeOK', NEW r \in Requests, SubmitRequest(r)
  PROVE  PathInv'
<1>0. /\ UNCHANGED <<link, answered, step, job, stage, phase, closed, cancel_requested>>
      /\ r \notin seen /\ seen' = seen \cup {r} /\ ~closed
      /\ conn[r] = "submit" /\ conn' = [conn EXCEPT ![r] = "mark"]
      /\ worker' = IF worker = Parked THEN Awake ELSE worker
      /\ \/ class[r] = "Auth" /\ auth' = Append(auth, r) /\ other' = other
         \/ class[r] # "Auth" /\ other' = Append(other, r) /\ auth' = auth
  BY SubmitMoves
<1>1. \A q \in Requests : conn'[q] = IF q = r THEN "mark" ELSE conn[q]
  BY <1>0 DEF PathInv, PathTypeOK
<1>2. ~Waits(r) /\ job # r /\ link[r] = "Queued"
  BY SubmitMoves
<1>4. Distinct(auth)' /\ Distinct(other)' /\ \A q : Waits(q)' <=> Waits(q) \/ q = r
  BY SubmitMoves
<1>5. PathTypeOK'
  <2>1. conn' \in [Requests -> {"new", "wait"} \cup InAdmission \cup Over]
    BY <1>0 DEF PathInv, PathTypeOK, InAdmission
  <2>2. IF step \in Held THEN worker' = job ELSE worker' \notin Requests
    <3>1. CASE step \in Held
      <4>1. worker = job /\ job \in Requests
        BY <3>1 DEF PathInv, PathTypeOK, Held
      <4> QED
        BY <1>0, <3>1, <4>1, ArbiterConstants
    <3>2. CASE step \notin Held
      BY <1>0, <3>2, ArbiterConstants DEF PathInv, PathTypeOK
    <3> QED
      BY <3>1, <3>2
  <2>3. step = "task" <=> worker' \in Tasks
    BY <1>0, ArbiterConstants DEF PathInv, PathTypeOK
  <2> QED
    BY <1>0, <2>1, <2>2, <2>3 DEF PathInv, PathTypeOK
<1>6. QueuedOnce'
  BY <1>0, <1>2, <1>4 DEF PathInv, QueuedOnce
<1>7. LinkFollows'
  BY <1>0, <1>1, <1>2 DEF PathInv, LinkFollows
<1>8. CancelReachesOwnJob' /\ ClosedReadsStopping'
  BY <1>0 DEF PathInv, CancelReachesOwnJob, ClosedReadsStopping
<1>9. ASSUME NEW q \in Requests, conn'[q] \in {"mark", "wait"}
      PROVE  Served(q)'
  <2>1. CASE q = r
    BY <1>4, <2>1 DEF Served
  <2>2. CASE q # r
    <3>1. Served(q)
      BY <1>1, <1>9, <2>2 DEF PathInv
    <3> QED
      BY <1>0, <1>4, <3>1 DEF Served
  <2> QED
    BY <2>1, <2>2
<1>10. worker' # Stopped
  BY <1>0, ArbiterConstants DEF PathInv
<1> QED
  BY <1>5, <1>6, <1>7, <1>8, <1>9, <1>10 DEF PathInv

(* A client leaves: its link is abandoned, and the shared token is written *)
(* only when its own request runs.                                         *)
LEMMA GiveUpKeeps ==
  ASSUME PathInv, ArbiterTypeOK', NEW r \in Requests, GiveUp(r)
  PROVE  PathInv'
<1>0. /\ UNCHANGED <<auth, other, closed, worker, seen, answered, step, job, stage>>
      /\ conn[r] = "wait" /\ link' = [link EXCEPT ![r] = "Abandoned"]
      /\ cancel_requested' = IF link[r] = "Running" THEN TRUE ELSE cancel_requested
  BY DEF GiveUp, Abandon, RequestCancel, queueVars
<1>1. PICK pc \in {"left", "timed out"} : conn' = [conn EXCEPT ![r] = pc]
  BY DEF GiveUp, Goto
<1>2. phase' \in [Requests -> Phases]
  BY PhaseTyped DEF GiveUp, Abandon, PathInv, PathTypeOK
<1>3. /\ \A q \in Requests : conn'[q] = IF q = r THEN pc ELSE conn[q]
      /\ \A q \in Requests : link'[q] = IF q = r THEN "Abandoned" ELSE link[q]
  BY <1>0, <1>1 DEF PathInv, PathTypeOK
<1>4. link[r] # "Abandoned" /\ r \in seen
  BY <1>0 DEF PathInv, LinkFollows, Over, Refused
<1>5. PathTypeOK'
  BY <1>0, <1>1, <1>2 DEF PathInv, PathTypeOK, Over
<1>q. Distinct(auth)' /\ Distinct(other)' /\ \A q : Waits(q)' <=> Waits(q)
  BY <1>0, QueuesKept
<1>6. QueuedOnce'
  BY <1>0, <1>3, <1>q DEF PathInv, QueuedOnce
<1>7. LinkFollows'
  <2>1. \A q \in Requests :
          /\ q \notin seen => job # q /\ link'[q] = "Queued"
          /\ conn'[q] \in {"mark", "wait"} => q \in seen
          /\ link'[q] = "Abandoned" => conn'[q] \in Over
          /\ link'[q] = "Running" => job = q /\ step = "run"
    BY <1>3, <1>4 DEF PathInv, LinkFollows, Over
  <2>2. step \in {"taken", "run", "drop", "dropped"} => job \in Requests
    BY DEF PathInv, PathTypeOK
  <2>3. /\ step = "taken" => link'[job] \in {"Queued", "Abandoned"}
        /\ step = "run" => link'[job] \in {"Running", "Abandoned"}
        /\ step \in {"drop", "dropped"} => link'[job] = "Abandoned"
    BY <1>3, <2>2 DEF PathInv, LinkFollows
  <2> QED
    BY <1>0, <2>1, <2>3 DEF LinkFollows
<1>8. CancelReachesOwnJob'
  <2>1. CASE link[r] = "Running"
    BY <1>0, <1>3, <2>1 DEF PathInv, LinkFollows, CancelReachesOwnJob
  <2>2. CASE link[r] # "Running"
    <3>1. step = "run" => job # r /\ job \in Requests
      BY <1>4, <2>2 DEF PathInv, LinkFollows, PathTypeOK
    <3> QED
      BY <1>0, <1>3, <2>2, <3>1 DEF PathInv, CancelReachesOwnJob
  <2> QED
    BY <2>1, <2>2
<1>9. ClosedReadsStopping'
  BY <1>0 DEF PathInv, ClosedReadsStopping
<1>10. \A q \in Requests : conn'[q] \in {"mark", "wait"} => Served(q)'
  BY <1>0, <1>1, <1>3, <1>q DEF PathInv, Served
<1> QED
  BY <1>0, <1>5, <1>6, <1>7, <1>8, <1>9, <1>10 DEF PathInv

(* The loop lets its request or task go, rebuilds, waits or exits, and the *)
(* listener stops: none of it touches a queue, a link or an answer.        *)
LEMMA LoopKeeps ==
  ASSUME PathInv, ArbiterTypeOK',
         \/ TaskEnds \/ Idle \/ Exit \/ DropQueued \/ FinishJob \/ StartRebuild \/ EndRebuild
         \/ FinishActivity \/ Stopping \/ OfferTask \/ Shutdown \/ UNCHANGED vars
  PROVE  PathInv'
<1>0. /\ PathTypeOK /\ ClosedReadsStopping
      /\ worker = Stopped => closed /\ auth = <<>> /\ other = <<>>
  BY DEF PathInv
<1> USE ArbiterConstants, LiveConstants
<1>1. CASE TaskEnds
  <2>1. /\ UNCHANGED <<auth, other, seen, conn, link, answered, cancel_requested, job, stage, closed, phase>>
        /\ step = "task" /\ step' = "take" /\ worker' = Awake
    BY <1>1 DEF TaskEnds, FinishTask, queueVars, tokenVars, liveVars
  <2>2. PathTypeOK' /\ ClosedReadsStopping'
    BY <1>0, <2>1 DEF PathTypeOK, ClosedReadsStopping, Held, Steps
  <2> QED
    BY <2>1, <2>2, LoopMoves
<1>2. CASE Idle \/ Exit
  <2>1. /\ UNCHANGED <<auth, other, seen, conn, link, answered, cancel_requested, job, closed, phase, step>>
        /\ step = "take" /\ worker' \in {Parked, Stopped}
        /\ worker' = Stopped => closed /\ auth = <<>> /\ other = <<>>
        /\ stage' \in {stage, "Stopping"}
    BY <1>2 DEF Idle, Exit, Wait, TakeNothing, set_stage, queueVars, tokenVars, liveVars, pathVars
  <2>2. PathTypeOK' /\ ClosedReadsStopping'
    BY <1>0, <2>1 DEF PathTypeOK, ClosedReadsStopping, Held
  <2> QED
    BY <2>1, <2>2, LoopMoves
<1>3. CASE DropQueued \/ FinishJob
  <2>1. /\ UNCHANGED <<auth, other, seen, conn, link, answered, cancel_requested, job, stage, closed, phase>>
        /\ worker' = Awake
        /\ \/ step = "drop" /\ step' = "dropped"
           \/ step \in {"released", "unwound"} /\ step' \in {"rebuild", "finished"}
    BY <1>3 DEF DropQueued, FinishJob, FinishRequest, queueVars, tokenVars, liveVars
  <2>2. PathTypeOK' /\ ClosedReadsStopping'
    BY <1>0, <2>1 DEF PathTypeOK, ClosedReadsStopping, Held, Steps
  <2> QED
    BY <2>1, <2>2, LoopMoves
<1>4. CASE StartRebuild \/ EndRebuild \/ FinishActivity
  <2>1. /\ UNCHANGED <<auth, other, seen, conn, link, answered, cancel_requested, job, closed, worker>>
        /\ step \in {"rebuild", "rebuilding", "finished"} /\ step' \in {"rebuilding", "finished", "reply"}
        /\ stage' = stage \/ (stage # "Stopping" /\ stage' \in {"Ready", "Rebuilding"})
    BY <1>4 DEF StartRebuild, EndRebuild, FinishActivity, set_stage, arbiterVars, liveVars
  <2>2. job \in Requests
    BY <1>0, <2>1 DEF PathTypeOK
  <2>3. phase' \in [Requests -> Phases]
    BY <1>0, <1>4, <2>2, PhaseTyped DEF StartRebuild, EndRebuild, FinishActivity, PathTypeOK
  <2>4. PathTypeOK'
    BY <1>0, <2>1, <2>3 DEF PathTypeOK, Held, Steps
  <2>5. ClosedReadsStopping'
    BY <1>0, <2>1 DEF ClosedReadsStopping
  <2> QED
    BY <1>0, <2>1, <2>4, <2>5, LoopMoves
<1>5. CASE Stopping \/ UNCHANGED vars
  <2>1. /\ UNCHANGED <<auth, other, seen, conn, link, answered, cancel_requested, job, closed, worker, phase, step>>
        /\ stage' \in {stage, "Stopping"}
    BY <1>5 DEF Stopping, set_stage, vars, pathVars, arbiterVars, liveVars
  <2>2. PathTypeOK' /\ ClosedReadsStopping'
    BY <1>0, <2>1 DEF PathTypeOK, ClosedReadsStopping
  <2> QED
    BY <1>0, <2>1, <2>2, LoopMoves
<1>6. CASE OfferTask \/ Shutdown
  <2>1. /\ UNCHANGED <<auth, other, seen, conn, link, answered, cancel_requested, job, phase, step, stage>>
        /\ worker' = IF worker = Parked THEN Awake ELSE worker
        /\ closed' => stage = "Stopping"
        /\ closed => closed'
    <3>1. CASE OfferTask
      BY SMTT(20), <1>0, <3>1 DEF OfferTask, SubmitBackground, Notify, ClosedReadsStopping, tokenVars, pathVars, liveVars
    <3>2. CASE Shutdown
      BY <3>2 DEF Shutdown, Close, Notify, queueVars, tokenVars, pathVars, liveVars
    <3> QED
      BY <1>6, <3>1, <3>2
  <2>2. PathTypeOK'
    <3>1. step \in Held => job \in Requests /\ worker = job
      BY <1>0 DEF PathTypeOK, Held
    <3>2. worker' = worker \/ (worker = Parked /\ worker' = Awake)
      BY <2>1
    <3>3. IF step \in Held THEN worker' = job ELSE worker' \notin Requests
      BY <1>0, <3>1, <3>2 DEF PathTypeOK
    <3>4. step = "task" <=> worker' \in Tasks
      BY <1>0, <3>2 DEF PathTypeOK
    <3> QED
      BY <1>0, <2>1, <3>3, <3>4 DEF PathTypeOK
  <2>3. ClosedReadsStopping'
    BY <2>1 DEF ClosedReadsStopping
  <2> QED
    BY <1>0, <2>1, <2>2, <2>3, LoopMoves
<1> QED
  BY <1>1, <1>2, <1>3, <1>4, <1>5, <1>6

(* The worker takes the first request of a queue, and the token is reset.  *)
LEMMA TakeMoves ==
  ASSUME PathInv, TakeRequest
  PROVE  /\ UNCHANGED <<conn, link, answered, stage, closed, seen, phase>>
         /\ step = "take" /\ step' = "taken" /\ worker' = job' /\ ~cancel_requested'
         /\ job = Nobody /\ job' \in Requests /\ Waits(job')
         /\ Distinct(auth)' /\ Distinct(other)'
         /\ \A q : Waits(q)' <=> Waits(q) /\ q # job'
<1> DEFINE A == {q \in Requests : class[q] = "Auth"}
           O == {q \in Requests : class[q] # "Auth"}
<1>0. /\ UNCHANGED <<conn, link, answered, stage, closed, seen, phase>>
      /\ step = "take" /\ step' = "taken" /\ worker' = job' /\ ~cancel_requested'
  BY DEF TakeRequest, TakeAuth, TakeOther, ResetToken, liveVars
<1>1. auth \in Seq(A) /\ other \in Seq(O) /\ Distinct(auth) /\ Distinct(other) /\ job = Nobody
  BY <1>0 DEF PathInv, ArbiterTypeOK, PathTypeOK, QueuedOnce
<1>2. /\ job' \in Requests /\ Waits(job')
      /\ Distinct(auth') /\ Distinct(other')
      /\ \A q : Waits(q)' <=> Waits(q) /\ q # job'
  <2>1. CASE TakeAuth
    <3>1. auth # <<>> /\ auth' = Tail(auth) /\ job' = Head(auth) /\ other' = other
      BY <1>0, <2>1 DEF TakeAuth
    <3>2. /\ Head(auth) \in A /\ Queued(auth) = Queued(Tail(auth)) \cup {Head(auth)}
          /\ Distinct(Tail(auth)) /\ Head(auth) \notin Queued(Tail(auth))
      BY <1>1, <3>1, QueuedTail, DistinctTail
    <3>3. Head(auth) \notin Queued(other)
      BY <1>1, <3>2 DEF Queued
    <3>4. Queued(auth)' = Queued(Tail(auth)) /\ Queued(other)' = Queued(other)
      BY <3>1 DEF Queued
    <3> QED
      BY <1>1, <3>1, <3>2, <3>3, <3>4 DEF Waits
  <2>2. CASE TakeOther
    <3>1. other # <<>> /\ other' = Tail(other) /\ job' = Head(other) /\ auth' = auth
      BY <1>0, <2>2 DEF TakeOther
    <3>2. /\ Head(other) \in O /\ Queued(other) = Queued(Tail(other)) \cup {Head(other)}
          /\ Distinct(Tail(other)) /\ Head(other) \notin Queued(Tail(other))
      BY <1>1, <3>1, QueuedTail, DistinctTail
    <3>3. Head(other) \notin Queued(auth)
      BY <1>1, <3>2 DEF Queued
    <3>4. Queued(other)' = Queued(Tail(other)) /\ Queued(auth)' = Queued(auth)
      BY <3>1 DEF Queued
    <3> QED
      BY <1>1, <3>1, <3>2, <3>3, <3>4 DEF Waits
  <2> QED
    BY <2>1, <2>2 DEF TakeRequest
<1>3. Distinct(auth)' /\ Distinct(other)'
  BY <1>2 DEF Distinct
<1> QED
  BY <1>0, <1>1, <1>2, <1>3

LEMMA TakeRequestKeeps ==
  ASSUME PathInv, ArbiterTypeOK', TakeRequest
  PROVE  PathInv'
<1>0. /\ UNCHANGED <<conn, link, answered, stage, closed, seen, phase>>
      /\ step = "take" /\ step' = "taken" /\ worker' = job' /\ ~cancel_requested'
  BY TakeMoves
<1>1. job = Nobody
  BY TakeMoves
<1>2. /\ job' \in Requests /\ Waits(job')
      /\ Distinct(auth)' /\ Distinct(other)'
      /\ \A q : Waits(q)' <=> Waits(q) /\ q # job'
  BY TakeMoves
<1>3. job' \in seen /\ link[job'] \in {"Queued", "Abandoned"}
  BY <1>2 DEF PathInv, QueuedOnce
<1>4. PathTypeOK'
  BY <1>0, <1>2, ArbiterConstants, LiveConstants DEF PathInv, PathTypeOK, Held, Steps
<1>5. QueuedOnce'
  BY Zenon, <1>0, <1>2 DEF PathInv, QueuedOnce
<1>6. LinkFollows'
  BY <1>0, <1>3 DEF PathInv, LinkFollows
<1>7. CancelReachesOwnJob' /\ ClosedReadsStopping'
  BY <1>0 DEF PathInv, CancelReachesOwnJob, ClosedReadsStopping
<1>8. ASSUME NEW q \in Requests, conn'[q] \in {"mark", "wait"}
      PROVE  Served(q)'
  <2>1. answered[q] \/ Waits(q)
    BY <1>0, <1>1, <1>8, LiveConstants DEF PathInv, Served
  <2> QED
    BY <1>0, <1>2, <2>1 DEF Served
<1>9. worker' # Stopped
  BY <1>0, <1>2, ArbiterConstants
<1> QED
  BY <1>4, <1>5, <1>6, <1>7, <1>8, <1>9 DEF PathInv

(* The worker takes a scan of the daemon's own.                            *)
LEMMA TakeTaskKeeps ==
  ASSUME PathInv, ArbiterTypeOK', TakeTask
  PROVE  PathInv'
<1>0. /\ UNCHANGED <<auth, other, conn, link, answered, stage, closed, seen, phase, job>>
      /\ step = "take" /\ step' = "task" /\ ~cancel_requested'
      /\ background # <<>> /\ worker' = Head(background)
  BY DEF TakeTask, TakeBackground, ResetToken, liveVars
<1>1. worker' \in Tasks
  BY <1>0 DEF PathInv, ArbiterTypeOK
<1>2. PathTypeOK'
  BY <1>0, <1>1, ArbiterConstants DEF PathInv, PathTypeOK, Held, Steps
<1>q. Distinct(auth)' /\ Distinct(other)' /\ \A q : Waits(q)' <=> Waits(q)
  BY <1>0, QueuesKept
<1>3. QueuedOnce'
  BY <1>0, <1>q DEF PathInv, QueuedOnce
<1>4. LinkFollows'
  BY <1>0 DEF PathInv, LinkFollows
<1>5. CancelReachesOwnJob' /\ ClosedReadsStopping'
  BY <1>0 DEF PathInv, CancelReachesOwnJob, ClosedReadsStopping
<1>6. \A q \in Requests : conn'[q] \in {"mark", "wait"} => Served(q)'
  BY <1>0, <1>q DEF PathInv, Served
<1>7. worker' # Stopped
  BY <1>1, ArbiterConstants
<1> QED
  BY <1>2, <1>3, <1>4, <1>5, <1>6, <1>7 DEF PathInv

(* The loop claims its request, or finds it abandoned.                     *)
LEMMA ClaimKeeps ==
  ASSUME PathInv, ArbiterTypeOK', Claim
  PROVE  PathInv'
<1>0. /\ UNCHANGED <<auth, other, closed, worker, seen, cancel_requested, conn, answered, job, stage>>
      /\ step = "taken" /\ job \in Requests /\ job \in seen /\ ~cancel_requested
  <2>1. /\ UNCHANGED <<auth, other, closed, worker, seen, cancel_requested, conn, answered, job, stage>>
        /\ step = "taken"
    BY DEF Claim, arbiterVars
  <2> QED
    BY <2>1 DEF PathInv, PathTypeOK, LinkFollows, CancelReachesOwnJob
<1>1. phase' \in [Requests -> Phases]
  BY <1>0, PhaseTyped DEF Claim, PathInv, PathTypeOK
<1>2. /\ link' \in [Requests -> {"Queued", "Running", "Abandoned", "Released"}]
      /\ \A q \in Requests : q # job => link'[q] = link[q]
      /\ \/ link[job] = "Queued" /\ link'[job] = "Running" /\ step' = "run"
         \/ link[job] = "Abandoned" /\ link'[job] = "Abandoned" /\ step' = "drop"
  BY <1>0 DEF Claim, PathInv, PathTypeOK, LinkFollows
<1>3. PathTypeOK'
  BY <1>0, <1>1, <1>2 DEF PathInv, PathTypeOK, Held, Steps
<1>q. Distinct(auth)' /\ Distinct(other)' /\ \A q : Waits(q)' <=> Waits(q)
  BY <1>0, QueuesKept
<1>4. QueuedOnce'
  BY <1>0, <1>2, <1>q DEF PathInv, QueuedOnce
<1>5. LinkFollows'
  BY <1>0, <1>2 DEF PathInv, LinkFollows
<1>6. CancelReachesOwnJob' /\ ClosedReadsStopping'
  BY <1>0, <1>2 DEF PathInv, CancelReachesOwnJob, ClosedReadsStopping
<1>7. ASSUME NEW q \in Requests, conn'[q] \in {"mark", "wait"}
      PROVE  Served(q)'
  <2>1. Served(q) /\ link[q] # "Abandoned"
    BY <1>0, <1>7 DEF PathInv, LinkFollows, Over, Refused
  <2> QED
    BY <1>0, <1>2, <1>q, <2>1 DEF Served
<1> QED
  BY <1>0, <1>3, <1>4, <1>5, <1>6, <1>7 DEF PathInv

(* The loop is done with a request: it drops what nobody claims, or sends  *)
(* the answer.                                                             *)
LEMMA DoneKeeps ==
  ASSUME PathInv, ArbiterTypeOK', DropActivity \/ Reply
  PROVE  PathInv'
<1>0. /\ UNCHANGED <<auth, other, closed, worker, seen, cancel_requested, conn, link, stage>>
      /\ step \in {"dropped", "reply"} /\ step' = "take" /\ job' = Nobody
      /\ step = "dropped" => answered' = answered
      /\ step = "reply" => Send(job)
  BY DEF DropActivity, Reply, arbiterVars
<1>1. job \in Requests
  BY <1>0 DEF PathInv, PathTypeOK
<1>2. phase' \in [Requests -> Phases]
  BY <1>1, PhaseTyped DEF DropActivity, Reply, PathInv, PathTypeOK
<1>3. /\ answered' \in [Requests -> BOOLEAN]
      /\ \A q \in Requests : answered[q] => answered'[q]
      /\ step = "reply" /\ conn[job] \notin Over => answered'[job]
  BY Zenon, <1>0, <1>1 DEF PathInv, PathTypeOK, Send
<1>4. PathTypeOK'
  BY <1>0, <1>2, <1>3 DEF PathInv, PathTypeOK, Held, Steps
<1>q. Distinct(auth)' /\ Distinct(other)' /\ \A q : Waits(q)' <=> Waits(q)
  BY <1>0, QueuesKept
<1>5. QueuedOnce'
  BY Zenon, <1>0, <1>q, LiveConstants DEF PathInv, QueuedOnce
<1>6. LinkFollows'
  BY Zenon, <1>0, LiveConstants DEF PathInv, LinkFollows
<1>7. CancelReachesOwnJob' /\ ClosedReadsStopping'
  BY <1>0 DEF PathInv, CancelReachesOwnJob, ClosedReadsStopping
<1>8. ASSUME NEW q \in Requests, conn'[q] \in {"mark", "wait"}
      PROVE  Served(q)'
  <2>1. Served(q) /\ conn[q] \notin Over
    BY <1>0, <1>8 DEF PathInv, Over, Refused
  <2>2. answered'[q] \/ Waits(q)
    BY <1>0, <1>3, <2>1 DEF Served
  <2> QED
    BY <1>q, <2>2 DEF Served
<1> QED
  BY <1>0, <1>4, <1>5, <1>6, <1>7, <1>8 DEF PathInv

(* The dispatch hands an answer over early, or returns or unwinds.         *)
LEMMA RunKeeps ==
  ASSUME PathInv, ArbiterTypeOK', DeliverEarly \/ \E panicked \in BOOLEAN : RequestEnds(panicked)
  PROVE  PathInv'
<1>0. /\ UNCHANGED <<auth, other, closed, worker, seen, cancel_requested, conn, job, stage, phase>>
      /\ step = "run"
      /\ \/ step' = "run" /\ link' = link /\ Send(job)
         \/ /\ step' \in {"released", "unwound"} /\ answered' = answered
            /\ link' = [link EXCEPT ![job] = "Released"]
  BY DEF DeliverEarly, RequestEnds, arbiterVars, liveVars
<1>1. job \in Requests /\ job \in seen
  BY <1>0 DEF PathInv, PathTypeOK, LinkFollows
<1>2. /\ answered' \in [Requests -> BOOLEAN]
      /\ \A q \in Requests : answered[q] => answered'[q]
  BY Zenon, <1>0, <1>1 DEF PathInv, PathTypeOK, Send
<1>3. /\ link' \in [Requests -> {"Queued", "Running", "Abandoned", "Released"}]
      /\ \A q \in Requests : q # job => link'[q] = link[q]
      /\ \/ step' = "run" /\ link'[job] = link[job]
         \/ step' \in {"released", "unwound"} /\ link'[job] = "Released"
  BY <1>0, <1>1 DEF PathInv, PathTypeOK
<1>4. PathTypeOK'
  BY <1>0, <1>1, <1>2, <1>3 DEF PathInv, PathTypeOK, Held, Steps
<1>q. Distinct(auth)' /\ Distinct(other)' /\ \A q : Waits(q)' <=> Waits(q)
  BY <1>0, QueuesKept
<1>5. QueuedOnce'
  BY <1>0, <1>3, <1>q DEF PathInv, QueuedOnce
<1>6. LinkFollows'
  BY Zenon, <1>0, <1>1, <1>3 DEF PathInv, LinkFollows
<1>7. CancelReachesOwnJob' /\ ClosedReadsStopping'
  BY <1>0, <1>3 DEF PathInv, CancelReachesOwnJob, ClosedReadsStopping
<1>8. ASSUME NEW q \in Requests, conn'[q] \in {"mark", "wait"}
      PROVE  Served(q)'
  <2>1. Served(q)
    BY <1>0, <1>8 DEF PathInv
  <2> QED
    BY <1>0, <1>2, <1>q, <2>1 DEF Served
<1> QED
  BY <1>0, <1>4, <1>5, <1>6, <1>7, <1>8 DEF PathInv

LEMMA InitPathInv == PathInit => PathInv /\ ArbiterInv
<1> SUFFICES ASSUME PathInit PROVE PathInv /\ ArbiterInv
  OBVIOUS
<1>0. ArbiterInv /\ ArbiterTypeOK
  BY InitArbiterInv DEF PathInit, ArbiterInv
<1>1. PathTypeOK
  BY <1>0, ArbiterConstants DEF PathInit, ArbiterInit, LiveInit, PathTypeOK, Steps, Held, Phases
<1>2. QueuedOnce /\ \A q \in Requests : ~Waits(q)
  BY DEF PathInit, ArbiterInit, QueuedOnce, Distinct, Waits, Queued
<1>3. LinkFollows
  BY LiveConstants DEF PathInit, ArbiterInit, LinkFollows
<1>4. CancelReachesOwnJob /\ ClosedReadsStopping
  BY DEF PathInit, ArbiterInit, CancelReachesOwnJob, ClosedReadsStopping
<1>5. /\ \A q \in Requests : conn[q] \notin {"mark", "wait"}
      /\ worker # Stopped
  BY ArbiterConstants DEF PathInit, ArbiterInit
<1> QED
  BY <1>0, <1>1, <1>2, <1>3, <1>4, <1>5 DEF PathInv

LEMMA PathInvKept ==
  ASSUME PathInv, ArbiterInv, [PathNext]_vars
  PROVE  PathInv' /\ ArbiterInv'
<1>1. ArbiterInv' /\ ArbiterTypeOK'
  BY PathStepsArbiter, ArbiterInvKept DEF ArbiterInv
<1>2. PathInv'
  BY <1>1, ConnectionKeeps, SubmitKeepsPath, GiveUpKeeps, LoopKeeps, TakeRequestKeeps, TakeTaskKeeps,
     ClaimKeeps, DoneKeeps, RunKeeps DEF PathNext, WorkerStep, ConnectionStep
<1> QED
  BY <1>1, <1>2

-----------------------------------------------------------------------------
(* The results.                                                            *)

(* The invariant holds of the composed daemon.                             *)
THEOREM PathInvariant == PathSpec => [](PathInv /\ ArbiterInv)
<1>1. (PathInv /\ ArbiterInv) /\ [PathNext]_vars => (PathInv /\ ArbiterInv)'
  BY PathInvKept
<1> QED
  BY InitPathInv, <1>1, PTL DEF PathSpec

(* Connection threads and the worker's loop use the arbiter as its         *)
(* specification allows, the shared token included, so whatever is proved  *)
(* of the arbiter alone holds in the daemon.                               *)
THEOREM DaemonUsesArbiter == PathSpec => ArbiterSpec
<1>1. PathInit => ArbiterInit
  BY DEF PathInit
<1>2. (PathInv /\ ArbiterInv) /\ [PathNext]_vars => [ArbiterNext]_arbiterVars
  BY PathStepsArbiter
<1> QED
  BY <1>1, <1>2, PathInvariant, PTL DEF PathSpec, ArbiterSpec

(* The arbiter considers the worker busy exactly between the loop's take   *)
(* and its finish, on the path of a dropped request too.                   *)
THEOREM WorkerAndArbiterAgree == PathSpec => []PathTypeOK
<1>1. PathInv /\ ArbiterInv => PathTypeOK
  BY DEF PathInv
<1> QED
  BY PathInvariant, <1>1, PTL

(* A client that leaves cancels its own running request and no other, for  *)
(* any number of clients that leave at any moment.                         *)
THEOREM CancelIsOwn == PathSpec => []CancelReachesOwnJob
<1>1. PathInv /\ ArbiterInv => CancelReachesOwnJob
  BY DEF PathInv
<1> QED
  BY PathInvariant, <1>1, PTL

(* No path of the loop strands a waiting client: its request is queued     *)
(* with a worker that has not exited, on the worker, or answered.          *)
THEOREM NobodyStranded == PathSpec => []WaiterHasServer
<1>1. ASSUME PathInv PROVE WaiterHasServer
  <2>1. \A q : Waits(q) => worker # Stopped
    BY <1>1 DEF PathInv, Waits, Queued
  <2> QED
    BY <1>1, <2>1 DEF PathInv, Served, WaiterHasServer
<1> QED
  BY PathInvariant, <1>1, PTL

(* Live status says stopping before and ever after the arbiter closes.     *)
THEOREM StoppingIsShown == PathSpec => []ClosedReadsStopping
<1>1. PathInv /\ ArbiterInv => ClosedReadsStopping
  BY DEF PathInv
<1> QED
  BY PathInvariant, <1>1, PTL

-----------------------------------------------------------------------------
(* Live status.                                                            *)

\* What live status counts as waiting under k.
WaitingOf(k) == {r \in Tracked : Key(r) = k /\ phase[r] = "WAITING"}

CountsExact ==
  /\ waiting \in [Keys -> Nat]
  /\ \A k \in Keys : IsFiniteSet(WaitingOf(k)) /\ waiting[k] = Cardinality(WaitingOf(k))

\* One registration changes phase.
LEMMA CountUp ==
  ASSUME CountsExact, phase \in [Requests -> Phases], NEW r \in Tracked, phase[r] # "WAITING",
         phase' = [phase EXCEPT ![r] = "WAITING"],
         waiting' = [waiting EXCEPT ![Key(r)] = @ + 1]
  PROVE  CountsExact'
<1>0. r \in Requests /\ Key(r) \in Keys
  BY LiveConstants DEF Keys
<1>1. waiting' \in [Keys -> Nat] /\ \A k \in Keys : waiting'[k] = IF k = Key(r) THEN waiting[k] + 1 ELSE waiting[k]
  BY <1>0 DEF CountsExact
<1>2. ASSUME NEW k \in Keys PROVE IsFiniteSet(WaitingOf(k)') /\ waiting'[k] = Cardinality(WaitingOf(k)')
  <2>0. IsFiniteSet(WaitingOf(k)) /\ waiting[k] = Cardinality(WaitingOf(k))
    BY DEF CountsExact
  <2>1. CASE k = Key(r)
    <3>1. WaitingOf(k)' = WaitingOf(k) \cup {r} /\ r \notin WaitingOf(k)
      BY <1>0, <2>1, LiveConstants DEF WaitingOf
    <3>2. IsFiniteSet(WaitingOf(k) \cup {r}) /\ Cardinality(WaitingOf(k) \cup {r}) = Cardinality(WaitingOf(k)) + 1
      BY <2>0, <3>1, FS_AddElement
    <3> QED
      BY <1>1, <2>0, <2>1, <3>1, <3>2
  <2>2. CASE k # Key(r)
    <3>1. WaitingOf(k)' = WaitingOf(k)
      BY <1>0, <2>2, LiveConstants DEF WaitingOf
    <3> QED
      BY <1>1, <2>0, <2>2, <3>1
  <2> QED
    BY <2>1, <2>2
<1> QED
  BY <1>1, <1>2 DEF CountsExact

LEMMA WaiterCounted ==
  ASSUME CountsExact, NEW r \in Tracked, phase[r] = "WAITING"
  PROVE  Key(r) \in Keys /\ waiting[Key(r)] \in Nat /\ waiting[Key(r)] > 0
<1>0. Key(r) \in Keys
  BY LiveConstants DEF Keys
<1>1. /\ r \in WaitingOf(Key(r)) /\ IsFiniteSet(WaitingOf(Key(r)))
      /\ waiting[Key(r)] = Cardinality(WaitingOf(Key(r)))
  BY <1>0 DEF CountsExact, WaitingOf
<1>2. Cardinality(WaitingOf(Key(r)) \ {r}) \in Nat /\ IsFiniteSet(WaitingOf(Key(r)) \ {r})
  BY <1>1, FS_RemoveElement, FS_CardinalityType
<1>3. Cardinality(WaitingOf(Key(r))) \in Nat
  BY <1>1, FS_CardinalityType
<1> QED
  BY SMTT(20), <1>0, <1>1, <1>2, <1>3, FS_RemoveElement

LEMMA CountDown ==
  ASSUME CountsExact, phase \in [Requests -> Phases], NEW r \in Tracked, phase[r] = "WAITING",
         NEW p, p # "WAITING", phase' = [phase EXCEPT ![r] = p],
         waiting' = IF waiting[Key(r)] > 0 THEN [waiting EXCEPT ![Key(r)] = @ - 1] ELSE waiting
  PROVE  CountsExact' /\ waiting[Key(r)] > 0
<1>0. r \in Requests /\ Key(r) \in Keys
  BY LiveConstants DEF Keys
<1>1. waiting[Key(r)] \in Nat /\ waiting[Key(r)] > 0
  BY WaiterCounted
<1>2. waiting' \in [Keys -> Nat] /\ \A k \in Keys : waiting'[k] = IF k = Key(r) THEN waiting[k] - 1 ELSE waiting[k]
  BY <1>0, <1>1 DEF CountsExact
<1>3. ASSUME NEW k \in Keys PROVE IsFiniteSet(WaitingOf(k)') /\ waiting'[k] = Cardinality(WaitingOf(k)')
  <2>0. IsFiniteSet(WaitingOf(k)) /\ waiting[k] = Cardinality(WaitingOf(k))
    BY DEF CountsExact
  <2>1. CASE k = Key(r)
    <3>1. WaitingOf(k)' = WaitingOf(k) \ {r} /\ r \in WaitingOf(k)
      BY <1>0, <2>1, LiveConstants DEF WaitingOf
    <3>2. IsFiniteSet(WaitingOf(k) \ {r}) /\ Cardinality(WaitingOf(k) \ {r}) = Cardinality(WaitingOf(k)) - 1
      BY <2>0, <3>1, FS_RemoveElement
    <3> QED
      BY <1>2, <2>0, <2>1, <3>1, <3>2
  <2>2. CASE k # Key(r)
    <3>1. WaitingOf(k)' = WaitingOf(k)
      BY <1>0, <2>2, LiveConstants DEF WaitingOf
    <3> QED
      BY <1>2, <2>0, <2>2, <3>1
  <2> QED
    BY <2>1, <2>2
<1> QED
  BY <1>1, <1>2, <1>3 DEF CountsExact

LEMMA CountSame ==
  ASSUME CountsExact, waiting' = waiting,
         \A q \in Tracked : phase'[q] = "WAITING" <=> phase[q] = "WAITING"
  PROVE  CountsExact'
<1>1. \A k : WaitingOf(k)' = WaitingOf(k)
  BY Zenon DEF WaitingOf
<1> QED
  BY <1>1 DEF CountsExact

(* What a registration's calls do while the counts are exact.              *)
LEMMA MarkDoes ==
  ASSUME CountsExact, phase \in [Requests -> Phases], NEW r \in Requests, LiveWaiting(r)
  PROVE  /\ CountsExact' /\ UNCHANGED <<live_worker, available>>
         /\ \A q \in Requests : phase'[q] = IF q = r /\ r \in Tracked /\ phase[r] = "CREATED" THEN "WAITING" ELSE phase[q]
<1>1. CASE r \in Tracked /\ phase[r] = "CREATED"
  BY <1>1, CountUp DEF LiveWaiting
<1>2. CASE ~(r \in Tracked /\ phase[r] = "CREATED")
  BY <1>2, CountSame DEF LiveWaiting, liveVars
<1> QED
  BY <1>1, <1>2

LEMMA StartDoes ==
  ASSUME CountsExact, phase \in [Requests -> Phases], NEW r \in Requests, LiveRunning(r),
         live_worker = Nobody, available, r \in Tracked => phase[r] \in {"CREATED", "WAITING"}
  PROVE  /\ CountsExact' /\ available'
         /\ live_worker' = IF r \in Tracked THEN r ELSE Nobody
         /\ \A q \in Requests : phase'[q] = IF q = r /\ r \in Tracked THEN "RUNNING" ELSE phase[q]
<1>1. CASE r \in Tracked /\ phase[r] = "WAITING"
  <2>1. /\ phase' = [phase EXCEPT ![r] = "RUNNING"]
        /\ waiting' = IF waiting[Key(r)] > 0 THEN [waiting EXCEPT ![Key(r)] = @ - 1] ELSE waiting
        /\ (waiting[Key(r)] > 0 => available') /\ live_worker' = r
    BY Zenon, <1>1 DEF LiveRunning
  <2> QED
    BY Zenon, <1>1, <2>1, CountDown
<1>2. CASE r \in Tracked /\ phase[r] = "CREATED"
  <2>1. /\ phase' = [phase EXCEPT ![r] = "RUNNING"]
        /\ waiting' = waiting /\ available' /\ live_worker' = r
    BY Zenon, <1>2 DEF LiveRunning
  <2> QED
    BY <1>2, <2>1, CountSame
<1>3. CASE r \notin Tracked
  BY <1>3, CountSame DEF LiveRunning, liveVars
<1> QED
  BY <1>1, <1>2, <1>3

LEMMA FinishDoes ==
  ASSUME CountsExact, phase \in [Requests -> Phases], NEW r \in Requests, LiveFinish(r),
         available, r \in Tracked /\ phase[r] = "RUNNING" => live_worker = r
  PROVE  /\ CountsExact' /\ available'
         /\ live_worker' = IF r \in Tracked /\ phase[r] = "RUNNING" THEN Nobody ELSE live_worker
         /\ \A q \in Requests : phase'[q] = IF q = r /\ r \in Tracked THEN "FINISHED" ELSE phase[q]
<1>1. CASE r \in Tracked /\ phase[r] = "WAITING"
  <2>1. /\ phase' = [phase EXCEPT ![r] = "FINISHED"]
        /\ waiting' = IF waiting[Key(r)] > 0 THEN [waiting EXCEPT ![Key(r)] = @ - 1] ELSE waiting
        /\ (waiting[Key(r)] > 0 => available') /\ live_worker' = live_worker
    BY Zenon, <1>1 DEF LiveFinish
  <2> QED
    BY Zenon, <1>1, <2>1, CountDown
<1>2. CASE r \in Tracked /\ phase[r] # "WAITING"
  <2>1. /\ phase' = [phase EXCEPT ![r] = "FINISHED"]
        /\ waiting' = waiting /\ available'
        /\ live_worker' = IF phase[r] = "RUNNING" THEN Nobody ELSE live_worker
    BY <1>2 DEF LiveFinish
  <2> QED
    BY <1>2, <2>1, CountSame
<1>3. CASE r \notin Tracked
  BY <1>3, CountSame DEF LiveFinish, liveVars
<1> QED
  BY <1>1, <1>2, <1>3

\* The request has not been started: it is queued, or with a loop that has not
\* claimed it.
Unclaimed == {"taken", "drop", "dropped"}
Unstarted(r) == Waits(r) \/ (job = r /\ step \in Unclaimed)
RunSteps == {"run", "released", "unwound", "rebuild", "rebuilding", "finished"}

\* A registration follows its request.
Follows(r) ==
  /\ Unstarted(r) => phase[r] \in {"CREATED", "WAITING"} /\ (conn[r] # "mark" => phase[r] = "WAITING")
  /\ phase[r] = "WAITING" => Unstarted(r)
  /\ phase[r] = "CREATED" /\ r \in seen => Unstarted(r)
  /\ phase[r] = "RUNNING" <=> job = r /\ step \in RunSteps
  /\ phase[r] = "RUNNING" <=> live_worker = r

Before == {"new", "check", "submit"}

\* The inductive invariant of live status, beside the counts.
LiveInv ==
  /\ available /\ live_worker \in Tracked \cup {Nobody}
  /\ \A q \in Requests : conn[q] \in Before => q \notin seen /\ phase[q] = "CREATED"
  /\ \A q, s \in Requests : conn[q] \in InAdmission /\ conn[s] \in InAdmission => q = s
  /\ \A q \in Tracked : Follows(q)

(* A connection thread goes on and live status stays.                      *)
LEMMA ConnLive ==
  ASSUME PathInv, LiveInv, NEW r \in Requests, NEW pc, conn' = [conn EXCEPT ![r] = pc],
         conn[r] # "mark", pc # "mark", pc \in Before => conn[r] \in Before,
         pc \in InAdmission => conn[r] \in InAdmission \/ \A s \in Requests : conn[s] \notin InAdmission,
         UNCHANGED <<auth, other, seen, step, job, phase, live_worker, available>>
  PROVE  LiveInv'
<1>1. \A q \in Requests : conn'[q] = IF q = r THEN pc ELSE conn[q]
  BY DEF PathInv, PathTypeOK
<1>2. \A q : Unstarted(q)' <=> Unstarted(q)
  BY QueuesKept DEF Unstarted
<1>3. \A q \in Tracked : Follows(q)'
  BY Zenon, <1>1, <1>2, LiveConstants DEF LiveInv, Follows
<1>4. \A q, s \in Requests : conn'[q] \in InAdmission /\ conn'[s] \in InAdmission => q = s
  BY <1>1 DEF LiveInv
<1>5. \A q \in Requests : conn'[q] \in Before => q \notin seen' /\ phase'[q] = "CREATED"
  BY <1>1 DEF LiveInv
<1> QED
  BY <1>3, <1>4, <1>5 DEF LiveInv

(* The loop goes on and live status stays.                                 *)
LEMMA LoopLive ==
  ASSUME PathInv, LiveInv, UNCHANGED <<auth, other, seen, conn, phase, live_worker, available>>,
         \A q \in Tracked : /\ job' = q /\ step' \in Unclaimed <=> job = q /\ step \in Unclaimed
                            /\ job' = q /\ step' \in RunSteps <=> job = q /\ step \in RunSteps
  PROVE  LiveInv'
<1>1. \A q \in Tracked : Unstarted(q)' <=> Unstarted(q)
  BY QueuesKept DEF Unstarted
<1>2. \A q \in Tracked : Follows(q)'
  BY Zenon, <1>1 DEF LiveInv, Follows
<1> QED
  BY <1>2 DEF LiveInv

(* A registration ends with its request.                                   *)
LEMMA EndLive ==
  ASSUME PathInv, LiveInv, NEW r \in Requests, UNCHANGED <<auth, other>>, available',
         live_worker' = IF r \in Tracked /\ phase[r] = "RUNNING" THEN Nobody ELSE live_worker,
         \A q \in Requests : phase'[q] = IF q = r /\ r \in Tracked THEN "FINISHED" ELSE phase[q],
         \A q \in Requests \ {r} : /\ job' = q /\ step' \in Unclaimed <=> job = q /\ step \in Unclaimed
                                   /\ job' = q /\ step' \in RunSteps <=> job = q /\ step \in RunSteps
                                   /\ q \in seen' <=> q \in seen,
         ~Waits(r), ~(job' = r /\ step' \in Unclaimed \cup RunSteps),
         \A q \in Requests \ {r} : conn'[q] = conn[q],
         conn'[r] \notin Before, conn'[r] \in InAdmission => conn[r] \in InAdmission
  PROVE  LiveInv'
<1>1. \A q \in Requests \ {r} : Unstarted(q)' <=> Unstarted(q)
  BY Zenon, QueuesKept DEF Unstarted
<1>2. ~Unstarted(r)'
  BY QueuesKept DEF Unstarted
<1>3. \A q \in Tracked : q # r => Follows(q)'
  BY Zenon, <1>1, LiveConstants DEF LiveInv, Follows
<1>4. r \in Tracked => Follows(r)'
  BY Zenon, <1>2, LiveConstants DEF LiveInv, Follows
<1>5. live_worker' \in Tracked \cup {Nobody}
  BY DEF LiveInv
<1>6. \A q \in Requests : conn'[q] \in Before => q \notin seen' /\ phase'[q] = "CREATED"
  BY DEF LiveInv
<1>7. \A q, s \in Requests : conn'[q] \in InAdmission /\ conn'[s] \in InAdmission => q = s
  BY DEF LiveInv
<1> QED
  BY Zenon, <1>3, <1>4, <1>5, <1>6, <1>7 DEF LiveInv

LEMMA ConnectionLive ==
  ASSUME PathInv, LiveInv, CountsExact, NEW r \in Requests, ConnectionStep(r)
  PROVE  LiveInv' /\ CountsExact'
<1> USE DEF Before, InAdmission, Over, Refused, Goto
<1>0. phase \in [Requests -> Phases] /\ conn \in [Requests -> Places]
  BY DEF PathInv, PathTypeOK, Places
<1>1. CASE EnterAdmission(r) \/ ReceiveReply(r) \/ TimeOut(r) \/ GiveUp(r)
  <2>1. /\ UNCHANGED <<auth, other, seen, step, job, phase, waiting, live_worker, available>>
        /\ \E pc : /\ conn' = [conn EXCEPT ![r] = pc]
                   /\ \/ conn[r] = "wait" /\ pc \in {"replied", "timed out", "left"}
                      \/ /\ conn[r] = "new" /\ pc \in {"check", "submit"}
                         /\ \A s \in Requests : conn[s] \notin InAdmission
    <3>1. CASE EnterAdmission(r) \/ ReceiveReply(r) \/ TimeOut(r)
      BY <3>1 DEF EnterAdmission, ReceiveReply, TimeOut, arbiterVars, liveVars
    <3>2. CASE GiveUp(r)
      BY <3>2 DEF GiveUp, Abandon, LiveCancel, liveVars, queueVars
    <3> QED
      BY <1>1, <3>1, <3>2
  <2>2. CountsExact'
    BY <2>1, CountSame
  <2> QED
    BY <2>1, <2>2, ConnLive
<1>2. CASE CheckUnknownWork(r) /\ ~shows_unknown_work(uid[r])
  <2>1. /\ UNCHANGED <<auth, other, seen, step, job, phase, waiting, live_worker, available>>
        /\ conn' = [conn EXCEPT ![r] = "submit"] /\ conn[r] = "check"
    BY <1>2 DEF CheckUnknownWork, arbiterVars, liveVars
  <2>2. CountsExact'
    BY <2>1, CountSame
  <2> QED
    BY Zenon, <2>1, <2>2, ConnLive
<1>3. CASE (CheckUnknownWork(r) /\ shows_unknown_work(uid[r])) \/ RefuseRequest(r)
  <2>1. /\ UNCHANGED <<auth, other, step, job>> /\ LiveFinish(r)
        /\ seen' \in {seen, seen \cup {r}} /\ conn[r] \in {"check", "submit"}
        /\ \E pc \in Refused : conn' = [conn EXCEPT ![r] = pc]
    BY Zenon, <1>3 DEF CheckUnknownWork, RefuseRequest, Refuse, Refusal, arbiterVars, queueVars
  <2>2. r \notin seen /\ phase[r] = "CREATED" /\ available
    BY Zenon, <2>1 DEF LiveInv
  <2>3. ~Waits(r) /\ job # r
    BY Zenon, <2>2 DEF PathInv, QueuedOnce, LinkFollows
  <2>4. /\ CountsExact' /\ available'
        /\ live_worker' = IF r \in Tracked /\ phase[r] = "RUNNING" THEN Nobody ELSE live_worker
        /\ \A q \in Requests : phase'[q] = IF q = r /\ r \in Tracked THEN "FINISHED" ELSE phase[q]
    BY <1>0, <2>1, <2>2, FinishDoes
  <2>5. /\ \A q \in Requests \ {r} : conn'[q] = conn[q] /\ (q \in seen' <=> q \in seen)
        /\ conn'[r] \in Refused
    BY <1>0, <2>1
  <2> QED
    BY Zenon, <2>1, <2>3, <2>4, <2>5, EndLive
<1>4. CASE SubmitRequest(r)
  <2>1. /\ UNCHANGED <<step, job, phase, waiting, live_worker, available>>
        /\ seen' = seen \cup {r} /\ conn[r] = "submit" /\ conn' = [conn EXCEPT ![r] = "mark"]
    BY <1>4 DEF SubmitRequest, Submit, liveVars
  <2>2. \A q : Waits(q)' <=> Waits(q) \/ q = r
    BY Zenon, <1>4, SubmitMoves
  <2>3. \A q \in Requests : conn'[q] = IF q = r THEN "mark" ELSE conn[q]
    BY <1>0, <2>1
  <2>4. phase[r] = "CREATED" /\ r \notin seen /\ job # r /\ live_worker # r
    <3>1. phase[r] = "CREATED" /\ r \notin seen
      BY Zenon, <2>1 DEF LiveInv
    <3>2. job # r
      BY Zenon, <3>1 DEF PathInv, LinkFollows
    <3> QED
      BY <3>1, <3>2, LiveConstants DEF LiveInv, Follows
  <2>5. CountsExact'
    BY <2>1, CountSame
  <2>6. \A q \in Requests : Unstarted(q)' <=> Unstarted(q) \/ q = r
    BY <2>1, <2>2 DEF Unstarted
  <2>7. \A q \in Tracked : Follows(q)'
    BY Zenon, <2>1, <2>3, <2>4, <2>6, LiveConstants DEF LiveInv, Follows
  <2>8. /\ \A q \in Requests : conn'[q] \in Before => q \notin seen' /\ phase'[q] = "CREATED"
        /\ \A q, s \in Requests : conn'[q] \in InAdmission /\ conn'[s] \in InAdmission => q = s
    <3>1. \A q \in Requests : conn'[q] \in Before => q # r /\ conn[q] \in Before
      BY <2>3 DEF Before
    <3>2. \A q \in Requests : conn'[q] \in InAdmission => conn[q] \in InAdmission
      BY <2>1, <2>3 DEF InAdmission
    <3>3. \A q \in Requests : q # r => phase'[q] = phase[q] /\ (q \in seen' <=> q \in seen)
      BY <2>1, <2>3
    <3> QED
      BY <3>1, <3>2, <3>3 DEF LiveInv
  <2> QED
    BY Zenon, <2>1, <2>5, <2>7, <2>8 DEF LiveInv
<1>5. CASE MarkWaiting(r)
  <2>1. UNCHANGED <<auth, other, seen, step, job>> /\ conn[r] = "mark" /\ conn' = [conn EXCEPT ![r] = "wait"]
    BY <1>5 DEF MarkWaiting, arbiterVars
  <2>2. /\ CountsExact' /\ UNCHANGED <<live_worker, available>>
        /\ \A q \in Requests : phase'[q] = IF q = r /\ r \in Tracked /\ phase[r] = "CREATED" THEN "WAITING" ELSE phase[q]
    BY <1>0, <1>5, MarkDoes DEF MarkWaiting
  <2>3. \A q \in Requests : conn'[q] = IF q = r THEN "wait" ELSE conn[q]
    BY <1>0, <2>1
  <2>4. \A q : Unstarted(q)' <=> Unstarted(q)
    BY <2>1, QueuesKept DEF Unstarted
  <2>5. r \in seen
    BY <2>1 DEF PathInv, LinkFollows
  <2>6. \A q \in Tracked : Follows(q)'
    BY Zenon, <2>1, <2>2, <2>3, <2>4, <2>5, LiveConstants DEF LiveInv, Follows
  <2>7. /\ \A q \in Requests : conn'[q] \in Before => q \notin seen' /\ phase'[q] = "CREATED"
        /\ \A q, s \in Requests : conn'[q] \in InAdmission /\ conn'[s] \in InAdmission => q = s
    <3>1. \A q \in Requests : conn'[q] \in Before => q # r /\ conn[q] \in Before
      BY <2>3 DEF Before
    <3>2. \A q \in Requests : conn'[q] \in InAdmission => conn[q] \in InAdmission
      BY <2>1, <2>3 DEF InAdmission
    <3>3. \A q \in Requests : q # r => phase'[q] = phase[q] /\ (q \in seen' <=> q \in seen)
      BY Zenon, <2>1, <2>2, <2>3
    <3> QED
      BY <3>1, <3>2, <3>3 DEF LiveInv
  <2> QED
    BY Zenon, <2>2, <2>6, <2>7 DEF LiveInv
<1> QED
  BY <1>1, <1>2, <1>3, <1>4, <1>5 DEF ConnectionStep

(* The loop's steps.                                                       *)
LEMMA WorkerLive ==
  ASSUME PathInv, LiveInv, CountsExact, WorkerStep \/ OfferTask \/ Stopping \/ Shutdown
  PROVE  LiveInv' /\ CountsExact'
<1> USE DEF Unclaimed, RunSteps
<1>0. phase \in [Requests -> Phases] /\ Tracked \subseteq Requests /\ Nobody \notin Requests
  BY LiveConstants DEF PathInv, PathTypeOK
<1>1. CASE \/ TakeTask \/ TaskEnds \/ Idle \/ Exit \/ DropQueued \/ DeliverEarly
           \/ \E panicked \in BOOLEAN : RequestEnds(panicked)
           \/ FinishJob \/ StartRebuild \/ EndRebuild \/ Reply \/ OfferTask \/ Stopping \/ Shutdown
  <2>1. UNCHANGED <<auth, other, seen, conn, phase, waiting, live_worker, available>>
    <3>1. CASE TakeTask \/ TaskEnds \/ Idle \/ Exit
      BY <3>1 DEF TakeTask, TaskEnds, Idle, Exit, TakeBackground, FinishTask, Wait, TakeNothing,
         liveVars, pathVars, queueVars
    <3>2. CASE DropQueued \/ FinishJob \/ OfferTask \/ Shutdown
      BY Zenon, <3>2 DEF DropQueued, FinishJob, FinishRequest, OfferTask, SubmitBackground, Shutdown, Close,
         liveVars, pathVars, queueVars
    <3>3. CASE \/ DeliverEarly \/ \E panicked \in BOOLEAN : RequestEnds(panicked)
               \/ StartRebuild \/ EndRebuild \/ Reply \/ Stopping
      BY Zenon, <3>3 DEF DeliverEarly, RequestEnds, StartRebuild, EndRebuild, Reply, Stopping, arbiterVars, liveVars
    <3> QED
      BY <1>1, <3>1, <3>2, <3>3
  <2>2. \/ job' = job /\ step' = step
        \/ job' = job /\ step \in RunSteps /\ step' \in RunSteps
        \/ job' = job /\ step \in Unclaimed /\ step' \in Unclaimed
        \/ step \in {"take", "task", "reply"} /\ step' \in {"take", "task"} /\ job' \in {job, Nobody}
    <3>1. CASE TakeTask \/ TaskEnds \/ Idle \/ Exit
      BY <3>1 DEF TakeTask, TaskEnds, Idle, Exit, pathVars
    <3>2. CASE DropQueued \/ FinishJob \/ OfferTask \/ Shutdown
      BY <3>2 DEF DropQueued, FinishJob, OfferTask, Shutdown, pathVars
    <3>3. CASE \/ DeliverEarly \/ \E panicked \in BOOLEAN : RequestEnds(panicked)
               \/ StartRebuild \/ EndRebuild \/ Reply \/ Stopping
      BY Zenon, <3>3 DEF DeliverEarly, RequestEnds, StartRebuild, EndRebuild, Reply, Stopping
    <3> QED
      BY <1>1, <3>1, <3>2, <3>3
  <2>3. \A q \in Tracked : /\ job' = q /\ step' \in Unclaimed <=> job = q /\ step \in Unclaimed
                           /\ job' = q /\ step' \in RunSteps <=> job = q /\ step \in RunSteps
    BY <2>2
  <2> QED
    BY <2>1, <2>3, LoopLive, CountSame
<1>2. CASE TakeRequest
  <2>1. /\ UNCHANGED <<conn, seen, phase, waiting, live_worker, available>>
        /\ step = "take" /\ step' = "taken" /\ job = Nobody /\ job' \in Requests /\ Waits(job')
        /\ \A q : Waits(q)' <=> Waits(q) /\ q # job'
    BY <1>2, TakeMoves DEF TakeRequest, liveVars
  <2>2. \A q \in Requests : Unstarted(q)' <=> Unstarted(q)
    BY <1>0, <2>1 DEF Unstarted
  <2>3. \A q \in Tracked : Follows(q)'
    BY Zenon, <1>0, <2>1, <2>2 DEF LiveInv, Follows
  <2> QED
    BY <2>1, <2>3, CountSame DEF LiveInv
<1>3. CASE Claim
  <2>1. /\ UNCHANGED <<auth, other, seen, conn, job>> /\ step = "taken" /\ job \in Requests
        /\ \/ LiveRunning(job) /\ step' = "run"
           \/ UNCHANGED liveVars /\ step' = "drop"
    BY <1>3 DEF Claim, arbiterVars, PathInv, PathTypeOK
  <2>2. CASE UNCHANGED liveVars /\ step' = "drop"
    BY <2>1, <2>2, LoopLive, CountSame DEF liveVars
  <2>3. CASE LiveRunning(job) /\ step' = "run"
    <3>1. live_worker = Nobody /\ available /\ (job \in Tracked => phase[job] \in {"CREATED", "WAITING"})
      BY Zenon, <2>1 DEF LiveInv, Follows, Unstarted
    <3>2. PICK r \in Requests : r = job
      BY <2>1
    <3>3. /\ CountsExact' /\ available'
          /\ live_worker' = IF r \in Tracked THEN r ELSE Nobody
          /\ \A q \in Requests : phase'[q] = IF q = r /\ r \in Tracked THEN "RUNNING" ELSE phase[q]
      BY <1>0, <2>3, <3>1, <3>2, StartDoes
    <3>4. /\ \A q \in Requests : Unstarted(q)' <=> Unstarted(q) /\ q # r
          /\ r \in seen /\ ~Waits(r)
      <4>1. r \in seen /\ ~Waits(r)
        BY <3>2 DEF PathInv, QueuedOnce, LinkFollows
      <4> QED
        BY <2>1, <2>3, <3>2, <4>1, QueuesKept DEF Unstarted
    <3>5. \A q \in Tracked : Follows(q)'
      <4> SUFFICES ASSUME NEW q \in Tracked PROVE Follows(q)'
        OBVIOUS
      <4>1. CASE q = r
        BY Zenon, <1>0, <2>1, <2>3, <3>2, <3>3, <3>4, <4>1 DEF Follows
      <4>2. CASE q # r
        BY Zenon, <1>0, <2>1, <2>3, <3>1, <3>2, <3>3, <3>4, <4>2 DEF LiveInv, Follows
      <4> QED
        BY <4>1, <4>2
    <3>6. \A q \in Requests : conn[q] \in Before => phase'[q] = "CREATED"
      BY Zenon, <3>3, <3>4 DEF LiveInv
    <3> QED
      BY Zenon, <2>1, <3>3, <3>5, <3>6 DEF LiveInv
  <2> QED
    BY <2>1, <2>2, <2>3
<1>4. CASE DropActivity \/ FinishActivity
  <2>1. /\ UNCHANGED <<auth, other, seen, conn>> /\ LiveFinish(job)
        /\ \/ step = "dropped" /\ step' = "take" /\ job' = Nobody
           \/ step = "finished" /\ step' = "reply" /\ job' = job
    BY <1>4 DEF DropActivity, FinishActivity, arbiterVars
  <2>2. PICK r \in Requests : r = job
    BY <2>1 DEF PathInv, PathTypeOK
  <2>3. r \in seen /\ ~Waits(r) /\ available /\ (r \in Tracked /\ phase[r] = "RUNNING" => live_worker = r)
    <3>1. r \in seen /\ ~Waits(r)
      BY <2>2 DEF PathInv, QueuedOnce, LinkFollows
    <3> QED
      BY Zenon, <3>1 DEF LiveInv, Follows
  <2>4. /\ CountsExact' /\ available'
        /\ live_worker' = IF r \in Tracked /\ phase[r] = "RUNNING" THEN Nobody ELSE live_worker
        /\ \A q \in Requests : phase'[q] = IF q = r /\ r \in Tracked THEN "FINISHED" ELSE phase[q]
    BY <1>0, <2>1, <2>2, <2>3, FinishDoes
  <2>5. conn[r] \notin Before
    BY <2>3 DEF LiveInv
  <2> QED
    BY <1>0, <2>1, <2>2, <2>3, <2>4, <2>5, EndLive
<1> QED
  BY <1>1, <1>2, <1>3, <1>4 DEF WorkerStep

LEMMA InitLiveInv == PathInit => LiveInv /\ CountsExact
<1> SUFFICES ASSUME PathInit PROVE LiveInv /\ CountsExact
  OBVIOUS
<1>1. \A q : ~Unstarted(q)
  BY DEF PathInit, ArbiterInit, Unstarted, Unclaimed, Waits, Queued
<1>2. LiveInv
  BY <1>1, LiveConstants DEF PathInit, ArbiterInit, LiveInit, LiveInv, Follows, InAdmission, RunSteps
<1>3. \A k : WaitingOf(k) = {}
  BY LiveConstants DEF PathInit, LiveInit, WaitingOf
<1> QED
  BY <1>2, <1>3, FS_EmptySet DEF PathInit, LiveInit, CountsExact

LEMMA LiveInvKept ==
  ASSUME PathInv, LiveInv, CountsExact, [PathNext]_vars
  PROVE  LiveInv' /\ CountsExact'
<1>1. CASE UNCHANGED vars
  <2>1. UNCHANGED <<auth, other, seen, conn, step, job, phase, waiting, live_worker, available>>
    BY <1>1 DEF vars, arbiterVars, liveVars, pathVars
  <2> QED
    BY <2>1, LoopLive, CountSame
<1> QED
  BY <1>1, ConnectionLive, WorkerLive DEF PathNext

LEMMA LiveInvariant == PathSpec => [](LiveInv /\ CountsExact)
<1>1. (PathInv /\ ArbiterInv) /\ (LiveInv /\ CountsExact) /\ [PathNext]_vars => (LiveInv /\ CountsExact)'
  BY LiveInvKept
<1> QED
  BY InitLiveInv, PathInvariant, <1>1, PTL DEF PathSpec

(* Live status shows every tracked request from the end of its admission   *)
(* until the worker is done with it, counts it once, and never becomes     *)
(* unavailable, although the worker may take and even finish a request     *)
(* before its thread marks it waiting (RequestGuard, live.rs).             *)
THEOREM LiveStatusIsExact == PathSpec => []LiveMatchesArbiter
<1>1. (PathInv /\ ArbiterInv) /\ (LiveInv /\ CountsExact) => LiveMatchesArbiter
  <2> SUFFICES ASSUME PathInv, LiveInv, CountsExact PROVE LiveMatchesArbiter
    OBVIOUS
  <2>1. available /\ ClosedReadsStopping
    BY DEF PathInv, LiveInv
  <2>2. \A k \in Keys : waiting[k] = Cardinality({r \in Tracked : Key(r) = k /\ phase[r] = "WAITING"})
    BY DEF CountsExact, WaitingOf
  <2>3. \A r \in Tracked :
          /\ Waits(r) /\ conn[r] # "mark" => phase[r] = "WAITING"
          /\ phase[r] = "WAITING" =>
               Waits(r) \/ (job = r /\ step \in {"taken", "drop", "dropped"})
          /\ phase[r] = "RUNNING" <=>
               job = r /\ step \in {"run", "released", "unwound", "rebuild", "rebuilding", "finished"}
          /\ phase[r] = "RUNNING" <=> live_worker = r
    BY DEF LiveInv, Follows, Unstarted, Unclaimed, RunSteps
  <2> QED
    BY <2>1, <2>2, <2>3 DEF LiveMatchesArbiter
<1> QED
  BY <1>1, PathInvariant, LiveInvariant, PTL

(* An authentication that keeps others off the camera is in live status,   *)
(* unless its own thread is still in admission.                            *)
LEMMA AuthenticationShown ==
  ASSUME PathInv, LiveInv, CountsExact, NEW a \in Requests, class[a] = "Auth", NEW u,
         Waits(a) \/ worker = a, conn[a] # "mark"
  PROVE  \/ shows_unknown_work(u)
         \/ ShownKinds(u) \cap {"Authentication", "WalletAuthentication"} # {}
<1>0. a \in Tracked /\ kind[a] \in {"Authentication", "WalletAuthentication"} /\ a # Nobody
  BY Zenon, PathConstants, LiveConstants
<1>1. phase[a] = "WAITING" \/ live_worker = a
  <2>1. CASE Waits(a)
    BY <1>0, <2>1 DEF LiveInv, Follows, Unstarted
  <2>2. CASE worker = a
    <3>1. job = a /\ step \in Held
      BY <2>2 DEF PathInv, PathTypeOK
    <3> QED
      BY <1>0, <3>1 DEF LiveInv, Follows, Unstarted, Held, Unclaimed, RunSteps
  <2> QED
    BY Zenon, <2>1, <2>2
<1>2. CASE live_worker = a
  <2>1. CASE visible_to(owner[a], u)
    <3>1. kind[a] \in ShownKinds(u)
      BY <1>0, <1>2, <2>1 DEF ShownKinds
    <3> QED
      BY <1>0, <3>1
  <2>2. CASE ~visible_to(owner[a], u)
    BY <1>0, <1>2, <2>2 DEF shows_unknown_work
  <2> QED
    BY Zenon, <2>1, <2>2
<1>3. CASE phase[a] = "WAITING"
  <2>0. PICK k \in Keys : k = Key(a) /\ waiting[k] > 0 /\ k[1] = kind[a] /\ k[2] = owner[a]
    BY Zenon, <1>0, <1>3, WaiterCounted DEF Key
  <2>1. CASE visible_to(owner[a], u)
    <3>1. k[1] \in ShownKinds(u)
      BY <2>0, <2>1 DEF ShownKinds
    <3> QED
      BY Zenon, <1>0, <2>0, <3>1
  <2>2. CASE ~visible_to(owner[a], u)
    BY <2>0, <2>2 DEF shows_unknown_work
  <2> QED
    BY <2>1, <2>2
<1> QED
  BY <1>1, <1>2, <1>3

(* A refusal as busy tells the refused peer nothing that live status does  *)
(* not: the check, the submission and the mark of one request are in one   *)
(* admission scope, so whatever refuses the camera is already shown        *)
(* (serve_peer_until, ADR-0030 5).                                         *)
THEOREM BusyIsShown == PathSpec => RefusalIsShown
<1> DEFINE Shown(r) == \/ shows_unknown_work(uid[r])
                       \/ ShownKinds(uid[r]) \cap {"Authentication", "WalletAuthentication"} # {}
<1>1. ASSUME PathInv, ArbiterInv, LiveInv, CountsExact, [PathNext]_vars,
             NEW r \in Requests, conn[r] # "Busy", conn'[r] = "Busy"
      PROVE  Shown(r)
  <2>0. conn \in [Requests -> Places]
    BY <1>1 DEF PathInv, PathTypeOK, Places
  <2>1. conn' # conn
    BY <1>1
  <2>2. PICK q \in Requests : ConnectionStep(q)
    <3>1. ~UNCHANGED vars
      BY <2>1 DEF vars, pathVars
    <3>2. ~(WorkerStep \/ OfferTask \/ Stopping \/ Shutdown)
      BY Zenon, <2>1 DEF WorkerStep, TakeRequest, TakeTask, TaskEnds, Idle, Exit, Claim, DropQueued, DropActivity,
         DeliverEarly, RequestEnds, FinishJob, StartRebuild, EndRebuild, FinishActivity, Reply, OfferTask,
         Stopping, Shutdown, pathVars
    <3> QED
      BY <1>1, <3>1, <3>2 DEF PathNext
  <2>3. /\ q = r
        /\ (CheckUnknownWork(r) /\ shows_unknown_work(uid[r])) \/ (RefuseRequest(r) /\ Refusal(r) = "Busy")
    <3>1. CASE EnterAdmission(q) \/ MarkWaiting(q) \/ ReceiveReply(q) \/ GiveUp(q) \/ TimeOut(q) \/ SubmitRequest(q)
      BY Zenon, <1>1, <2>0, <3>1
         DEF EnterAdmission, MarkWaiting, ReceiveReply, GiveUp, TimeOut, SubmitRequest, Goto
    <3>2. CASE CheckUnknownWork(q)
      BY Zenon, <1>1, <2>0, <3>2 DEF CheckUnknownWork, Goto
    <3>3. CASE RefuseRequest(q)
      BY Zenon, <1>1, <2>0, <3>3 DEF RefuseRequest, Goto
    <3> QED
      BY <2>2, <3>1, <3>2, <3>3 DEF ConnectionStep
  <2>4. CASE RefuseRequest(r) /\ Refusal(r) = "Busy"
    <3>1. auth_pending /\ conn[r] = "submit"
      BY <2>4 DEF RefuseRequest, Refusal
    <3>2. PICK a \in Requests : class[a] = "Auth" /\ (Waits(a) \/ worker = a)
      <4>1. CASE auth_running
        BY <1>1, <4>1 DEF ArbiterInv, AuthRunningExact
      <4>2. CASE auth # <<>>
        <5>1. auth \in Seq({s \in Requests : class[s] = "Auth"})
          BY <1>1 DEF PathInv, ArbiterTypeOK
        <5>2. auth[1] \in {s \in Requests : class[s] = "Auth"} /\ 1 \in 1 .. Len(auth)
          BY <4>2, <5>1
        <5>3. Waits(auth[1])
          BY <5>2 DEF Waits, Queued
        <5> QED
          BY <5>2, <5>3
      <4> QED
        BY <3>1, <4>1, <4>2 DEF auth_pending
    <3>3. conn[a] # "mark"
      BY <1>1, <3>1 DEF LiveInv, InAdmission
    <3> QED
      BY Zenon, <1>1, <3>2, <3>3, AuthenticationShown
  <2> QED
    BY <2>3, <2>4
<1>2. PathInv /\ ArbiterInv /\ LiveInv /\ CountsExact /\ [PathNext]_vars =>
        \A r \in Requests : conn[r] # "Busy" /\ conn'[r] = "Busy" => Shown(r)
  BY <1>1
<1> QED
  BY <1>2, PathInvariant, LiveInvariant, PTL DEF PathSpec, RefusalIsShown

=============================================================================
