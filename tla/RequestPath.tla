---------------------------- MODULE RequestPath -----------------------------
(***************************************************************************)
(* The path of a queued request through crates/irlume-daemon/src/main.rs:  *)
(* the connection thread (serve_peer_until), the handshake with the worker *)
(* (ClientLink), live status, and the worker's loop, around the arbiter.   *)
(* Locks of different parts are never held together except where the code  *)
(* nests them, so each lock scope is one step and everything between two   *)
(* scopes interleaves.                                                     *)
(***************************************************************************)
EXTENDS Arbiter, LiveStatus, FiniteSets

CONSTANTS Sessions   \* enrollment and positioning sessions

\* Live status names an authentication as one (the tables of RequestTable).
ASSUME PathConstants ==
  /\ Sessions \subseteq {r \in Requests : class[r] = "Camera"}
  /\ \A r \in Requests : class[r] = "Auth" =>
       r \in Tracked /\ kind[r] \in {"Authentication", "WalletAuthentication"}

VARIABLES conn,      \* where each request's connection thread is
          link,      \* ClientLink::state
          answered,  \* whether the reply channel carries the worker's answer
          step,      \* where the worker's loop is
          job,       \* the request the loop is on
          stage      \* Inner::stage

pathVars == <<conn, link, answered, step, job, stage>>
vars == <<arbiterVars, liveVars, pathVars>>

InAdmission == {"check", "submit", "mark"}   \* ADMISSION is held
Refused == {"Busy", "AlreadyHoldsSlot", "ShuttingDown"}
Over == Refused \cup {"replied", "timed out", "left"}

PathInit ==
  /\ ArbiterInit /\ LiveInit
  /\ conn = [r \in Requests |-> "new"]
  /\ link = [r \in Requests |-> "Queued"]
  /\ answered = [r \in Requests |-> FALSE]
  /\ step = "take" /\ job = Nobody
  /\ stage = "Ready"

Goto(r, pc) == conn' = [conn EXCEPT ![r] = pc]

\* LiveState::set_stage: shutdown wins over a rebuild's publication.
set_stage(s) == stage' = IF stage = "Stopping" THEN stage ELSE s

-----------------------------------------------------------------------------
(* The connection thread.                                                  *)

\* Faulty variant: admission takes no lock.
EnterAdmissionUnlocked(r) ==
  /\ conn[r] = "new"
  /\ Goto(r, IF class[r] = "Camera" /\ uid[r] # Root THEN "check" ELSE "submit")
  /\ UNCHANGED <<arbiterVars, liveVars, link, answered, step, job, stage>>

EnterAdmission(r) ==
  /\ conn[r] = "new"
  /\ \A s \in Requests : conn[s] \notin InAdmission
  /\ Goto(r, IF class[r] = "Camera" /\ uid[r] # Root THEN "check" ELSE "submit")
  /\ UNCHANGED <<arbiterVars, liveVars, link, answered, step, job, stage>>

\* An unprivileged peer's camera work is refused while its live status shows
\* work it may not see.
CheckUnknownWork(r) ==
  /\ conn[r] = "check"
  /\ IF shows_unknown_work(uid[r])
     THEN Goto(r, "Busy") /\ LiveFinish(r)
     ELSE Goto(r, "submit") /\ UNCHANGED liveVars
  /\ UNCHANGED <<arbiterVars, link, answered, step, job, stage>>

SubmitRequest(r) ==
  /\ conn[r] = "submit"
  /\ Submit(r)
  /\ Goto(r, "mark")
  /\ UNCHANGED <<liveVars, link, answered, step, job, stage>>

\* The refused request's registration is dropped with its job.
RefuseRequest(r) ==
  /\ conn[r] = "submit"
  /\ Refuse(r)
  /\ Goto(r, Refusal(r))
  /\ LiveFinish(r)
  /\ UNCHANGED <<link, answered, step, job, stage>>

MarkWaiting(r) ==
  /\ conn[r] = "mark"
  /\ LiveWaiting(r)
  /\ Goto(r, "wait")
  /\ UNCHANGED <<arbiterVars, link, answered, step, job, stage>>

ReceiveReply(r) ==
  /\ conn[r] = "wait" /\ answered[r]
  /\ Goto(r, "replied")
  /\ UNCHANGED <<arbiterVars, liveVars, link, answered, step, job, stage>>

\* Faulty variant: a client that leaves stops whatever holds the camera.
AbandonAnyone(r) ==
  /\ link' = [link EXCEPT ![r] = "Abandoned"]
  /\ RequestCancel /\ LiveCancel(r)

\* ClientLink::abandon: the shared token is written under the link's lock, and
\* only for the job that holds the camera.
Abandon(r) ==
  /\ link' = [link EXCEPT ![r] = "Abandoned"]
  /\ IF link[r] = "Running" THEN RequestCancel /\ LiveCancel(r)
     ELSE UNCHANGED <<cancel_requested, liveVars>>

\* The peer hung up, or a session's connection failed or ran out of time.  The
\* answer may be sent after the last look at the channel.
GiveUp(r) ==
  /\ conn[r] = "wait"
  /\ Abandon(r)
  /\ \/ Goto(r, "left")
     \/ r \in Sessions /\ Goto(r, "timed out")
  /\ UNCHANGED <<queueVars, camera_slots, auth_running, closed, yield_requested,
                 worker, seen, answered, step, job, stage>>

\* WORKER_REPLY_TIMEOUT of a request that is not a session abandons nothing.
TimeOut(r) ==
  /\ conn[r] = "wait" /\ r \notin Sessions
  /\ Goto(r, "timed out")
  /\ UNCHANGED <<arbiterVars, liveVars, link, answered, step, job, stage>>

-----------------------------------------------------------------------------
(* The worker's loop.                                                      *)

TakeRequest ==
  /\ step = "take"
  /\ TakeAuth \/ TakeOther
  /\ step' = "taken" /\ job' = worker'
  /\ UNCHANGED <<liveVars, conn, link, answered, stage>>

TakeTask ==
  /\ step = "take"
  /\ TakeBackground
  /\ step' = "task"
  /\ UNCHANGED <<liveVars, conn, link, answered, job, stage>>

TaskEnds ==
  /\ step = "task"
  /\ \E t \in Tasks : FinishTask(t)
  /\ step' = "take"
  /\ UNCHANGED <<liveVars, conn, link, answered, job, stage>>

Idle ==
  /\ step = "take"
  /\ Wait
  /\ UNCHANGED <<liveVars, pathVars>>

Exit ==
  /\ step = "take"
  /\ TakeNothing
  /\ set_stage("Stopping")
  /\ UNCHANGED <<liveVars, conn, link, answered, step, job>>

\* ClientLink::claim, and the loop's branch on it.
Claim ==
  /\ step = "taken"
  /\ IF link[job] = "Queued"
     THEN link' = [link EXCEPT ![job] = "Running"] /\ LiveRunning(job) /\ step' = "run"
     ELSE step' = "drop" /\ UNCHANGED <<link, liveVars>>
  /\ UNCHANGED <<arbiterVars, conn, answered, job, stage>>

\* Faulty variant: the dropped request keeps the arbiter's slot.
DropQueuedKeepsSlot ==
  /\ step = "drop"
  /\ step' = "dropped"
  /\ UNCHANGED <<arbiterVars, liveVars, conn, link, answered, job, stage>>

\* The client left while the request was queued: the arbiter lets it go before
\* live status does.
DropQueued ==
  /\ step = "drop"
  /\ FinishRequest(job)
  /\ step' = "dropped"
  /\ UNCHANGED <<liveVars, conn, link, answered, job, stage>>

DropActivity ==
  /\ step = "dropped"
  /\ LiveFinish(job)
  /\ step' = "take" /\ job' = Nobody
  /\ UNCHANGED <<arbiterVars, conn, link, answered, stage>>

\* Faulty variant: an answer before the thread waits is lost.
SendToWaiting(r) == answered' = [answered EXCEPT ![r] = @ \/ conn[r] = "wait"]

\* The reply channel: a send fails once the connection thread has gone.
Send(r) == answered' = [answered EXCEPT ![r] = @ \/ conn[r] \notin Over]

\* Delivery: an authentication's decision may be handed over inside the engine
\* call, once.
DeliverEarly ==
  /\ step = "run" /\ class[job] = "Auth"
  /\ ~answered[job]
  /\ Send(job)
  /\ UNCHANGED <<arbiterVars, liveVars, conn, link, step, job, stage>>

\* Faulty variant: the link is left running.
RequestEndsUnreleased(panicked) ==
  /\ step = "run"
  /\ step' = IF panicked THEN "unwound" ELSE "released"
  /\ UNCHANGED <<arbiterVars, liveVars, conn, link, answered, job, stage>>

\* The dispatch returns or unwinds, and the link is released at once.
RequestEnds(panicked) ==
  /\ step = "run"
  /\ link' = [link EXCEPT ![job] = "Released"]
  /\ step' = IF panicked THEN "unwound" ELSE "released"
  /\ UNCHANGED <<arbiterVars, liveVars, conn, answered, job, stage>>

\* The arbiter's slot is given back before anything else can fail.
FinishJob ==
  /\ step \in {"released", "unwound"}
  /\ FinishRequest(job)
  /\ step' = IF step = "unwound" THEN "rebuild" ELSE "finished"
  /\ UNCHANGED <<liveVars, conn, link, answered, job, stage>>

StartRebuild ==
  /\ step = "rebuild"
  /\ set_stage("Rebuilding")
  /\ step' = "rebuilding"
  /\ UNCHANGED <<arbiterVars, liveVars, conn, link, answered, job>>

EndRebuild ==
  /\ step = "rebuilding"
  /\ set_stage("Ready")
  /\ step' = "finished"
  /\ UNCHANGED <<arbiterVars, liveVars, conn, link, answered, job>>

FinishActivity ==
  /\ step = "finished"
  /\ LiveFinish(job)
  /\ step' = "reply"
  /\ UNCHANGED <<arbiterVars, conn, link, answered, job, stage>>

\* A decision delivered early is not sent again.
Reply ==
  /\ step = "reply"
  /\ Send(job)
  /\ step' = "take" /\ job' = Nobody
  /\ UNCHANGED <<arbiterVars, liveVars, conn, link, stage>>

\* The accept loop ends: live status says so before the arbiter closes.
Stopping ==
  /\ stage # "Stopping"
  /\ set_stage("Stopping")
  /\ UNCHANGED <<arbiterVars, liveVars, conn, link, answered, step, job>>

Shutdown ==
  /\ stage = "Stopping" /\ ~closed
  /\ Close
  /\ UNCHANGED <<liveVars, pathVars>>

\* The role scanner offers its own camera work.
OfferTask ==
  /\ \E t \in Tasks : SubmitBackground(t)
  /\ UNCHANGED <<liveVars, pathVars>>

WorkerStep ==
  \/ TakeRequest \/ TakeTask \/ TaskEnds \/ Idle \/ Exit
  \/ Claim \/ DropQueued \/ DropActivity
  \/ DeliverEarly \/ \E panicked \in BOOLEAN : RequestEnds(panicked)
  \/ FinishJob \/ StartRebuild \/ EndRebuild \/ FinishActivity \/ Reply

ConnectionStep(r) ==
  \/ EnterAdmission(r) \/ CheckUnknownWork(r) \/ SubmitRequest(r) \/ RefuseRequest(r)
  \/ MarkWaiting(r) \/ ReceiveReply(r) \/ GiveUp(r) \/ TimeOut(r)

PathNext ==
  WorkerStep \/ OfferTask \/ Stopping \/ Shutdown \/ \E r \in Requests : ConnectionStep(r)

PathSpec == PathInit /\ [][PathNext]_vars

(* Fairness.  The worker, and a thread whose answer is there, are          *)
(* scheduled.  An authentication and a request that opens no camera end by *)
(* themselves; a camera operation or a background scan is assumed to end   *)
(* only once it is asked to stop.                                          *)
AskedToStop == yield_requested \/ cancel_requested
MustEnd == class[job] # "Camera" \/ AskedToStop

Bookkeeping ==
  \/ TakeRequest \/ TakeTask \/ Exit \/ Claim \/ DropQueued \/ DropActivity
  \/ FinishJob \/ StartRebuild \/ EndRebuild \/ FinishActivity \/ Reply

PathFairness ==
  /\ WF_vars(Bookkeeping)
  /\ WF_vars(step = "run" /\ MustEnd /\ \E panicked \in BOOLEAN : RequestEnds(panicked))
  /\ WF_vars(AskedToStop /\ TaskEnds)
  /\ \A r \in Requests : WF_vars(ReceiveReply(r))

FairPathSpec == PathSpec /\ PathFairness

-----------------------------------------------------------------------------
Steps == {"take", "task", "taken", "run", "drop", "dropped", "released", "unwound",
          "rebuild", "rebuilding", "finished", "reply"}
Held == {"taken", "run", "drop", "released", "unwound"}

(* Every part of the composition holds values of its type, and the arbiter *)
(* considers the worker busy exactly between the loop's take and finish,   *)
(* on the path that drops an abandoned request too.                        *)
PathTypeOK ==
  /\ ArbiterTypeOK
  /\ phase \in [Requests -> Phases]
  /\ conn \in [Requests -> {"new", "wait"} \cup InAdmission \cup Over]
  /\ link \in [Requests -> {"Queued", "Running", "Abandoned", "Released"}]
  /\ answered \in [Requests -> BOOLEAN]
  /\ step \in Steps
  /\ job \in Requests \cup {Nobody}
  /\ stage \in {"Ready", "Rebuilding", "Stopping"}
  /\ step \in {"take", "task"} <=> job = Nobody
  /\ IF step \in Held THEN worker = job ELSE worker \notin Requests
  /\ step = "task" <=> worker \in Tasks

(* The cancellation token is shared by all jobs, yet it is set for the     *)
(* running request exactly when that request's own client has left; a      *)
(* request just taken and a background scan are never cancelled by a       *)
(* client of an earlier job (ClientLink: "a departing client can never     *)
(* cancel someone else's authentication").                                 *)
CancelReachesOwnJob ==
  /\ step = "run" => (cancel_requested <=> link[job] = "Abandoned")
  /\ step \in {"taken", "drop", "task"} => ~cancel_requested

Waits(r) == r \in Queued(auth) \cup Queued(other)

(* Once the arbiter is closed live status says stopping, whatever rebuild  *)
(* was under way when the listener died.                                   *)
ClosedReadsStopping == closed => stage = "Stopping"

(* Live status shows a tracked request from the end of its admission until *)
(* the worker is done with it: as waiting while the arbiter queues it, as  *)
(* the worker's while it runs, counted once, and tracking never becomes    *)
(* unavailable, although the worker may take and even finish a request     *)
(* before its connection thread marks it waiting.  Once the arbiter is     *)
(* closed it says stopping.                                                *)
LiveMatchesArbiter ==
  /\ available /\ ClosedReadsStopping
  /\ \A r \in Tracked :
       /\ Waits(r) /\ conn[r] # "mark" => phase[r] = "WAITING"
       /\ phase[r] = "WAITING" =>
            Waits(r) \/ (job = r /\ step \in {"taken", "drop", "dropped"})
       /\ phase[r] = "RUNNING" <=>
            job = r /\ step \in {"run", "released", "unwound", "rebuild", "rebuilding", "finished"}
       /\ phase[r] = "RUNNING" <=> live_worker = r
  /\ \A k \in Keys :
       waiting[k] = Cardinality({r \in Tracked : Key(r) = k /\ phase[r] = "WAITING"})

(* A connection thread waits only for an answer that can still come: its   *)
(* request is queued, on the worker, or answered.  No path of the loop     *)
(* (drop, unwind, shutdown) strands a waiting client until the 300 s       *)
(* timeout.                                                                *)
WaiterHasServer ==
  \A r \in Requests : conn[r] = "wait" =>
    answered[r] \/ (Waits(r) /\ worker # Stopped) \/ (job = r /\ step \notin {"drop", "dropped"})

(* A request is refused as busy only while the refused peer's live status  *)
(* shows an authentication, or work it reads as unknown: the refusal tells *)
(* it nothing live status does not (serve_peer_until, ADR-0030 5).         *)
RefusalIsShown ==
  [][\A r \in Requests : conn[r] # "Busy" /\ conn'[r] = "Busy" =>
       \/ shows_unknown_work(uid[r])
       \/ ShownKinds(uid[r]) \cap {"Authentication", "WalletAuthentication"} # {}]_vars

(* "The client left while this sat in the queue: never open the camera for *)
(* an answer nobody is waiting for" (the worker's loop): a request the     *)
(* loop starts still has its connection thread.                            *)
NeverStartedForNobody ==
  [][step = "taken" /\ step' = "run" => conn[job] \notin Over]_vars

(* An authentication that is queued reaches the worker, whatever camera    *)
(* operation, session or background scan was there before it: the yield    *)
(* request is never lost on the way.                                       *)
AuthenticationIsServed ==
  \A r \in Requests : r \in Queued(auth) ~> worker = r

(* The client of an authentication that stays gets its answer or its       *)
(* error, also when the answer is sent before its connection thread waits, *)
(* when the engine unwinds, and when the daemon shuts down meanwhile.      *)
WaitEnds ==
  \A r \in Requests : class[r] = "Auth" => (conn[r] = "wait" ~> conn[r] # "wait")

\* A request is queued once, and is not queued and on the worker.
QueuedOnce ==
  /\ Distinct(auth) /\ Distinct(other)
  /\ \A r \in Requests : Waits(r) => r # job /\ r \in seen /\ link[r] \in {"Queued", "Abandoned"}

\* The link follows the loop, and is abandoned only by a thread that has gone.
LinkFollows ==
  /\ \A r \in Requests :
       /\ r \notin seen => job # r /\ link[r] = "Queued"
       /\ conn[r] \in {"mark", "wait"} => r \in seen
       /\ link[r] = "Abandoned" => conn[r] \in Over
       /\ link[r] = "Running" => job = r /\ step = "run"
  /\ step = "taken" => link[job] \in {"Queued", "Abandoned"}
  /\ step = "run" => link[job] \in {"Running", "Abandoned"}
  /\ step \in {"drop", "dropped"} => link[job] = "Abandoned"

\* A thread that waits or is about to has its request queued, on the worker or
\* answered.
Served(r) == answered[r] \/ Waits(r) \/ (job = r /\ step \notin {"drop", "dropped"})

\* The inductive invariant behind the safety properties.
PathInv ==
  /\ ArbiterTypeOK /\ PathTypeOK
  /\ QueuedOnce /\ LinkFollows
  /\ CancelReachesOwnJob /\ ClosedReadsStopping
  /\ \A r \in Requests : conn[r] \in {"mark", "wait"} => Served(r)
  /\ worker = Stopped => closed /\ auth = <<>> /\ other = <<>>
=============================================================================
