----------------------------- MODULE LiveStatus -----------------------------
(***************************************************************************)
(* crates/irlume-daemon/src/live.rs: what the daemon publishes about the   *)
(* requests it holds.  Each tracked request has a registration whose phase *)
(* only the calls below change; the published counts and the worker slot   *)
(* are kept apart from the phases, so the two can disagree.  Every call    *)
(* runs under the tracker's mutex and is one step.                         *)
(***************************************************************************)
EXTENDS Naturals, DaemonRequests

CONSTANTS kind,       \* request_kind: what live status calls a request
          owner,      \* diagnostic_owner: the account a request is about
          Daemon, Unresolved,   \* owners that are not an account
          Tracked,    \* requests for which request_kind is Some
          Nobody

ASSUME LiveConstants ==
  /\ {Daemon, Unresolved} \cap Uids = {}
  /\ Daemon # Unresolved
  /\ owner \in [Requests -> Uids \cup {Daemon, Unresolved}]
  /\ Tracked \subseteq Requests
  /\ Nobody \notin Requests

VARIABLES phase,        \* Registration::phase
          waiting,      \* Inner::waiting, by kind and owner; absent reads as 0
          live_worker,  \* Inner::worker, by the request it belongs to
          cancelled,    \* Worker::cancelled of that request
          available     \* Inner::available

liveVars == <<phase, waiting, live_worker, cancelled, available>>

Phases == {"CREATED", "WAITING", "RUNNING", "FINISHED", "UNTRACKED"}
Key(r) == <<kind[r], owner[r]>>
Keys == {Key(r) : r \in Requests}

LiveInit ==
  /\ phase = [r \in Requests |-> "CREATED"]
  /\ waiting = [k \in Keys |-> 0]
  /\ live_worker = Nobody
  /\ cancelled = FALSE
  /\ available = TRUE

\* Faulty variant: a request the worker already took is marked waiting again.
LiveWaitingAlways(r) ==
  IF r \in Tracked
  THEN /\ phase' = [phase EXCEPT ![r] = "WAITING"]
       /\ waiting' = [waiting EXCEPT ![Key(r)] = @ + 1]
       /\ UNCHANGED <<live_worker, cancelled, available>>
  ELSE UNCHANGED liveVars

LiveWaiting(r) ==
  IF r \in Tracked /\ phase[r] = "CREATED"
  THEN /\ phase' = [phase EXCEPT ![r] = "WAITING"]
       /\ waiting' = [waiting EXCEPT ![Key(r)] = @ + 1]
       /\ UNCHANGED <<live_worker, cancelled, available>>
  ELSE UNCHANGED liveVars

\* A registration that finds the worker slot taken runs untracked.
LiveRunning(r) ==
  IF r \in Tracked /\ phase[r] \in {"CREATED", "WAITING"}
  THEN LET counted == phase[r] = "WAITING"
           free == live_worker = Nobody
       IN  /\ waiting' = IF counted /\ waiting[Key(r)] > 0
                         THEN [waiting EXCEPT ![Key(r)] = @ - 1] ELSE waiting
           /\ available' = (available /\ free /\ (counted => waiting[Key(r)] > 0))
           /\ phase' = [phase EXCEPT ![r] = IF free THEN "RUNNING" ELSE "UNTRACKED"]
           /\ live_worker' = IF free THEN r ELSE live_worker
           /\ cancelled' = IF free THEN FALSE ELSE cancelled
  ELSE UNCHANGED liveVars

LiveCancel(r) ==
  /\ cancelled' = IF r \in Tracked /\ phase[r] = "RUNNING" /\ live_worker = r
                  THEN TRUE ELSE cancelled
  /\ UNCHANGED <<phase, waiting, live_worker, available>>

\* Registration::finish, also run when the last guard is dropped.  A waiter that
\* was never counted, or a worker slot that is not its own, makes tracking
\* unavailable.
LiveFinish(r) ==
  IF r \notin Tracked THEN UNCHANGED liveVars
  ELSE /\ phase' = [phase EXCEPT ![r] = "FINISHED"]
       /\ waiting' = IF phase[r] = "WAITING" /\ waiting[Key(r)] > 0
                     THEN [waiting EXCEPT ![Key(r)] = @ - 1] ELSE waiting
       /\ LET shown == phase[r] = "RUNNING" /\ live_worker = r
          IN  /\ live_worker' = IF shown THEN Nobody ELSE live_worker
              /\ cancelled' = (cancelled /\ ~shown)
       /\ available' = /\ available
                       /\ phase[r] = "WAITING" => waiting[Key(r)] > 0
                       /\ phase[r] = "RUNNING" => live_worker = r

-----------------------------------------------------------------------------
\* Owner::visible_to: whether peer u may read an operation of owner o.
visible_to(o, u) == o = Daemon \/ u = Root \/ o = u

\* Whether the view of peer u shows work it reads only as Unknown.
shows_unknown_work(u) ==
  \/ live_worker # Nobody /\ ~visible_to(owner[live_worker], u)
  \/ \E k \in Keys : waiting[k] > 0 /\ ~visible_to(k[2], u)

\* What the view of peer u names: the kinds visible_kind lets it read.
ShownKinds(u) ==
  {kind[r] : r \in {q \in {live_worker} \ {Nobody} : visible_to(owner[q], u)}}
  \cup {k[1] : k \in {j \in Keys : waiting[j] > 0 /\ visible_to(j[2], u)}}
=============================================================================
