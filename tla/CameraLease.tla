----------------------------- MODULE CameraLease ----------------------------
(***************************************************************************)
(* crates/irlume-camera/src/lease.rs: threads that take cameras for an     *)
(* operation, over the inventory of CameraInventory.  A thread selects a   *)
(* camera, or the pair of a split configuration, waits for its turn with   *)
(* the LeaseAuthority, is checked against the inventory again, and uses    *)
(* the lease until it drops it.                                            *)
(***************************************************************************)
EXTENDS CameraInventory, Sequences, FiniteSets

CONSTANT Threads

ASSUME LeaseConstants ==
    Scenarios \subseteq [changes : Nat, unsteady : SUBSET Topologies, faults : Nat,
                         threads : SUBSET Threads, retired : {{}}]

VARIABLES
    waiters,   \* LeaseState::waiters, oldest first
    lease      \* what each thread has: its step, references, and how it was bound

leaseVars == <<waiters, lease>>
vars == <<cameraVars, leaseVars>>

Idle == [at |-> "idle", refs |-> {}, split |-> FALSE, same |-> FALSE]

Keys(i) == {r.id : r \in lease[i].refs}

\* The active_keys of the authority: what permits hold.
Holding == {i \in Threads : lease[i].at \in {"granted", "acquired", "lost"}}

\* validate_reference
Valid(r) ==
    /\ active[r.place] # None /\ r.place \notin invalid
    /\ active[r.place].id = r.id /\ active[r.place].generation = r.generation

\* Faulty variant: later waiters overtake.
MayTakeUnordered(i) ==
    \A j \in Holding \ {i} : Keys(j) \cap Keys(i) = {}

\* LeaseAuthority::acquire: no earlier waiter wants one of the cameras, and
\* no permit holds one.
MayTake(i) ==
    /\ \A m, n \in DOMAIN waiters :
          m < n /\ waiters[n] = i => Keys(waiters[m]) \cap Keys(i) = {}
    /\ \A j \in Holding \ {i} : Keys(j) \cap Keys(i) = {}

\* Condvar::notify_all
NotifyAll(ls) ==
    [i \in Threads |-> IF ls[i].at = "asleep" THEN [ls[i] EXCEPT !.at = "awake"] ELSE ls[i]]

\* The queue without a thread that is in it.
Without(i) ==
    LET n == CHOOSE n \in DOMAIN waiters : waiters[n] = i
    IN [m \in 1 .. Len(waiters) - 1 |-> waiters[IF m < n THEN m ELSE m + 1]]

LeaseInit == waiters = <<>> /\ lease = [i \in Threads |-> Idle]

Refs(places) ==
    {[place |-> t, id |-> active[t].id, generation |-> active[t].generation,
      seen |-> active[t].seen, role |-> roles[t]] : t \in places}

\* The reference is taken, and validate_references finds it valid.
Select(i, places, split) ==
    /\ i \in bound.threads /\ lease[i].at = "idle"
    /\ \A t \in places : active[t] # None /\ t \notin invalid
    /\ lease' = [lease EXCEPT ![i] = [at |-> "selected", refs |-> Refs(places),
                                      split |-> split, same |-> split]]
    /\ UNCHANGED <<cameraVars, waiters>>

\* acquire_operation
AcquireOne(i) == \E t \in Topologies : Select(i, {t}, FALSE)

\* acquire_selected_operation: a camera paired by its recorded roles, in a
\* current inventory.
AcquireSelected(i) ==
    /\ istate = "current"
    /\ \E t \in Topologies : roles[t] # 0 /\ Select(i, {t}, FALSE)

\* acquire_split_operation: both roles recorded, in a current inventory.
AcquireSplit(i) ==
    /\ istate = "current" /\ \A t \in Topologies : roles[t] # 0
    /\ Select(i, Topologies, TRUE)

\* The thread queues with the authority, although its reference may be stale
\* by now.
Enqueue(i) ==
    /\ lease[i].at = "selected"
    /\ lease' = [lease EXCEPT ![i].at = "awake"]
    /\ waiters' = Append(waiters, i)
    /\ UNCHANGED cameraVars

\* One round of acquire's loop.
Take(i) ==
    /\ lease[i].at = "awake"
    /\ IF MayTake(i)
       THEN lease' = [lease EXCEPT ![i].at = "granted"] /\ waiters' = Without(i)
       ELSE lease' = [lease EXCEPT ![i].at = "asleep"] /\ UNCHANGED waiters
    /\ UNCHANGED cameraVars

\* Faulty variant: a waiter that gives up tells nobody.
ExpireSilent(i) ==
    /\ lease[i].at \in {"asleep", "awake"}
    /\ waiters' = Without(i)
    /\ lease' = [lease EXCEPT ![i] = Idle]
    /\ UNCHANGED cameraVars

\* The deadline passes, before or in the wait.
Expire(i) ==
    /\ lease[i].at \in {"asleep", "awake"}
    /\ waiters' = Without(i)
    /\ lease' = NotifyAll([lease EXCEPT ![i] = Idle])
    /\ UNCHANGED cameraVars

\* AuthorityPermit::drop
DropPermit(i) ==
    /\ lease' = NotifyAll([lease EXCEPT ![i] = Idle])
    /\ UNCHANGED <<cameraVars, waiters>>

\* CameraLease::validate: the references hold, and for a split lease
\* revalidate_against finds a current inventory and the roles it was given.
Validates(i) ==
    /\ \A r \in lease[i].refs : Valid(r)
    /\ lease[i].split => istate = "current" /\ \A r \in lease[i].refs : roles[r.place] = r.role

\* CameraSessionState::Acquired: from here on the revision is not asked for.
Operating(l) == [at |-> "acquired", refs |-> l.refs, split |-> l.split, same |-> FALSE]

\* Faulty variant: the permit is used as it was granted.
ConfirmBlind(i) ==
    /\ lease[i].at = "granted"
    /\ lease' = [lease EXCEPT ![i] = Operating(@)]
    /\ UNCHANGED <<cameraVars, waiters>>

\* acquire_bound after the wait: a split lease needs the revision it was
\* selected from as well.
Confirm(i) ==
    /\ lease[i].at = "granted"
    /\ IF Validates(i) /\ (lease[i].split => lease[i].same)
       THEN lease' = [lease EXCEPT ![i] = Operating(@)] /\ UNCHANGED <<cameraVars, waiters>>
       ELSE DropPermit(i)

\* CameraOperationSession::run finds the lease no longer valid.
LoseContinuity(i) ==
    /\ lease[i].at = "acquired" /\ ~Validates(i)
    /\ lease' = [lease EXCEPT ![i].at = "lost"]
    /\ UNCHANGED <<cameraVars, waiters>>

Release(i) == lease[i].at \in {"acquired", "lost"} /\ DropPermit(i)

\* The revision moves whenever the publication's state does.
Revise ==
    /\ lease' = [i \in Threads |-> [lease[i] EXCEPT !.same = @ /\ istate' = istate]]
    /\ UNCHANGED waiters

LeaseStep(i) == Enqueue(i) \/ Take(i) \/ Confirm(i) \/ Release(i)

Next ==
    \/ CameraStep /\ Revise
    \/ \E i \in Threads :
          \/ AcquireOne(i) \/ AcquireSelected(i) \/ AcquireSplit(i)
          \/ LeaseStep(i) \/ Expire(i) \/ LoseContinuity(i)

Init == CameraInit /\ LeaseInit

Spec ==
    /\ Init /\ [][Next]_vars
    /\ WF_vars(LifecycleStep /\ Revise)
    /\ \A i \in Threads : WF_vars(LeaseStep(i))

-----------------------------------------------------------------------------
(* Properties.                                                             *)

Waiting(i) == lease[i].at \in {"asleep", "awake"}

\* The authority's queue holds exactly the threads in acquire's loop, each
\* once, and no wakeup is lost: a thread that sleeps in wait_timeout, with no
\* notification on its way, could not have taken its cameras.  It matters when
\* an earlier waiter expires between a holder and a later waiter.
NoForgottenWaiter ==
    /\ \A i \in Threads : Waiting(i) <=> \E n \in DOMAIN waiters : waiters[n] = i
    /\ \A m, n \in DOMAIN waiters : waiters[m] = waiters[n] => m = n
    /\ \A i \in Threads : lease[i].at = "asleep" => ~MayTake(i)

\* Of two permits for the camera at one place, at most one validates: the
\* authority's keys are instance ids, and an identity that is retired while it
\* is leased (PrepareRescan, FailClosed) lets another thread in but stops the
\* holder at its next validation.  Two permits are for the very same
\* incarnation only if its connection was reported lost, or the monitoring
\* failed, while it was plugged in: events that only change the device give it
\* a new generation, and the key goes on excluding others (reconcile).
ExclusiveCamera ==
    \A i, j \in Holding : i # j =>
        \A r \in lease[i].refs, s \in lease[j].refs : r.place = s.place =>
            /\ ~(Valid(r) /\ Valid(s))
            /\ r.seen = s.seen => <<r.place, r.seen>> \in bound.retired

\* A thread is handed the very camera it selected: one that slept through a
\* replacement of it is refused when its turn comes (acquire_bound), unless
\* the event is still to be read.
HandedOutIsSelected ==
    [][\A i \in Threads : lease[i].at # "acquired" /\ lease'[i].at = "acquired" =>
          \A r \in lease[i].refs : pending[r.place] = "none" => world[r.place] = r.seen]_vars

\* A reference that no longer validates never validates again, whatever the
\* inventory goes through while a thread holds it.
StaleForGood ==
    [][\A i \in Threads : \A r \in lease[i].refs \cap lease'[i].refs :
          ~Valid(r) => ~Valid(r)']_vars

\* Every waiting thread gets its turn, the one that needs both cameras among
\* threads that need one included, although its deadline may never pass:
\* later waiters do not overtake, and every operation drops its lease.
WaitersServed == \A i \in Threads : []<>~Waiting(i)
=============================================================================
