--------------------------- MODULE CameraInventory --------------------------
(***************************************************************************)
(* crates/irlume-camera/src/lifecycle.rs and inventory.rs: the inventory   *)
(* of physical cameras, the thread that keeps it from kernel events and    *)
(* sysfs snapshots, and the roles that scans record in it.                 *)
(*                                                                         *)
(* A camera is known by the place (topology) it is plugged into.  One that *)
(* is replaced in its place can look exactly like the one before: every    *)
(* observation of a place with a camera is the same here, and only events  *)
(* tell incarnations apart.  world numbers the incarnations, which no code *)
(* sees; entries, roles and references carry the number as a history.      *)
(***************************************************************************)
EXTENDS Naturals

CONSTANTS
    Topologies,   \* places for a camera
    Scenarios     \* bounds: events and where they happen, faults, threads that take leases

VARIABLES
    world,     \* the incarnation plugged in at each place, 0 for none
    pending,   \* kernel events in the monitor's socket, per place
    active,    \* CameraInventory::active
    invalid,   \* the places of invalidated_instance_ids
    istate,    \* CameraInventory::publication_state
    roles,     \* the role recorded for a camera, as the incarnation it was read from, or 0
    minted,    \* counts the publications, for instance ids that never recur
    tracked,   \* UdevEventSource::tracked_topologies
    at,        \* what the lifecycle thread does next
    kept,      \* its coordinator has published, and outlives snapshots that find no end
    snapped,   \* what its snapshot has read
    scan,      \* a classification in progress
    bound      \* what is left of the scenario's bounds; and, as a history, in bound.retired,
               \* the incarnations that may lose their identity while plugged in

inventory == <<active, invalid, istate, roles, minted>>
thread == <<tracked, at, kept, snapped>>
cameraVars == <<world, pending, inventory, thread, scan, bound>>

None == [absent |-> TRUE]
Nowhere == [t \in Topologies |-> None]
Unread == [t \in {} |-> 0]
NoRoles == [t \in Topologies |-> 0]
Quiet == [t \in Topologies |-> "none"]

\* published_entries
Published(t) == istate \in {"current", "refreshing"} /\ active[t] # None /\ t \notin invalid

\* endpoint_generations: the connection generation at a place, if published.
Generation(t) ==
    IF Published(t)
    THEN [id |-> active[t].id, generation |-> active[t].generation]
    ELSE None

\* prune_roles, part of every mutation.
PruneRoles ==
    roles' = [t \in Topologies |->
                 IF Generation(t)' = Generation(t) /\ Generation(t)' # None THEN roles[t] ELSE 0]

CameraInit ==
    /\ bound \in Scenarios
    /\ world = [t \in Topologies |-> 1] /\ pending = Quiet
    /\ active = Nowhere /\ invalid = {} /\ istate = "uninitialized"
    /\ roles = NoRoles /\ minted = 0
    /\ tracked = {} /\ at = "bind" /\ kept = FALSE /\ snapped = Unread
    /\ scan = None

Plugged == {<<t, world[t]>> : t \in Topologies}

Fault == bound.faults > 0 /\ bound' = [bound EXCEPT !.faults = @ - 1, !.retired = @ \cup Plugged]

-----------------------------------------------------------------------------
(* The world.  A monitor that is bound gets an event with every change,    *)
(* and further ones with no change.  classify_kernel_event: a video4linux  *)
(* change makes a camera dirty, every other event about it, a usb change   *)
(* or bind and the late events of a plug included, loses its continuity.   *)
(* Of several events about a camera the one that loses continuity counts.  *)

Event(t, kind) ==
    pending' = IF at = "bind" \/ pending[t] = "lost" THEN pending ELSE [pending EXCEPT ![t] = kind]

Happens(t) == bound.changes > 0 /\ t \in bound.unsteady

\* A camera is plugged in, unplugged, or replaced.
Change(t) ==
    /\ Happens(t) /\ bound' = [bound EXCEPT !.changes = @ - 1]
    /\ \E incarnation \in {0, bound.changes + 1} \ {world[t]} : world' = [world EXCEPT ![t] = incarnation]
    /\ Event(t, "lost")
    /\ UNCHANGED <<inventory, thread, scan>>

\* The device node of the camera changes.
Touch(t) ==
    /\ Happens(t) /\ bound' = [bound EXCEPT !.changes = @ - 1]
    /\ world[t] # 0
    /\ Event(t, "dirty")
    /\ UNCHANGED <<world, inventory, thread, scan>>

\* Its connection is reported lost, and the camera is there as before.
Disturb(t) ==
    /\ Happens(t)
    /\ bound' = [bound EXCEPT !.changes = @ - 1, !.retired = @ \cup {<<t, world[t]>>}]
    /\ Event(t, "lost")
    /\ UNCHANGED <<world, inventory, thread, scan>>

-----------------------------------------------------------------------------
(* The lifecycle thread.                                                   *)

\* fail_closed: every identity is retired.
FailClosed ==
    /\ active' = Nowhere /\ invalid' = {} /\ istate' = "unavailable" /\ roles' = NoRoles
    /\ snapped' = Unread
    /\ UNCHANGED minted

\* invalidate_all
InvalidateAll ==
    /\ istate' = "refreshing"
    /\ invalid' = {t \in Topologies : active[t] # None}
    /\ UNCHANGED <<active, minted>>
    /\ PruneRoles

\* start_coordinator: the monitor is bound before the first snapshot.
Bind ==
    /\ at = "bind"
    /\ pending' = Quiet /\ tracked' = {} /\ kept' = FALSE
    /\ InvalidateAll
    /\ at' = "snapshot" /\ snapped' = Unread
    /\ UNCHANGED <<world, scan, bound>>

\* The next attempt of a thread that kept its monitor.
Recover ==
    /\ at = "recover"
    /\ InvalidateAll
    /\ at' = "snapshot" /\ snapped' = Unread
    /\ UNCHANGED <<world, pending, tracked, kept, scan, bound>>

\* prepare_rescan, over every event of a poll: affected cameras are
\* invalidated, and those whose continuity is lost are retired.
PrepareRescan ==
    LET lost == {t \in tracked : pending[t] = "lost"}
        affected == {t \in tracked : pending[t] # "none" /\ active[t] # None}
    IN /\ istate' = "refreshing"
       /\ active' = [t \in Topologies |-> IF t \in lost THEN None ELSE active[t]]
       /\ invalid' = (invalid \cup affected) \ lost
       /\ PruneRoles
       /\ pending' = Quiet
       /\ UNCHANGED minted

\* process_next's first poll.
Wake ==
    /\ at = "wait" /\ pending # Quiet
    /\ PrepareRescan
    /\ at' = "drain"
    /\ UNCHANGED <<world, tracked, kept, snapped, scan, bound>>

\* The burst is drained until a poll is empty.
Drain ==
    /\ at = "drain"
    /\ IF pending = Quiet THEN at' = "snapshot" /\ UNCHANGED <<inventory, pending>>
                          ELSE at' = "drain" /\ PrepareRescan
    /\ UNCHANGED <<world, tracked, kept, snapped, scan, bound>>

\* SysfsSnapshotSource::snapshot reads one camera after another.
Snapshot(t) ==
    /\ at = "snapshot" /\ t \notin DOMAIN snapped
    /\ snapped' = [u \in DOMAIN snapped \cup {t} |-> IF u = t THEN world[t] ELSE snapped[u]]
    /\ IF DOMAIN snapped' = Topologies
       THEN at' = "quiet" /\ tracked' = tracked \cup {u \in Topologies : snapped'[u] # 0}
       ELSE UNCHANGED <<at, tracked>>
    /\ UNCHANGED <<world, pending, inventory, kept, scan, bound>>

\* An event since: the snapshot is taken again.
Again ==
    /\ pending # Quiet
    /\ PrepareRescan
    /\ at' = "snapshot" /\ snapped' = Unread

\* The poll after the snapshot.
QuietAfter ==
    /\ at = "quiet"
    /\ \/ pending = Quiet /\ at' = "guard" /\ UNCHANGED <<pending, inventory, snapped>>
       \/ Again
    /\ UNCHANGED <<world, tracked, kept, scan, bound>>

\* Faulty variant: an invalidated camera gets a fresh instance.
ReconciledFresh(t) ==
    IF snapped[t] = 0 THEN None
    ELSE IF active[t] = None \/ t \in invalid
    THEN [id |-> <<t, minted + 1>>, generation |-> 1, seen |-> snapped[t]]
    ELSE active[t]

\* reconcile_guarded: a camera that is gone is retired, a new one gets a fresh
\* instance, one that was invalidated the next generation, and one that looks
\* as before and was not invalidated keeps its entry.
Reconciled(t) ==
    IF snapped[t] = 0 THEN None
    ELSE IF active[t] = None
    THEN [id |-> <<t, minted + 1>>, generation |-> 1, seen |-> snapped[t]]
    ELSE IF t \in invalid
    THEN [id |-> active[t].id, generation |-> active[t].generation + 1, seen |-> snapped[t]]
    ELSE active[t]

Reconcile ==
    /\ active' = [t \in Topologies |-> Reconciled(t)]
    /\ minted' = minted + 1
    /\ invalid' = {} /\ istate' = "current"
    /\ PruneRoles
    /\ tracked' = {t \in Topologies : snapped[t] # 0}
    /\ at' = "wait" /\ kept' = TRUE /\ snapped' = Unread

\* Faulty variant: the events of the last poll are taken for read.
PublishDropping ==
    /\ at = "guard"
    /\ Reconcile /\ pending' = Quiet
    /\ UNCHANGED <<world, scan, bound>>

\* reconcile_guarded polls once more under the inventory's lock, and publishes
\* the snapshot if nothing has happened.
Publish ==
    /\ at = "guard"
    /\ \/ pending = Quiet /\ Reconcile /\ UNCHANGED pending
       \/ Again /\ UNCHANGED <<tracked, kept>>
    /\ UNCHANGED <<world, scan, bound>>

\* The burst or the snapshots find no end: EventStorm, UnstableSnapshot.  A
\* coordinator that was started keeps its monitor.
GiveUp ==
    /\ at \in {"wait", "drain", "quiet", "guard"} /\ pending # Quiet
    /\ Fault
    /\ FailClosed
    /\ IF kept THEN pending' \in {Quiet, pending} /\ at' = "recover" /\ UNCHANGED tracked
               ELSE pending' = Quiet /\ at' = "bind" /\ tracked' = {}
    /\ UNCHANGED <<world, kept, scan>>

\* Faulty variant: the thread ends with the error.
FailForGood ==
    /\ at # "recover"
    /\ Fault
    /\ FailClosed
    /\ pending' = Quiet /\ at' = "ended" /\ tracked' = {} /\ kept' = FALSE
    /\ UNCHANGED <<world, scan>>

\* The monitor or a snapshot fails: the next attempt binds a new monitor.
Fail ==
    /\ at # "recover"
    /\ Fault
    /\ FailClosed
    /\ pending' = Quiet /\ at' = "bind" /\ tracked' = {} /\ kept' = FALSE
    /\ UNCHANGED <<world, scan>>

LifecycleStep ==
    \/ Bind \/ Recover \/ Wake \/ Drain \/ QuietAfter \/ Publish
    \/ \E t \in Topologies : Snapshot(t)

-----------------------------------------------------------------------------
(* Classification scans.                                                   *)

\* scan_nodes takes the generations before it opens a node ...
BeginScan(t) ==
    /\ scan = None /\ Generation(t) # None
    /\ scan' = [place |-> t, before |-> Generation(t), read |-> 0]
    /\ UNCHANGED <<world, pending, inventory, thread, bound>>

\* ... reads what the camera there is ...
ReadNode ==
    /\ scan # None /\ scan.read = 0
    /\ scan' = IF world[scan.place] = 0 THEN None
             ELSE [place |-> scan.place, before |-> scan.before, read |-> world[scan.place]]
    /\ UNCHANGED <<world, pending, inventory, thread, bound>>

Classified(t) == IF roles[t] \in {0, scan.read} THEN scan.read ELSE 0

\* Faulty variant: the role is recorded for whatever is published now.
RecordRolesNow ==
    /\ scan # None /\ scan.read # 0
    /\ roles' = IF Generation(scan.place) # None
                THEN [roles EXCEPT ![scan.place] = Classified(scan.place)] ELSE roles
    /\ scan' = None
    /\ UNCHANGED <<world, pending, active, invalid, istate, minted, thread, bound>>

\* ... and record_roles keeps the answer if the generation is the one before.
RecordRoles ==
    /\ scan # None /\ scan.read # 0
    /\ roles' = IF Generation(scan.place) = scan.before
                THEN [roles EXCEPT ![scan.place] = Classified(scan.place)] ELSE roles
    /\ scan' = None
    /\ UNCHANGED <<world, pending, active, invalid, istate, minted, thread, bound>>

CameraStep ==
    \/ LifecycleStep \/ GiveUp \/ Fail
    \/ \E t \in Topologies : Change(t) \/ Touch(t) \/ Disturb(t) \/ BeginScan(t)
    \/ ReadNode \/ RecordRoles

CameraSpec == CameraInit /\ [][CameraStep]_cameraVars

-----------------------------------------------------------------------------
(* Properties.                                                             *)

\* What the inventory holds together: only cameras it has are invalidated,
\* none is when it is current, a role is recorded only for a published
\* camera, and a monitor that is not bound publishes nothing.
InventoryTypeOK ==
    /\ pending \in [Topologies -> {"none", "dirty", "lost"}]
    /\ istate \in {"uninitialized", "refreshing", "current", "unavailable"}
    /\ \A t \in invalid : active[t] # None
    /\ istate = "current" => invalid = {}
    /\ \A t \in Topologies : roles[t] # 0 => Generation(t) # None
    /\ \A t \in Topologies : active[t] # None => t \in tracked /\ at # "bind"

\* The inventory never publishes a camera that is not the one plugged in,
\* and a current inventory misses none, except where an event is still to be
\* read: however a replacement falls between a snapshot, the polls around it
\* and the publication (publish_quiet_snapshot, reconcile_guarded).
CurrentIsTrue ==
    \A t \in Topologies : pending[t] = "none" =>
        /\ Generation(t) # None => active[t].seen = world[t]
        /\ istate = "current" /\ active[t] = None => world[t] = 0

\* A role the inventory answers with was read from the camera that is plugged
\* in, except where an event is still to be read: a scan that a replacement
\* overtakes leaves no role behind (record_roles, prune_roles).
RolesOfPlugged ==
    \A t \in Topologies : roles[t] # 0 /\ pending[t] = "none" => roles[t] = world[t]

\* Once the world stays as it is and nothing fails, the inventory becomes
\* current and shows the world, and stays so: the lifecycle thread always
\* comes back after a failure.
InventorySettles ==
    <>[](istate = "current" /\ \A t \in Topologies :
             IF world[t] = 0 THEN active[t] = None
                             ELSE active[t] # None /\ active[t].seen = world[t])
=============================================================================
