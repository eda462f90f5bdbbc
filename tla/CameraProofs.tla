---------------------------- MODULE CameraProofs ----------------------------
(***************************************************************************)
(* Proofs about the camera inventory and the leases, for every set of      *)
(* places and threads and any number of changes and failures.              *)
(***************************************************************************)
EXTENDS CameraLease, TLAPS

(* Entries and generations are never mistaken for no entry.                *)
LEMMA NotNone ==
  /\ \A a, b, c : [id |-> a, generation |-> b, seen |-> c] # None
  /\ \A a, b : [id |-> a, generation |-> b] # None
  /\ \A a, b, c : [place |-> a, before |-> b, read |-> c] # None
<1>1. DOMAIN None = {"absent"}
  BY DEF None
<1>2. \A a, b, c : DOMAIN [id |-> a, generation |-> b, seen |-> c] = {"id", "generation", "seen"}
  OBVIOUS
<1>3. \A a, b : DOMAIN [id |-> a, generation |-> b] = {"id", "generation"}
  OBVIOUS
<1>4. \A a, b, c : DOMAIN [place |-> a, before |-> b, read |-> c] = {"place", "before", "read"}
  OBVIOUS
<1> QED
  BY <1>1, <1>2, <1>3, <1>4

-----------------------------------------------------------------------------
(* The invariant.                                                          *)

Visible == {"current", "refreshing"}

\* An entry is for a tracked place, and its instance was minted.
EntryOK(t) ==
  /\ t \in tracked /\ at \notin {"bind", "recover"} /\ istate \in Visible
  /\ active[t].generation \in Nat
  /\ \E n \in Nat : n <= minted /\ active[t].id = <<t, n>>

Shape ==
  /\ pending \in [Topologies -> {"none", "dirty", "lost"}]
  /\ world = [t \in Topologies |-> world[t]]
  /\ active = [t \in Topologies |-> active[t]]
  /\ roles = [t \in Topologies |-> roles[t]]
  /\ invalid \subseteq Topologies /\ tracked \subseteq Topologies
  /\ minted \in Nat
  /\ istate \in {"uninitialized", "refreshing", "current", "unavailable"}
  /\ at \in {"bind", "recover", "wait", "drain", "snapshot", "quiet", "guard"}
  /\ DOMAIN snapped \subseteq Topologies
  /\ at \in {"bind", "recover", "wait", "drain"} => DOMAIN snapped = {}
  /\ at \in {"quiet", "guard"} => DOMAIN snapped = Topologies
  /\ istate = "current" => invalid = {} /\ at = "wait"
  /\ \A t \in invalid : active[t] # None
  /\ \A t \in Topologies : active[t] # None => EntryOK(t)

\* Where no lost continuity is to be read, entries, the snapshot and roles
\* are about the camera that is plugged in.
Truth ==
  \A t \in Topologies :
    /\ active[t] # None /\ pending[t] # "lost" => active[t].seen = world[t]
    /\ t \in DOMAIN snapped /\ pending[t] # "lost" => snapped[t] = world[t]
    /\ istate = "current" /\ active[t] = None /\ pending[t] # "lost" => world[t] = 0
    /\ roles[t] # 0 => Published(t) /\ (pending[t] # "lost" => roles[t] = world[t])

\* g was the generation at t, now or earlier.
Old(t, g) ==
  /\ g.generation \in Nat
  /\ \E n \in Nat : n <= minted /\ g.id = <<t, n>>
  /\ active[t] # None /\ active[t].id = g.id => g.generation <= active[t].generation

\* g is the generation published at t.
Now(t, g) == Published(t) /\ active[t].id = g.id /\ active[t].generation = g.generation

ScanOK ==
  scan # None =>
    /\ scan.place \in Topologies
    /\ scan.before = [id |-> scan.before.id, generation |-> scan.before.generation]
    /\ Old(scan.place, scan.before)
    /\ scan.read # 0 /\ Now(scan.place, scan.before) /\ pending[scan.place] # "lost"
         => scan.read = world[scan.place]

CameraInv == Shape /\ Truth /\ ScanOK

(* endpoint_generations answers g exactly while g is published.            *)
LEMMA GenerationIsNow ==
  ASSUME NEW t, NEW g, g = [id |-> g.id, generation |-> g.generation]
  PROVE  Generation(t) = g <=> Now(t, g)
BY NotNone DEF Generation, Now

(* A camera without a generation is not published.                         *)
LEMMA GenerationNone ==
  ASSUME NEW t PROVE Generation(t) # None <=> Published(t)
BY NotNone DEF Generation

(* A role that prune_roles keeps is of a camera published before and after. *)
LEMMA PrunedRoles ==
  ASSUME PruneRoles
  PROVE  /\ roles' = [t \in Topologies |-> roles'[t]]
         /\ \A t \in Topologies : roles'[t] # 0 => Published(t) /\ Published(t)' /\ roles'[t] = roles[t]
<1>1. \A t \in Topologies : (Generation(t) # None <=> Published(t)) /\ (Generation(t)' # None <=> Published(t)')
  BY NotNone DEF Generation
<1> QED
  BY <1>1 DEF PruneRoles

-----------------------------------------------------------------------------
(* The effects on the inventory keep its shape and its truth.              *)

LEMMA InitCameraInv == CameraInit => CameraInv
<1> SUFFICES ASSUME CameraInit PROVE CameraInv
  OBVIOUS
<1>1. Shape
  BY DEF CameraInit, Shape, Quiet, Nowhere, NoRoles, Unread
<1>2. Truth
  BY DEF CameraInit, Truth, Quiet, Nowhere, NoRoles, Unread
<1>3. ScanOK
  BY DEF CameraInit, ScanOK
<1> QED
  BY <1>1, <1>2, <1>3 DEF CameraInv

(* The world changes under an inventory that stays as it is.               *)
LEMMA WorldKeeps ==
  ASSUME CameraInv, NEW u \in Topologies, Change(u) \/ Touch(u) \/ Disturb(u)
  PROVE  Shape' /\ Truth'
<1> USE DEF CameraInv, inventory, thread
<1>0. /\ UNCHANGED <<active, invalid, istate, roles, minted, tracked, at, snapped>>
      /\ world' = [t \in Topologies |-> world'[t]]
      /\ pending' \in [Topologies -> {"none", "dirty", "lost"}]
      /\ \A t \in Topologies : world'[t] = world[t] \/ at = "bind" \/ pending'[t] = "lost"
      /\ \A t \in Topologies : pending'[t] # "lost" => pending[t] # "lost"
  BY DEF Change, Touch, Disturb, Event, Shape
<1>1. Shape'
  BY Zenon, <1>0 DEF Shape, EntryOK
<1>2. Truth'
  BY <1>0 DEF Truth, Shape, EntryOK, Published
<1> QED
  BY <1>1, <1>2

(* fail_closed leaves nothing to be wrong about.                           *)
LEMMA FailKeeps ==
  ASSUME CameraInv, GiveUp \/ Fail
  PROVE  Shape' /\ Truth'
<1> USE DEF CameraInv
<1>0. /\ FailClosed /\ at' \in {"bind", "recover"} /\ world' = world
      /\ pending' \in [Topologies -> {"none", "dirty", "lost"}] /\ tracked' \subseteq Topologies
  BY DEF GiveUp, Fail, Shape, Quiet
<1>1. Shape'
  BY <1>0 DEF Shape, FailClosed, Nowhere, NoRoles, Unread
<1>2. Truth'
  BY <1>0 DEF Truth, FailClosed, Nowhere, NoRoles, Unread
<1> QED
  BY <1>1, <1>2

(* invalidate_all comes when there is no entry.                            *)
LEMMA InvalidateKeeps ==
  ASSUME CameraInv, Bind \/ Recover
  PROVE  Shape' /\ Truth'
<1> USE DEF CameraInv
<1>0. /\ InvalidateAll /\ at' = "snapshot" /\ snapped' = Unread /\ world' = world
      /\ pending' \in [Topologies -> {"none", "dirty", "lost"}] /\ tracked' \subseteq Topologies
      /\ at \in {"bind", "recover"}
  BY DEF Bind, Recover, Shape, Quiet
<1>1. \A t \in Topologies : active[t] = None
  BY <1>0 DEF Shape, EntryOK
<1>2. roles' = [t \in Topologies |-> roles'[t]] /\ \A t \in Topologies : roles'[t] = 0
  BY <1>0, <1>1, PrunedRoles DEF InvalidateAll, Published
<1>3. Shape'
  BY <1>0, <1>1, <1>2 DEF Shape, InvalidateAll, Unread
<1>4. Truth'
  BY <1>0, <1>1, <1>2 DEF Truth, InvalidateAll, Unread
<1> QED
  BY <1>3, <1>4

(* prepare_rescan retires every entry whose continuity is lost.            *)
LEMMA RescanKeeps ==
  ASSUME CameraInv, PrepareRescan, UNCHANGED <<world, tracked>>, DOMAIN snapped' = {},
         at' \in {"drain", "snapshot"}, at \notin {"bind", "recover"}
  PROVE  Shape' /\ Truth'
<1> USE DEF CameraInv
<1>0. /\ pending' = Quiet /\ istate' = "refreshing" /\ minted' = minted
      /\ active' = [t \in Topologies |-> active'[t]]
      /\ invalid' \subseteq Topologies /\ \A t \in invalid' : active'[t] # None
      /\ \A t \in Topologies : active'[t] # None =>
            active'[t] = active[t] /\ (pending[t] = "lost" => t \notin tracked)
  BY Zenon DEF PrepareRescan, Shape
<1>1. \A t \in Topologies : active'[t] # None => active'[t] = active[t] /\ pending[t] # "lost"
  BY <1>0 DEF Shape, EntryOK
<1>2. /\ roles' = [t \in Topologies |-> roles'[t]]
      /\ \A t \in Topologies : roles'[t] # 0 => Published(t) /\ Published(t)' /\ roles'[t] = roles[t]
  BY PrunedRoles DEF PrepareRescan
<1>3. Shape'
  BY <1>0, <1>1, <1>2 DEF Shape, EntryOK, Quiet, Visible
<1>4. Truth'
  BY <1>0, <1>1, <1>2 DEF Truth, Quiet, Published
<1> QED
  BY <1>3, <1>4

(* reconcile_guarded publishes a snapshot that no event has overtaken.     *)
LEMMA ReconcileKeeps ==
  ASSUME CameraInv, Reconcile, at = "guard", pending = Quiet, UNCHANGED <<world, pending>>
  PROVE  Shape' /\ Truth'
<1> USE DEF CameraInv
<1>0. /\ DOMAIN snapped = Topologies /\ DOMAIN snapped' = {}
      /\ \A t \in Topologies : pending[t] = "none" /\ snapped[t] = world[t]
  BY DEF Shape, Truth, Quiet, Reconcile, Unread
<1>1. \A t \in Topologies :
        /\ active'[t] # None <=> snapped[t] # 0
        /\ active'[t] # None => active'[t].seen = world[t]
  BY <1>0, NotNone DEF Reconcile, Reconciled, Truth
<1>2. \A t \in Topologies : active'[t] # None =>
        /\ active'[t].generation \in Nat
        /\ \E n \in Nat : n <= minted' /\ active'[t].id = <<t, n>>
  <2> SUFFICES ASSUME NEW t \in Topologies, active'[t] # None
               PROVE  /\ active'[t].generation \in Nat
                      /\ \E n \in Nat : n <= minted' /\ active'[t].id = <<t, n>>
    OBVIOUS
  <2>1. active'[t] = Reconciled(t) /\ minted' = minted + 1 /\ minted \in Nat
    BY DEF Reconcile, Shape
  <2>2. CASE active[t] = None
    BY <2>1, <2>2 DEF Reconciled
  <2>3. CASE active[t] # None
    <3>1. EntryOK(t)
      BY <2>3 DEF Shape
    <3> QED
      BY <2>1, <2>3, <3>1 DEF Reconciled, EntryOK
  <2> QED
    BY <2>2, <2>3
<1>3. /\ roles' = [t \in Topologies |-> roles'[t]]
      /\ \A t \in Topologies : roles'[t] # 0 => Published(t) /\ Published(t)' /\ roles'[t] = roles[t]
  BY PrunedRoles DEF Reconcile
<1>4. /\ pending' = pending /\ world' = world /\ invalid' = {} /\ istate' = "current" /\ at' = "wait"
      /\ minted' \in Nat /\ tracked' = {t \in Topologies : snapped[t] # 0}
      /\ active' = [t \in Topologies |-> active'[t]]
  BY DEF Reconcile, Shape
<1>5. \A t \in Topologies : active'[t] # None => EntryOK(t)'
  BY <1>1, <1>2, <1>4 DEF EntryOK, Visible
<1>6. Shape'
  BY <1>0, <1>3, <1>4, <1>5 DEF Shape
<1>7. Truth'
  BY <1>0, <1>1, <1>3, <1>4 DEF Truth
<1> QED
  BY <1>6, <1>7

(* The thread reads on, or a scan begins and reads.                        *)
LEMMA ReadKeeps ==
  ASSUME CameraInv, UNCHANGED <<world, pending, inventory>>,
         \/ UNCHANGED thread
         \/ at = "drain" /\ at' = "snapshot" /\ UNCHANGED <<tracked, snapped>>
         \/ at = "quiet" /\ at' = "guard" /\ UNCHANGED <<tracked, snapped>>
         \/ \E u \in Topologies : Snapshot(u)
  PROVE  Shape' /\ Truth'
<1> USE DEF CameraInv, inventory, thread
<1>0. /\ at' \in {"snapshot", "quiet", "guard"} \/ (at' = at /\ snapped' = snapped)
      /\ at \in {"drain", "quiet", "snapshot"} \/ at' = at
      /\ tracked \subseteq tracked' /\ tracked' \subseteq Topologies
      /\ DOMAIN snapped' \subseteq Topologies
      /\ at' \in {"quiet", "guard"} => DOMAIN snapped' = Topologies
      /\ \A t \in DOMAIN snapped' : pending[t] # "lost" => snapped'[t] = world[t]
  <2>1. CASE \E u \in Topologies : Snapshot(u)
    <3>1. PICK u \in Topologies : Snapshot(u)
      BY <2>1
    <3>2. /\ DOMAIN snapped' = DOMAIN snapped \cup {u}
          /\ \A t \in DOMAIN snapped' : snapped'[t] = IF t = u THEN world[u] ELSE snapped[t]
      BY <3>1 DEF Snapshot
    <3>3. /\ at = "snapshot" /\ at' \in {"snapshot", "quiet"}
          /\ at' = "quiet" => DOMAIN snapped' = Topologies
      BY <3>1 DEF Snapshot
    <3>4. tracked \subseteq tracked' /\ tracked' \subseteq Topologies
      <4>1. tracked \subseteq Topologies
        BY DEF Shape
      <4>2. tracked' = tracked \/ tracked' = tracked \cup {v \in Topologies : snapped'[v] # 0}
        BY <3>1 DEF Snapshot
      <4> QED
        BY <4>1, <4>2
    <3> QED
      BY <3>2, <3>3, <3>4 DEF Shape, Truth
  <2>2. CASE ~\E u \in Topologies : Snapshot(u)
    BY <2>2 DEF Shape, Truth
  <2> QED
    BY <2>1, <2>2
<1>1. Shape'
  BY Zenon, <1>0 DEF Shape, EntryOK
<1>2. Truth'
  BY <1>0 DEF Truth, Published
<1> QED
  BY <1>1, <1>2

(* record_roles keeps an answer only for the generation it was read from.  *)
LEMMA RecordKeeps ==
  ASSUME CameraInv, RecordRoles
  PROVE  Shape' /\ Truth'
<1> USE DEF CameraInv, thread
<1>0. /\ UNCHANGED <<world, pending, active, invalid, istate, minted, tracked, at, snapped>>
      /\ scan # None /\ scan.read # 0 /\ scan.place \in Topologies
      /\ roles' = IF Now(scan.place, scan.before)
                  THEN [roles EXCEPT ![scan.place] = Classified(scan.place)] ELSE roles
  BY GenerationIsNow DEF RecordRoles, ScanOK
<1>1. /\ roles' = [t \in Topologies |-> roles'[t]]
      /\ \A t \in Topologies : roles'[t] # roles[t] /\ roles'[t] # 0 =>
            Published(t) /\ (pending[t] # "lost" => roles'[t] = world[t])
  BY <1>0 DEF Shape, ScanOK, Classified, Now
<1>2. Shape'
  BY Zenon, <1>0, <1>1 DEF Shape, EntryOK
<1>3. Truth'
  BY <1>0, <1>1 DEF Truth, Published
<1> QED
  BY <1>2, <1>3

-----------------------------------------------------------------------------
(* Generations never come back.                                            *)

(* What a step may do to an entry: leave it, give it the next generation,  *)
(* or make one with an instance that was never minted before.              *)
LEMMA EntrySteps ==
  ASSUME CameraInv, CameraStep, NEW t \in Topologies
  PROVE  /\ minted' \in Nat /\ minted <= minted'
         /\ active'[t] # None =>
              \/ active'[t] = active[t] /\ (Published(t)' => Published(t))
              \/ /\ active[t] # None /\ active'[t].id = active[t].id
                 /\ active'[t].generation = active[t].generation + 1
              \/ active'[t].id = <<t, minted + 1>>
<1> USE DEF CameraInv
<1>0. minted \in Nat
  BY DEF Shape
<1>1. ASSUME active' = active, invalid' = invalid, istate' = istate, minted' = minted
      PROVE  /\ minted' \in Nat /\ minted <= minted'
             /\ active'[t] = active[t] /\ (Published(t)' => Published(t))
  BY <1>0, <1>1 DEF Published
<1>2. ASSUME FailClosed
      PROVE  minted' \in Nat /\ minted <= minted' /\ active'[t] = None
  BY <1>0, <1>2 DEF FailClosed, Nowhere
<1>3. ASSUME InvalidateAll
      PROVE  minted' \in Nat /\ minted <= minted' /\ active'[t] = active[t] /\ ~Published(t)'
  BY <1>0, <1>3 DEF InvalidateAll, Published
<1>4. ASSUME PrepareRescan
      PROVE  /\ minted' \in Nat /\ minted <= minted'
             /\ active'[t] # None => active'[t] = active[t] /\ (Published(t)' => Published(t))
  BY <1>0, <1>4 DEF PrepareRescan, Published, Shape, EntryOK, Visible
<1>5. ASSUME Reconcile
      PROVE  /\ minted' \in Nat /\ minted <= minted'
             /\ active'[t] # None =>
                  \/ active'[t] = active[t] /\ (Published(t)' => Published(t))
                  \/ /\ active[t] # None /\ active'[t].id = active[t].id
                     /\ active'[t].generation = active[t].generation + 1
                  \/ active'[t].id = <<t, minted + 1>>
  <2>1. minted' = minted + 1 /\ active'[t] = Reconciled(t)
    BY <1>5 DEF Reconcile
  <2>2. CASE active[t] = None
    BY <1>0, <2>1, <2>2 DEF Reconciled
  <2>3. CASE active[t] # None
    <3>1. istate \in Visible
      BY <2>3 DEF Shape, EntryOK
    <3> QED
      BY <1>0, <2>1, <2>3, <3>1 DEF Reconciled, Published, Visible
  <2> QED
    BY <2>2, <2>3
<1>6. \/ active' = active /\ invalid' = invalid /\ istate' = istate /\ minted' = minted
      \/ FailClosed \/ InvalidateAll \/ PrepareRescan \/ Reconcile
  BY Zenon DEF CameraStep, LifecycleStep, Bind, Recover, Wake, Drain, QuietAfter, Publish, Again, Snapshot,
         GiveUp, Fail, Change, Touch, Disturb, BeginScan, ReadNode, RecordRoles, inventory
<1> QED
  BY <1>1, <1>2, <1>3, <1>4, <1>5, <1>6

(* A generation that was published stays old, and is published after a     *)
(* step only if it was before it, for the same camera.                     *)
LEMMA OldStays ==
  ASSUME CameraInv, CameraStep, NEW t \in Topologies, NEW g, Old(t, g)
  PROVE  Old(t, g)' /\ (Now(t, g)' => Now(t, g) /\ active'[t] = active[t])
<1>1. minted \in Nat /\ (active[t] # None => active[t].generation \in Nat)
  BY DEF CameraInv, Shape, EntryOK
<1>2. PICK n \in Nat : n <= minted /\ g.id = <<t, n>>
  BY DEF Old
<1>3. g.id # <<t, minted + 1>>
  BY <1>1, <1>2
<1>4. \E m \in Nat : m <= minted' /\ g.id = <<t, m>>
  BY <1>1, <1>2, EntrySteps
<1>5. CASE active'[t] = None
  BY <1>4, <1>5 DEF Old, Now, Published
<1>6. CASE active'[t] # None
  <2>1. CASE active'[t] = active[t] /\ (Published(t)' => Published(t))
    BY <1>4, <2>1 DEF Old, Now
  <2>2. CASE /\ active[t] # None /\ active'[t].id = active[t].id
             /\ active'[t].generation = active[t].generation + 1
    BY <1>1, <1>4, <2>2 DEF Old, Now
  <2>3. CASE active'[t].id = <<t, minted + 1>>
    BY <1>3, <1>4, <2>3 DEF Old, Now
  <2> QED
    BY <1>6, <2>1, <2>2, <2>3, EntrySteps
<1> QED
  BY <1>5, <1>6

(* An entry that outlives a step after which no lost continuity is to be   *)
(* read is about a camera that the step did not change.                    *)
LEMMA NothingMissed ==
  ASSUME CameraInv, CameraStep, NEW t \in Topologies,
         active[t] # None, active'[t] # None, pending'[t] # "lost"
  PROVE  pending[t] # "lost" /\ world'[t] = world[t]
<1> USE DEF CameraInv
<1>0. t \in tracked /\ at \notin {"bind", "recover"} /\ pending[t] \in {"none", "dirty", "lost"}
  BY DEF Shape, EntryOK
<1>1. ASSUME NEW u \in Topologies, Change(u) \/ Touch(u) \/ Disturb(u)
      PROVE  pending[t] # "lost" /\ world'[t] = world[t]
  BY <1>0, <1>1 DEF Change, Touch, Disturb, Event, Shape
<1>2. ASSUME PrepareRescan, world' = world
      PROVE  pending[t] # "lost" /\ world'[t] = world[t]
  BY <1>0, <1>2 DEF PrepareRescan
<1>3. ASSUME FailClosed
      PROVE  FALSE
  BY <1>3 DEF FailClosed, Nowhere
<1>4. \/ \E u \in Topologies : Change(u) \/ Touch(u) \/ Disturb(u)
      \/ PrepareRescan /\ world' = world
      \/ FailClosed
      \/ UNCHANGED <<pending, world>>
  BY Zenon, <1>0 DEF CameraStep, LifecycleStep, Bind, Recover, Wake, Drain, QuietAfter, Publish, Again, Snapshot,
         GiveUp, Fail, BeginScan, ReadNode, RecordRoles
<1> QED
  BY <1>1, <1>2, <1>3, <1>4

(* A scan's answer is about the camera plugged in as long as it counts.    *)
LEMMA ScanKeeps ==
  ASSUME CameraInv, CameraStep
  PROVE  ScanOK'
<1>1. CASE scan' = None
  BY <1>1 DEF ScanOK
<1>2. CASE scan # None /\ scan' = scan
  <2>1. PICK t, g : t = scan.place /\ g = scan.before
    OBVIOUS
  <2>2. t \in Topologies /\ Old(t, g)
    BY <1>2, <2>1 DEF CameraInv, ScanOK
  <2>3. Old(t, g)' /\ (Now(t, g)' => Now(t, g) /\ active'[t] = active[t])
    BY <2>2, OldStays
  <2>4. Now(t, g)' /\ pending'[t] # "lost" => pending[t] # "lost" /\ world'[t] = world[t]
    BY <2>2, <2>3, NothingMissed DEF Now, Published
  <2> QED
    BY <1>2, <2>1, <2>2, <2>3, <2>4 DEF CameraInv, ScanOK
<1>3. ASSUME NEW t \in Topologies, BeginScan(t)
      PROVE  ScanOK'
  <2>1. active[t] # None /\ Generation(t) = [id |-> active[t].id, generation |-> active[t].generation]
    BY <1>3, GenerationNone DEF BeginScan, Generation, Published
  <2>2. Old(t, Generation(t))
    <3>1. EntryOK(t)
      BY <2>1 DEF CameraInv, Shape
    <3>2. Generation(t).id = active[t].id /\ Generation(t).generation = active[t].generation
      BY <2>1
    <3> QED
      BY <3>1, <3>2 DEF Old, EntryOK
  <2>3. /\ scan'.place = t /\ scan'.before = Generation(t) /\ scan'.read = 0
        /\ UNCHANGED <<active, minted>>
    BY <1>3 DEF BeginScan, inventory
  <2> QED
    BY <2>1, <2>2, <2>3 DEF ScanOK, Old
<1>4. ASSUME ReadNode, scan' # None
      PROVE  ScanOK'
  <2>1. /\ scan # None /\ scan' = [place |-> scan.place, before |-> scan.before, read |-> world[scan.place]]
        /\ UNCHANGED <<world, active, invalid, istate, minted, pending>>
    BY <1>4 DEF ReadNode, inventory
  <2> QED
    BY <2>1 DEF CameraInv, ScanOK, Old
<1>5. \/ scan' = None \/ (scan # None /\ scan' = scan) \/ ReadNode
      \/ \E t \in Topologies : BeginScan(t)
  BY Zenon DEF CameraStep, LifecycleStep, Bind, Recover, Wake, Drain, QuietAfter, Publish, Again, Snapshot,
         GiveUp, Fail, Change, Touch, Disturb, RecordRoles
<1> QED
  BY <1>1, <1>2, <1>3, <1>4, <1>5

LEMMA CameraStepKeeps == CameraInv /\ CameraStep => CameraInv'
<1> SUFFICES ASSUME CameraInv, CameraStep PROVE Shape' /\ Truth'
  BY ScanKeeps DEF CameraInv
<1>1. CASE \E u \in Topologies : Change(u) \/ Touch(u) \/ Disturb(u)
  BY <1>1, WorldKeeps
<1>2. CASE GiveUp \/ Fail
  BY <1>2, FailKeeps
<1>3. CASE Bind \/ Recover
  BY <1>3, InvalidateKeeps
<1>4. CASE Wake \/ (Drain /\ pending # Quiet) \/ (QuietAfter /\ pending # Quiet) \/ (Publish /\ pending # Quiet)
  <2>1. /\ PrepareRescan /\ UNCHANGED <<world, tracked>>
        /\ at' \in {"drain", "snapshot"} /\ at \notin {"bind", "recover"}
    BY <1>4 DEF Wake, Drain, QuietAfter, Publish, Again
  <2>2. DOMAIN snapped' = {}
    <3>1. snapped' = Unread \/ (snapped' = snapped /\ at \in {"wait", "drain"})
      BY <1>4 DEF Wake, Drain, QuietAfter, Publish, Again
    <3> QED
      BY <3>1 DEF CameraInv, Shape, Unread
  <2> QED
    BY <2>1, <2>2, RescanKeeps
<1>5. CASE Publish /\ pending = Quiet
  BY <1>5, ReconcileKeeps DEF Publish, Again
<1>6. CASE (Drain \/ QuietAfter) /\ pending = Quiet
  BY <1>6, ReadKeeps DEF Drain, QuietAfter, Again
<1>7. CASE \E u \in Topologies : Snapshot(u)
  BY <1>7, ReadKeeps DEF Snapshot
<1>8. CASE ReadNode \/ \E u \in Topologies : BeginScan(u)
  BY <1>8, ReadKeeps DEF ReadNode, BeginScan
<1>9. CASE RecordRoles
  BY <1>9, RecordKeeps
<1> QED
  BY <1>1, <1>2, <1>3, <1>4, <1>5, <1>6, <1>7, <1>8, <1>9 DEF CameraStep, LifecycleStep

(* A step that leaves the inventory and the world alone.                   *)
LEMMA CameraStutters ==
  ASSUME CameraInv, UNCHANGED cameraVars
  PROVE  Shape' /\ Truth' /\ ScanOK'
<1>0. UNCHANGED <<world, pending, active, invalid, istate, roles, minted, tracked, at, snapped, scan>>
  BY DEF cameraVars, inventory, thread
<1>1. Shape'
  BY Zenon, <1>0 DEF CameraInv, Shape, EntryOK
<1>2. Truth'
  BY <1>0 DEF CameraInv, Truth, Published
<1>3. ScanOK'
  BY <1>0 DEF CameraInv, ScanOK, Old, Now, Published
<1> QED
  BY <1>1, <1>2, <1>3

(* The invariant of the inventory, whatever is plugged, fails and scans.   *)
THEOREM CameraInvariant == CameraSpec => []CameraInv
<1>1. CameraInv /\ UNCHANGED cameraVars => CameraInv'
  BY CameraStutters DEF CameraInv
<1> QED
  BY <1>1, InitCameraInv, CameraStepKeeps, PTL DEF CameraSpec

(* No step of a thread changes the inventory.                              *)
LEMMA ThreadReads ==
  ASSUME NEW i \in Threads,
         \/ AcquireOne(i) \/ AcquireSelected(i) \/ AcquireSplit(i)
         \/ LeaseStep(i) \/ Expire(i) \/ LoseContinuity(i)
  PROVE  UNCHANGED cameraVars
BY Zenon DEF AcquireOne, AcquireSelected, AcquireSplit, Select, LeaseStep, Enqueue, Take, Confirm, Release,
       DropPermit, Expire, LoseContinuity

(* The threads that take leases only read the inventory: the composed      *)
(* system's inventory behaves like the inventory alone.                    *)
THEOREM LeasesOnlyRead == Spec => CameraSpec
<1>1. Init => CameraInit
  BY DEF Init
<1>2. [Next]_vars => [CameraStep]_cameraVars
  <2>1. UNCHANGED vars => UNCHANGED cameraVars
    BY DEF vars
  <2> QED
    BY <2>1, ThreadReads DEF Next
<1> QED
  BY <1>1, <1>2, PTL DEF Spec, CameraSpec

(* Whatever changes, in any order with snapshots, polls and publications,  *)
(* the inventory publishes no camera that is not the one plugged in and a  *)
(* current one misses none, except where an event is still to be read      *)
(* (publish_quiet_snapshot, reconcile_guarded).                            *)
THEOREM InventoryIsTrue == Spec => []CurrentIsTrue
<1>1. CameraInv => CurrentIsTrue
  BY GenerationNone DEF CameraInv, Truth, CurrentIsTrue, Published
<1> QED
  BY <1>1, CameraInvariant, LeasesOnlyRead, PTL

(* A recorded role was read from the camera plugged in, except where an    *)
(* event is still to be read (record_roles, prune_roles).                  *)
THEOREM RolesAreTrue == Spec => []RolesOfPlugged
<1>1. CameraInv => RolesOfPlugged
  BY DEF CameraInv, Truth, RolesOfPlugged
<1> QED
  BY <1>1, CameraInvariant, LeasesOnlyRead, PTL

(* Invalidated cameras, roles and the monitor agree with the publication.  *)
THEOREM InventoryShape == Spec => []InventoryTypeOK
<1>1. CameraInv => InventoryTypeOK
  BY GenerationNone DEF CameraInv, Shape, EntryOK, Truth, InventoryTypeOK
<1> QED
  BY <1>1, CameraInvariant, LeasesOnlyRead, PTL

-----------------------------------------------------------------------------
(* References held by threads.                                             *)

\* Every reference is to a generation that was published, and if it still
\* validates it is of the camera the entry is of.
RefsOK ==
  \A i \in Threads : \A r \in lease[i].refs :
    /\ r.place \in Topologies
    /\ Old(r.place, r)
    /\ Valid(r) => r.seen = active[r.place].seen

IsLease(l) == l = [at |-> l.at, refs |-> l.refs, split |-> l.split, same |-> l.same]

LeaseShape ==
  /\ lease = [i \in Threads |-> lease[i]]
  /\ \A i \in Threads : IsLease(lease[i])

(* Changing a lease's step or its standing keeps its references.           *)
LEMMA LeaseExcept ==
  ASSUME NEW l, IsLease(l), NEW x, NEW y
  PROVE  /\ IsLease([l EXCEPT !.at = x]) /\ [l EXCEPT !.at = x].refs = l.refs
         /\ IsLease([l EXCEPT !.same = y]) /\ [l EXCEPT !.same = y].refs = l.refs
         /\ IsLease(Operating(l)) /\ Operating(l).refs = l.refs
<1>1. [l EXCEPT !.at = x] = [at |-> x, refs |-> l.refs, split |-> l.split, same |-> l.same]
  BY DEF IsLease
<1>2. [l EXCEPT !.same = y] = [at |-> l.at, refs |-> l.refs, split |-> l.split, same |-> y]
  BY DEF IsLease
<1>3. Operating(l) = [at |-> "acquired", refs |-> l.refs, split |-> l.split, same |-> FALSE]
  BY DEF Operating
<1> QED
  BY <1>1, <1>2, <1>3 DEF IsLease

(* While there is an entry the publication is visible, so a reference      *)
(* validates exactly while its generation is published.                    *)
LEMMA ValidIsNow ==
  ASSUME Shape, NEW r, r.place \in Topologies
  PROVE  Valid(r) <=> Now(r.place, r)
BY DEF Shape, EntryOK, Valid, Now, Published, Visible

(* The inventory's steps keep references old.                              *)
LEMMA PublicationKeepsRefs ==
  ASSUME CameraInv, RefsOK, LeaseShape, CameraStep, Revise
  PROVE  RefsOK' /\ LeaseShape'
<1>1. LeaseShape' /\ \A i \in Threads : lease'[i].refs = lease[i].refs
  BY Zenon, LeaseExcept DEF Revise, LeaseShape
<1>2. ASSUME NEW i \in Threads, NEW r \in lease[i].refs
      PROVE  /\ r.place \in Topologies /\ Old(r.place, r)'
             /\ Valid(r)' => r.seen = active'[r.place].seen
  <2>1. r.place \in Topologies /\ Old(r.place, r) /\ (Valid(r) => r.seen = active[r.place].seen)
    BY <1>2 DEF RefsOK
  <2>2. PICK s : s = r
    OBVIOUS
  <2>3. Old(s.place, s)' /\ (Now(s.place, s)' => Now(s.place, s) /\ active'[s.place] = active[s.place])
    BY <2>1, <2>2, OldStays
  <2>4. Shape /\ Shape'
    BY Zenon, CameraStepKeeps DEF CameraInv
  <2> QED
    BY <2>1, <2>2, <2>3, <2>4, ValidIsNow DEF Valid, Now, Published, Shape, EntryOK, Visible
<1> QED
  BY <1>1, <1>2 DEF RefsOK

\* The steps of an acquisition that keeps its references.
Steps == {"awake", "granted", "asleep", "lost"}

(* A thread's step keeps the references it has, drops them, or takes new   *)
(* ones that validate.                                                     *)
LEMMA ThreadRefs ==
  ASSUME LeaseShape, NEW i \in Threads,
         \/ AcquireOne(i) \/ AcquireSelected(i) \/ AcquireSplit(i)
         \/ LeaseStep(i) \/ Expire(i) \/ LoseContinuity(i)
  PROVE  /\ LeaseShape'
         /\ \A j \in Threads : lease'[j].refs \subseteq lease[j].refs
               \/ \E places \in SUBSET Topologies :
                     /\ lease'[j].refs = Refs(places)
                     /\ \A t \in places : active[t] # None /\ t \notin invalid
<1>1. CASE AcquireOne(i) \/ AcquireSelected(i) \/ AcquireSplit(i)
  <2>1. PICK places \in SUBSET Topologies, split \in BOOLEAN : Select(i, places, split)
    BY Zenon, <1>1 DEF AcquireOne, AcquireSelected, AcquireSplit
  <2>2. /\ lease' = [lease EXCEPT ![i] = [at |-> "selected", refs |-> Refs(places),
                                           split |-> split, same |-> split]]
        /\ \A t \in places : active[t] # None /\ t \notin invalid
    BY <2>1 DEF Select
  <2>3. \A j \in Threads : lease'[j] = IF j = i THEN [at |-> "selected", refs |-> Refs(places),
                                                       split |-> split, same |-> split]
                                       ELSE lease[j]
    BY <2>2 DEF LeaseShape
  <2>4. LeaseShape'
    BY <2>2, <2>3 DEF LeaseShape, IsLease
  <2>5. \A j \in Threads : lease'[j].refs = Refs(places) \/ lease'[j].refs = lease[j].refs
    BY <2>3
  <2> QED
    BY <2>2, <2>4, <2>5
<1>2. CASE \/ \E step \in Steps : lease' = [lease EXCEPT ![i].at = step]
           \/ lease' = [lease EXCEPT ![i] = Operating(@)]
  <2>1. ASSUME NEW j \in Threads
        PROVE  IsLease(lease'[j]) /\ lease'[j].refs = lease[j].refs
    <3>1. IsLease(lease[j])
      BY DEF LeaseShape
    <3>2. \/ lease'[j] = lease[j]
          \/ \E step \in Steps : lease'[j] = [lease[j] EXCEPT !.at = step]
          \/ lease'[j] = Operating(lease[j])
      BY <1>2 DEF LeaseShape
    <3>3. ASSUME NEW step \in Steps, lease'[j] = [lease[j] EXCEPT !.at = step]
          PROVE  IsLease(lease'[j]) /\ lease'[j].refs = lease[j].refs
      <4>1. IsLease([lease[j] EXCEPT !.at = step]) /\ [lease[j] EXCEPT !.at = step].refs = lease[j].refs
        BY Zenon, <3>1, LeaseExcept
      <4> QED
        BY <3>3, <4>1
    <3>4. CASE lease'[j] = Operating(lease[j])
      <4>1. IsLease(Operating(lease[j])) /\ Operating(lease[j]).refs = lease[j].refs
        BY Zenon, <3>1, LeaseExcept
      <4> QED
        BY <3>4, <4>1
    <3> QED
      BY Zenon, <3>1, <3>2, <3>3, <3>4
  <2>2. lease' = [j \in Threads |-> lease'[j]]
    BY <1>2 DEF LeaseShape
  <2> QED
    BY <2>1, <2>2 DEF LeaseShape
<1>3. CASE lease' = NotifyAll([lease EXCEPT ![i] = Idle])
  <2>1. ASSUME NEW j \in Threads
        PROVE  IsLease(lease'[j]) /\ lease'[j].refs \subseteq lease[j].refs
    <3>1. IsLease(lease[j]) /\ IsLease(Idle) /\ Idle.refs = {}
      BY DEF LeaseShape, IsLease, Idle
    <3>2. PICK l : l = [lease EXCEPT ![i] = Idle][j]
      OBVIOUS
    <3>3. l = lease[j] \/ l = Idle
      BY <3>2 DEF LeaseShape
    <3>4. lease'[j] = l \/ lease'[j] = [l EXCEPT !.at = "awake"]
      BY <1>3, <3>2 DEF NotifyAll
    <3>5. IsLease(lease'[j]) /\ lease'[j].refs = l.refs
      <4>1. IsLease(l)
        BY <3>1, <3>3
      <4>2. IsLease([l EXCEPT !.at = "awake"]) /\ [l EXCEPT !.at = "awake"].refs = l.refs
        BY Zenon, <4>1, LeaseExcept
      <4> QED
        BY Zenon, <3>4, <4>1, <4>2
    <3> QED
      BY <3>1, <3>3, <3>5
  <2>2. lease' = [j \in Threads |-> lease'[j]]
    BY <1>3 DEF NotifyAll
  <2> QED
    BY <2>1, <2>2 DEF LeaseShape
<1>4. CASE Enqueue(i) \/ Take(i)
  <2>1. \/ lease' = [lease EXCEPT ![i].at = "awake"]
        \/ lease' = [lease EXCEPT ![i].at = "granted"]
        \/ lease' = [lease EXCEPT ![i].at = "asleep"]
    BY <1>4 DEF Enqueue, Take
  <2>2. "awake" \in Steps /\ "granted" \in Steps /\ "asleep" \in Steps
    BY DEF Steps
  <2>3. \E step \in Steps : lease' = [lease EXCEPT ![i].at = step]
    BY <2>1, <2>2, Zenon
  <2> QED
    BY <1>2, <2>3, Zenon
<1>5. CASE Confirm(i)
  <2>1. \/ lease' = [lease EXCEPT ![i] = Operating(@)]
        \/ lease' = NotifyAll([lease EXCEPT ![i] = Idle])
    BY <1>5 DEF Confirm, DropPermit
  <2> QED
    BY <1>2, <1>3, <2>1, Zenon
<1>6. CASE LoseContinuity(i)
  <2>1. lease' = [lease EXCEPT ![i].at = "lost"]
    BY <1>6 DEF LoseContinuity
  <2>2. "lost" \in Steps
    BY DEF Steps
  <2>3. \E step \in Steps : lease' = [lease EXCEPT ![i].at = step]
    BY <2>1, <2>2, Zenon
  <2> QED
    BY <1>2, <2>3, Zenon
<1>7. CASE Release(i) \/ Expire(i)
  BY Zenon, <1>3, <1>7 DEF Release, DropPermit, Expire
<1> QED
  BY Zenon, <1>1, <1>4, <1>5, <1>6, <1>7 DEF LeaseStep

(* A reference taken from a published entry, and any reference while the   *)
(* inventory is left alone.                                                *)
LEMMA ThreadKeepsRefs ==
  ASSUME CameraInv, RefsOK, UNCHANGED cameraVars,
         \A j \in Threads : lease'[j].refs \subseteq lease[j].refs
               \/ \E places \in SUBSET Topologies :
                     /\ lease'[j].refs = Refs(places)
                     /\ \A t \in places : active[t] # None /\ t \notin invalid
  PROVE  RefsOK'
<1>0. UNCHANGED <<active, invalid, istate, minted>>
  BY DEF cameraVars, inventory
<1>1. ASSUME NEW j \in Threads, NEW r \in lease'[j].refs
      PROVE  /\ r.place \in Topologies
             /\ Old(r.place, r)
             /\ Valid(r) => r.seen = active[r.place].seen
  <2>1. CASE r \in lease[j].refs
    BY <2>1 DEF RefsOK
  <2>2. CASE \E places \in SUBSET Topologies :
                     /\ lease'[j].refs = Refs(places)
                     /\ \A t \in places : active[t] # None /\ t \notin invalid
    <3>1. PICK t \in Topologies :
             /\ active[t] # None
             /\ r = [place |-> t, id |-> active[t].id, generation |-> active[t].generation,
                     seen |-> active[t].seen, role |-> roles[t]]
      BY <1>1, <2>2 DEF Refs
    <3>2. EntryOK(t)
      BY <3>1 DEF CameraInv, Shape
    <3>3. /\ r.place = t /\ r.id = active[t].id /\ r.generation = active[t].generation
          /\ r.seen = active[t].seen
      BY <3>1
    <3> QED
      BY <3>1, <3>2, <3>3 DEF EntryOK, Old
  <2> QED
    BY <1>1, <2>1, <2>2
<1> QED
  BY <1>0, <1>1 DEF RefsOK, Old, Valid

(* The invariant of the composed system.                                   *)
LeaseInv == CameraInv /\ RefsOK /\ LeaseShape

LEMMA InitLeaseInv == Init => LeaseInv
<1> SUFFICES ASSUME Init
             PROVE  LeaseInv
  OBVIOUS
<1>1. CameraInv
  BY InitCameraInv DEF Init
<1>2. lease = [i \in Threads |-> Idle]
  BY DEF Init, LeaseInit
<1>3. IsLease(Idle) /\ Idle.refs = {}
  BY DEF IsLease, Idle
<1> QED
  BY <1>1, <1>2, <1>3 DEF LeaseInv, RefsOK, LeaseShape

LEMMA LeaseInvKept == LeaseInv /\ [Next]_vars => LeaseInv'
<1> SUFFICES ASSUME LeaseInv, [Next]_vars
             PROVE  LeaseInv'
  OBVIOUS
<1>1. CASE CameraStep /\ Revise
  BY <1>1, CameraStepKeeps, PublicationKeepsRefs DEF LeaseInv
<1>2. ASSUME NEW i \in Threads,
             \/ AcquireOne(i) \/ AcquireSelected(i) \/ AcquireSplit(i)
             \/ LeaseStep(i) \/ Expire(i) \/ LoseContinuity(i)
      PROVE  LeaseInv'
  <2>1. UNCHANGED cameraVars
    BY <1>2, ThreadReads
  <2>2. CameraInv'
    BY <2>1, CameraStutters DEF LeaseInv, CameraInv
  <2>3. LeaseShape' /\ \A j \in Threads : lease'[j].refs \subseteq lease[j].refs
               \/ \E places \in SUBSET Topologies :
                     /\ lease'[j].refs = Refs(places)
                     /\ \A t \in places : active[t] # None /\ t \notin invalid
    BY <1>2, ThreadRefs DEF LeaseInv
  <2>4. RefsOK'
    BY <2>1, <2>3, ThreadKeepsRefs DEF LeaseInv
  <2> QED
    BY <2>2, <2>3, <2>4 DEF LeaseInv
<1>3. CASE UNCHANGED vars
  <2>1. UNCHANGED cameraVars /\ UNCHANGED lease
    BY <1>3 DEF vars, leaseVars
  <2>2. CameraInv'
    BY <2>1, CameraStutters DEF LeaseInv, CameraInv
  <2>3. RefsOK'
    BY <2>1, ThreadKeepsRefs DEF LeaseInv
  <2> QED
    BY <2>1, <2>2, <2>3 DEF LeaseInv, LeaseShape
<1> QED
  BY <1>1, <1>2, <1>3 DEF Next

(* Only a confirmation starts an operation, on references that validate.   *)
LEMMA OnlyConfirmed ==
  ASSUME LeaseShape, [Next]_vars, NEW i \in Threads,
         lease[i].at # "acquired", lease'[i].at = "acquired"
  PROVE  \A r \in lease[i].refs : Valid(r)
<1>1. ASSUME NEW l, NEW step, IsLease(l)
      PROVE  [l EXCEPT !.at = step].at = step /\ (\A y : [l EXCEPT !.same = y].at = l.at)
  BY <1>1 DEF IsLease
<1>2. ASSUME NEW j \in Threads, lease' = NotifyAll([lease EXCEPT ![j] = Idle])
      PROVE  FALSE
  <2>1. PICK l : l = [lease EXCEPT ![j] = Idle][i]
    OBVIOUS
  <2>2. IsLease(l) /\ l.at # "acquired"
    BY Zenon, <2>1 DEF LeaseShape, IsLease, Idle
  <2>3. lease'[i] = l \/ lease'[i] = [l EXCEPT !.at = "awake"]
    BY <1>2, <2>1 DEF NotifyAll
  <2>4. [l EXCEPT !.at = "awake"].at = "awake"
    BY <1>1, <2>2
  <2> QED
    BY Zenon, <2>2, <2>3, <2>4
<1>3. ASSUME NEW j \in Threads, NEW step \in {"awake", "granted", "asleep", "lost"},
             lease' = [lease EXCEPT ![j].at = step]
      PROVE  FALSE
  <2>1. lease'[i] = lease[i] \/ lease'[i] = [lease[i] EXCEPT !.at = step]
    BY <1>3 DEF LeaseShape
  <2>2. IsLease(lease[i])
    BY DEF LeaseShape
  <2>3. [lease[i] EXCEPT !.at = step].at = step
    BY <1>1, <2>2
  <2>4. step # "acquired"
    BY <1>3
  <2> QED
    BY <2>1, <2>3, <2>4, Zenon
<1>4. CASE CameraStep /\ Revise
  <2>1. PICK y : lease'[i] = [lease[i] EXCEPT !.same = y]
    BY Zenon, <1>4 DEF Revise
  <2>2. IsLease(lease[i])
    BY DEF LeaseShape
  <2>3. [lease[i] EXCEPT !.same = y].at = lease[i].at
    BY <1>1, <2>2
  <2> QED
    BY <2>1, <2>3
<1>5. ASSUME NEW j \in Threads, AcquireOne(j) \/ AcquireSelected(j) \/ AcquireSplit(j)
      PROVE  FALSE
  <2>1. PICK places \in SUBSET Topologies, split \in BOOLEAN : Select(j, places, split)
    BY Zenon, <1>5 DEF AcquireOne, AcquireSelected, AcquireSplit
  <2> QED
    BY <2>1 DEF Select, LeaseShape
<1>6. ASSUME NEW j \in Threads, Enqueue(j) \/ Take(j) \/ LoseContinuity(j)
      PROVE  FALSE
  BY <1>3, <1>6 DEF Enqueue, Take, LoseContinuity
<1>7. ASSUME NEW j \in Threads, Release(j) \/ Expire(j)
      PROVE  FALSE
  BY <1>2, <1>7 DEF Release, DropPermit, Expire
<1>8. ASSUME NEW j \in Threads, Confirm(j)
      PROVE  \A r \in lease[i].refs : Valid(r)
  <2>1. CASE lease' = NotifyAll([lease EXCEPT ![j] = Idle])
    BY <1>2, <2>1
  <2>2. CASE lease' = [lease EXCEPT ![j] = Operating(@)] /\ Validates(j)
    <3>1. i = j
      BY <2>2 DEF LeaseShape
    <3> QED
      BY <2>2, <3>1 DEF Validates
  <2> QED
    BY <1>8, <2>1, <2>2 DEF Confirm, DropPermit
<1>9. CASE UNCHANGED vars
  BY <1>9 DEF vars, leaseVars
<1> QED
  BY <1>4, <1>5, <1>6, <1>7, <1>8, <1>9 DEF Next, LeaseStep

(* Threads hold references to generations that were published.             *)
THEOREM LeaseInvariant == Spec => []LeaseInv
BY InitLeaseInv, LeaseInvKept, PTL DEF Spec

(* A stale reference stays stale: an instance's generation only grows and  *)
(* a new instance has an id of its own (reconcile_guarded, validate).      *)
THEOREM StaleReferences == Spec => StaleForGood
<1>1. LeaseInv /\ LeaseInv' /\ [Next]_vars =>
        \A i \in Threads : \A r \in lease[i].refs \cap lease'[i].refs : ~Valid(r) => ~Valid(r)'
  <2> SUFFICES ASSUME LeaseInv, LeaseInv', [Next]_vars,
                      NEW i \in Threads, NEW r \in lease[i].refs, ~Valid(r)
               PROVE  ~Valid(r)'
    BY Zenon
  <2>1. CASE CameraStep
    <3>1. r.place \in Topologies /\ Old(r.place, r)
      BY DEF LeaseInv, RefsOK
    <3>2. PICK s : s = r
      OBVIOUS
    <3>3. Now(s.place, s)' => Now(s.place, s)
      BY <2>1, <3>1, <3>2, OldStays DEF LeaseInv
    <3>4. Shape /\ Shape'
      BY DEF LeaseInv, CameraInv
    <3> QED
      BY <3>1, <3>2, <3>3, <3>4, ValidIsNow DEF Valid, Now, Published, Shape, EntryOK, Visible
  <2>2. CASE UNCHANGED cameraVars
    BY <2>2 DEF cameraVars, inventory, Valid
  <2> QED
    BY <2>1, <2>2, ThreadReads DEF Next, vars
<1> QED
  BY <1>1, LeaseInvariant, PTL DEF Spec, StaleForGood

(* An operation starts on the cameras the thread selected, except where an *)
(* event is still to be read (acquire_bound validates after the wait).     *)
THEOREM SelectedIsHandedOut == Spec => HandedOutIsSelected
<1>1. LeaseInv /\ [Next]_vars =>
        \A i \in Threads : lease[i].at # "acquired" /\ lease'[i].at = "acquired" =>
          \A r \in lease[i].refs : pending[r.place] = "none" => world[r.place] = r.seen
  <2> SUFFICES ASSUME LeaseInv, [Next]_vars, NEW i \in Threads,
                      lease[i].at # "acquired", lease'[i].at = "acquired",
                      NEW r \in lease[i].refs, pending[r.place] = "none"
               PROVE  world[r.place] = r.seen
    OBVIOUS
  <2>1. Valid(r)
    BY OnlyConfirmed DEF LeaseInv
  <2> QED
    BY <2>1 DEF LeaseInv, RefsOK, CameraInv, Truth, Valid
<1> QED
  BY <1>1, LeaseInvariant, PTL DEF Spec, HandedOutIsSelected

-----------------------------------------------------------------------------
(* What a step does to the threads and to their queue.                     *)

Same(j) == lease'[j].at = lease[j].at /\ lease'[j].refs = lease[j].refs
Others(i) == \A j \in Threads \ {i} : Same(j)

\* Nobody moves.
Stays == UNCHANGED waiters /\ \A j \in Threads : Same(j)

\* A thread selects published cameras, ...
Selects(i) ==
  /\ lease[i].at = "idle" /\ lease'[i].at = "selected"
  /\ \E places \in SUBSET Topologies :
        /\ lease'[i].refs = Refs(places)
        /\ \A t \in places : active[t] # None /\ t \notin invalid
  /\ UNCHANGED waiters
  /\ Others(i) /\ UNCHANGED cameraVars

\* ... queues, ...
Queues(i) ==
  /\ lease[i].at = "selected" /\ lease'[i].at = "awake" /\ lease'[i].refs = lease[i].refs
  /\ waiters' = Append(waiters, i)
  /\ Others(i) /\ UNCHANGED cameraVars

\* ... is given its cameras, ...
Granted(i) ==
  /\ lease[i].at = "awake" /\ MayTake(i)
  /\ lease'[i].at = "granted" /\ lease'[i].refs = lease[i].refs
  /\ waiters' = Without(i)
  /\ Others(i) /\ UNCHANGED cameraVars

\* ... or has to sleep, ...
Sleeps(i) ==
  /\ lease[i].at = "awake" /\ ~MayTake(i)
  /\ lease'[i].at = "asleep" /\ lease'[i].refs = lease[i].refs
  /\ UNCHANGED waiters
  /\ Others(i) /\ UNCHANGED cameraVars

\* ... holds them in another way, ...
HoldsOn(i) ==
  /\ i \in Holding /\ lease'[i].at \in {"acquired", "lost"} /\ lease'[i].refs = lease[i].refs
  /\ UNCHANGED waiters
  /\ Others(i) /\ UNCHANGED cameraVars

\* ... and leaves, which wakes everyone who sleeps.
Leaves(i) ==
  /\ \/ Waiting(i) /\ waiters' = Without(i)
     \/ i \in Holding /\ UNCHANGED waiters
  /\ lease'[i].at = "idle" /\ lease'[i].refs = {}
  /\ \A j \in Threads \ {i} :
        /\ lease'[j].refs = lease[j].refs
        /\ lease'[j].at = IF lease[j].at = "asleep" THEN "awake" ELSE lease[j].at
  /\ UNCHANGED cameraVars

LEMMA AllWoken ==
  ASSUME LeaseShape, NEW i \in Threads, lease' = NotifyAll([lease EXCEPT ![i] = Idle])
  PROVE  /\ lease'[i].at = "idle" /\ lease'[i].refs = {}
         /\ \A j \in Threads \ {i} :
              /\ lease'[j].refs = lease[j].refs
              /\ lease'[j].at = IF lease[j].at = "asleep" THEN "awake" ELSE lease[j].at
<1>1. [lease EXCEPT ![i] = Idle][i] = Idle /\ Idle.at = "idle" /\ Idle.refs = {}
  BY DEF LeaseShape, Idle
<1>2. lease'[i] = Idle
  BY <1>1 DEF NotifyAll
<1>3. ASSUME NEW j \in Threads \ {i}
      PROVE  /\ lease'[j].refs = lease[j].refs
             /\ lease'[j].at = IF lease[j].at = "asleep" THEN "awake" ELSE lease[j].at
  <2>1. [lease EXCEPT ![i] = Idle][j] = lease[j]
    BY DEF LeaseShape
  <2>2. lease'[j] = IF lease[j].at = "asleep" THEN [lease[j] EXCEPT !.at = "awake"] ELSE lease[j]
    BY <2>1 DEF NotifyAll
  <2>3. lease[j] = [at |-> lease[j].at, refs |-> lease[j].refs, split |-> lease[j].split, same |-> lease[j].same]
    BY DEF LeaseShape, IsLease
  <2>4. [lease[j] EXCEPT !.at = "awake"].at = "awake" /\ [lease[j] EXCEPT !.at = "awake"].refs = lease[j].refs
    BY <2>3
  <2> QED
    BY Zenon, <2>2, <2>4
<1> QED
  BY Zenon, <1>1, <1>2, <1>3

LEMMA StepSet ==
  ASSUME LeaseShape, NEW i \in Threads, NEW step, lease' = [lease EXCEPT ![i].at = step]
  PROVE  lease'[i].at = step /\ lease'[i].refs = lease[i].refs /\ Others(i)
<1>1. lease'[i] = [lease[i] EXCEPT !.at = step] /\ \A j \in Threads \ {i} : lease'[j] = lease[j]
  BY DEF LeaseShape
<1>2. lease[i] = [at |-> lease[i].at, refs |-> lease[i].refs, split |-> lease[i].split, same |-> lease[i].same]
  BY DEF LeaseShape, IsLease
<1>3. [lease[i] EXCEPT !.at = step].at = step /\ [lease[i] EXCEPT !.at = step].refs = lease[i].refs
  BY <1>2
<1> QED
  BY Zenon, <1>1, <1>3 DEF Others, Same

LEMMA ThreadMoves ==
  ASSUME LeaseShape, [Next]_vars
  PROVE  \/ Stays
         \/ \E i \in Threads : Selects(i) \/ Queues(i) \/ Granted(i) \/ Sleeps(i) \/ HoldsOn(i) \/ Leaves(i)
<1>1. CASE CameraStep /\ Revise
  <2>1. ASSUME NEW j \in Threads PROVE Same(j)
    <3>1. PICK y : lease'[j] = [lease[j] EXCEPT !.same = y]
      BY Zenon, <1>1 DEF Revise
    <3>2. lease[j] = [at |-> lease[j].at, refs |-> lease[j].refs, split |-> lease[j].split, same |-> lease[j].same]
      BY DEF LeaseShape, IsLease
    <3>3. [lease[j] EXCEPT !.same = y].at = lease[j].at /\ [lease[j] EXCEPT !.same = y].refs = lease[j].refs
      BY <3>2
    <3> QED
      BY <3>1, <3>3 DEF Same
  <2> QED
    BY <1>1, <2>1 DEF Stays, Revise
<1>2. ASSUME NEW i \in Threads, AcquireOne(i) \/ AcquireSelected(i) \/ AcquireSplit(i)
      PROVE  Selects(i)
  <2>1. PICK places \in SUBSET Topologies, split \in BOOLEAN : Select(i, places, split)
    BY Zenon, <1>2 DEF AcquireOne, AcquireSelected, AcquireSplit
  <2>2. /\ lease'[i] = [at |-> "selected", refs |-> Refs(places), split |-> split, same |-> split]
        /\ \A j \in Threads \ {i} : lease'[j] = lease[j]
    BY <2>1 DEF Select, LeaseShape
  <2>3. lease'[i].at = "selected" /\ lease'[i].refs = Refs(places)
    BY <2>2
  <2>4. Others(i)
    BY <2>2 DEF Others, Same
  <2> QED
    BY <2>1, <2>3, <2>4 DEF Selects, Select
<1>3. ASSUME NEW i \in Threads, Take(i)
      PROVE  Granted(i) \/ Sleeps(i)
  <2>1. CASE MayTake(i)
    <3>1. lease' = [lease EXCEPT ![i].at = "granted"]
      BY <1>3, <2>1 DEF Take
    <3> QED
      BY Zenon, <1>3, <2>1, <3>1, StepSet DEF Take, Granted
  <2>2. CASE ~MayTake(i)
    <3>1. lease' = [lease EXCEPT ![i].at = "asleep"]
      BY <1>3, <2>2 DEF Take
    <3> QED
      BY Zenon, <1>3, <2>2, <3>1, StepSet DEF Take, Sleeps
  <2> QED
    BY <2>1, <2>2
<1>4. ASSUME NEW i \in Threads, Confirm(i)
      PROVE  HoldsOn(i) \/ Leaves(i)
  <2>0. i \in Holding
    BY <1>4 DEF Confirm, Holding
  <2>1. CASE lease' = [lease EXCEPT ![i] = Operating(@)] /\ UNCHANGED <<cameraVars, waiters>>
    <3>1. lease'[i] = Operating(lease[i]) /\ \A j \in Threads \ {i} : lease'[j] = lease[j]
      BY <2>1 DEF LeaseShape
    <3>2. lease'[i].at = "acquired" /\ lease'[i].refs = lease[i].refs
      BY <3>1 DEF Operating
    <3> QED
      BY <2>0, <2>1, <3>1, <3>2 DEF HoldsOn, Others, Same
  <2>2. CASE DropPermit(i)
    BY Zenon, <2>0, <2>2, AllWoken DEF DropPermit, Leaves
  <2> QED
    BY <1>4, <2>1, <2>2 DEF Confirm
<1>5. ASSUME NEW i \in Threads, Release(i)
      PROVE  Leaves(i)
  <2>1. i \in Holding
    BY <1>5 DEF Release, Holding
  <2> QED
    BY Zenon, <1>5, <2>1, AllWoken DEF Release, DropPermit, Leaves
<1>6. ASSUME NEW i \in Threads, Expire(i)
      PROVE  Leaves(i)
  BY Zenon, <1>6, AllWoken DEF Expire, Leaves, Waiting
<1>7. ASSUME NEW i \in Threads, LoseContinuity(i)
      PROVE  HoldsOn(i)
  <2>1. i \in Holding /\ lease' = [lease EXCEPT ![i].at = "lost"] /\ UNCHANGED <<cameraVars, waiters>>
    BY <1>7 DEF LoseContinuity, Holding
  <2> QED
    BY Zenon, <2>1, StepSet DEF HoldsOn
<1>8. ASSUME NEW i \in Threads, Enqueue(i)
      PROVE  Queues(i)
  BY Zenon, <1>8, StepSet DEF Enqueue, Queues
<1>9. CASE UNCHANGED vars
  BY <1>9 DEF vars, leaseVars, Stays, Same
<1> QED
  BY <1>1, <1>2, <1>3, <1>4, <1>5, <1>6, <1>7, <1>8, <1>9 DEF Next, LeaseStep

-----------------------------------------------------------------------------
(* No waiter is forgotten.                                                 *)

Queued(i) == \E n \in DOMAIN waiters : waiters[n] = i
Once == \A m, n \in DOMAIN waiters : waiters[m] = waiters[n] => m = n

\* j, ahead in the queue, wants one of the cameras of i.
Ahead(j, i) ==
  /\ \E m, n \in DOMAIN waiters : m < n /\ waiters[m] = j /\ waiters[n] = i
  /\ Keys(j) \cap Keys(i) # {}

\* j has one of the cameras of i.
Has(j, i) == j \in Holding \ {i} /\ Keys(j) \cap Keys(i) # {}

QueueInv ==
  /\ waiters \in Seq(Threads) /\ Once
  /\ \A i \in Threads : Waiting(i) <=> Queued(i)
  /\ \A i \in Threads : lease[i].at = "asleep" => \E j \in Threads : Ahead(j, i) \/ Has(j, i)

(* A thread may not take its cameras because of a certain other thread.    *)
LEMMA SomeoneBlocks ==
  ASSUME waiters \in Seq(Threads), NEW i \in Threads
  PROVE  ~MayTake(i) <=> \E j \in Threads : Ahead(j, i) \/ Has(j, i)
BY DEF MayTake, Ahead, Has, Holding

(* The queue without a thread keeps the others, in their order.            *)
LEMMA QueueWithout ==
  ASSUME waiters \in Seq(Threads), Once, NEW i \in Threads, Queued(i), waiters' = Without(i)
  PROVE  /\ waiters' \in Seq(Threads) /\ Once'
         /\ \A j \in Threads : Queued(j)' <=> Queued(j) /\ j # i
         /\ \A j, k \in Threads \ {i} :
              (\E m, n \in DOMAIN waiters : m < n /\ waiters[m] = j /\ waiters[n] = k)
                => \E m, n \in DOMAIN waiters' : m < n /\ waiters'[m] = j /\ waiters'[n] = k
<1> DEFINE N == Len(waiters)
           p == CHOOSE n \in DOMAIN waiters : waiters[n] = i
           f == [m \in 1 .. N - 1 |-> waiters[IF m < p THEN m ELSE m + 1]]
<1>1. p \in 1 .. N /\ waiters[p] = i /\ DOMAIN waiters = 1 .. N /\ N \in Nat /\ N # 0
  BY DEF Queued
<1>2. waiters' = f
  BY DEF Without
<1> HIDE DEF p
<1>3. f \in Seq(Threads) /\ DOMAIN f = 1 .. N - 1
  <2>1. N - 1 \in Nat
    BY <1>1
  <2>2. f \in [1 .. N - 1 -> Threads]
    BY <1>1
  <2> QED
    BY <2>1, <2>2
<1>4. \A m \in 1 .. N - 1 : f[m] = waiters[IF m < p THEN m ELSE m + 1]
  OBVIOUS
<1>5. \A m \in (1 .. N) \ {p} : (IF m < p THEN m ELSE m - 1) \in 1 .. N - 1
                              /\ f[IF m < p THEN m ELSE m - 1] = waiters[m]
  BY <1>1
<1> HIDE DEF f, N
<1>6. Once'
  <2>1. ASSUME NEW m \in 1 .. N - 1, NEW n \in 1 .. N - 1, f[m] = f[n]
        PROVE  m = n
    <3>1. PICK a, b : a = (IF m < p THEN m ELSE m + 1) /\ b = (IF n < p THEN n ELSE n + 1)
      OBVIOUS
    <3>2. a \in 1 .. N /\ b \in 1 .. N /\ waiters[a] = waiters[b]
      BY <1>1, <1>4, <2>1, <3>1
    <3>3. a = b
      BY <1>1, <3>2 DEF Once
    <3> QED
      BY <1>1, <3>1, <3>3
  <2> QED
    BY <1>2, <1>3, <2>1 DEF Once
<1>7. ASSUME NEW j \in Threads
      PROVE  Queued(j)' <=> Queued(j) /\ j # i
  <2>1. ASSUME NEW m \in 1 .. N - 1, f[m] = j
        PROVE  Queued(j) /\ j # i
    <3>1. PICK n \in (1 .. N) \ {p} : waiters[n] = j
      BY <1>1, <1>4, <2>1
    <3> QED
      BY <1>1, <3>1 DEF Once, Queued
  <2>2. ASSUME NEW m \in 1 .. N, waiters[m] = j, j # i
        PROVE  \E n \in 1 .. N - 1 : f[n] = j
    <3>1. m # p
      BY <1>1, <2>2
    <3> QED
      BY <1>5, <2>2, <3>1
  <2> QED
    BY <1>1, <1>2, <1>3, <2>1, <2>2 DEF Queued
<1>8. ASSUME NEW j \in Threads \ {i}, NEW k \in Threads \ {i},
             NEW m \in 1 .. N, NEW n \in 1 .. N, m < n, waiters[m] = j, waiters[n] = k
      PROVE  \E a, b \in 1 .. N - 1 : a < b /\ f[a] = j /\ f[b] = k
  <2>1. m # p /\ n # p
    BY <1>1, <1>8
  <2>2. PICK a, b : a = (IF m < p THEN m ELSE m - 1) /\ b = (IF n < p THEN n ELSE n - 1)
    OBVIOUS
  <2>3. a \in 1 .. N - 1 /\ b \in 1 .. N - 1 /\ f[a] = j /\ f[b] = k
    BY <1>5, <1>8, <2>1, <2>2
  <2>4. a < b
    BY <1>1, <1>8, <2>1, <2>2
  <2> QED
    BY <2>3, <2>4
<1> QED
  BY SMTT(30), <1>1, <1>2, <1>3, <1>6, <1>7, <1>8

LEMMA QueueAppended ==
  ASSUME waiters \in Seq(Threads), Once, NEW i \in Threads, ~Queued(i), waiters' = Append(waiters, i)
  PROVE  /\ waiters' \in Seq(Threads) /\ Once'
         /\ \A j \in Threads : Queued(j)' <=> Queued(j) \/ j = i
         /\ \A j, k \in Threads :
              (\E m, n \in DOMAIN waiters : m < n /\ waiters[m] = j /\ waiters[n] = k)
                => \E m, n \in DOMAIN waiters' : m < n /\ waiters'[m] = j /\ waiters'[n] = k
<1>1. /\ Len(waiters) \in Nat /\ DOMAIN waiters = 1 .. Len(waiters)
      /\ waiters' \in Seq(Threads) /\ DOMAIN waiters' = 1 .. Len(waiters) + 1
      /\ waiters'[Len(waiters) + 1] = i
      /\ \A m \in 1 .. Len(waiters) : waiters'[m] = waiters[m]
  OBVIOUS
<1>2. \A m \in DOMAIN waiters' : m \in DOMAIN waiters \/ m = Len(waiters) + 1
  BY <1>1
<1>3. Once'
  BY <1>1, <1>2 DEF Once, Queued
<1>4. \A j \in Threads : Queued(j)' <=> Queued(j) \/ j = i
  BY <1>1, <1>2 DEF Queued
<1> QED
  BY <1>1, <1>3, <1>4

LEMMA QueueKept ==
  ASSUME QueueInv, LeaseShape, [Next]_vars
  PROVE  QueueInv'
<1> USE DEF QueueInv
<1>1. CASE Stays
  <2>1. \A j \in Threads : Keys(j)' = Keys(j) /\ (j \in Holding' <=> j \in Holding)
    BY <1>1 DEF Stays, Same, Keys, Holding
  <2> QED
    BY <1>1, <2>1 DEF Stays, Same, Waiting, Queued, Once, Ahead, Has
<1>0. ASSUME NEW i \in Threads, Selects(i) PROVE QueueInv'
  <2>1. UNCHANGED waiters /\ ~Queued(i) /\ i \notin Holding
    BY <1>0 DEF Selects, Waiting, Holding
  <2>2. \A j \in Threads : Waiting(j)' <=> Waiting(j)
    BY Zenon, <1>0 DEF Selects, Others, Same, Waiting
  <2>3. \A j \in Threads \ {i} : Keys(j)' = Keys(j) /\ (j \in Holding' <=> j \in Holding)
    BY <1>0 DEF Selects, Others, Same, Keys, Holding
  <2>4. ASSUME NEW k \in Threads, lease'[k].at = "asleep"
        PROVE  \E j \in Threads : Ahead(j, k)' \/ Has(j, k)'
    <3>1. k # i /\ lease[k].at = "asleep"
      BY <1>0, <2>4 DEF Selects, Others, Same
    <3>2. PICK j \in Threads : Ahead(j, k) \/ Has(j, k)
      BY Zenon, <3>1
    <3>3. j # i
      BY <2>1, <3>2 DEF Ahead, Has, Queued
    <3>4. Keys(j)' = Keys(j) /\ Keys(k)' = Keys(k) /\ (j \in Holding' <=> j \in Holding)
      BY Zenon, <2>3, <3>1, <3>3
    <3>5. Ahead(j, k)' \/ Has(j, k)'
      BY Zenon, <2>1, <3>2, <3>4 DEF Ahead, Has
    <3> QED
      BY Zenon, <3>5
  <2>5. waiters' \in Seq(Threads) /\ Once'
    BY Zenon, <2>1 DEF Once
  <2>6. \A j \in Threads : Waiting(j)' <=> Queued(j)'
    BY Zenon, <2>1, <2>2 DEF Queued
  <2> QED
    BY Zenon, <2>4, <2>5, <2>6
<1>2. ASSUME NEW i \in Threads, Queues(i) PROVE QueueInv'
  <2>1. ~Queued(i)
    BY <1>2 DEF Queues, Waiting
  <2>2. /\ waiters' \in Seq(Threads) /\ Once'
        /\ \A j \in Threads : Queued(j)' <=> Queued(j) \/ j = i
        /\ \A j, k \in Threads :
             (\E m, n \in DOMAIN waiters : m < n /\ waiters[m] = j /\ waiters[n] = k)
               => \E m, n \in DOMAIN waiters' : m < n /\ waiters'[m] = j /\ waiters'[n] = k
    BY Zenon, <1>2, <2>1, QueueAppended DEF Queues
  <2>3. \A j \in Threads : Waiting(j)' <=> Queued(j)'
    BY Zenon, <1>2, <2>2 DEF Queues, Others, Same, Waiting
  <2>4. \A j \in Threads \ {i} : Keys(j)' = Keys(j) /\ (j \in Holding' <=> j \in Holding)
    BY <1>2 DEF Queues, Others, Same, Keys, Holding
  <2>5. ASSUME NEW k \in Threads, lease'[k].at = "asleep", NEW j \in Threads, Ahead(j, k) \/ Has(j, k)
        PROVE  Ahead(j, k)' \/ Has(j, k)'
    <3>1. k # i /\ j # i
      BY Zenon, <1>2, <2>1, <2>5 DEF Queues, Others, Same, Ahead, Has, Queued, Holding
    <3>2. Keys(j)' = Keys(j) /\ Keys(k)' = Keys(k) /\ (j \in Holding' <=> j \in Holding)
      BY Zenon, <2>4, <3>1
    <3>3. CASE Ahead(j, k)
      BY Zenon, <2>2, <3>2, <3>3 DEF Ahead
    <3>4. CASE Has(j, k)
      BY Zenon, <3>2, <3>4 DEF Has
    <3> QED
      BY Zenon, <2>5, <3>3, <3>4
  <2>6. ASSUME NEW k \in Threads, lease'[k].at = "asleep"
        PROVE  \E j \in Threads : Ahead(j, k)' \/ Has(j, k)'
    <3>1. lease[k].at = "asleep"
      BY <1>2, <2>6 DEF Queues, Others, Same
    <3>2. PICK j \in Threads : Ahead(j, k) \/ Has(j, k)
      BY Zenon, <3>1
    <3> QED
      BY Zenon, <2>5, <2>6, <3>2
  <2> QED
    BY Zenon, <2>2, <2>3, <2>6
<1>3. ASSUME NEW i \in Threads, Granted(i) PROVE QueueInv'
  <2>1. Queued(i)
    BY Zenon, <1>3 DEF Granted, Waiting
  <2>2. /\ waiters' \in Seq(Threads) /\ Once'
        /\ \A j \in Threads : Queued(j)' <=> Queued(j) /\ j # i
        /\ \A j, k \in Threads \ {i} :
              (\E m, n \in DOMAIN waiters : m < n /\ waiters[m] = j /\ waiters[n] = k)
                => \E m, n \in DOMAIN waiters' : m < n /\ waiters'[m] = j /\ waiters'[n] = k
    BY Zenon, <1>3, <2>1, QueueWithout DEF Granted
  <2>3. \A j \in Threads : Waiting(j)' <=> Queued(j)'
    BY Zenon, <1>3, <2>2 DEF Granted, Others, Same, Waiting
  <2>4. \A j \in Threads : Keys(j)' = Keys(j) /\ (j \in Holding' <=> j \in Holding \/ j = i)
    BY <1>3 DEF Granted, Others, Same, Keys, Holding
  <2>5. ASSUME NEW k \in Threads, lease'[k].at = "asleep", NEW j \in Threads, Ahead(j, k) \/ Has(j, k)
        PROVE  Ahead(j, k)' \/ Has(j, k)'
    <3>1. k # i
      BY Zenon, <1>3, <2>5 DEF Granted
    <3>2. CASE j = i
      BY Zenon, <2>4, <2>5, <3>1, <3>2 DEF Ahead, Has
    <3>3. CASE j # i
      BY Zenon, <2>2, <2>4, <2>5, <3>1, <3>3 DEF Ahead, Has
    <3> QED
      BY Zenon, <3>2, <3>3
  <2>6. ASSUME NEW k \in Threads, lease'[k].at = "asleep"
        PROVE  \E j \in Threads : Ahead(j, k)' \/ Has(j, k)'
    <3>1. lease[k].at = "asleep"
      BY <1>3, <2>6 DEF Granted, Others, Same
    <3>2. PICK j \in Threads : Ahead(j, k) \/ Has(j, k)
      BY Zenon, <3>1
    <3> QED
      BY Zenon, <2>5, <2>6, <3>2
  <2> QED
    BY Zenon, <2>2, <2>3, <2>6
<1>4. ASSUME NEW i \in Threads, Sleeps(i) PROVE QueueInv'
  <2>1. UNCHANGED waiters
    BY Zenon, <1>4 DEF Sleeps
  <2>2. \A j \in Threads : Keys(j)' = Keys(j) /\ (j \in Holding' <=> j \in Holding) /\ (Waiting(j)' <=> Waiting(j))
    BY Zenon, <1>4 DEF Sleeps, Others, Same, Keys, Holding, Waiting
  <2>3. \A j, k \in Threads : Ahead(j, k) \/ Has(j, k) => Ahead(j, k)' \/ Has(j, k)'
    BY <2>1, <2>2 DEF Ahead, Has
  <2>4. \A k \in Threads : lease'[k].at = "asleep" => k = i \/ lease[k].at = "asleep"
    BY Zenon, <1>4 DEF Sleeps, Others, Same
  <2>5. \E j \in Threads : Ahead(j, i) \/ Has(j, i)
    BY <1>4, SomeoneBlocks DEF Sleeps
  <2>6. waiters' \in Seq(Threads) /\ Once'
    BY Zenon, <2>1 DEF Once
  <2>7. \A j \in Threads : Waiting(j)' <=> Queued(j)'
    BY Zenon, <2>1, <2>2 DEF Queued
  <2>8. \A k \in Threads : lease'[k].at = "asleep" => \E j \in Threads : Ahead(j, k) \/ Has(j, k)
    BY Zenon, <2>4, <2>5
  <2>9. \A k \in Threads : lease'[k].at = "asleep" => \E j \in Threads : Ahead(j, k)' \/ Has(j, k)'
    BY Zenon, <2>3, <2>8
  <2> QED
    BY Zenon, <2>6, <2>7, <2>9
<1>5. ASSUME NEW i \in Threads, HoldsOn(i) PROVE QueueInv'
  <2>1. UNCHANGED waiters
    BY <1>5 DEF HoldsOn
  <2>2. \A j \in Threads : /\ Keys(j)' = Keys(j) /\ (j \in Holding' <=> j \in Holding)
                           /\ (Waiting(j)' <=> Waiting(j))
                           /\ (lease'[j].at = "asleep" => lease[j].at = "asleep")
    BY Zenon, <1>5 DEF HoldsOn, Others, Same, Keys, Holding, Waiting
  <2>3. \A j, k \in Threads : Ahead(j, k) \/ Has(j, k) => Ahead(j, k)' \/ Has(j, k)'
    BY Zenon, <2>1, <2>2 DEF Ahead, Has
  <2> QED
    BY Zenon, <2>1, <2>2, <2>3 DEF Once, Queued
<1>6. ASSUME NEW i \in Threads, Leaves(i) PROVE QueueInv'
  <2>1. \A j \in Threads : lease'[j].at # "asleep"
    BY Zenon, <1>6 DEF Leaves
  <2>2. \A j \in Threads : Waiting(j)' <=> Waiting(j) /\ j # i
    BY <1>6 DEF Leaves, Waiting
  <2>3. CASE Waiting(i) /\ waiters' = Without(i)
    <3>1. waiters' \in Seq(Threads) /\ Once' /\ \A j \in Threads : Queued(j)' <=> Queued(j) /\ j # i
      BY Zenon, <2>3, QueueWithout
    <3> QED
      BY Zenon, <2>1, <2>2, <3>1
  <2>4. CASE i \in Holding /\ UNCHANGED waiters
    <3>1. ~Waiting(i)
      BY <2>4 DEF Holding, Waiting
    <3> QED
      BY <2>1, <2>2, <2>4, <3>1 DEF Once, Queued
  <2> QED
    BY Zenon, <1>6, <2>3, <2>4 DEF Leaves
<1> QED
  BY Zenon, <1>0, <1>1, <1>2, <1>3, <1>4, <1>5, <1>6, ThreadMoves

(* The queue is the threads in acquire's loop, each once, and a thread     *)
(* asleep in it is behind another or finds a camera of its own taken:      *)
(* whoever leaves the queue or drops a permit wakes everyone               *)
(* (LeaseAuthority::acquire, AuthorityPermit::drop).                       *)
THEOREM WaitersRemembered == Spec => []NoForgottenWaiter
<1>1. Init => QueueInv
  <2> SUFFICES ASSUME Init PROVE QueueInv
    OBVIOUS
  <2>1. waiters = <<>> /\ \A i \in Threads : lease[i].at = "idle"
    BY DEF Init, LeaseInit, Idle
  <2> QED
    BY <2>1 DEF QueueInv, Once, Queued, Waiting
<1>2. QueueInv /\ LeaseInv /\ [Next]_vars => QueueInv'
  BY QueueKept DEF LeaseInv
<1>3. QueueInv => NoForgottenWaiter
  BY SomeoneBlocks DEF QueueInv, NoForgottenWaiter, Once, Queued
<1> QED
  BY <1>1, <1>2, <1>3, LeaseInvariant, PTL DEF Spec

-----------------------------------------------------------------------------
(* The holders of a camera.  As long as its connection is not reported     *)
(* lost and nothing fails, an incarnation has one instance id: its entry   *)
(* is retired only when it is gone, and what is gone does not come back.   *)

BoundOK ==
  /\ bound.changes \in Nat
  /\ bound = [changes |-> bound.changes, unsteady |-> bound.unsteady, faults |-> bound.faults,
              threads |-> bound.threads, retired |-> bound.retired]

\* An incarnation that may have got a second identity.
Renewed(t, v) == <<t, v>> \in bound.retired

\* An incarnation that there was; the next one is numbered bound.changes + 1.
Used(v) == v \in Nat /\ (v = 1 \/ v > bound.changes + 1)

\* An entry with lost continuity is not of the camera plugged in, or that one
\* may get a second identity.
PlaceOK(t) ==
  /\ world[t] = 0 \/ Used(world[t])
  /\ active[t] # None =>
        /\ Used(active[t].seen)
        /\ pending[t] = "lost" => active[t].seen # world[t] \/ Renewed(t, world[t])

\* The id in a reference is the one of the entry for the same incarnation,
\* and there is such an entry while the incarnation is plugged in.
IdOK(r) ==
  /\ r.place \in Topologies /\ Used(r.seen)
  /\ ~Renewed(r.place, r.seen) =>
        /\ active[r.place] # None /\ active[r.place].seen = r.seen => active[r.place].id = r.id
        /\ r.seen = world[r.place] => active[r.place] # None /\ active[r.place].seen = r.seen

OneId ==
  /\ \A t \in Topologies : PlaceOK(t)
  /\ \A i \in Threads : \A r \in lease[i].refs : IdOK(r)
  /\ \A i, j \in Threads : \A r \in lease[i].refs, s \in lease[j].refs :
        r.place = s.place /\ r.seen = s.seen /\ ~Renewed(r.place, r.seen) => r.id = s.id

KeysApart == \A i, j \in Holding : i # j => Keys(i) \cap Keys(j) = {}

OneHolderInv == BoundOK /\ KeysApart /\ OneId

\* What the inventory's steps do to the places: a camera is changed, ...
Plugs(u) ==
  /\ bound.changes > 0 /\ bound'.changes = bound.changes - 1
  /\ world'[u] \in {0, bound.changes + 1}
  /\ UNCHANGED active /\ bound'.retired = bound.retired
  /\ \A t \in Topologies \ {u} : world'[t] = world[t] /\ pending'[t] = pending[t]

\* ... an event arrives with no change, ...
Touches ==
  /\ bound.changes > 0 /\ bound'.changes = bound.changes - 1
  /\ UNCHANGED <<world, active>> /\ bound.retired \subseteq bound'.retired
  /\ \A t \in Topologies : pending'[t] = "lost" => pending[t] = "lost" \/ Renewed(t, world[t])'

\* ... entries whose continuity is lost are retired, or nothing happens, ...
Retires ==
  /\ UNCHANGED <<world, bound>>
  /\ \A t \in Topologies :
        /\ active'[t] = active[t] \/ (active'[t] = None /\ pending[t] = "lost")
        /\ pending'[t] = "lost" => pending[t] = "lost"

\* ... the monitoring fails, ...
Forgets ==
  /\ UNCHANGED world /\ bound'.changes = bound.changes
  /\ \A t \in Topologies : active'[t] = None
  /\ bound.retired \cup Plugged \subseteq bound'.retired

\* ... or a snapshot is published.
Publishes ==
  /\ UNCHANGED <<world, bound, pending>>
  /\ \A t \in Topologies :
        /\ active'[t] = Reconciled(t) /\ pending[t] = "none"
        /\ snapped[t] = world[t]

LEMMA RescanRetires ==
  ASSUME CameraInv, PrepareRescan, UNCHANGED <<world, bound>>
  PROVE  Retires
<1>1. \A t \in Topologies : pending'[t] = "none"
  BY DEF PrepareRescan, Quiet
<1>2. \A t \in Topologies : active'[t] = active[t] \/ (active'[t] = None /\ pending[t] = "lost")
  BY DEF PrepareRescan
<1> QED
  BY <1>1, <1>2 DEF Retires

LEMMA InventoryMoves ==
  ASSUME CameraInv, BoundOK, CameraStep
  PROVE  BoundOK' /\ (Touches \/ Retires \/ Forgets \/ Publishes \/ \E u \in Topologies : Plugs(u))
<1> USE DEF inventory, thread
<1>0. ASSUME NEW n, NEW m \in Nat, NEW retired,
             bound' = [changes |-> m, unsteady |-> bound.unsteady, faults |-> n,
                       threads |-> bound.threads, retired |-> retired]
      PROVE  BoundOK' /\ bound'.changes = m /\ bound'.retired = retired
  <2>1. /\ bound'.changes = m /\ bound'.faults = n /\ bound'.retired = retired
        /\ bound'.unsteady = bound.unsteady /\ bound'.threads = bound.threads
    BY <1>0
  <2> QED
    BY Zenon, <1>0, <2>1 DEF BoundOK
<1>1. CASE GiveUp \/ Fail
  <2>1. bound' = [bound EXCEPT !.faults = @ - 1, !.retired = @ \cup Plugged]
    BY <1>1 DEF GiveUp, Fail, Fault
  <2>2. bound' = [changes |-> bound.changes, unsteady |-> bound.unsteady, faults |-> bound.faults - 1,
                  threads |-> bound.threads, retired |-> bound.retired \cup Plugged]
    BY Zenon, <2>1 DEF BoundOK
  <2>3. BoundOK' /\ bound'.changes = bound.changes /\ bound'.retired = bound.retired \cup Plugged
    BY <1>0, <2>2 DEF BoundOK
  <2>4. UNCHANGED world /\ \A t \in Topologies : active'[t] = None
    BY <1>1 DEF GiveUp, Fail, FailClosed, Nowhere
  <2> QED
    BY <2>3, <2>4 DEF Forgets
<1>2. ASSUME NEW u \in Topologies, Change(u) \/ Touch(u) \/ Disturb(u)
      PROVE  BoundOK' /\ (Touches \/ Plugs(u))
  <2>1. bound.changes > 0 /\ bound.changes - 1 \in Nat
    BY <1>2 DEF Change, Touch, Disturb, Happens, BoundOK
  <2>2. ASSUME bound' = [bound EXCEPT !.changes = @ - 1]
        PROVE  BoundOK' /\ bound'.changes = bound.changes - 1 /\ bound'.retired = bound.retired
    <3>1. bound' = [changes |-> bound.changes - 1, unsteady |-> bound.unsteady, faults |-> bound.faults,
                    threads |-> bound.threads, retired |-> bound.retired]
      BY <2>2 DEF BoundOK
    <3> QED
      BY <1>0, <2>1, <3>1
  <2>7. CASE Change(u)
    <3>1. UNCHANGED active /\ world'[u] \in {0, bound.changes + 1}
          /\ \A t \in Topologies \ {u} : world'[t] = world[t] /\ pending'[t] = pending[t]
      BY <2>7 DEF Change, Event, CameraInv, Shape
    <3> QED
      BY <2>1, <2>2, <2>7, <3>1 DEF Plugs, Change
  <2>8. CASE Touch(u)
    <3>1. UNCHANGED <<world, active>> /\ \A t \in Topologies : pending'[t] = "lost" => pending[t] = "lost"
      BY <2>8 DEF Touch, Event, CameraInv, Shape
    <3> QED
      BY <2>1, <2>2, <2>8, <3>1 DEF Touches, Touch
  <2>9. CASE Disturb(u)
    <3>1. bound' = [bound EXCEPT !.changes = @ - 1, !.retired = @ \cup {<<u, world[u]>>}]
      BY <2>9 DEF Disturb
    <3>2. bound' = [changes |-> bound.changes - 1, unsteady |-> bound.unsteady, faults |-> bound.faults,
                    threads |-> bound.threads, retired |-> bound.retired \cup {<<u, world[u]>>}]
      BY Zenon, <3>1 DEF BoundOK
    <3>3. BoundOK' /\ bound'.changes = bound.changes - 1 /\ bound'.retired = bound.retired \cup {<<u, world[u]>>}
      BY <1>0, <2>1, <3>2
    <3>4. UNCHANGED <<world, active>> /\ \A t \in Topologies : pending'[t] = "lost" => pending[t] = "lost" \/ t = u
      BY <2>9 DEF Disturb, Event, CameraInv, Shape
    <3> QED
      BY <2>1, <3>3, <3>4 DEF Touches, Renewed
  <2> QED
    BY <1>2, <2>7, <2>8, <2>9
<1>3. CASE ~(GiveUp \/ Fail) /\ ~(\E u \in Topologies : Change(u) \/ Touch(u) \/ Disturb(u))
  <2>0. UNCHANGED <<world, bound>>
    BY Zenon, <1>3 DEF CameraStep, LifecycleStep, Bind, Recover, Wake, Drain, QuietAfter, Publish, Snapshot,
                BeginScan, ReadNode, RecordRoles
  <2>1. UNCHANGED <<active, pending>> => Retires
    BY <2>0 DEF Retires
  <2>2. ASSUME Bind \/ Recover PROVE Retires
    <3>1. UNCHANGED active /\ (UNCHANGED pending \/ pending' = Quiet)
      BY <2>2 DEF Bind, Recover, InvalidateAll
    <3> QED
      BY <2>0, <3>1 DEF Retires, Quiet
  <2>3. PrepareRescan => Retires
    BY <2>0, RescanRetires
  <2>4. ASSUME Publish, pending = Quiet PROVE Publishes
    <3>1. CASE Again
      BY <2>4, <3>1 DEF Again
    <3>2. CASE Reconcile /\ UNCHANGED pending
      <4>1. at = "guard"
        BY <2>4 DEF Publish
      <4>2. \A t \in Topologies : pending[t] = "none"
        BY <2>4 DEF Quiet
      <4>3. \A t \in Topologies : snapped[t] = world[t]
        BY <4>1, <4>2 DEF CameraInv, Shape, Truth
      <4> QED
        BY <2>0, <3>2, <4>2, <4>3 DEF Publishes, Reconcile
    <3> QED
      BY <2>4, <3>1, <3>2 DEF Publish
  <2>5. UNCHANGED <<active, pending>> \/ Bind \/ Recover \/ PrepareRescan \/ (Publish /\ pending = Quiet)
    BY Zenon, <1>3 DEF CameraStep, LifecycleStep, Wake, Drain, QuietAfter, Publish, Snapshot, Again,
                BeginScan, ReadNode, RecordRoles
  <2>6. Retires \/ Publishes
    BY <2>1, <2>2, <2>3, <2>4, <2>5
  <2> QED
    BY <2>0, <2>6 DEF BoundOK
<1> QED
  BY <1>1, <1>2, <1>3

LEMMA PlacesKept ==
  ASSUME CameraInv, BoundOK, BoundOK', \A t \in Topologies : PlaceOK(t),
         Touches \/ Retires \/ Forgets \/ Publishes \/ \E u \in Topologies : Plugs(u)
  PROVE  /\ bound.retired \subseteq bound'.retired
         /\ \A t \in Topologies : PlaceOK(t)'
         /\ \A r : IdOK(r) => IdOK(r)'
<1>0. bound.changes \in Nat /\ bound'.changes \in Nat
  BY Zenon DEF BoundOK
<1>5. bound.retired \subseteq bound'.retired
  BY DEF Touches, Retires, Forgets, Publishes, Plugs
<1>7. \A t, v : Renewed(t, v) => Renewed(t, v)'
  BY <1>5 DEF Renewed
<1>1. ASSUME NEW u \in Topologies, Plugs(u)
      PROVE  (\A t \in Topologies : PlaceOK(t)') /\ (\A r : IdOK(r) => IdOK(r)')
  <2>1. \A v : Used(v) => Used(v)' /\ v # 0 /\ v # world'[u]
    BY SMTT(30), <1>0, <1>1 DEF Plugs, Used
  <2>2. \A w \in {world'[u]} : w = 0 \/ Used(w)'
    BY <1>0, <1>1 DEF Plugs, Used
  <2>4. \A t \in Topologies : PlaceOK(t)'
    <3>1. ASSUME NEW t \in Topologies, t # u PROVE PlaceOK(t)'
      BY Zenon, <1>1, <1>7, <2>1, <3>1 DEF Plugs, PlaceOK
    <3>2. PlaceOK(u)'
      <4>1. world'[u] = 0 \/ Used(world[u])'
        BY Zenon, <2>2
      <4>2. active'[u] # None => Used(active[u].seen)' /\ active'[u].seen # world'[u]
        BY Zenon, <1>1, <2>1 DEF Plugs, PlaceOK
      <4> QED
        BY Zenon, <4>1, <4>2 DEF PlaceOK
    <3> QED
      BY Zenon, <3>1, <3>2
  <2>3. \A r : IdOK(r) => IdOK(r)'
    BY Zenon, <1>1, <1>7, <2>1 DEF Plugs, IdOK
  <2> QED
    BY Zenon, <2>4, <2>3
<1>2. CASE Touches
  <2>1. \A v : Used(v) => Used(v)'
    BY SMTT(30), <1>0, <1>2 DEF Touches, Used
  <2> QED
    BY Zenon, <1>2, <1>7, <2>1 DEF Touches, PlaceOK, IdOK
<1>3. CASE Retires
  <2>1. \A v : Used(v) => Used(v)'
    BY Zenon, <1>3 DEF Retires, Used
  <2> QED
    BY Zenon, <1>3, <1>7, <2>1, NotNone DEF Retires, PlaceOK, IdOK, Renewed
<1>4. CASE Publishes
  <2>1. \A v : Used(v) => Used(v)' /\ v # 0
    BY <1>0, <1>4 DEF Publishes, Used
  <2>2. \A t \in Topologies :
          /\ active[t] # None => active[t].seen = world[t]
          /\ active'[t] # None => active'[t].seen = world[t] /\ world[t] # 0
          /\ active[t] # None /\ world[t] # 0 => active'[t] # None /\ active'[t].id = active[t].id
    <3> SUFFICES ASSUME NEW t \in Topologies
                 PROVE  /\ active[t] # None => active[t].seen = world[t]
                        /\ active'[t] # None => active'[t].seen = world[t] /\ world[t] # 0
                        /\ active[t] # None /\ world[t] # 0 => active'[t] # None /\ active'[t].id = active[t].id
      OBVIOUS
    <3>1. pending[t] # "lost" /\ active'[t] = Reconciled(t) /\ snapped[t] = world[t]
      BY Zenon, <1>4 DEF Publishes
    <3>2. active[t] # None => active[t].seen = world[t]
      BY <3>1 DEF CameraInv, Truth
    <3>3. ASSUME NEW entry, NEW a, NEW g, entry = [id |-> a, generation |-> g, seen |-> world[t]]
          PROVE  entry # None /\ entry.seen = world[t] /\ entry.id = a
      <4>1. entry # None
        BY Zenon, <3>3, NotNone
      <4>2. entry.seen = world[t] /\ entry.id = a
        BY <3>3
      <4> QED
        BY Zenon, <4>1, <4>2
    <3>4. CASE snapped[t] = 0
      BY Zenon, <3>1, <3>2, <3>4 DEF Reconciled
    <3>5. CASE snapped[t] # 0 /\ active[t] = None
      <4>1. PICK a, g : active'[t] = [id |-> a, generation |-> g, seen |-> world[t]]
        BY Zenon, <3>1, <3>5 DEF Reconciled
      <4>2. active'[t] # None /\ active'[t].seen = world[t] /\ active'[t].id = a
        BY Zenon, <3>3, <4>1
      <4> QED
        BY Zenon, <3>1, <3>5, <4>2
    <3>6. CASE snapped[t] # 0 /\ active[t] # None /\ t \in invalid
      <4>1. active'[t] = [id |-> active[t].id, generation |-> active[t].generation + 1, seen |-> world[t]]
        BY Zenon, <3>1, <3>6 DEF Reconciled
      <4>2. active'[t] # None /\ active'[t].seen = world[t] /\ active'[t].id = active[t].id
        BY Zenon, <3>3, <4>1
      <4> QED
        BY Zenon, <3>1, <3>2, <3>6, <4>2
    <3>7. CASE snapped[t] # 0 /\ active[t] # None /\ t \notin invalid
      <4>1. active'[t] = active[t]
        BY Zenon, <3>1, <3>7 DEF Reconciled
      <4> QED
        BY Zenon, <3>1, <3>2, <3>7, <4>1
    <3> QED
      BY Zenon, <3>4, <3>5, <3>6, <3>7
  <2>3. \A t \in Topologies : PlaceOK(t)'
    BY Zenon, <1>4, <2>1, <2>2 DEF Publishes, PlaceOK
  <2>4. \A r : IdOK(r) => IdOK(r)'
    BY Zenon, <1>4, <1>7, <2>1, <2>2 DEF Publishes, IdOK
  <2> QED
    BY Zenon, <1>5, <2>3, <2>4
<1>6. CASE Forgets
  <2>1. \A v : Used(v) => Used(v)'
    BY Zenon, <1>6 DEF Forgets, Used
  <2>2. \A t \in Topologies : PlaceOK(t)'
    BY <1>6, <2>1 DEF Forgets, PlaceOK
  <2>3. \A t \in Topologies : Renewed(t, world[t])'
    BY Zenon, <1>6 DEF Forgets, Plugged, Renewed
  <2>4. \A r : IdOK(r) => IdOK(r)'
    BY Zenon, <1>6, <2>1, <2>3 DEF Forgets, IdOK
  <2> QED
    BY Zenon, <1>5, <2>2, <2>4
<1> QED
  BY Zenon, <1>1, <1>2, <1>3, <1>4, <1>5, <1>6

(* Threads that keep the references they have keep them right.             *)
LEMMA ReferencesKept ==
  ASSUME OneId, \A j \in Threads : lease'[j].refs \subseteq lease[j].refs,
         bound.retired \subseteq bound'.retired,
         \A t \in Topologies : PlaceOK(t)', \A r : IdOK(r) => IdOK(r)'
  PROVE  OneId'
<1>1. \A i \in Threads : \A r \in lease'[i].refs : IdOK(r)'
  BY Zenon DEF OneId
<1>2. \A i, j \in Threads : \A r \in lease'[i].refs, s \in lease'[j].refs :
        r.place = s.place /\ r.seen = s.seen /\ <<r.place, r.seen>> \notin bound'.retired => r.id = s.id
  <2> SUFFICES ASSUME NEW i \in Threads, NEW j \in Threads,
                      NEW r \in lease'[i].refs, NEW s \in lease'[j].refs,
                      r.place = s.place, r.seen = s.seen, <<r.place, r.seen>> \notin bound'.retired
               PROVE  r.id = s.id
    OBVIOUS
  <2>1. r \in lease[i].refs /\ s \in lease[j].refs
    BY Zenon
  <2>2. ~Renewed(r.place, r.seen)
    BY Zenon DEF Renewed
  <2> QED
    BY Zenon, <2>1, <2>2 DEF OneId
<1> QED
  BY Zenon, <1>1, <1>2 DEF OneId, Renewed

LEMMA PlacesStutter ==
  ASSUME UNCHANGED cameraVars
  PROVE  /\ BoundOK' <=> BoundOK
         /\ \A t, v : Renewed(t, v)' <=> Renewed(t, v)
         /\ \A t \in Topologies : PlaceOK(t)' <=> PlaceOK(t)
         /\ \A r : IdOK(r) <=> IdOK(r)'
BY DEF cameraVars, inventory, BoundOK, PlaceOK, IdOK, Used, Renewed

(* A reference taken from an entry has its id and its incarnation.         *)
LEMMA TakenFromEntry ==
  ASSUME OneId, NEW places \in SUBSET Topologies, \A t \in places : active[t] # None,
         NEW r \in Refs(places)
  PROVE  /\ IdOK(r)
         /\ \A s : IdOK(s) /\ r.place = s.place /\ r.seen = s.seen /\ ~Renewed(r.place, r.seen) => r.id = s.id
         /\ \A s \in Refs(places) : r.place = s.place => r.id = s.id
<1>1. ASSUME NEW s \in Refs(places)
      PROVE  s.place \in places /\ s.id = active[s.place].id /\ s.seen = active[s.place].seen
  <2>1. PICK t \in places : s = [place |-> t, id |-> active[t].id, generation |-> active[t].generation,
                                 seen |-> active[t].seen, role |-> roles[t]]
    BY Zenon, <1>1 DEF Refs
  <2>2. s.place = t /\ s.id = active[t].id /\ s.seen = active[t].seen
    BY <2>1
  <2> QED
    BY <2>2
<1>2. r.place \in places /\ r.id = active[r.place].id /\ r.seen = active[r.place].seen
  BY <1>1
<1>3. PlaceOK(r.place)
  BY Zenon, <1>2 DEF OneId
<1>4. IdOK(r)
  BY <1>2, <1>3 DEF IdOK, PlaceOK
<1>5. \A s : IdOK(s) /\ r.place = s.place /\ r.seen = s.seen /\ ~Renewed(r.place, r.seen) => r.id = s.id
  BY <1>2 DEF IdOK
<1>6. \A s \in Refs(places) : r.place = s.place => r.id = s.id
  BY Zenon, <1>1, <1>2
<1> QED
  BY <1>4, <1>5, <1>6

LEMMA SelectionKept ==
  ASSUME OneId, NEW i \in Threads, Selects(i)
  PROVE  OneId'
<1>1. PICK places \in SUBSET Topologies :
         /\ lease'[i].refs = Refs(places)
         /\ \A t \in places : active[t] # None /\ t \notin invalid
  BY SMTT(20) DEF Selects
<1>2. \A j \in Threads \ {i} : lease'[j].refs = lease[j].refs
  BY Zenon DEF Selects, Others, Same
<1>3. /\ \A t, v : Renewed(t, v)' <=> Renewed(t, v)
      /\ \A t \in Topologies : PlaceOK(t)' <=> PlaceOK(t)
      /\ \A r : IdOK(r) <=> IdOK(r)'
  BY Zenon, PlacesStutter DEF Selects
<1>4. \A j \in Threads : \A r \in lease'[j].refs : IdOK(r) /\ (r \in Refs(places) \/ (j # i /\ r \in lease[j].refs))
  BY SMTT(20), <1>1, <1>2, TakenFromEntry DEF OneId
<1>5. \A j, k \in Threads : \A r \in lease'[j].refs, s \in lease'[k].refs :
        r.place = s.place /\ r.seen = s.seen /\ <<r.place, r.seen>> \notin bound'.retired => r.id = s.id
  <2> SUFFICES ASSUME NEW j \in Threads, NEW k \in Threads,
                      NEW r \in lease'[j].refs, NEW s \in lease'[k].refs,
                      r.place = s.place, r.seen = s.seen, <<r.place, r.seen>> \notin bound'.retired
               PROVE  r.id = s.id
    BY SMTT(20)
  <2>1. ~Renewed(r.place, r.seen) /\ ~Renewed(s.place, s.seen)
    BY Zenon, <1>3 DEF Renewed
  <2>2. CASE r \in Refs(places)
    BY SMTT(20), <1>1, <1>4, <2>1, <2>2, TakenFromEntry
  <2>3. CASE s \in Refs(places)
    BY <1>1, <1>4, <2>1, <2>3, TakenFromEntry
  <2>4. CASE r \in lease[j].refs /\ s \in lease[k].refs
    BY <2>1, <2>4 DEF OneId
  <2> QED
    BY Zenon, <1>4, <2>2, <2>3, <2>4
<1>6. \A j \in Threads : \A r \in lease'[j].refs : IdOK(r)'
  BY Zenon, <1>3, <1>4
<1>7. \A t \in Topologies : PlaceOK(t)'
  BY Zenon, <1>3 DEF OneId
<1> QED
  BY Zenon, <1>5, <1>6, <1>7 DEF OneId, Renewed

LEMMA KeysKeptApart ==
  ASSUME KeysApart, LeaseShape, [Next]_vars
  PROVE  KeysApart'
<1>1. CASE Stays
  <2>1. \A j \in Threads : Keys(j)' = Keys(j) /\ (j \in Holding' <=> j \in Holding)
    BY <1>1 DEF Stays, Same, Keys, Holding
  <2> QED
    BY <2>1 DEF KeysApart, Holding
<1>2. ASSUME NEW i \in Threads, Selects(i) \/ Queues(i) \/ Sleeps(i) \/ HoldsOn(i) \/ Leaves(i)
      PROVE  KeysApart'
  <2>1. \A j \in Threads : j \in Holding' => j \in Holding /\ Keys(j)' = Keys(j)
    BY Zenon, <1>2 DEF Selects, Queues, Sleeps, HoldsOn, Leaves, Others, Same, Keys, Holding
  <2> QED
    BY <2>1 DEF KeysApart, Holding
<1>3. ASSUME NEW i \in Threads, Granted(i)
      PROVE  KeysApart'
  <2>1. \A j \in Threads : Keys(j)' = Keys(j) /\ (j \in Holding' => j \in Holding \/ j = i)
    BY <1>3 DEF Granted, Others, Same, Keys, Holding
  <2>2. \A j \in Holding \ {i} : Keys(j) \cap Keys(i) = {}
    BY Zenon, <1>3 DEF Granted, MayTake
  <2>3. ASSUME NEW j \in Holding', NEW k \in Holding', j # k
        PROVE  Keys(j) \cap Keys(k) = {}
    <3>1. j \in Threads /\ k \in Threads
      BY <2>3 DEF Holding
    <3> QED
      BY <2>1, <2>2, <2>3, <3>1 DEF KeysApart
  <2>4. \A j \in Holding' : j \in Threads
    BY DEF Holding
  <2> QED
    BY <2>1, <2>3, <2>4 DEF KeysApart
<1> QED
  BY Zenon, <1>1, <1>2, <1>3, ThreadMoves

LEMMA OneHolderKept ==
  ASSUME OneHolderInv, LeaseInv, [Next]_vars
  PROVE  OneHolderInv'
<1>0. LeaseShape /\ CameraInv
  BY DEF LeaseInv
<1>1. KeysApart'
  BY <1>0, KeysKeptApart DEF OneHolderInv
<1>2. CASE CameraStep /\ Revise
  <2>1. \A j \in Threads : lease'[j].refs = lease[j].refs
    BY Zenon, <1>0, <1>2, LeaseExcept DEF Revise, LeaseShape
  <2>2. BoundOK' /\ (Touches \/ Retires \/ Forgets \/ Publishes \/ \E u \in Topologies : Plugs(u))
    BY Zenon, <1>0, <1>2, InventoryMoves DEF OneHolderInv
  <2>3. /\ bound.retired \subseteq bound'.retired
        /\ \A t \in Topologies : PlaceOK(t)'
        /\ \A r : IdOK(r) => IdOK(r)'
    BY <1>0, <2>2, PlacesKept DEF OneHolderInv, OneId
  <2>4. OneId'
    BY <2>1, <2>3, ReferencesKept DEF OneHolderInv
  <2> QED
    BY <1>1, <2>2, <2>4 DEF OneHolderInv
<1>3. CASE UNCHANGED cameraVars
  <2>1. BoundOK' /\ OneId
    BY <1>3, PlacesStutter DEF OneHolderInv
  <2>2. CASE \E i \in Threads : Selects(i)
    BY Zenon, <1>1, <2>1, <2>2, SelectionKept DEF OneHolderInv
  <2>3. CASE \A j \in Threads : lease'[j].refs \subseteq lease[j].refs
    <3>1. /\ bound.retired \subseteq bound'.retired
          /\ \A t \in Topologies : PlaceOK(t)'
          /\ \A r : IdOK(r) => IdOK(r)'
      BY Zenon, <1>3, <2>1, PlacesStutter DEF OneId, cameraVars
    <3> QED
      BY Zenon, <1>1, <2>1, <2>3, <3>1, ReferencesKept DEF OneHolderInv
  <2>4. \/ \E i \in Threads : Selects(i)
        \/ \A j \in Threads : lease'[j].refs \subseteq lease[j].refs
    BY Zenon, <1>0, ThreadMoves DEF Stays, Queues, Granted, Sleeps, HoldsOn, Leaves, Others, Same
  <2> QED
    BY <2>2, <2>3, <2>4
<1> QED
  BY <1>2, <1>3, ThreadReads DEF Next, vars

(* Of two permits for one place at most one validates, whatever happened   *)
(* to the camera; and two are of the same camera only when its connection  *)
(* was reported lost or the monitoring failed while it was plugged in: the *)
(* authority keeps the holders' instance ids apart, and otherwise a camera *)
(* keeps its id (LeaseAuthority::acquire, prepare_rescan,                  *)
(* reconcile_guarded).                                                     *)
THEOREM OneHolder == Spec => []ExclusiveCamera
<1>1. Init => OneHolderInv
  <2> SUFFICES ASSUME Init PROVE OneHolderInv
    OBVIOUS
  <2>1. BoundOK
    BY LeaseConstants DEF Init, CameraInit, BoundOK
  <2>2. \A i \in Threads : lease[i].at = "idle" /\ lease[i].refs = {}
    BY DEF Init, LeaseInit, Idle
  <2>3. KeysApart
    BY <2>2 DEF KeysApart, Holding
  <2>4. \A t \in Topologies : PlaceOK(t)
    BY Zenon DEF Init, CameraInit, PlaceOK, Used, Nowhere
  <2>5. OneId
    BY <2>2, <2>4 DEF OneId
  <2> QED
    BY <2>1, <2>3, <2>5 DEF OneHolderInv
<1>2. OneHolderInv /\ LeaseInv /\ [Next]_vars => OneHolderInv'
  BY OneHolderKept
<1>3. OneHolderInv => ExclusiveCamera
  <2> SUFFICES ASSUME OneHolderInv, NEW i \in Holding, NEW j \in Holding, i # j,
                      NEW r \in lease[i].refs, NEW s \in lease[j].refs, r.place = s.place
               PROVE  /\ ~(Valid(r) /\ Valid(s))
                      /\ r.seen = s.seen => Renewed(r.place, r.seen)
    BY DEF ExclusiveCamera, Renewed
  <2>1. i \in Threads /\ j \in Threads
    BY DEF Holding
  <2>2. r.id # s.id
    <3>1. r.id \in Keys(i) /\ s.id \in Keys(j)
      BY DEF Keys
    <3> QED
      BY <3>1 DEF OneHolderInv, KeysApart
  <2>3. ASSUME Valid(r), Valid(s) PROVE FALSE
    BY <2>2, <2>3 DEF Valid
  <2>4. r.seen = s.seen => Renewed(r.place, r.seen)
    BY <2>1, <2>2 DEF OneHolderInv, OneId
  <2> QED
    BY <2>3, <2>4
<1> QED
  BY <1>1, <1>2, <1>3, LeaseInvariant, PTL DEF Spec
=============================================================================
