---------------------------- MODULE AccountFiles ----------------------------
(***************************************************************************)
(* The files irlume keeps for one account name, and the operations that    *)
(* write them: the enrollment ("profile"), its sealed template key, the    *)
(* key's recovery envelope, the added-camera store with its commit         *)
(* journal, and the record an enrollment write keeps while it replaces     *)
(* the enrollment of another uid.                                          *)
(*                                                                         *)
(* now is what the programs see, disk what a power loss leaves.  A change  *)
(* decides when it is made whether it reaches the disk; a sync of its      *)
(* directory that succeeds forces every change made there.  The engine's   *)
(* worker runs one operation at a time, so there is one program counter;   *)
(* a step may fail, and the program may stop between any two steps.        *)
(***************************************************************************)
EXTENDS Naturals

CONSTANTS
    Old, New,       \* the uids the account's name resolves to, one after the other
    MaxKeys,        \* bound: keys that files name at a time
    MaxProfiles,    \* bound: enrollments that files name at a time
    MaxGeneration,  \* bound: generations of the added-camera store
    MaxFaults       \* bound: failed steps, stops and power losses

ASSUME AccountAssumption == Old # New /\ {MaxKeys, MaxProfiles, MaxGeneration, MaxFaults} \subseteq Nat

VARIABLES
    now,      \* the files as the programs see them
    disk,     \* the files as a power loss would leave them
    faults,   \* how many things went wrong
    tpm,      \* whether the host has a TPM (it keeps it)
    owner,    \* the uid the name resolves to
    pc,       \* the step the worker is at
    op,       \* the operation that took the account's state lock
    next,     \* the store an added-camera write is publishing
    intact,   \* history: the enrollment and its key were on disk together
    committed, \* history: the added-camera store that was last committed
    deleted   \* history: a deletion took the enrollment

files == <<now, disk, faults>>
world == <<tpm, owner>>
history == <<intact, committed, deleted>>
vars == <<files, world, pc, op, next, history>>

-----------------------------------------------------------------------------
(* Files.                                                                  *)

None == [absent |-> TRUE]

Directory ==
    [key |-> "keys", record |-> "keys", profile |-> "profiles",
     recovery |-> "recovery", store |-> "cameras", journal |-> "cameras"]

Files == DOMAIN Directory

Empty == [f \in Files |-> None]

\* The write or removal of f is done and its directory synced.
Durable(f, content) ==
    /\ now' = [now EXCEPT ![f] = content]
    /\ disk' = [g \in Files |-> IF Directory[g] = Directory[f] THEN now'[g] ELSE disk[g]]
    /\ UNCHANGED faults

\* It is done, and may or may not survive a power loss.
Visible(f, content) ==
    /\ now' = [now EXCEPT ![f] = content]
    /\ disk' \in {disk, [disk EXCEPT ![f] = content]}

Nothing == UNCHANGED <<now, disk>>

Fault == faults < MaxFaults /\ faults' = faults + 1

\* A step that reports success only when it is durable: on to step ok, or, with
\* the change made or not, to step failed.
Step(f, content, ok, failed) ==
    \/ Durable(f, content) /\ pc' = ok
    \/ Fault /\ (Visible(f, content) \/ Nothing) /\ pc' = failed

\* An operation that ends leaves nothing behind in the worker.
Onward ==
    /\ op' = IF pc' = "idle" THEN "none" ELSE op
    /\ next' = IF pc' = "idle" THEN None ELSE next

-----------------------------------------------------------------------------
(* What the files say.  d is either now or disk.                           *)

Present(c) == c # None

Opens(key, profile) == Present(key) /\ Present(profile) /\ profile.key = key.id

\* The enrollment in d as a load for the account sees it: another uid's
\* enrollment, or one under another uid's key, reads as absent.
Enrolled(d) ==
    /\ Present(d.profile) /\ d.profile.uid = owner
    /\ tpm => Opens(d.key, d.profile) /\ d.key.uid = owner

\* Whether a write of the enrollment replaces another account's.
ReplacesOther(d) ==
    IF tpm THEN /\ Present(d.key)
                /\ \/ d.key.uid # owner
                   \/ Opens(d.key, d.profile) /\ d.profile.uid # owner
           ELSE Present(d.profile) /\ d.profile.uid # owner

\* The added-camera store can be read with the account's key.
Readable(d) == tpm => (Present(d.key) /\ d.key.uid = owner /\ d.store.key = d.key.id)

\* The store's groups are bound to the bytes of the enrollment.
Active(d) == Present(d.profile) /\ d.store.for = d.profile.id

\* Identifiers some file still names.
KeyIds ==
    (UNION {{IF Present(d.key) THEN d.key.id ELSE 0} \cup
            {IF Present(d[f]) THEN d[f].key ELSE 0 : f \in {"profile", "recovery", "store", "journal"}}
            : d \in {now, disk}})
    \cup {IF Present(r) /\ Present(r.key) THEN r.key.id ELSE 0 : r \in {now.record, disk.record}}

ProfileIds ==
    (UNION {{IF Present(d.profile) THEN d.profile.id ELSE 0} \cup
            {IF Present(d[f]) THEN d[f].for ELSE 0 : f \in {"store", "journal"}}
            : d \in {now, disk}})
    \cup {IF Present(r) /\ Present(r.profile) THEN r.profile.id ELSE 0 : r \in {now.record, disk.record}}

\* A fresh identifier: the least that no file names.
Fresh(max, used) == {i \in (1..max) \ used : \A j \in (1..max) \ used : i <= j}

-----------------------------------------------------------------------------
AccountInit ==
    /\ now = Empty /\ disk = Empty /\ faults = 0
    /\ tpm \in BOOLEAN /\ owner = Old
    /\ pc = "idle" /\ op = "none" /\ next = None
    /\ intact = TRUE /\ committed = None /\ deleted = FALSE

\* The name comes to mean another account.
Renumber ==
    /\ pc = "idle" /\ owner = Old
    /\ owner' = New
    /\ UNCHANGED <<files, tpm, pc, op, next, committed, deleted>>

\* While the stored enrollment is the recorded one the replacement published
\* nothing that stayed, and is undone; otherwise it is finished.
Undoing(d) == d.profile = d.record.profile

\* An operation takes the account's state lock, which first settles a
\* replacement that a write left unfinished.
Acquire(operation) ==
    /\ op' = operation
    /\ pc' = IF ~Present(now.record) THEN operation
             ELSE IF Undoing(now) THEN "putback" ELSE "syncprofile"

Request(operation) ==
    /\ pc = "idle"
    /\ operation = "save" => {} \notin {Fresh(MaxKeys, KeyIds), Fresh(MaxProfiles, ProfileIds)}
    /\ Acquire(operation)
    /\ UNCHANGED <<files, world, next, committed, deleted>>

\* A failed step refuses the operation, but a load goes on over a finish
\* that fails.
SettleFailed == IF op = "load" /\ ~Undoing(now) THEN "load" ELSE "idle"

\* Undoing: the replaced key is put back, if one was replaced.
PutBack ==
    /\ pc = "putback"
    /\ IF Present(now.record.key)
       THEN Step("key", now.record.key, "end", SettleFailed)
       ELSE UNCHANGED files /\ pc' = "end"
    /\ Onward /\ UNCHANGED <<world, committed, deleted>>

\* Faulty variant: the enrollment is taken to be durable already.
SyncProfileSkipped ==
    /\ pc = "syncprofile"
    /\ pc' = "droprecovery"
    /\ Onward /\ UNCHANGED <<files, world, committed, deleted>>

\* Finishing: the new enrollment is synced before anything of the old goes.
SyncProfile ==
    /\ pc = "syncprofile"
    /\ Step("profile", now.profile, "droprecovery", SettleFailed)
    /\ Onward /\ UNCHANGED <<world, committed, deleted>>

\* A file goes while it is as recorded; its directory is synced anyway.
RemoveIfRecorded(f, ok) ==
    Step(f, IF now[f] = now.record[f] THEN None ELSE now[f], ok, SettleFailed)

DropRecovery ==
    /\ pc = "droprecovery"
    /\ RemoveIfRecorded("recovery", "dropjournal")
    /\ Onward /\ UNCHANGED <<world, committed, deleted>>

\* The journal before the store: it can publish a store on its own.
DropJournal ==
    /\ pc = "dropjournal"
    /\ RemoveIfRecorded("journal", "dropstore")
    /\ committed' = None
    /\ Onward /\ UNCHANGED <<world, deleted>>

DropStore ==
    /\ pc = "dropstore"
    /\ RemoveIfRecorded("store", "end")
    /\ Onward /\ UNCHANGED <<world, committed, deleted>>

\* The record goes, and the operation that took the lock begins.
End ==
    /\ pc = "end"
    /\ Step("record", None, op, SettleFailed)
    /\ Onward /\ UNCHANGED <<world, committed, deleted>>

-----------------------------------------------------------------------------
(* An enrollment write.                                                    *)

\* An enrollment that is encrypted under a key that is gone is not replaced.
Save ==
    /\ pc = "save"
    /\ pc' = IF ReplacesOther(now) THEN "begin"
             ELSE IF ~tpm \/ Present(now.key) THEN "publish"
             ELSE IF Present(now.profile) THEN "idle" ELSE "seal"
    /\ op' = IF pc' = "idle" THEN "none" ELSE "idle"
    /\ UNCHANGED <<files, world, next, committed, deleted>>

Record ==
    [key |-> IF tpm THEN now.key ELSE None, profile |-> now.profile,
     recovery |-> IF tpm THEN now.recovery ELSE None,
     store |-> now.store, journal |-> now.journal]

\* Faulty variant: a record that is visible is enough.
BeginVisible ==
    /\ pc = "begin"
    /\ \/ Visible("record", Record) /\ UNCHANGED faults /\ pc' = IF tpm THEN "seal" ELSE "publish"
       \/ Fault /\ Nothing /\ pc' = "idle"
    /\ Onward /\ UNCHANGED <<world, committed, deleted>>

\* A record that is not durable is taken back, without a sync, and nothing is
\* replaced; taking it back may fail too.
Begin ==
    /\ pc = "begin"
    /\ \/ Durable("record", Record) /\ pc' = IF tpm THEN "seal" ELSE "publish"
       \/ /\ Fault
          /\ \E seen, kept \in {None, Record} :
               /\ now' = [now EXCEPT !.record = seen]
               /\ disk' = [disk EXCEPT !.record = kept]
          /\ pc' = "idle"
       \/ Fault /\ Nothing /\ pc' = "idle"
    /\ Onward /\ UNCHANGED <<world, committed, deleted>>

\* A new key; when a key was replaced, a seal that fails puts it back.
Seal ==
    /\ pc = "seal"
    /\ \E id \in Fresh(MaxKeys, KeyIds) :
          Step("key", [uid |-> owner, id |-> id], "publish",
               IF Present(now.record) THEN "putback" ELSE "idle")
    /\ Onward /\ UNCHANGED <<world, committed, deleted>>

\* The enrollment is published.  Durable, a replacement is finished; not
\* published, it is undone; in between, its record stays.
Publish ==
    /\ pc = "publish"
    /\ \E id \in Fresh(MaxProfiles, ProfileIds) :
          LET profile == [uid |-> owner, id |-> id, key |-> IF tpm THEN now.key.id ELSE 0]
          IN \/ Durable("profile", profile) /\ pc' = IF Present(now.record) THEN "syncprofile" ELSE "idle"
             \/ Fault /\ Visible("profile", profile) /\ pc' = "idle"
             \/ Fault /\ Nothing /\ pc' = IF Present(now.record) THEN "putback" ELSE "idle"
    /\ deleted' = (deleted /\ ~Present(now'.profile))
    /\ Onward /\ UNCHANGED <<world, committed>>

-----------------------------------------------------------------------------
(* Loads, the recovery envelope, and the added-camera store.               *)

\* A load of an enrolled account goes on to complete a publication that a
\* leftover journal authorized.
Load ==
    /\ pc = "load"
    /\ pc' = IF Enrolled(now) /\ Present(now.journal) THEN "resolve" ELSE "idle"
    /\ Onward /\ UNCHANGED <<files, world, committed, deleted>>

Resolve ==
    /\ pc = "resolve"
    /\ Step("store", now.journal, "unjournal", "idle")
    /\ committed' = IF pc' = "unjournal" THEN now.journal ELSE committed
    /\ Onward /\ UNCHANGED <<world, deleted>>

SetupRecovery ==
    /\ pc = "recovery"
    /\ IF tpm /\ Present(now.key) /\ ~ReplacesOther(now)
       THEN Step("recovery", [uid |-> owner, key |-> now.key.id], "idle", "idle")
       ELSE UNCHANGED files /\ pc' = "idle"
    /\ Onward /\ UNCHANGED <<world, committed, deleted>>

\* Adding a group rebinds the whole store to the enrollment, so it is refused
\* while other groups are inactive.
Add ==
    /\ pc = "add"
    /\ LET fresh == ~Present(now.store)
           generation == IF fresh THEN 0 ELSE now.store.generation
           groups == IF fresh THEN 0 ELSE now.store.groups
       IN IF /\ Enrolled(now) /\ generation < MaxGeneration
             /\ fresh \/ Readable(now)
             /\ groups = 0 \/ Active(now)
          THEN /\ pc' = "journal"
               /\ next' = [uid |-> owner, generation |-> generation + 1, groups |-> groups + 1,
                           for |-> now.profile.id, key |-> now.profile.key]
          ELSE pc' = "idle" /\ next' = None
    /\ op' = IF pc' = "idle" THEN "none" ELSE op
    /\ UNCHANGED <<files, world, committed, deleted>>

\* Removing a group reads the store first.  Only on a host with a TPM does it
\* then take the lock, to get the key; it publishes after giving it back.
Remove ==
    /\ pc = "idle"
    /\ Present(now.store) /\ Readable(now)
    /\ now.store.groups > 0 /\ now.store.generation < MaxGeneration
    /\ next' = [now.store EXCEPT !.generation = @ + 1, !.groups = @ - 1]
    /\ IF tpm THEN Acquire("remove") ELSE op' = "remove" /\ pc' = "journal"
    /\ UNCHANGED <<files, world, committed, deleted>>

RemoveKey ==
    /\ pc = "remove"
    /\ pc' = IF Present(now.key) /\ ~ReplacesOther(now) THEN "journal" ELSE "idle"
    /\ op' = IF pc' = "idle" THEN "none" ELSE op
    /\ next' = IF pc' = "idle" THEN None ELSE [next EXCEPT !.key = now.key.id]
    /\ UNCHANGED <<files, world, committed, deleted>>

\* The journal, then the store, then the journal's removal, each durable
\* before the next.
PublishJournal ==
    /\ pc = "journal"
    /\ Step("journal", next, "store", "idle")
    /\ Onward /\ UNCHANGED <<world, committed, deleted>>

\* Faulty variant: the store's directory is not synced.
PublishStoreUnsynced ==
    /\ pc = "store"
    /\ Visible("store", next) /\ UNCHANGED faults /\ pc' = "unjournal"
    /\ committed' = next
    /\ Onward /\ UNCHANGED <<world, deleted>>

PublishStore ==
    /\ pc = "store"
    /\ Step("store", next, "unjournal", "idle")
    /\ committed' = IF pc' = "unjournal" THEN next ELSE committed
    /\ Onward /\ UNCHANGED <<world, deleted>>

RemoveJournal ==
    /\ pc = "unjournal"
    /\ Step("journal", None, "idle", "idle")
    /\ Onward /\ UNCHANGED <<world, committed, deleted>>

-----------------------------------------------------------------------------
(* Deletion: the journal and the store for good, then the rest.            *)

DeleteJournal ==
    /\ pc = "delete"
    /\ IF Present(now.journal) THEN Step("journal", None, "deletestore", "idle")
                               ELSE UNCHANGED files /\ pc' = "deletestore"
    /\ committed' = None
    /\ Onward /\ UNCHANGED <<world, deleted>>

\* Faulty variant: no sync when the store is gone already.
DeleteStoreUnsynced ==
    /\ pc = "deletestore"
    /\ IF Present(now.store) THEN Step("store", None, "deleteprofile", "idle")
                             ELSE UNCHANGED files /\ pc' = "deleteprofile"
    /\ Onward /\ UNCHANGED <<world, committed, deleted>>

\* Synced even when both files are gone already.  (After a journal that was
\* there and with no store, the code leaves this second sync out.)
DeleteStore ==
    /\ pc = "deletestore"
    /\ Step("store", None, "deleteprofile", "idle")
    /\ Onward /\ UNCHANGED <<world, committed, deleted>>

\* No sync follows these removals.
Forget(f, ok) ==
    \/ Visible(f, None) /\ pc' = ok /\ UNCHANGED faults
    \/ Fault /\ Nothing /\ pc' = "idle"

DeleteProfile ==
    /\ pc = "deleteprofile"
    /\ Forget("profile", "deletekey")
    /\ deleted' = (deleted \/ pc' = "deletekey")
    /\ Onward /\ UNCHANGED <<world, committed>>

DeleteKey ==
    /\ pc = "deletekey"
    /\ Forget("key", "deleterecovery")
    /\ Onward /\ UNCHANGED <<world, committed, deleted>>

DeleteRecovery ==
    /\ pc = "deleterecovery"
    /\ Forget("recovery", "idle")
    /\ Onward /\ UNCHANGED <<world, committed, deleted>>

-----------------------------------------------------------------------------
(* Stopping, and the whole.                                                *)

\* The program stops, or a step fails before it changes anything.
Stop ==
    /\ pc # "idle"
    /\ Fault /\ Nothing /\ pc' = "idle"
    /\ Onward /\ UNCHANGED <<world, committed, deleted>>

PowerLoss ==
    /\ now # disk \/ pc # "idle"
    /\ Fault /\ now' = disk /\ pc' = "idle"
    /\ deleted' = (deleted /\ ~Present(disk.profile))
    /\ Onward /\ UNCHANGED <<disk, world, committed>>

Operations == {"save", "load", "add", "recovery", "delete"}

\* What the history variable intact follows: on a host with a TPM a
\* deletion, a first key whose directory could not be synced, or a
\* replacement begun over an enrollment that is visible and not durable,
\* leaves the enrollment and its key apart on disk until both are there again.
Together ==
    /\ now.key = disk.key /\ now.profile = disk.profile
    /\ ~Present(now.record) /\ ~Present(disk.record)
    /\ Present(now.profile) => Opens(now.key, now.profile)

Parts ==
    \/ pc = "deleteprofile" /\ pc' = "deletekey"
    \/ pc = "seal" /\ ~Present(now.record) /\ now'.key # disk'.key
    \/ pc = "begin" /\ pc' # "idle" /\ now.profile # disk.profile

AccountNext ==
    /\ \/ Renumber \/ \E operation \in Operations : Request(operation)
       \/ PutBack \/ SyncProfile \/ DropRecovery \/ DropJournal \/ DropStore \/ End
       \/ Save \/ Begin \/ Seal \/ Publish
       \/ Load \/ Resolve \/ SetupRecovery
       \/ Add \/ Remove \/ RemoveKey \/ PublishJournal \/ PublishStore \/ RemoveJournal
       \/ DeleteJournal \/ DeleteStore \/ DeleteProfile \/ DeleteKey \/ DeleteRecovery
       \/ Stop \/ PowerLoss
    /\ intact' = (tpm => (intact /\ ~Parts) \/ Together')

AccountSpec == AccountInit /\ [][AccountNext]_vars

-----------------------------------------------------------------------------
(* Properties.                                                             *)

\* The key the enrollment in d is opened with once an interrupted replacement
\* is settled.
SettledKey(d) ==
    IF Present(d.record) /\ Present(d.record.key) /\ Undoing(d) THEN d.record.key ELSE d.key

\* Wherever a replacement is interrupted, by a failed step, a crash or a power
\* loss, the key that settle_interrupted leaves opens the enrollment that is
\* stored: the replaced pair or the new pair, never a mixture.  Left out
\* (intact) is what started with the pair apart: a deletion under way, a first
\* key that was not made durable, and a replacement begun over an enrollment
\* that was not, which is what FinishFollowsPublication is about.
EnrollmentOpens ==
    tpm /\ intact =>
        \A d \in {now, disk} : Present(d.profile) => Opens(SettledKey(d), d.profile)

\* settle_interrupted finishes a replacement only over the enrollment that the
\* replacement published ("Otherwise the new enrollment was published").
FinishFollowsPublication ==
    pc = "syncprofile" /\ Present(now.profile) => now.profile.uid = owner

\* finish removes what belonged to the replaced enrollment only when a power
\* loss can no longer bring that enrollment back; and when it takes the record
\* away, nothing it recorded is left, and no power loss brings any of it back.
FinishedForGood ==
    [][/\ \A f \in {"recovery", "journal", "store"} :
             pc \in {"droprecovery", "dropjournal", "dropstore"} /\ now'[f] # now[f]
                 => disk.profile # now.record.profile
       /\ pc = "end" /\ ~Present(now'.record) /\ ~Undoing(now) =>
             \A f \in {"recovery", "journal", "store"} :
                Present(now.record[f]) => now.record[f] \notin {now'[f], disk'[f]}]_vars

\* The added-camera store once resolve_commit has completed a leftover journal.
Resolved(d) == IF Present(d.journal) THEN d.journal ELSE d.store

\* Past its commit point (the durable rename of the store) a publication is
\* not taken back by a leftover journal, a later publication that fails, a
\* crash or a power loss: only a later generation comes after it.
CommittedStoreSurvives ==
    Present(committed) => \A d \in {now, disk} :
        /\ Present(Resolved(d))
        /\ \/ Resolved(d) = committed
           \/ Resolved(d).generation > committed.generation

\* delete takes the enrollment only when no power loss can bring the
\* added-camera store or its journal back for an account without one.
DeletedTakesStore ==
    deleted => \A d \in {now, disk} : ~Present(d.store) /\ ~Present(d.journal)
=============================================================================
