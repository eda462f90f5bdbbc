---------------------------- MODULE AccountProofs ---------------------------
(***************************************************************************)
(* Proofs about the files of an account, for any number of keys,           *)
(* enrollments, generations and faults: an interrupted replacement leaves  *)
(* a pair that opens and is finished for good, a committed added-camera    *)
(* store survives, and a deletion takes it.                                *)
(***************************************************************************)
EXTENDS AccountFiles, TLAPS

-----------------------------------------------------------------------------
(* Files and steps.                                                        *)

LEMMA FileNames == Files = {"key", "record", "profile", "recovery", "store", "journal"}
BY DEF Files, Directory

LEMMA Directories ==
  /\ Directory["key"] = "keys" /\ Directory["record"] = "keys" /\ Directory["profile"] = "profiles"
  /\ Directory["recovery"] = "recovery" /\ Directory["store"] = "cameras" /\ Directory["journal"] = "cameras"
BY DEF Directory

(* What files contain is never mistaken for an absent file.                *)
LEMMA Contents ==
  /\ \A a, b, c, d, e : [key |-> a, profile |-> b, recovery |-> c, store |-> d, journal |-> e] # None
  /\ \A a, b, c, d, e : [uid |-> a, generation |-> b, groups |-> c, for |-> d, key |-> e] # None
  /\ \A a, b : [uid |-> a, id |-> b] # None
  /\ \A a, b, c : [uid |-> a, id |-> b, key |-> c] # None
<1>1. DOMAIN None = {"absent"}
  BY DEF None
<1>2. \A a, b, c, d, e : DOMAIN [key |-> a, profile |-> b, recovery |-> c, store |-> d, journal |-> e]
                           = {"key", "profile", "recovery", "store", "journal"}
  OBVIOUS
<1>3. \A a, b, c, d, e : DOMAIN [uid |-> a, generation |-> b, groups |-> c, for |-> d, key |-> e]
                           = {"uid", "generation", "groups", "for", "key"}
  OBVIOUS
<1>4. \A a, b : DOMAIN [uid |-> a, id |-> b] = {"uid", "id"}
  OBVIOUS
<1>5. \A a, b, c : DOMAIN [uid |-> a, id |-> b, key |-> c] = {"uid", "id", "key"}
  OBVIOUS
<1> QED
  BY <1>1, <1>2, <1>3, <1>4, <1>5

Shape == now = [f \in Files |-> now[f]] /\ disk = [f \in Files |-> disk[f]]

SameKey == now'.key = now.key /\ disk'.key = disk.key
SameRecord == now'.record = now.record /\ disk'.record = disk.record
SameProfile == now'.profile = now.profile /\ disk'.profile = disk.profile
SameRecovery == now'.recovery = now.recovery /\ disk'.recovery = disk.recovery
SameStore == now'.store = now.store /\ disk'.store = disk.store
SameJournal == now'.journal = now.journal /\ disk'.journal = disk.journal
SameCameras == SameStore /\ SameJournal
SameFiles == SameKey /\ SameRecord /\ SameProfile /\ SameRecovery /\ SameCameras

LEMMA Unchanged ==
  ASSUME Shape, Nothing
  PROVE  Shape' /\ SameFiles
BY DEF Shape, Nothing, SameFiles, SameKey, SameRecord, SameProfile, SameRecovery, SameCameras,
       SameStore, SameJournal

(* A change of one file, durable with its directory or only visible.       *)
LEMMA DurableChange ==
  ASSUME Shape, NEW f \in Files, NEW c, Durable(f, c)
  PROVE  /\ Shape'
         /\ \A g \in Files : /\ now'[g] = IF g = f THEN c ELSE now[g]
                             /\ disk'[g] = IF Directory[g] = Directory[f] THEN now'[g] ELSE disk[g]
BY DEF Shape, Durable

LEMMA VisibleChange ==
  ASSUME Shape, NEW f \in Files, NEW c, Visible(f, c)
  PROVE  /\ Shape'
         /\ now'[f] = c /\ disk'[f] \in {disk[f], c}
         /\ \A g \in Files \ {f} : now'[g] = now[g] /\ disk'[g] = disk[g]
BY DEF Shape, Visible

LEMMA KeyStep ==
  ASSUME Shape, NEW c, NEW ok, NEW failed, Step("key", c, ok, failed)
  PROVE  /\ Shape' /\ SameProfile /\ SameRecovery /\ SameCameras /\ now'.record = now.record
         /\ \/ pc' = ok /\ now'.key = c /\ disk'.key = c /\ disk'.record = now.record
            \/ /\ pc' = failed /\ disk'.record = disk.record
               /\ SameKey \/ (now'.key = c /\ disk'.key \in {disk.key, c})
<1> USE FileNames, Directories DEF SameFiles, SameKey, SameRecord, SameProfile, SameRecovery, SameCameras, SameStore, SameJournal
<1>1. CASE Durable("key", c) /\ pc' = ok
  BY <1>1, DurableChange
<1>2. CASE Visible("key", c) /\ pc' = failed
  BY <1>2, VisibleChange
<1>3. CASE Nothing /\ pc' = failed
  BY <1>3, Unchanged
<1> QED
  BY <1>1, <1>2, <1>3 DEF Step

LEMMA RecordStep ==
  ASSUME Shape, NEW c, NEW ok, NEW failed, Step("record", c, ok, failed)
  PROVE  /\ Shape' /\ SameProfile /\ SameRecovery /\ SameCameras /\ now'.key = now.key
         /\ \/ pc' = ok /\ now'.record = c /\ disk'.record = c /\ disk'.key = now.key
            \/ /\ pc' = failed /\ disk'.key = disk.key
               /\ SameRecord \/ (now'.record = c /\ disk'.record \in {disk.record, c})
<1> USE FileNames, Directories DEF SameFiles, SameKey, SameRecord, SameProfile, SameRecovery, SameCameras, SameStore, SameJournal
<1>1. CASE Durable("record", c) /\ pc' = ok
  BY <1>1, DurableChange
<1>2. CASE Visible("record", c) /\ pc' = failed
  BY <1>2, VisibleChange
<1>3. CASE Nothing /\ pc' = failed
  BY <1>3, Unchanged
<1> QED
  BY <1>1, <1>2, <1>3 DEF Step

LEMMA ProfileStep ==
  ASSUME Shape, NEW c, NEW ok, NEW failed, Step("profile", c, ok, failed)
  PROVE  /\ Shape' /\ SameKey /\ SameRecord /\ SameRecovery /\ SameCameras
         /\ \/ pc' = ok /\ now'.profile = c /\ disk'.profile = c
            \/ /\ pc' = failed
               /\ SameProfile \/ (now'.profile = c /\ disk'.profile \in {disk.profile, c})
<1> USE FileNames, Directories DEF SameFiles, SameKey, SameRecord, SameProfile, SameRecovery, SameCameras, SameStore, SameJournal
<1>1. CASE Durable("profile", c) /\ pc' = ok
  BY <1>1, DurableChange
<1>2. CASE Visible("profile", c) /\ pc' = failed
  BY <1>2, VisibleChange
<1>3. CASE Nothing /\ pc' = failed
  BY <1>3, Unchanged
<1> QED
  BY <1>1, <1>2, <1>3 DEF Step

LEMMA RecoveryStep ==
  ASSUME Shape, NEW c, NEW ok, NEW failed, Step("recovery", c, ok, failed)
  PROVE  /\ Shape' /\ SameKey /\ SameRecord /\ SameProfile /\ SameCameras
         /\ \/ pc' = ok /\ now'.recovery = c /\ disk'.recovery = c
            \/ /\ pc' = failed
               /\ SameRecovery \/ (now'.recovery = c /\ disk'.recovery \in {disk.recovery, c})
<1> USE FileNames, Directories DEF SameFiles, SameKey, SameRecord, SameProfile, SameRecovery, SameCameras, SameStore, SameJournal
<1>1. CASE Durable("recovery", c) /\ pc' = ok
  BY <1>1, DurableChange
<1>2. CASE Visible("recovery", c) /\ pc' = failed
  BY <1>2, VisibleChange
<1>3. CASE Nothing /\ pc' = failed
  BY <1>3, Unchanged
<1> QED
  BY <1>1, <1>2, <1>3 DEF Step

LEMMA StoreStep ==
  ASSUME Shape, NEW c, NEW ok, NEW failed, Step("store", c, ok, failed)
  PROVE  /\ Shape' /\ SameKey /\ SameRecord /\ SameProfile /\ SameRecovery /\ now'.journal = now.journal
         /\ \/ pc' = ok /\ now'.store = c /\ disk'.store = c /\ disk'.journal = now.journal
            \/ /\ pc' = failed /\ disk'.journal = disk.journal
               /\ SameStore \/ (now'.store = c /\ disk'.store \in {disk.store, c})
<1> USE FileNames, Directories DEF SameFiles, SameKey, SameRecord, SameProfile, SameRecovery, SameCameras, SameStore, SameJournal
<1>1. CASE Durable("store", c) /\ pc' = ok
  BY <1>1, DurableChange
<1>2. CASE Visible("store", c) /\ pc' = failed
  BY <1>2, VisibleChange
<1>3. CASE Nothing /\ pc' = failed
  BY <1>3, Unchanged
<1> QED
  BY <1>1, <1>2, <1>3 DEF Step

LEMMA JournalStep ==
  ASSUME Shape, NEW c, NEW ok, NEW failed, Step("journal", c, ok, failed)
  PROVE  /\ Shape' /\ SameKey /\ SameRecord /\ SameProfile /\ SameRecovery /\ now'.store = now.store
         /\ \/ pc' = ok /\ now'.journal = c /\ disk'.journal = c /\ disk'.store = now.store
            \/ /\ pc' = failed /\ disk'.store = disk.store
               /\ SameJournal \/ (now'.journal = c /\ disk'.journal \in {disk.journal, c})
<1> USE FileNames, Directories DEF SameFiles, SameKey, SameRecord, SameProfile, SameRecovery, SameCameras, SameStore, SameJournal
<1>1. CASE Durable("journal", c) /\ pc' = ok
  BY <1>1, DurableChange
<1>2. CASE Visible("journal", c) /\ pc' = failed
  BY <1>2, VisibleChange
<1>3. CASE Nothing /\ pc' = failed
  BY <1>3, Unchanged
<1> QED
  BY <1>1, <1>2, <1>3 DEF Step

LEMMA ForgetStep ==
  ASSUME Shape, NEW f \in Files, NEW ok, Forget(f, ok)
  PROVE  /\ Shape' /\ \A g \in Files \ {f} : now'[g] = now[g] /\ disk'[g] = disk[g]
         /\ \/ pc' = ok /\ now'[f] = None /\ disk'[f] \in {disk[f], None}
            \/ pc' = "idle" /\ now'[f] = now[f] /\ disk'[f] = disk[f]
<1>1. CASE Visible(f, None) /\ pc' = ok
  BY <1>1, VisibleChange
<1>2. CASE Nothing /\ pc' = "idle"
  BY <1>2 DEF Nothing, Shape
<1> QED
  BY <1>1, <1>2 DEF Forget

-----------------------------------------------------------------------------
(* Where the worker is, and what that says of the files.                   *)

Finishing == {"syncprofile", "droprecovery", "dropjournal", "dropstore"}
Settling == Finishing \cup {"putback", "end"}

Control ==
  /\ op \in Operations \cup {"remove", "none", "idle"}
  /\ pc \in Settling => Present(now.record)
  /\ pc = "putback" => Undoing(now)
  /\ pc \in Finishing => ~Undoing(now)
  /\ pc \in {"save", "begin"} => ~Present(now.record)
  /\ pc \in {"begin", "publish"} /\ tpm => Present(now.key)
  /\ pc \in {"seal", "publish"} /\ Present(now.record) => disk.record = now.record /\ Undoing(now)
  /\ pc = "seal" /\ ~Present(now.record) => ~Present(now.key) /\ ~Present(now.profile)
  /\ pc = "deletekey" => ~Present(now.profile)
  /\ \A d \in {now, disk} : Present(d.record) /\ tpm => Present(d.record.key)

\* Steps that leave the key, the record and the enrollment alone.
Elsewhere ==
  \/ Renumber \/ \E operation \in Operations : Request(operation)
  \/ DropRecovery \/ DropJournal \/ DropStore
  \/ Save \/ Load \/ Resolve \/ SetupRecovery
  \/ Add \/ Remove \/ RemoveKey \/ PublishJournal \/ PublishStore \/ RemoveJournal
  \/ DeleteJournal \/ DeleteStore \/ DeleteRecovery \/ Stop

Drops == DropRecovery \/ DropJournal \/ DropStore

LEMMA ElsewhereFiles ==
  ASSUME Shape, Elsewhere
  PROVE  Shape' /\ SameKey /\ SameRecord /\ SameProfile
<1> USE DEF SameFiles
<1>1. CASE UNCHANGED files
  BY <1>1, Unchanged DEF files, Nothing
<1>2. CASE DropRecovery
  BY <1>2, RecoveryStep DEF DropRecovery, RemoveIfRecorded
<1>3. CASE DropJournal
  BY <1>3, JournalStep DEF DropJournal, RemoveIfRecorded
<1>4. CASE DropStore
  BY <1>4, StoreStep DEF DropStore, RemoveIfRecorded
<1>5. CASE Resolve \/ PublishStore \/ DeleteStore
  BY <1>5, StoreStep DEF Resolve, PublishStore, DeleteStore
<1>6. CASE SetupRecovery
  BY <1>1, <1>6, RecoveryStep DEF SetupRecovery
<1>7. CASE PublishJournal \/ RemoveJournal
  BY <1>7, JournalStep DEF PublishJournal, RemoveJournal
<1>8. CASE DeleteJournal
  BY <1>1, <1>8, JournalStep DEF DeleteJournal
<1>9. CASE DeleteRecovery
  BY <1>9, ForgetStep, FileNames DEF DeleteRecovery, SameKey, SameRecord, SameProfile
<1>10. CASE Stop
  BY <1>10, Unchanged DEF Stop
<1>11. CASE \/ Renumber \/ \E operation \in Operations : Request(operation)
            \/ Save \/ Load \/ Add \/ Remove \/ RemoveKey
  BY <1>1, <1>11 DEF Renumber, Request, Save, Load, Add, Remove, RemoveKey
<1> QED
  BY <1>2, <1>3, <1>4, <1>5, <1>6, <1>7, <1>8, <1>9, <1>10, <1>11 DEF Elsewhere

\* Steps at which nothing is known of the key, the record and the enrollment.
Plain ==
  {"idle", "none", "load", "resolve", "recovery", "add", "remove", "journal", "store", "unjournal",
   "delete", "deletestore", "deleteprofile", "deleterecovery"}

(* Where those steps lead.                                                 *)
LEMMA ElsewhereGoes ==
  ASSUME Shape, Control, Elsewhere
  PROVE  /\ op' \in Operations \cup {"remove", "none", "idle"}
         /\ tpm' = tpm
         /\ \/ pc' \in Plain
            \/ pc = "idle" /\ ~Present(now.record) /\ pc' = "save"
            \/ pc = "idle" /\ Present(now.record) /\ pc' = IF Undoing(now) THEN "putback" ELSE "syncprofile"
            \/ Drops /\ pc \in Finishing /\ (pc' \in Finishing \/ pc' = "end")
            \/ pc = "save" /\ ReplacesOther(now) /\ pc' = "begin"
            \/ pc = "save" /\ (~tpm \/ Present(now.key)) /\ pc' = "publish"
            \/ pc = "save" /\ tpm /\ ~Present(now.key) /\ ~Present(now.profile) /\ pc' = "seal"
         /\ pc = "idle" \/ pc = "putback" => pc' \in {"putback", "syncprofile", "save"} \cup Plain
<1> USE DEF world, Onward, Operations, Plain, Finishing, Drops
<1>1. CASE Renumber \/ Stop
  BY <1>1 DEF Renumber, Stop, Control
<1>2. CASE \/ \E operation \in Operations : Request(operation)
           \/ Remove
  BY <1>2 DEF Request, Remove, Acquire, Control
<1>3. CASE DropRecovery
  BY <1>3, RecoveryStep DEF DropRecovery, RemoveIfRecorded, SettleFailed, Control
<1>4. CASE DropJournal
  BY <1>4, JournalStep DEF DropJournal, RemoveIfRecorded, SettleFailed, Control
<1>5. CASE DropStore
  BY <1>5, StoreStep DEF DropStore, RemoveIfRecorded, SettleFailed, Control
<1>6. CASE Save
  BY <1>6 DEF Save, Control
<1>7. CASE Load \/ Add \/ RemoveKey
  BY <1>7 DEF Load, Add, RemoveKey, Control
<1>8. CASE Resolve \/ PublishStore \/ DeleteStore
  BY <1>8, StoreStep DEF Resolve, PublishStore, DeleteStore, Control
<1>9. CASE SetupRecovery
  BY <1>9, RecoveryStep DEF SetupRecovery, Control
<1>10. CASE PublishJournal \/ RemoveJournal \/ DeleteJournal
  BY <1>10, JournalStep DEF PublishJournal, RemoveJournal, DeleteJournal, Control
<1>11. CASE DeleteRecovery
  BY <1>11, ForgetStep, FileNames DEF DeleteRecovery, Control
<1> QED
  BY Zenon, <1>1, <1>2, <1>3, <1>4, <1>5, <1>6, <1>7, <1>8, <1>9, <1>10, <1>11 DEF Elsewhere

-----------------------------------------------------------------------------
(* What the other steps do, in their outcomes: done and durable, or not.   *)

Still == SameRecovery /\ SameCameras /\ UNCHANGED <<tpm, committed>> /\ Onward

PutsBack ==
  /\ pc = "putback" /\ Still /\ UNCHANGED deleted /\ SameProfile /\ now'.record = now.record
  /\ \/ /\ pc' = "end" /\ disk'.record = now.record
        /\ now'.key = now.record.key /\ disk'.key = now.record.key
     \/ pc' = "end" /\ ~Present(now.record.key) /\ SameKey /\ SameRecord
     \/ /\ pc' = "idle" /\ disk'.record = disk.record
        /\ SameKey \/ (now'.key = now.record.key /\ disk'.key \in {disk.key, now.record.key})

Syncs ==
  /\ pc = "syncprofile" /\ Still /\ UNCHANGED deleted /\ SameKey /\ SameRecord /\ now'.profile = now.profile
  /\ \/ pc' = "droprecovery" /\ disk'.profile = now.profile
     \/ pc' \in {"idle", "load"} /\ disk'.profile \in {disk.profile, now.profile}

Ends ==
  /\ pc = "end" /\ Still /\ UNCHANGED deleted /\ SameProfile /\ now'.key = now.key
  /\ \/ pc' = op /\ now'.record = None /\ disk'.record = None /\ disk'.key = now.key
     \/ /\ pc' \in {"idle", "load"} /\ disk'.key = disk.key
        /\ SameRecord \/ (now'.record = None /\ disk'.record \in {disk.record, None})

Begins ==
  /\ pc = "begin" /\ Still /\ UNCHANGED deleted /\ SameProfile /\ now'.key = now.key
  /\ \/ /\ pc' = IF tpm THEN "seal" ELSE "publish"
        /\ now'.record = Record /\ disk'.record = Record /\ disk'.key = now.key
     \/ /\ pc' = "idle" /\ disk'.key = disk.key
        /\ SameRecord \/ (now'.record \in {None, Record} /\ disk'.record \in {None, Record})

Seals ==
  /\ pc = "seal" /\ Still /\ UNCHANGED deleted /\ SameProfile /\ now'.record = now.record
  /\ \E k : /\ Present(k)
            /\ \/ pc' = "publish" /\ now'.key = k /\ disk'.key = k /\ disk'.record = now.record
               \/ /\ pc' = IF Present(now.record) THEN "putback" ELSE "idle"
                  /\ disk'.record = disk.record
                  /\ SameKey \/ (now'.key = k /\ disk'.key \in {disk.key, k})

\* The enrollment is new to the records, and under the key.
Publishes ==
  /\ pc = "publish" /\ Still /\ SameKey /\ SameRecord
  /\ \E p : /\ Present(p) /\ (tpm => p.key = now.key.id)
            /\ \A r \in {now.record, disk.record} : Present(r) => p # r.profile
            /\ \/ /\ pc' = IF Present(now.record) THEN "syncprofile" ELSE "idle"
                  /\ now'.profile = p /\ disk'.profile = p
               \/ pc' = "idle" /\ now'.profile = p /\ disk'.profile \in {disk.profile, p}
               \/ pc' = (IF Present(now.record) THEN "putback" ELSE "idle") /\ SameProfile
  /\ deleted' = (deleted /\ ~Present(now'.profile))

Unenrolls ==
  /\ pc = "deleteprofile" /\ Still /\ SameKey /\ SameRecord
  /\ \/ pc' = "deletekey" /\ now'.profile = None /\ disk'.profile \in {disk.profile, None}
     \/ pc' = "idle" /\ SameProfile
  /\ deleted' = (deleted \/ pc' = "deletekey")

Unkeys ==
  /\ pc = "deletekey" /\ Still /\ UNCHANGED deleted /\ SameRecord /\ SameProfile
  /\ \/ pc' = "deleterecovery" /\ now'.key = None /\ disk'.key \in {disk.key, None}
     \/ pc' = "idle" /\ SameKey

Loses ==
  /\ pc' = "idle" /\ now' = disk /\ UNCHANGED <<disk, tpm, committed>> /\ Onward
  /\ deleted' = (deleted /\ ~Present(disk.profile))

LEMMA PutBackDoes ==
  ASSUME Shape, Control, PutBack
  PROVE  Shape' /\ PutsBack
<1>0. pc = "putback" /\ SettleFailed = "idle"
  BY DEF PutBack, Control, SettleFailed
<1>1. CASE Present(now.record.key)
  <2>1. Step("key", now.record.key, "end", SettleFailed)
    BY <1>1 DEF PutBack
  <2> QED
    BY <1>0, <2>1, KeyStep DEF PutBack, PutsBack, Still, world
<1>2. CASE ~Present(now.record.key)
  <2>1. UNCHANGED files /\ pc' = "end"
    BY <1>2 DEF PutBack
  <2> QED
    BY <1>0, <1>2, <2>1, Unchanged DEF PutBack, PutsBack, Still, world, files, Nothing, SameFiles
<1> QED
  BY <1>1, <1>2

LEMMA SyncProfileDoes ==
  ASSUME Shape, SyncProfile
  PROVE  Shape' /\ Syncs
<1>1. Step("profile", now.profile, "droprecovery", SettleFailed) /\ SettleFailed \in {"idle", "load"}
  BY DEF SyncProfile, SettleFailed
<1> QED
  BY <1>1, ProfileStep DEF SyncProfile, Syncs, Still, world, SameProfile

LEMMA EndDoes ==
  ASSUME Shape, End
  PROVE  Shape' /\ Ends
<1>1. Step("record", None, op, SettleFailed) /\ SettleFailed \in {"idle", "load"}
  BY DEF End, SettleFailed
<1> QED
  BY <1>1, RecordStep DEF End, Ends, Still, world

LEMMA BeginDoes ==
  ASSUME Shape, Begin
  PROVE  Shape' /\ Begins
<1> USE FileNames, Directories
    DEF SameFiles, SameKey, SameRecord, SameProfile, SameRecovery, SameCameras, SameStore, SameJournal, Still, world
<1> HIDE DEF Record
<1>0. pc = "begin" /\ UNCHANGED <<tpm, committed, deleted>> /\ Onward
  BY DEF Begin
<1>1. CASE Durable("record", Record) /\ pc' = IF tpm THEN "seal" ELSE "publish"
  BY <1>0, <1>1, DurableChange DEF Begins
<1>2. CASE /\ \E seen, kept \in {None, Record} :
                /\ now' = [now EXCEPT !.record = seen]
                /\ disk' = [disk EXCEPT !.record = kept]
           /\ pc' = "idle"
  <2>1. PICK seen \in {None, Record}, kept \in {None, Record} :
                /\ now' = [now EXCEPT !.record = seen]
                /\ disk' = [disk EXCEPT !.record = kept]
    BY <1>2
  <2>2. Shape' /\ now'.record = seen /\ disk'.record = kept
        /\ SameKey /\ SameProfile /\ SameRecovery /\ SameCameras
    BY <2>1 DEF Shape
  <2> QED
    BY <1>0, <1>2, <2>1, <2>2 DEF Begins
<1>3. CASE Nothing /\ pc' = "idle"
  BY <1>0, <1>3, Unchanged DEF Begins
<1> QED
  BY <1>1, <1>2, <1>3 DEF Begin

LEMMA SealDoes ==
  ASSUME Shape, Seal
  PROVE  Shape' /\ Seals
<1>1. PICK id : Step("key", [uid |-> owner, id |-> id], "publish",
                     IF Present(now.record) THEN "putback" ELSE "idle")
  BY DEF Seal
<1>2. Present([uid |-> owner, id |-> id])
  BY Contents DEF Present
<1>3. PICK k : k = [uid |-> owner, id |-> id]
  BY Zenon
<1>4. Step("key", k, "publish", IF Present(now.record) THEN "putback" ELSE "idle") /\ Present(k)
  BY <1>1, <1>2, <1>3
<1> QED
  BY <1>4, KeyStep DEF Seal, Seals, Still, world

LEMMA PublishDoes ==
  ASSUME Shape, Publish
  PROVE  Shape' /\ Publishes
<1> USE FileNames, Directories
    DEF SameFiles, SameKey, SameRecord, SameProfile, SameRecovery, SameCameras, SameStore, SameJournal, Still, world
<1>0. pc = "publish" /\ UNCHANGED <<tpm, committed>> /\ Onward /\ deleted' = (deleted /\ ~Present(now'.profile))
  BY DEF Publish
<1>1. PICK id \in Fresh(MaxProfiles, ProfileIds) :
          LET profile == [uid |-> owner, id |-> id, key |-> IF tpm THEN now.key.id ELSE 0]
          IN \/ Durable("profile", profile) /\ pc' = IF Present(now.record) THEN "syncprofile" ELSE "idle"
             \/ Fault /\ Visible("profile", profile) /\ pc' = "idle"
             \/ Fault /\ Nothing /\ pc' = IF Present(now.record) THEN "putback" ELSE "idle"
  BY DEF Publish
<1>2. PICK p : p = [uid |-> owner, id |-> id, key |-> IF tpm THEN now.key.id ELSE 0]
  BY Zenon
<1>3. Present(p) /\ p.id = id /\ (tpm => p.key = now.key.id)
  BY <1>2, Contents DEF Present
<1>4. id \notin ProfileIds
  BY DEF Fresh
<1>5. ASSUME NEW r \in {now.record, disk.record}, Present(r) PROVE p # r.profile
  <2>1. CASE Present(r.profile)
    <3>1. r.profile.id \in ProfileIds
      BY <1>5, <2>1 DEF ProfileIds
    <3> QED
      BY <1>3, <1>4, <3>1
  <2>2. CASE ~Present(r.profile)
    BY <1>3, <2>2 DEF Present
  <2> QED
    BY <2>1, <2>2
<1>6. \/ Durable("profile", p) /\ pc' = IF Present(now.record) THEN "syncprofile" ELSE "idle"
      \/ Visible("profile", p) /\ pc' = "idle"
      \/ Nothing /\ pc' = IF Present(now.record) THEN "putback" ELSE "idle"
  BY <1>1, <1>2
<1>7. CASE Durable("profile", p) /\ pc' = IF Present(now.record) THEN "syncprofile" ELSE "idle"
  <2>1. Shape' /\ SameKey /\ SameRecord /\ SameRecovery /\ SameCameras /\ now'.profile = p /\ disk'.profile = p
    BY <1>7, DurableChange
  <2> QED
    BY <1>0, <1>3, <1>5, <1>7, <2>1 DEF Publishes
<1>8. CASE Visible("profile", p) /\ pc' = "idle"
  <2>1. /\ Shape' /\ SameKey /\ SameRecord /\ SameRecovery /\ SameCameras
        /\ now'.profile = p /\ disk'.profile \in {disk.profile, p}
    BY <1>8, VisibleChange
  <2> QED
    BY <1>0, <1>3, <1>5, <1>8, <2>1 DEF Publishes
<1>9. CASE Nothing /\ pc' = IF Present(now.record) THEN "putback" ELSE "idle"
  <2>1. Shape' /\ SameFiles
    BY <1>9, Unchanged
  <2> QED
    BY <1>0, <1>3, <1>5, <1>9, <2>1 DEF Publishes
<1> QED
  BY <1>6, <1>7, <1>8, <1>9

LEMMA DeletionDoes ==
  ASSUME Shape
  PROVE  /\ DeleteProfile => Shape' /\ Unenrolls
         /\ DeleteKey => Shape' /\ Unkeys
<1> USE FileNames, ForgetStep
    DEF SameKey, SameRecord, SameProfile, SameRecovery, SameCameras, SameStore, SameJournal, Still, world
<1>1. DeleteProfile => Shape' /\ Unenrolls
  BY DEF DeleteProfile, Unenrolls
<1>2. DeleteKey => Shape' /\ Unkeys
  BY DEF DeleteKey, Unkeys
<1> QED
  BY <1>1, <1>2

LEMMA PowerLossDoes ==
  ASSUME Shape, PowerLoss
  PROVE  Shape' /\ Loses
BY DEF PowerLoss, Loses, Shape, world

(* Every step is one of these.                                             *)
LEMMA AccountSteps ==
  ASSUME Shape, Control, AccountNext
  PROVE  /\ Shape' /\ tpm' = tpm
         /\ \/ Elsewhere /\ SameKey /\ SameRecord /\ SameProfile
            \/ PutsBack \/ Syncs \/ Ends \/ Begins \/ Seals \/ Publishes \/ Unenrolls \/ Unkeys
            \/ Loses
<1>1. CASE Elsewhere
  BY <1>1, ElsewhereFiles, ElsewhereGoes
<1> QED
  BY Zenon, <1>1, PutBackDoes, SyncProfileDoes, EndDoes, BeginDoes, SealDoes, PublishDoes, DeletionDoes,
     PowerLossDoes
  DEF AccountNext, Elsewhere, PutsBack, Syncs, Ends, Begins, Seals, Publishes, Unenrolls, Unkeys, Loses, Still

-----------------------------------------------------------------------------
(* Control is kept.                                                        *)

LEMMA ElsewhereKeepsControl ==
  ASSUME Shape, Control, Elsewhere, SameKey, SameRecord, SameProfile
  PROVE  Control'
<1>1. /\ op' \in Operations \cup {"remove", "none", "idle"} /\ tpm' = tpm
      /\ \/ pc' \in Plain
         \/ pc = "idle" /\ ~Present(now.record) /\ pc' = "save"
         \/ pc = "idle" /\ Present(now.record) /\ pc' = IF Undoing(now) THEN "putback" ELSE "syncprofile"
         \/ Drops /\ pc \in Finishing /\ (pc' \in Finishing \/ pc' = "end")
         \/ pc = "save" /\ ReplacesOther(now) /\ pc' = "begin"
         \/ pc = "save" /\ (~tpm \/ Present(now.key)) /\ pc' = "publish"
         \/ pc = "save" /\ tpm /\ ~Present(now.key) /\ ~Present(now.profile) /\ pc' = "seal"
  BY ElsewhereGoes
<1>2. /\ Undoing(now)' <=> Undoing(now)
      /\ now'.record = now.record /\ disk'.record = disk.record
      /\ now'.key = now.key /\ now'.profile = now.profile
  BY DEF Undoing, SameKey, SameRecord, SameProfile
<1>3. ReplacesOther(now) /\ tpm => Present(now.key)
  BY DEF ReplacesOther
<1> QED
  BY <1>1, <1>2, <1>3 DEF Control, Settling, Finishing, Plain

LEMMA ControlKept ==
  ASSUME Shape, Control, AccountNext
  PROVE  Control'
<1> USE DEF Still, Onward, Settling, Finishing, Undoing, SameKey, SameRecord, SameProfile
<1>1. CASE Elsewhere /\ SameKey /\ SameRecord /\ SameProfile
  BY <1>1, ElsewhereKeepsControl
<1>2. CASE PutsBack
  BY <1>2 DEF PutsBack, Control
<1>3. CASE Syncs
  BY <1>3 DEF Syncs, Control
<1>4. CASE Ends
  BY <1>4 DEF Ends, Control, Operations, Present
<1>5. CASE Begins
  <2>1. Present(Record) /\ Record.profile = now.profile /\ (tpm => Record.key = now.key)
    BY Contents DEF Record, Present
  <2> HIDE DEF Record
  <2>2. Present(now.key) \/ ~tpm
    BY <1>5 DEF Begins, Control
  <2> QED
    BY <1>5, <2>1, <2>2 DEF Begins, Control, Present
<1>6. CASE Seals
  BY <1>6 DEF Seals, Control
<1>7. CASE Publishes
  BY <1>7 DEF Publishes, Control
<1>8. CASE Unenrolls
  BY <1>8 DEF Unenrolls, Control, Present
<1>9. CASE Unkeys
  BY <1>9 DEF Unkeys, Control
<1>10. CASE Loses
  BY <1>10 DEF Loses, Control
<1> QED
  BY <1>1, <1>2, <1>3, <1>4, <1>5, <1>6, <1>7, <1>8, <1>9, <1>10, AccountSteps

LEMMA AccountStutters ==
  ASSUME UNCHANGED vars
  PROVE  UNCHANGED <<now, disk, tpm, pc, op, next, intact, committed, deleted>>
BY DEF vars, files, world, history

(* The files are the ones irlume keeps, and the worker's place says what   *)
(* the record is for.                                                      *)
THEOREM AccountControl == AccountSpec => [](Shape /\ Control)
<1>1. AccountInit => Shape /\ Control
  <2> SUFFICES ASSUME AccountInit PROVE Shape /\ Control
    OBVIOUS
  <2>1. Shape /\ now.record = None /\ disk.record = None
    BY FileNames DEF AccountInit, Shape, Empty
  <2> QED
    BY <2>1 DEF AccountInit, Control, Settling, Finishing, Present
<1>2. Shape /\ Control /\ [AccountNext]_vars => Shape' /\ Control'
  <2> SUFFICES ASSUME Shape, Control, [AccountNext]_vars PROVE Shape' /\ Control'
    OBVIOUS
  <2>1. CASE AccountNext
    BY <2>1, AccountSteps, ControlKept
  <2>2. CASE UNCHANGED vars
    BY <2>2, AccountStutters DEF Shape, Control, Undoing
  <2> QED
    BY <2>1, <2>2
<1> QED
  BY <1>1, <1>2, PTL DEF AccountSpec

-----------------------------------------------------------------------------
(* A finished replacement is finished for good.                            *)

\* What was recorded of f is gone, also from the disk.
Gone(f) == Present(now.record[f]) => now.record[f] \notin {now[f], disk[f]}

Finished == pc = "end" /\ ~Undoing(now)

FinishInv ==
  /\ pc \in {"droprecovery", "dropjournal", "dropstore"} \/ Finished => disk.profile = now.profile
  /\ pc \in {"dropjournal", "dropstore"} \/ Finished => Gone("recovery")
  /\ pc = "dropstore" \/ Finished => Gone("journal")
  /\ Finished => Gone("store")

LEMMA FinishKept ==
  ASSUME Shape, Control, FinishInv, AccountNext
  PROVE  FinishInv'
<1>1. CASE Drops
  <2>1. SameKey /\ SameRecord /\ SameProfile /\ ~Undoing(now) /\ Present(now.record)
    BY <1>1, ElsewhereFiles DEF Drops, Elsewhere, Control, Finishing, Settling, DropRecovery, DropJournal, DropStore
  <2>2. Undoing(now)' <=> Undoing(now)
    BY <2>1 DEF Undoing, SameRecord, SameProfile
  <2>3. CASE DropRecovery
    <3>1. PICK c : /\ Step("recovery", c, "dropjournal", SettleFailed)
                   /\ c = IF now["recovery"] = now.record["recovery"] THEN None ELSE now["recovery"]
      BY <2>3 DEF DropRecovery, RemoveIfRecorded
    <3>2. \/ pc' = SettleFailed
          \/ pc' = "dropjournal" /\ now'.recovery = c /\ disk'.recovery = c
      BY <3>1, RecoveryStep
    <3>3. SettleFailed \in {"idle", "load"}
      BY DEF SettleFailed
    <3>4. pc = "droprecovery"
      BY <2>3 DEF DropRecovery
    <3> QED
      BY <2>1, <3>1, <3>2, <3>3, <3>4 DEF FinishInv, Finished, Gone, Present, SameRecord, SameProfile
  <2>4. CASE DropJournal
    <3>1. PICK c : /\ Step("journal", c, "dropstore", SettleFailed)
                   /\ c = IF now["journal"] = now.record["journal"] THEN None ELSE now["journal"]
      BY <2>4 DEF DropJournal, RemoveIfRecorded
    <3>2. /\ SameRecovery
          /\ \/ pc' = SettleFailed
             \/ pc' = "dropstore" /\ now'.journal = c /\ disk'.journal = c
      BY <3>1, JournalStep
    <3>3. SettleFailed \in {"idle", "load"}
      BY DEF SettleFailed
    <3>4. pc = "dropjournal"
      BY <2>4 DEF DropJournal
    <3> QED
      BY <2>1, <3>1, <3>2, <3>3, <3>4 DEF FinishInv, Finished, Gone, Present, SameRecord, SameProfile, SameRecovery
  <2>5. CASE DropStore
    <3>1. PICK c : /\ Step("store", c, "end", SettleFailed)
                   /\ c = IF now["store"] = now.record["store"] THEN None ELSE now["store"]
      BY <2>5 DEF DropStore, RemoveIfRecorded
    <3>2. /\ SameRecovery
          /\ \/ pc' = SettleFailed
             \/ /\ pc' = "end" /\ now'.store = c /\ disk'.store = c
                /\ now'.journal = now.journal /\ disk'.journal = now.journal
      BY <3>1, StoreStep
    <3>3. SettleFailed \in {"idle", "load"}
      BY DEF SettleFailed
    <3>4. pc = "dropstore"
      BY <2>5 DEF DropStore
    <3> QED
      BY <2>1, <3>1, <3>2, <3>3, <3>4 DEF FinishInv, Finished, Gone, Present, SameRecord, SameProfile, SameRecovery
  <2> QED
    BY <1>1, <2>3, <2>4, <2>5 DEF Drops
<1>2. CASE Elsewhere /\ ~Drops
  <2>1. pc' \notin {"droprecovery", "dropjournal", "dropstore", "end"}
    BY <1>2, ElsewhereGoes DEF Plain
  <2> QED
    BY <2>1 DEF FinishInv, Finished
<1>3. CASE PutsBack
  <2>1. Undoing(now) /\ (Undoing(now)' <=> Undoing(now))
    BY <1>3 DEF PutsBack, Control, Undoing, SameProfile
  <2> QED
    BY <1>3, <2>1 DEF PutsBack, FinishInv, Finished
<1>4. CASE Syncs
  BY <1>4 DEF Syncs, FinishInv, Finished
<1>5. CASE Ends
  BY <1>5 DEF Ends, FinishInv, Finished, Control, Operations
<1>6. CASE Begins \/ Seals \/ Publishes \/ Unenrolls \/ Unkeys \/ Loses
  BY <1>6 DEF Begins, Seals, Publishes, Unenrolls, Unkeys, Loses, FinishInv, Finished
<1> QED
  BY <1>1, <1>2, <1>3, <1>4, <1>5, <1>6, AccountSteps DEF Elsewhere, Drops

LEMMA FinishInvariant == AccountSpec => []FinishInv
<1>1. AccountInit => FinishInv
  BY DEF AccountInit, FinishInv, Finished
<1>2. Shape /\ Control /\ FinishInv /\ [AccountNext]_vars => FinishInv'
  <2> SUFFICES ASSUME Shape, Control, FinishInv, [AccountNext]_vars PROVE FinishInv'
    OBVIOUS
  <2>1. CASE UNCHANGED vars
    BY <2>1, AccountStutters DEF FinishInv, Finished, Gone, Undoing
  <2> QED
    BY <2>1, FinishKept
<1> QED
  BY <1>1, <1>2, AccountControl, PTL DEF AccountSpec

(* A settlement takes what belonged to the replaced enrollment only when   *)
(* that is off the disk, and the record only when nothing recorded is left *)
(* anywhere: the enrollment is synced first, and every removal is synced   *)
(* before the next (replacement::finish).                                  *)
THEOREM ReplacementsFinish == AccountSpec => FinishedForGood
<1> DEFINE A == /\ \A f \in {"recovery", "journal", "store"} :
                     pc \in {"droprecovery", "dropjournal", "dropstore"} /\ now'[f] # now[f]
                         => disk.profile # now.record.profile
                /\ pc = "end" /\ ~Present(now'.record) /\ ~Undoing(now) =>
                     \A f \in {"recovery", "journal", "store"} :
                        Present(now.record[f]) => now.record[f] \notin {now'[f], disk'[f]}
<1>1. Shape /\ Control /\ FinishInv /\ [AccountNext]_vars => A
  <2> SUFFICES ASSUME Shape, Control, FinishInv, [AccountNext]_vars PROVE A
    OBVIOUS
  <2>1. pc \in {"droprecovery", "dropjournal", "dropstore"} => disk.profile # now.record.profile
    BY DEF FinishInv, Control, Finishing, Undoing
  <2>2. ASSUME pc = "end", ~Present(now'.record), ~Undoing(now),
               NEW f \in {"recovery", "journal", "store"}, Present(now.record[f])
        PROVE  now.record[f] \notin {now'[f], disk'[f]}
    <3>1. Present(now.record) /\ Gone(f)
      BY <2>2 DEF Control, Settling, FinishInv, Finished
    <3>2. CASE Loses
      BY <2>2, <3>1, <3>2 DEF Loses, Gone
    <3>3. CASE Ends
      BY <2>2, <3>1, <3>3 DEF Ends, Still, SameRecovery, SameCameras, SameStore, SameJournal, Gone
    <3>4. ~SameRecord
      BY <2>2, <3>1 DEF SameRecord
    <3>5. ~UNCHANGED vars
      BY <2>2, <3>1, AccountStutters
    <3> QED
      BY <2>2, <3>2, <3>3, <3>4, <3>5, AccountSteps
         DEF PutsBack, Syncs, Begins, Seals, Publishes, Unenrolls, Unkeys
  <2> QED
    BY <2>1, <2>2
<1> QED
  BY <1>1, AccountControl, FinishInvariant, PTL DEF AccountSpec, FinishedForGood

-----------------------------------------------------------------------------
(* A committed store survives.                                             *)

IsStore(c) ==
  /\ c = [uid |-> c.uid, generation |-> c.generation, groups |-> c.groups, for |-> c.for, key |-> c.key]
  /\ c.generation \in Nat

\* The committed store or a later generation.
Since(c) == c = committed \/ c.generation > committed.generation

\* A store is on its way to the disk.
Publishing == pc \in {"remove", "journal", "store"} \/ (op = "remove" /\ pc # "unjournal")

StoreInv ==
  /\ \A c \in {now.store, disk.store, now.journal, disk.journal, committed, next} : Present(c) => IsStore(c)
  /\ Present(committed) =>
       /\ Present(now.store) /\ Present(disk.store)
       /\ \A c \in {now.store, disk.store, now.journal, disk.journal} : Present(c) => Since(c)
       /\ Publishing => next.generation > committed.generation
  /\ Publishing => Present(next)
  /\ pc = "store" => now.journal = next
  /\ pc = "resolve" => Present(now.journal)
  /\ pc \in {"dropstore", "deletestore"} => ~Present(committed)

(* remove_group seals the store it edited under the key of the account.    *)
LEMMA RekeyedStore ==
  ASSUME NEW c, IsStore(c), NEW e, NEW y, e = [c EXCEPT !.key = y]
  PROVE  Present(e) /\ IsStore(e) /\ e.generation = c.generation
<1>1. e = [uid |-> c.uid, generation |-> c.generation, groups |-> c.groups, for |-> c.for, key |-> y]
  BY DEF IsStore
<1>2. c.generation \in Nat
  BY DEF IsStore
<1> QED
  BY <1>1, <1>2, Contents DEF IsStore, Present

(* Steps that leave the store and its journal alone, or lose what was not  *)
(* on the disk.                                                            *)
LEMMA StoreAside ==
  ASSUME StoreInv, SameCameras \/ (now' = disk /\ disk' = disk),
         committed' = committed,
         Present(next') => IsStore(next'),
         Publishing' => /\ Present(next')
                        /\ Present(committed) => next'.generation > committed.generation,
         pc' # "store", pc' = "resolve" => Present(now'.journal),
         pc' \notin {"dropstore", "deletestore"}
  PROVE  StoreInv'
<1>1. \A c \in {now'.store, disk'.store, now'.journal, disk'.journal} :
         c \in {now.store, disk.store, now.journal, disk.journal}
  BY DEF SameCameras, SameStore, SameJournal
<1>2. Present(now.store) /\ Present(disk.store) => Present(now'.store) /\ Present(disk'.store)
  BY DEF SameCameras, SameStore, SameJournal
<1>3. \A c : Since(c) <=> Since(c)'
  BY DEF Since
<1>4. \A c \in {now'.store, disk'.store, now'.journal, disk'.journal, committed', next'} : Present(c) => IsStore(c)
  BY <1>1 DEF StoreInv
<1>5. Present(committed') =>
       /\ Present(now'.store) /\ Present(disk'.store)
       /\ \A c \in {now'.store, disk'.store, now'.journal, disk'.journal} : Present(c) => Since(c)'
  BY <1>1, <1>2, <1>3 DEF StoreInv
<1> QED
  BY <1>4, <1>5 DEF StoreInv

(* Steps that commit nothing and are over or go on.                        *)
LEMMA StoreCoreKept ==
  ASSUME StoreInv, Control,
         PutsBack \/ Syncs \/ Ends \/ Begins \/ Seals \/ Publishes \/ Unenrolls \/ Unkeys \/ Loses
  PROVE  StoreInv'
<1>1. /\ SameCameras \/ (now' = disk /\ disk' = disk)
      /\ committed' = committed /\ Onward
  BY DEF PutsBack, Syncs, Ends, Begins, Seals, Publishes, Unenrolls, Unkeys, Loses, Still
<1>2. /\ pc' \notin {"journal", "store", "resolve", "dropstore", "deletestore"}
      /\ pc' = "remove" => op = "remove"
  BY DEF PutsBack, Syncs, Ends, Begins, Seals, Publishes, Unenrolls, Unkeys, Loses, Control, Operations
<1>3. pc' = "idle" \/ pc # "unjournal"
  BY DEF PutsBack, Syncs, Ends, Begins, Seals, Publishes, Unenrolls, Unkeys, Loses
<1>4. Publishing' => Publishing /\ next' = next
  BY <1>1, <1>2, <1>3 DEF Publishing, Onward
<1>5. next' = next \/ next' = None
  BY <1>1 DEF Onward
<1> QED
  BY <1>1, <1>2, <1>4, <1>5, StoreAside DEF StoreInv, Present

LEMMA StoreQuietKept ==
  ASSUME Shape, StoreInv, Control,
         \/ Renumber \/ (\E operation \in Operations : Request(operation)) \/ Save \/ Load \/ Stop
         \/ SetupRecovery \/ DropRecovery \/ DeleteRecovery
  PROVE  StoreInv'
<1> USE DEF Operations
<1>1. SameCameras
  <2>1. CASE UNCHANGED files \/ Nothing
    BY <2>1, Unchanged DEF files, Nothing, SameFiles
  <2>2. CASE SetupRecovery \/ DropRecovery
    BY <2>1, <2>2, RecoveryStep DEF SetupRecovery, DropRecovery, RemoveIfRecorded
  <2>3. CASE DeleteRecovery
    BY <2>3, ForgetStep, FileNames DEF DeleteRecovery, SameCameras, SameStore, SameJournal
  <2> QED
    BY <2>1, <2>2, <2>3 DEF Renumber, Request, Save, Load, Stop
<1>2. committed' = committed /\ next' \in {next, None}
  BY DEF Renumber, Request, Save, Load, Stop, SetupRecovery, DropRecovery, DeleteRecovery, Onward
<1>3. /\ pc' \notin {"remove", "journal", "store", "dropstore", "deletestore"}
      /\ pc' = "resolve" => Present(now.journal)
      /\ op' = "remove" => op = "remove" /\ next' = next /\ (pc # "unjournal" \/ pc' = "unjournal")
  <2>1. CASE Renumber \/ Stop \/ Save \/ Load
    BY <2>1 DEF Renumber, Stop, Save, Load, Onward, Control
  <2>2. CASE \E operation \in Operations : Request(operation)
    BY <2>2 DEF Request, Acquire
  <2>3. CASE SetupRecovery
    BY <2>3, RecoveryStep DEF SetupRecovery, Onward
  <2>4. CASE DropRecovery
    <3>1. pc = "droprecovery" /\ pc' \in {"dropjournal", "idle", "load"} /\ Onward
      BY <2>4, RecoveryStep DEF DropRecovery, RemoveIfRecorded, SettleFailed
    <3> QED
      BY <3>1 DEF Onward
  <2>5. CASE DeleteRecovery
    BY <2>5, ForgetStep, FileNames DEF DeleteRecovery, Onward
  <2> QED
    BY <2>1, <2>2, <2>3, <2>4, <2>5
<1>4. now'.journal = now.journal
  BY <1>1 DEF SameCameras, SameJournal
<1>5. Publishing' => Publishing /\ next' = next
  BY <1>3 DEF Publishing
<1> QED
  BY <1>1, <1>2, <1>3, <1>4, <1>5, StoreAside DEF StoreInv, Present

(* A group is added to the store that is there, or removed from it.        *)
LEMMA StoreEditKept ==
  ASSUME Shape, StoreInv, Add \/ Remove \/ RemoveKey
  PROVE  StoreInv'
<1>1. SameCameras /\ committed' = committed
  BY Unchanged DEF Add, Remove, RemoveKey, files, Nothing, SameFiles
<1>2. /\ pc' \notin {"store", "resolve", "dropstore", "deletestore"}
      /\ pc \notin {"unjournal", "store"}
  BY DEF Add, Remove, RemoveKey, Acquire
<1>3. Present(now.store) => IsStore(now.store) /\ now.store.generation \in Nat
  BY DEF StoreInv, IsStore
<1>4. Present(now.store) /\ Present(committed) =>
         \A g \in Nat : g > now.store.generation => g > committed.generation
  BY <1>3 DEF StoreInv, Since, IsStore
<1>5. CASE Add
  <2>1. CASE next' = None /\ pc' = "idle"
    <3>1. ~Publishing'
      BY <1>5, <2>1 DEF Add, Publishing
    <3> QED
      BY <1>1, <1>2, <2>1, <3>1, StoreAside DEF Present
  <2>2. CASE ~(next' = None /\ pc' = "idle")
    <3>1. PICK generation, groups :
             /\ generation = IF Present(now.store) THEN now.store.generation ELSE 0
             /\ next' = [uid |-> owner, generation |-> generation + 1, groups |-> groups + 1,
                         for |-> now.profile.id, key |-> now.profile.key]
      BY <1>5, <2>2 DEF Add
    <3>2. generation \in Nat /\ generation + 1 \in Nat /\ generation + 1 > generation
      BY <1>3, <3>1
    <3>3. Present(next') /\ IsStore(next') /\ next'.generation = generation + 1
      BY <3>1, <3>2, Contents DEF Present, IsStore
    <3>4. Present(committed) => next'.generation > committed.generation
      <4>1. Present(committed) => Present(now.store)
        BY DEF StoreInv
      <4> QED
        BY <1>4, <3>1, <3>2, <3>3, <4>1
    <3> QED
      BY <1>1, <1>2, <3>3, <3>4, StoreAside
  <2> QED
    BY <2>1, <2>2
<1>6. CASE Remove
  <2>1. PICK g, x : /\ next' = [now.store EXCEPT !.generation = g, !.groups = x]
                    /\ Present(now.store) /\ g = now.store.generation + 1
    BY Zenon, <1>6 DEF Remove
  <2>2. g \in Nat /\ g > now.store.generation
    BY <1>3, <2>1
  <2>3. Present(next') /\ IsStore(next') /\ next'.generation = g
    <3>1. PICK c, e : IsStore(c) /\ e = next' /\ e = [c EXCEPT !.generation = g, !.groups = x]
      BY <1>3, <2>1
    <3>2. e = [uid |-> c.uid, generation |-> g, groups |-> x, for |-> c.for, key |-> c.key]
      BY Zenon, <3>1 DEF IsStore
    <3>3. Present(e) /\ IsStore(e) /\ e.generation = g
      BY <2>2, <3>2, Contents DEF IsStore, Present
    <3> QED
      BY <3>1, <3>3
  <2>4. Present(committed) => next'.generation > committed.generation
    BY <1>4, <2>1, <2>2, <2>3
  <2> QED
    BY <1>1, <1>2, <2>3, <2>4, StoreAside
<1>7. CASE RemoveKey
  <2>1. CASE pc' = "idle"
    <3>1. ~Publishing' /\ next' = None
      BY <1>7, <2>1 DEF RemoveKey, Publishing
    <3> QED
      BY <1>1, <1>2, <3>1, StoreAside DEF Present
  <2>2. CASE pc' = "journal"
    <3>1. next' = [next EXCEPT !.key = now.key.id] /\ (op' = op)
      BY <1>7, <2>2 DEF RemoveKey
    <3>2. Publishing
      BY <1>7 DEF RemoveKey, Publishing
    <3>3. Present(next') /\ IsStore(next') /\ next'.generation = next.generation
      <4>1. Present(next) /\ IsStore(next)
        BY <3>2 DEF StoreInv
      <4> QED
        BY <3>1, <4>1, RekeyedStore
    <3> QED
      BY <1>1, <1>2, <3>2, <3>3, StoreAside DEF StoreInv
  <2> QED
    BY <1>7, <2>1, <2>2 DEF RemoveKey
<1> QED
  BY <1>5, <1>6, <1>7

(* Steps of a settlement or a deletion that take the journal or the store. *)
LEMMA StoreTakenKept ==
  ASSUME Shape, Control, StoreInv,
         DropJournal \/ DropStore \/ DeleteJournal \/ DeleteStore
  PROVE  StoreInv'
<1>1. committed' = None
  BY DEF DropJournal, DropStore, DeleteJournal, DeleteStore, StoreInv, Present
<1>2. \A c \in {now'.store, disk'.store, now'.journal, disk'.journal} :
         c \in {now.store, disk.store, now.journal, disk.journal, None}
  <2>1. CASE DropJournal
    <3>1. PICK c \in {None, now.journal} : Step("journal", c, "dropstore", SettleFailed)
      BY <2>1 DEF DropJournal, RemoveIfRecorded
    <3> QED
      BY <3>1, JournalStep DEF SameJournal
  <2>2. CASE DropStore
    <3>1. PICK c \in {None, now.store} : Step("store", c, "end", SettleFailed)
      BY <2>2 DEF DropStore, RemoveIfRecorded
    <3> QED
      BY <3>1, StoreStep DEF SameStore
  <2>3. CASE DeleteJournal
    <3>1. CASE Step("journal", None, "deletestore", "idle")
      BY <3>1, JournalStep DEF SameJournal
    <3>2. CASE UNCHANGED files
      BY <3>2 DEF files
    <3> QED
      BY <2>3, <3>1, <3>2 DEF DeleteJournal
  <2>4. CASE DeleteStore
    BY <2>4, StoreStep DEF DeleteStore, SameStore
  <2> QED
    BY <2>1, <2>2, <2>3, <2>4
<1>3. next' \in {next, None} /\ ~Present(committed')
  BY <1>1 DEF DropJournal, DropStore, DeleteJournal, DeleteStore, Onward, Present
<1>4. \A c \in {now'.store, disk'.store, now'.journal, disk'.journal, committed', next'} : Present(c) => IsStore(c)
  BY <1>1, <1>2, <1>3 DEF StoreInv, Present
<1>5. /\ pc' \in {"idle", "load", "dropstore", "end", "deletestore", "deleteprofile"}
      /\ pc # "unjournal" /\ Onward
  <2>1. SettleFailed \in {"idle", "load"}
    BY DEF SettleFailed
  <2> QED
    BY <2>1, JournalStep, StoreStep
       DEF DropJournal, DropStore, DeleteJournal, DeleteStore, RemoveIfRecorded
<1>6. Publishing' => Present(next')
  BY <1>5 DEF Publishing, Onward, StoreInv
<1> QED
  BY <1>3, <1>4, <1>5, <1>6 DEF StoreInv

(* The journal of the new store is written.                                *)
LEMMA JournalPublishedKept ==
  ASSUME Shape, StoreInv, PublishJournal
  PROVE  StoreInv'
<1>1. /\ pc = "journal" /\ Step("journal", next, "store", "idle") /\ committed' = committed
      /\ Onward
  BY DEF PublishJournal
<1>2. /\ now'.store = now.store /\ disk'.store \in {now.store, disk.store}
      /\ now'.journal \in {now.journal, next} /\ disk'.journal \in {disk.journal, next}
      /\ pc' = "idle" \/ (pc' = "store" /\ now'.journal = next)
  BY <1>1, JournalStep DEF SameJournal
<1>3. Publishing /\ Present(next) /\ IsStore(next) /\ (Present(committed) => next.generation > committed.generation)
  BY <1>1 DEF Publishing, StoreInv
<1>4. next' = next \/ next' = None
  BY <1>1 DEF Onward
<1>5. \A c : Since(c) <=> Since(c)'
  BY <1>1 DEF Since
<1>6. \A c \in {now'.store, disk'.store, now'.journal, disk'.journal, committed', next'} : Present(c) => IsStore(c)
  BY <1>1, <1>2, <1>4 DEF StoreInv, Present
<1>7. Present(committed') =>
       /\ Present(now'.store) /\ Present(disk'.store)
       /\ \A c \in {now'.store, disk'.store, now'.journal, disk'.journal} : Present(c) => Since(c)'
  <2>1. Present(committed) => Since(next)
    BY <1>3 DEF Since
  <2> QED
    BY <1>1, <1>2, <1>5, <2>1 DEF StoreInv
<1>8. Publishing' => pc' = "store" /\ next' = next
  BY <1>1, <1>2 DEF Publishing, Onward
<1>9. Publishing' => Present(next') /\ (Present(committed') => next'.generation > committed'.generation)
  BY <1>1, <1>3, <1>8
<1>10. /\ pc' = "store" => now'.journal = next'
       /\ pc' \notin {"resolve", "dropstore", "deletestore"}
  BY <1>1, <1>2 DEF Onward
<1> QED
  BY <1>6, <1>7, <1>9, <1>10 DEF StoreInv

(* A store is published over the committed one, or the journal's over it;  *)
(* a durable one is committed.                                             *)
LEMMA StorePublishedKept ==
  ASSUME Shape, StoreInv, NEW c, Step("store", c, "unjournal", "idle"),
         committed' = IF pc' = "unjournal" THEN c ELSE committed,
         Present(c), IsStore(c), now.journal = c, Present(committed) => Since(c), Onward
  PROVE  StoreInv'
<1>1. /\ now'.journal = now.journal /\ disk'.journal \in {now.journal, disk.journal}
      /\ \/ pc' = "unjournal" /\ now'.store = c /\ disk'.store = c /\ disk'.journal = now.journal
         \/ pc' = "idle" /\ disk'.journal = disk.journal
            /\ now'.store \in {now.store, c} /\ disk'.store \in {disk.store, c}
  BY StoreStep DEF SameStore
<1>2. IsStore(c) /\ next' \in {next, None}
  BY DEF Onward
<1>3. \A e \in {now'.store, disk'.store, now'.journal, disk'.journal, committed', next'} : Present(e) => IsStore(e)
  BY <1>1, <1>2 DEF StoreInv, Present
<1>4. ~Publishing' /\ pc' \notin {"store", "resolve", "dropstore", "deletestore"}
  BY <1>1 DEF Publishing, Onward
<1>5. CASE pc' = "unjournal"
  <2>1. committed' = c /\ \A e : Since(e)' <=> e = c \/ e.generation > c.generation
    BY <1>5 DEF Since
  <2>2. now'.store = c /\ disk'.store = c /\ now'.journal = now.journal /\ disk'.journal = now.journal
    BY <1>1, <1>5
  <2>3. /\ Present(now'.store) /\ Present(disk'.store)
        /\ \A e \in {now'.store, disk'.store, now'.journal, disk'.journal} : Present(e) => Since(e)'
    BY <2>1, <2>2
  <2> QED
    BY <1>3, <1>4, <2>3 DEF StoreInv
<1>6. CASE pc' = "idle"
  <2>1. committed' = committed /\ \A e : Since(e)' <=> Since(e)
    BY <1>6 DEF Since
  <2>2. Present(committed) =>
          /\ Present(now'.store) /\ Present(disk'.store)
          /\ \A e \in {now'.store, disk'.store, now'.journal, disk'.journal} : Present(e) => Since(e)
    BY <1>1, <1>6 DEF StoreInv
  <2> QED
    BY Zenon, <1>3, <1>4, <2>1, <2>2 DEF StoreInv
<1> QED
  BY <1>1, <1>5, <1>6

LEMMA StoreCommitsKept ==
  ASSUME Shape, StoreInv, Resolve \/ PublishStore \/ RemoveJournal
  PROVE  StoreInv'
<1>1. CASE Resolve
  <2>1. PICK c : c = now.journal /\ Present(c) /\ IsStore(c)
    BY <1>1 DEF Resolve, StoreInv
  <2>2. Present(committed) => Since(c)
    BY <2>1 DEF StoreInv
  <2> QED
    BY <1>1, <2>1, <2>2, StorePublishedKept DEF Resolve
<1>2. CASE PublishStore
  <2>1. PICK c : c = next /\ Present(c) /\ IsStore(c) /\ now.journal = c
    BY <1>2 DEF PublishStore, StoreInv, Publishing
  <2>2. Present(committed) => Since(c)
    BY <2>1 DEF StoreInv
  <2> QED
    BY <1>2, <2>1, <2>2, StorePublishedKept DEF PublishStore
<1>3. CASE RemoveJournal
  <2>1. /\ now'.store = now.store /\ disk'.store \in {now.store, disk.store}
        /\ now'.journal \in {now.journal, None} /\ disk'.journal \in {disk.journal, None}
        /\ pc' = "idle" /\ committed' = committed /\ next' = None /\ op' = "none"
    BY <1>3, JournalStep DEF RemoveJournal, SameJournal, Onward
  <2>2. ~Publishing' /\ \A c : Since(c)' <=> Since(c)
    BY <2>1 DEF Publishing, Since
  <2>3. \A c \in {now'.store, disk'.store, now'.journal, disk'.journal, committed', next'} : Present(c) => IsStore(c)
    BY <2>1 DEF StoreInv, Present
  <2>4. Present(committed') =>
         /\ Present(now'.store) /\ Present(disk'.store)
         /\ \A c \in {now'.store, disk'.store, now'.journal, disk'.journal} : Present(c) => Since(c)'
    BY <2>1, <2>2 DEF StoreInv, Present
  <2> QED
    BY <2>1, <2>2, <2>3, <2>4 DEF StoreInv
<1> QED
  BY <1>1, <1>2, <1>3

LEMMA StoreInvariant == AccountSpec => []StoreInv
<1>1. AccountInit => StoreInv
  <2> SUFFICES ASSUME AccountInit PROVE StoreInv
    OBVIOUS
  <2>1. \A c \in {now.store, disk.store, now.journal, disk.journal, committed, next} : ~Present(c)
    BY FileNames DEF AccountInit, Empty, Present
  <2> QED
    BY <2>1 DEF AccountInit, StoreInv, Publishing
<1>2. Shape /\ Control /\ StoreInv /\ [AccountNext]_vars => StoreInv'
  <2> SUFFICES ASSUME Shape, Control, StoreInv, [AccountNext]_vars PROVE StoreInv'
    OBVIOUS
  <2>1. CASE UNCHANGED vars
    <3>1. UNCHANGED <<now, disk, pc, op, next, committed>>
      BY <2>1, AccountStutters
    <3> QED
      BY <3>1 DEF StoreInv, Publishing, Since
  <2>2. CASE AccountNext /\ Elsewhere
    BY <2>2, StoreQuietKept, StoreEditKept, StoreTakenKept, JournalPublishedKept, StoreCommitsKept DEF Elsewhere
  <2>3. CASE AccountNext /\ ~Elsewhere
    BY <2>3, AccountSteps, StoreCoreKept
  <2> QED
    BY <2>1, <2>2, <2>3
<1> QED
  BY <1>1, <1>2, AccountControl, PTL DEF AccountSpec

(* Past its commit point a publication of the added-camera store survives  *)
(* leftover journals, later publications that fail, crashes and power      *)
(* losses: only a later generation follows it                              *)
(* (PreparedSecondaryCommit::publish, resolve_commit).                     *)
THEOREM CommittedSurvive == AccountSpec => []CommittedStoreSurvives
<1>1. StoreInv => CommittedStoreSurvives
  BY DEF StoreInv, CommittedStoreSurvives, Resolved, Since
<1> QED
  BY <1>1, StoreInvariant, PTL

-----------------------------------------------------------------------------
(* A deletion takes the added-camera store with the enrollment.            *)

\* No store and no journal, also after a power loss.
NoCameras == \A c \in {now.store, disk.store, now.journal, disk.journal} : ~Present(c)

DeletedInv ==
  /\ deleted => ~Present(now.profile) /\ NoCameras
  /\ pc \in {"remove", "journal", "store", "unjournal", "resolve"} \/ op = "remove" => ~deleted
  /\ pc \in {"delete", "deletestore", "deleteprofile"} => op = "delete"
  /\ pc = "deletestore" => ~Present(now.journal)
  /\ pc = "deleteprofile" => NoCameras

LEMMA DeletedCoreKept ==
  ASSUME DeletedInv, Control,
         PutsBack \/ Syncs \/ Ends \/ Begins \/ Seals \/ Publishes \/ Unenrolls \/ Unkeys \/ Loses
  PROVE  DeletedInv'
<1>1. NoCameras => NoCameras'
  BY Zenon DEF PutsBack, Syncs, Ends, Begins, Seals, Publishes, Unenrolls, Unkeys, Loses, Still, NoCameras,
         SameCameras, SameStore, SameJournal
<1>2. /\ pc' \notin {"journal", "store", "unjournal", "resolve", "deletestore", "deleteprofile"}
      /\ pc' \in {"remove", "delete"} => pc' = op
      /\ op' = IF pc' = "idle" THEN "none" ELSE op
  BY Zenon DEF PutsBack, Syncs, Ends, Begins, Seals, Publishes, Unenrolls, Unkeys, Loses, Control, Operations,
         Still, Onward
<1>3. deleted' => ~Present(now'.profile)
  <2>1. CASE PutsBack \/ Syncs \/ Ends \/ Begins \/ Seals \/ Unkeys
    BY Zenon, <2>1 DEF PutsBack, Syncs, Ends, Begins, Seals, Unkeys, SameProfile, DeletedInv
  <2>2. CASE Publishes
    BY Zenon, <2>2 DEF Publishes
  <2>3. CASE Unenrolls
    BY Zenon, <2>3 DEF Unenrolls, SameProfile, DeletedInv, Present
  <2>4. CASE Loses
    BY Zenon, <2>4 DEF Loses
  <2> QED
    BY <2>1, <2>2, <2>3, <2>4
<1>4. deleted' => deleted \/ (pc = "deleteprofile" /\ pc' = "deletekey")
  BY Zenon DEF PutsBack, Syncs, Ends, Begins, Seals, Publishes, Unenrolls, Unkeys, Loses
<1>5. deleted' => NoCameras'
  BY <1>1, <1>4 DEF DeletedInv
<1> QED
  BY <1>2, <1>3, <1>4, <1>5 DEF DeletedInv

LEMMA DeletedElsewhereKept ==
  ASSUME Shape, Control, DeletedInv, Elsewhere
  PROVE  DeletedInv'
<1> USE DEF Operations
<1>1. SameProfile /\ deleted' = deleted
  BY ElsewhereFiles
     DEF Elsewhere, Renumber, Request, DropRecovery, DropJournal, DropStore, Save, Load, Resolve,
         SetupRecovery, Add, Remove, RemoveKey, PublishJournal, PublishStore, RemoveJournal,
         DeleteJournal, DeleteStore, DeleteRecovery, Stop
<1>2. CASE /\ SameCameras
           /\ \/ Renumber \/ \E operation \in Operations : Request(operation)
              \/ Save \/ Load \/ Stop \/ Add \/ Remove \/ RemoveKey
              \/ SetupRecovery \/ DropRecovery \/ DeleteRecovery
  <2>1. NoCameras' <=> NoCameras
    BY <1>2 DEF NoCameras, SameCameras, SameStore, SameJournal
  <2>2. /\ pc' \in {"deletestore", "deleteprofile"} => FALSE
        /\ pc' = "delete" => op' = "delete"
        /\ pc' \in {"remove", "journal", "store", "unjournal", "resolve"} \/ op' = "remove" => ~deleted
    <3>1. CASE Renumber \/ Stop
      BY <3>1 DEF Renumber, Stop, Onward, DeletedInv
    <3>2. CASE \E operation \in Operations : Request(operation)
      BY <3>2 DEF Request, Acquire
    <3>3. CASE Save \/ Load
      BY <3>3 DEF Save, Load, Onward, DeletedInv, NoCameras, Enrolled
    <3>4. CASE Add
      BY <3>4 DEF Add, DeletedInv, Enrolled
    <3>5. CASE Remove
      BY <3>5 DEF Remove, Acquire, DeletedInv, NoCameras
    <3>6. CASE RemoveKey
      BY <3>6 DEF RemoveKey, DeletedInv
    <3>7. CASE SetupRecovery
      BY <3>7, RecoveryStep DEF SetupRecovery, Onward, DeletedInv
    <3>8. CASE DropRecovery
      BY <3>8, RecoveryStep DEF DropRecovery, RemoveIfRecorded, SettleFailed, Onward, DeletedInv
    <3>9. CASE DeleteRecovery
      BY <3>9, ForgetStep, FileNames DEF DeleteRecovery, Onward, DeletedInv
    <3> QED
      BY <1>2, <3>1, <3>2, <3>3, <3>4, <3>5, <3>6, <3>7, <3>8, <3>9
  <2> QED
    BY <1>1, <2>1, <2>2 DEF DeletedInv, SameProfile
<1>3. CASE Resolve \/ PublishStore \/ PublishJournal \/ RemoveJournal
  <2>1. ~deleted
    BY <1>3 DEF Resolve, PublishStore, PublishJournal, RemoveJournal, DeletedInv
  <2>2. pc' \in {"unjournal", "store", "idle"}
    BY <1>3, StoreStep, JournalStep DEF Resolve, PublishStore, PublishJournal, RemoveJournal
  <2> QED
    BY <1>1, <2>1, <2>2 DEF DeletedInv
<1>4. CASE DropJournal \/ DropStore \/ DeleteJournal \/ DeleteStore
  <2>1. NoCameras => NoCameras'
    <3>1. CASE DropJournal
      BY <3>1, JournalStep DEF DropJournal, RemoveIfRecorded, NoCameras, SameJournal, Present
    <3>2. CASE DropStore
      BY <3>2, StoreStep DEF DropStore, RemoveIfRecorded, NoCameras, SameStore, Present
    <3>3. CASE DeleteJournal
      BY <3>3, JournalStep DEF DeleteJournal, files, NoCameras, SameJournal, Present
    <3>4. CASE DeleteStore
      BY <3>4, StoreStep DEF DeleteStore, NoCameras, SameStore, Present
    <3> QED
      BY <1>4, <3>1, <3>2, <3>3, <3>4
  <2>2. /\ pc' \notin {"remove", "journal", "store", "unjournal", "resolve", "delete"}
        /\ op' = "remove" => op = "remove"
        /\ pc' = "deletestore" => pc = "delete" /\ op' = op /\ ~Present(now'.journal)
        /\ pc' = "deleteprofile" => pc = "deletestore" /\ op' = op /\ NoCameras'
    <3>1. CASE DropJournal
      BY <3>1, JournalStep DEF DropJournal, RemoveIfRecorded, SettleFailed, Onward
    <3>2. CASE DropStore
      BY <3>2, StoreStep DEF DropStore, RemoveIfRecorded, SettleFailed, Onward
    <3>3. CASE DeleteJournal
      BY <3>3, JournalStep DEF DeleteJournal, files, Onward, Present
    <3>4. CASE DeleteStore
      BY <3>4, StoreStep DEF DeleteStore, Onward, Present, NoCameras, DeletedInv
    <3> QED
      BY <1>4, <3>1, <3>2, <3>3, <3>4
  <2> QED
    BY <1>1, <2>1, <2>2 DEF DeletedInv, SameProfile
<1>5. \/ Renumber \/ (\E operation \in Operations : Request(operation))
      \/ Save \/ Load \/ Stop \/ Add \/ Remove \/ RemoveKey
      \/ SetupRecovery \/ DropRecovery \/ DeleteRecovery
      => SameCameras
  BY Unchanged, RecoveryStep, ForgetStep, FileNames
     DEF Renumber, Request, Save, Load, Stop, Add, Remove, RemoveKey, SetupRecovery, DropRecovery,
         DeleteRecovery, RemoveIfRecorded, files, Nothing, SameFiles, SameCameras, SameStore, SameJournal
<1> QED
  BY <1>2, <1>3, <1>4, <1>5 DEF Elsewhere

LEMMA DeletedInvariant == AccountSpec => []DeletedInv
<1>1. AccountInit => DeletedInv
  BY DEF AccountInit, DeletedInv
<1>2. Shape /\ Control /\ DeletedInv /\ [AccountNext]_vars => DeletedInv'
  <2> SUFFICES ASSUME Shape, Control, DeletedInv, [AccountNext]_vars PROVE DeletedInv'
    OBVIOUS
  <2>1. CASE UNCHANGED vars
    BY <2>1, AccountStutters DEF DeletedInv, NoCameras
  <2>2. CASE AccountNext /\ Elsewhere
    BY <2>2, DeletedElsewhereKept
  <2>3. CASE AccountNext /\ ~Elsewhere
    BY <2>3, AccountSteps, DeletedCoreKept
  <2> QED
    BY <2>1, <2>2, <2>3
<1> QED
  BY <1>1, <1>2, AccountControl, PTL DEF AccountSpec

(* delete takes the enrollment when no power loss can bring the            *)
(* added-camera store or its journal back: both are gone and synced first, *)
(* and nothing publishes a store for an account without an enrollment.     *)
THEOREM DeletionTakesStore == AccountSpec => []DeletedTakesStore
<1>1. DeletedInv => DeletedTakesStore
  BY DEF DeletedInv, DeletedTakesStore, NoCameras
<1> QED
  BY <1>1, DeletedInvariant, PTL

-----------------------------------------------------------------------------
(* The stored enrollment opens with the key a settlement leaves.           *)

OpensIn(key, d) == Present(d.profile) => Opens(key, d.profile)

\* A replacement is under way, and the key may be the old or the new one.
Replacing ==
  /\ Present(now.record) /\ disk.record = now.record
  /\ Undoing(now) /\ Undoing(disk) /\ pc \in {"idle", "putback"}

\* A deletion took the enrollment before the key.
Bare == \A d \in {now, disk} : ~Present(d.profile) /\ ~Present(d.record)

PairInv ==
  /\ OpensIn(SettledKey(now), now) /\ OpensIn(SettledKey(disk), disk)
  /\ ~Present(now.profile) => ~Present(disk.profile)
  /\ now.key = disk.key \/ Replacing \/ (Bare /\ ~Present(now.key))
  /\ ~Present(now.record) => OpensIn(disk.key, disk)
  /\ Present(now.record) /\ Undoing(now) =>
       /\ OpensIn(now.record.key, disk)
       /\ \/ disk.record = now.record /\ Undoing(disk)
          \/ now.key = now.record.key /\ disk.key = now.record.key
  /\ Present(now.record) /\ ~Undoing(now) => disk.record = now.record
  /\ pc = "end" /\ Undoing(now) => now.key = now.record.key /\ disk.key = now.record.key
  /\ pc \in {"seal", "publish"} /\ Present(now.record) => disk.profile = now.profile
  /\ pc = "deletekey" => Bare

(* The pair is on disk as it is seen.                                      *)
LEMMA TogetherPairs ==
  ASSUME Control', Together'
  PROVE  PairInv'
BY Zenon DEF Control, Together, PairInv, OpensIn, SettledKey, Settling, Bare

LEMMA ElsewherePairs ==
  ASSUME Shape, Control, PairInv, tpm, Elsewhere, SameKey, SameRecord, SameProfile
  PROVE  PairInv'
<1>1. Replacing => Replacing'
  <2> SUFFICES ASSUME Replacing PROVE pc' \in {"idle", "putback"}
    BY DEF Replacing, Undoing, SameRecord, SameProfile
  <2>1. CASE Renumber \/ Stop
    BY Zenon, <2>1 DEF Renumber, Stop, Replacing
  <2>2. CASE Remove \/ \E operation \in Operations : Request(operation)
    BY <2>2 DEF Remove, Request, Acquire, Replacing
  <2> QED
    BY <2>1, <2>2
       DEF Elsewhere, Replacing, DropRecovery, DropJournal, DropStore, Save, Load, Resolve, SetupRecovery,
           Add, RemoveKey, PublishJournal, PublishStore, RemoveJournal, DeleteJournal, DeleteStore,
           DeleteRecovery
<1>2. /\ pc' = "end" => ~Undoing(now)
      /\ pc' \in {"seal", "publish"} => ~Present(now.record)
      /\ pc' # "deletekey"
  BY Zenon, ElsewhereGoes DEF Control, Plain, Finishing, Drops
<1> QED
  BY Zenon, <1>1, <1>2 DEF PairInv, OpensIn, SettledKey, Undoing, Bare, SameKey, SameRecord, SameProfile

LEMMA PutBackPairs ==
  ASSUME Control, PairInv, tpm, PutsBack
  PROVE  PairInv'
<1>1. Present(now.record) /\ Present(now.record.key) /\ Undoing(now) /\ pc = "putback"
  BY DEF PutsBack, Control, Settling
<1> QED
  BY Zenon, <1>1 DEF PutsBack, PairInv, OpensIn, SettledKey, Undoing, Bare, Replacing, SameKey, SameRecord, SameProfile

LEMMA SyncPairs ==
  ASSUME Control, PairInv, tpm, Syncs
  PROVE  PairInv'
<1>1. Present(now.record) /\ ~Undoing(now) /\ pc = "syncprofile"
  BY Zenon DEF Syncs, Control, Settling, Finishing
<1> QED
  BY Zenon, <1>1 DEF Syncs, PairInv, OpensIn, SettledKey, Undoing, Bare, Replacing, SameKey, SameRecord, SameProfile

LEMMA EndPairs ==
  ASSUME Control, FinishInv, PairInv, tpm, Ends
  PROVE  PairInv'
<1>1. Present(now.record) /\ pc = "end" /\ (~Undoing(now) => disk.profile = now.profile)
  BY Zenon DEF Ends, Control, Settling, FinishInv, Finished
<1>2. pc' \notin {"end", "seal", "publish", "deletekey"}
  BY DEF Ends, Control, Operations
<1> QED
  BY Zenon, <1>1, <1>2
     DEF Ends, PairInv, OpensIn, SettledKey, Undoing, Bare, Replacing, SameKey, SameRecord, SameProfile, Present

LEMMA BeginPairs ==
  ASSUME Control, PairInv, tpm, Begins, ~Parts
  PROVE  PairInv'
<1>1. /\ pc = "begin" /\ ~Present(now.record) /\ Present(now.key)
      /\ pc' # "idle" => now.profile = disk.profile
  BY DEF Begins, Control, Parts
<1>2. Present(Record) /\ Record.profile = now.profile /\ Record.key = now.key
  BY Zenon, Contents DEF Record, Present
<1> HIDE DEF Record
<1> QED
  BY Zenon, <1>1, <1>2
     DEF Begins, PairInv, OpensIn, SettledKey, Undoing, Bare, Replacing, SameKey, SameRecord, SameProfile, Present

LEMMA SealPairs ==
  ASSUME Control, PairInv, tpm, Seals, ~Parts
  PROVE  PairInv'
<1>1. pc = "seal" /\ (~Present(now.record) => ~Present(now.profile) /\ now'.key = disk'.key)
  BY DEF Seals, Control, Parts
<1>2. Present(now.record) => disk.record = now.record /\ Undoing(now) /\ Present(now.record.key)
  BY Zenon, <1>1 DEF Control
<1> QED
  BY Zenon, <1>1, <1>2 DEF Seals, PairInv, OpensIn, SettledKey, Undoing, Bare, Replacing, SameKey, SameProfile

LEMMA PublishPairs ==
  ASSUME Control, PairInv, tpm, Publishes
  PROVE  PairInv'
<1>1. pc = "publish" /\ Present(now.key) /\ now.key = disk.key
  BY Zenon DEF Publishes, Control, PairInv, Replacing
<1>2. Present(now.record) => disk.record = now.record /\ Undoing(now) /\ Present(now.record.key)
  BY <1>1 DEF Control
<1> QED
  BY Zenon, <1>1, <1>2
     DEF Publishes, PairInv, OpensIn, Opens, SettledKey, Undoing, Bare, Replacing, SameKey, SameRecord, SameProfile

LEMMA DeletionPairs ==
  ASSUME PairInv, (Unenrolls /\ ~Parts) \/ Unkeys
  PROVE  PairInv'
<1>1. CASE Unenrolls /\ ~Parts
  BY Zenon, <1>1 DEF Unenrolls, Parts, PairInv, OpensIn, SettledKey, Undoing, Bare, Replacing, SameKey, SameRecord, SameProfile
<1>2. CASE Unkeys
  BY Zenon, <1>2 DEF Unkeys, PairInv, OpensIn, SettledKey, Undoing, Bare, Replacing, SameKey, SameRecord, SameProfile, Present
<1> QED
  BY <1>1, <1>2

LEMMA LossPairs ==
  ASSUME Control, PairInv, tpm, Loses
  PROVE  PairInv'
<1>1. Present(disk.record) => Present(disk.record.key)
  BY DEF Control
<1> QED
  BY Zenon, <1>1 DEF Loses, PairInv, OpensIn, SettledKey, Undoing, Bare, Replacing

LEMMA PairInvariant == AccountSpec => [](tpm /\ intact => PairInv)
<1>1. AccountInit => PairInv
  <2> SUFFICES ASSUME AccountInit PROVE PairInv
    OBVIOUS
  <2>1. /\ now.key = disk.key /\ now.profile = None /\ disk.profile = None
        /\ now.record = None /\ disk.record = None /\ pc = "idle"
    BY FileNames DEF AccountInit, Empty
  <2> QED
    BY <2>1 DEF PairInv, OpensIn, Present
<1>2. Shape /\ Control /\ FinishInv /\ Control' /\ (tpm /\ intact => PairInv) /\ [AccountNext]_vars
        => (tpm' /\ intact' => PairInv')
  <2> SUFFICES ASSUME Shape, Control, FinishInv, Control', tpm /\ intact => PairInv, [AccountNext]_vars,
                      tpm', intact'
               PROVE  PairInv'
    OBVIOUS
  <2>1. CASE UNCHANGED vars
    BY Zenon, <2>1, AccountStutters DEF PairInv, OpensIn, SettledKey, Undoing, Bare, Replacing
  <2>2. CASE AccountNext
    <3>1. tpm /\ ((intact /\ ~Parts) \/ Together')
      BY Zenon, <2>2, AccountSteps DEF AccountNext
    <3>2. CASE Together'
      BY <3>2, TogetherPairs
    <3>3. CASE intact /\ ~Parts
      BY <2>2, <3>1, <3>3, AccountSteps, ElsewherePairs, PutBackPairs, SyncPairs, EndPairs, BeginPairs,
         SealPairs, PublishPairs, DeletionPairs, LossPairs
    <3> QED
      BY <3>1, <3>2, <3>3
  <2> QED
    BY <2>1, <2>2
<1> QED
  BY <1>1, <1>2, AccountControl, FinishInvariant, PTL DEF AccountSpec

(* Wherever a replacement of another uid's enrollment is interrupted, by a *)
(* failed step, a crash or a power loss, the key that settle_interrupted   *)
(* leaves opens the stored enrollment: the replaced pair or the new one,   *)
(* never a mixture.                                                        *)
THEOREM StoredPairOpens == AccountSpec => []EnrollmentOpens
<1>1. (tpm /\ intact => PairInv) => EnrollmentOpens
  BY DEF PairInv, OpensIn, EnrollmentOpens
<1> QED
  BY <1>1, PairInvariant, PTL
=============================================================================
