---------------------------- MODULE SplitPublish ----------------------------
(***************************************************************************)
(* crates/irlume-common/src/split_publish.rs: authorized camera pairs are  *)
(* kept in immutable numbered generations, and cameras.conf names one of   *)
(* them together with its digest.  A writer holds the lock of cameras.conf *)
(* from its first step to its last; readers take no lock.  The daemon's    *)
(* single worker runs every request that publishes, so the store a request *)
(* read is still the store when it publishes.                              *)
(*                                                                         *)
(* Files have contents a reader sees and contents that survive a power     *)
(* loss.  A generation's contents are the pairs it authorizes; its digest  *)
(* stands for exactly those.  Writer temporaries, which nothing reads, are *)
(* left out.                                                               *)
(***************************************************************************)
EXTENDS Naturals, FiniteSetsExt

CONSTANTS Pairs,           \* pair keys of authorization records
          Pins,            \* the other keys of cameras.conf: mode and pin
          Readers,
          MAX_GENERATION,  \* u64::MAX
          NoPair,          \* no split_pair key
          Refused,         \* a read that found no coherent publication
          Nothing,         \* no request, no observation, no answer
          MaxOverlap       \* bound of the model: publications during one read

Numbers == 1..MAX_GENERATION
Contents == SUBSET Pairs

\* No such file: a generation is never written without records.
Missing == {}

\* cameras.conf; gen is 0, digest {} and sel NoPair when no split key is there.
Conf == [pin : Pins, gen : 0..MAX_GENERATION, digest : Contents, sel : Pairs \cup {NoPair}]

ASSUME SplitConstants ==
  /\ MAX_GENERATION \in Nat /\ MaxOverlap \in Nat
  /\ NoPair \notin Pairs /\ Refused \notin Conf /\ Nothing \notin Conf \cup {Refused}

VARIABLES conf, confDisk,  \* cameras.conf, visible and durable
          gens, gensDisk,  \* the generation directory, visible and durable
          pc,              \* the writer: what the holder of the lock does next
          want,            \* the cameras.conf it means to publish
          predecessor,     \* the generation cameras.conf named when it began
          rpc, obs,        \* each reader: its next step, and the conf it read
          answer,          \* what its read, if it has just ended, returned
          seen, overlap    \* history: confs current during its read, and publications

confVars == <<conf, confDisk>>
fileVars == <<conf, confDisk, gens, gensDisk>>
writerVars == <<pc, want, predecessor>>
readVars == <<rpc, obs, seen, overlap>>
splitVars == <<fileVars, writerVars, readVars, answer>>

NoKeys(pin) == [pin |-> pin, gen |-> 0, digest |-> {}, sel |-> NoPair]

SplitInit ==
  /\ \E pin \in Pins : conf = NoKeys(pin)
  /\ confDisk = conf
  /\ gens = [n \in Numbers |-> Missing] /\ gensDisk = gens
  /\ pc = "idle" /\ want = Nothing /\ predecessor = 0
  /\ rpc = [r \in Readers |-> "idle"]
  /\ obs = [r \in Readers |-> Nothing]
  /\ answer = [r \in Readers |-> Nothing]
  /\ seen = [r \in Readers |-> {}]
  /\ overlap = [r \in Readers |-> 0]

\* No read ends with this step.
Quiet == answer' = [r \in Readers |-> Nothing]

\* The writer lets go of the lock.
Unlock == pc' = "idle" /\ want' = Nothing /\ predecessor' = 0

-----------------------------------------------------------------------------
\* list_generations
OnDisk == {n \in Numbers : gens[n] # Missing}

\* Faulty variant: only the reference counts, not what is on disk.
NextNumberUnchecked == conf.gen + 1

\* publish_split: one more than every number on disk and the predecessor.
NextNumber == Max(OnDisk \cup {conf.gen, 0}) + 1

\* publish_split up to the generation file: the selection must resolve in the
\* records; no records at all publishes the removal of the split keys.
Begin(records, sel) ==
  /\ pc = "idle"
  /\ sel = NoPair \/ sel \in records
  /\ predecessor' = conf.gen
  /\ IF records = {}
     THEN /\ want' = NoKeys(conf.pin)
          /\ pc' = "publish"
     ELSE /\ NextNumber <= MAX_GENERATION
          /\ want' = [conf EXCEPT !.gen = NextNumber, !.digest = records, !.sel = sel]
          /\ pc' = "generation"
  /\ Quiet /\ UNCHANGED <<fileVars, readVars>>

\* split_store_base: a store that does not read as Valid or Absent refuses.
StoreReads == conf.gen # 0 => gens[conf.gen] = conf.digest

Kept(records) == IF conf.sel \in records THEN conf.sel ELSE NoPair

SplitAdd(p) ==
  LET records == conf.digest \cup {p} IN StoreReads /\ Begin(records, Kept(records))

SplitRemove(p) ==
  LET records == conf.digest \ {p}
  IN  StoreReads /\ p \in conf.digest /\ Begin(records, Kept(records))

SplitSelect(p) ==
  /\ StoreReads
  /\ p = NoPair \/ p \in conf.digest
  /\ Begin(conf.digest, p)

\* Faulty variant: a generation that is only visible is published.
WriteGenerationVisible ==
  /\ pc = "generation"
  /\ gens' = [gens EXCEPT ![want.gen] = want.digest]
  /\ gensDisk' \in {gens', gensDisk}
  /\ pc' = "publish"
  /\ Quiet /\ UNCHANGED <<confVars, want, predecessor, readVars>>

\* write_0600_atomic of the generation.  The directory's fsync makes earlier
\* unlinks durable too; when it fails, the file is there and the call is an error.
WriteGeneration ==
  /\ pc = "generation"
  /\ gens' = [gens EXCEPT ![want.gen] = want.digest]
  /\ \/ gensDisk' = gens' /\ pc' = "publish" /\ UNCHANGED <<want, predecessor>>
     \/ gensDisk' = gensDisk /\ Unlock
  /\ Quiet /\ UNCHANGED <<confVars, readVars>>

\* A rename of cameras.conf, seen by every read in progress.
Rename(c) ==
  /\ \A r \in Readers : overlap[r] < MaxOverlap
  /\ conf' = c
  /\ seen' = [r \in Readers |-> IF rpc[r] = "idle" THEN {} ELSE seen[r] \cup {c}]
  /\ overlap' = [r \in Readers |-> IF rpc[r] = "idle" THEN 0 ELSE overlap[r] + 1]
  /\ Quiet /\ UNCHANGED <<rpc, obs>>

\* publish_kv_changes of cameras.conf, the commit point.
PublishConf ==
  /\ pc = "publish"
  /\ Rename([want EXCEPT !.pin = conf.pin])
  /\ \/ confDisk' = conf' /\ pc' = "retain" /\ UNCHANGED <<want, predecessor>>
     \/ confDisk' = confDisk /\ Unlock
  /\ UNCHANGED <<gens, gensDisk>>

\* Some of the files ns are removed: an unlink that fails is ignored.
Unlink(ns) ==
  \E gone \in SUBSET ns : gens' = [n \in Numbers |-> IF n \in gone THEN Missing ELSE gens[n]]

\* Faulty variant: the generation just de-referenced is removed at once.
RetainOne ==
  /\ pc = "retain"
  /\ Unlink(OnDisk \ {want.gen})
  /\ Unlock
  /\ Quiet /\ UNCHANGED <<confVars, gensDisk, readVars>>

\* retain_only: the generation named and its predecessor stay.
Retain ==
  /\ pc = "retain"
  /\ Unlink(OnDisk \ {want.gen, predecessor})
  /\ Unlock
  /\ Quiet /\ UNCHANGED <<confVars, gensDisk, readVars>>

\* An error before anything is renamed, or the daemon's death.
Stops ==
  /\ pc # "idle"
  /\ Unlock
  /\ Quiet /\ UNCHANGED <<fileVars, readVars>>

\* write_camera_pin and the capture-mode stores: the other keys, under the lock.
WritePin(pin) ==
  /\ pc = "idle"
  /\ Rename([conf EXCEPT !.pin = pin])
  /\ confDisk' \in {confDisk, conf'}
  /\ UNCHANGED <<gens, gensDisk, writerVars>>

\* sweep_split_artifacts: unreferenced generations above the reference.
Sweep ==
  /\ pc = "idle" /\ conf.gen # 0
  /\ Unlink({n \in OnDisk : n > conf.gen})
  /\ Quiet /\ UNCHANGED <<confVars, gensDisk, writerVars, readVars>>

\* Each file is as it was seen or as it was last made durable.
PowerLoss ==
  /\ conf' \in {conf, confDisk} /\ confDisk' = conf'
  /\ \E old \in SUBSET Numbers :
       gens' = [n \in Numbers |-> IF n \in old THEN gensDisk[n] ELSE gens[n]]
  /\ gensDisk' = gens'
  /\ Unlock
  /\ rpc' = [r \in Readers |-> "idle"]
  /\ obs' = [r \in Readers |-> Nothing]
  /\ seen' = [r \in Readers |-> {}]
  /\ overlap' = [r \in Readers |-> 0]
  /\ Quiet

-----------------------------------------------------------------------------
\* read_camera_selection_with: the configuration is read once.
Observe(r) ==
  /\ rpc[r] = "idle"
  /\ obs' = [obs EXCEPT ![r] = conf]
  /\ rpc' = [rpc EXCEPT ![r] = "read"]
  /\ seen' = [seen EXCEPT ![r] = {conf}]
  /\ Quiet /\ UNCHANGED <<fileVars, writerVars, overlap>>

\* read_generation on bytes: the digest, then the selection, must hold.
Judge(o) ==
  IF gens[o.gen] = o.digest /\ (o.sel = NoPair \/ o.sel \in o.digest) THEN o ELSE Refused

Answer(r, a) ==
  /\ answer' = [q \in Readers |-> IF q = r THEN a ELSE Nothing]
  /\ rpc' = [rpc EXCEPT ![r] = "idle"]
  /\ obs' = [obs EXCEPT ![r] = Nothing]
  /\ seen' = [seen EXCEPT ![r] = {}]
  /\ overlap' = [overlap EXCEPT ![r] = 0]
  /\ UNCHANGED <<fileVars, writerVars>>

\* read_observation: no reference is Absent; a missing file is looked up again.
ReadGeneration(r) ==
  /\ rpc[r] = "read"
  /\ LET o == obs[r]
     IN  IF o.gen = 0 THEN Answer(r, o)
         ELSE IF gens[o.gen] # Missing THEN Answer(r, Judge(o))
         ELSE /\ rpc' = [rpc EXCEPT ![r] = "again"]
              /\ Quiet /\ UNCHANGED <<fileVars, writerVars, obs, seen, overlap>>

SameReference(o) == o.gen = conf.gen /\ o.digest = conf.digest

\* Faulty variant: the selection of the first observation with the new reference.
ObserveAgainKeepingSelection(r) ==
  /\ rpc[r] = "again"
  /\ IF SameReference(obs[r])
     THEN Answer(r, Refused)
     ELSE /\ obs' = [obs EXCEPT ![r] = [conf EXCEPT !.sel = obs[r].sel]]
          /\ rpc' = [rpc EXCEPT ![r] = "reread"]
          /\ Quiet /\ UNCHANGED <<fileVars, writerVars, seen, overlap>>

\* One more observation; an unchanged reference to a missing file refuses.
ObserveAgain(r) ==
  /\ rpc[r] = "again"
  /\ IF SameReference(obs[r])
     THEN Answer(r, Refused)
     ELSE /\ obs' = [obs EXCEPT ![r] = conf]
          /\ rpc' = [rpc EXCEPT ![r] = "reread"]
          /\ Quiet /\ UNCHANGED <<fileVars, writerVars, seen, overlap>>

Reread(r) ==
  /\ rpc[r] = "reread"
  /\ Answer(r, IF obs[r].gen = 0 THEN obs[r] ELSE Judge(obs[r]))

WriterNext ==
  \/ \E p \in Pairs : SplitAdd(p) \/ SplitRemove(p)
  \/ \E p \in Pairs \cup {NoPair} : SplitSelect(p)
  \/ WriteGeneration \/ PublishConf \/ Retain \/ Stops
  \/ \E pin \in Pins : WritePin(pin)
  \/ Sweep \/ PowerLoss

ReaderNext(r) == Observe(r) \/ ReadGeneration(r) \/ ObserveAgain(r) \/ Reread(r)

SplitNext == WriterNext \/ \E r \in Readers : ReaderNext(r)

SplitSpec == SplitInit /\ [][SplitNext]_splitVars

-----------------------------------------------------------------------------
\* Configuration c names a generation that holds what its digest says, now and
\* after a power loss, and its selection resolves in it.
Backed(c) ==
  IF c.gen = 0 THEN c.digest = {} /\ c.sel = NoPair
  ELSE /\ c.digest # {}
       /\ gens[c.gen] = c.digest /\ gensDisk[c.gen] = c.digest
       /\ c.sel = NoPair \/ c.sel \in c.digest

(* Whatever fails, crashes or loses power, and however the visible files   *)
(* and the durable ones differ, the cameras.conf that is seen and the one  *)
(* a power loss would bring back each name a generation file that exists   *)
(* in both copies of the directory, holds the very records of split_digest *)
(* and contains the selected pair (publish_split, retain_only, sweep_dir). *)
ReferenceBacked == Backed(conf) /\ Backed(confDisk)

(* A publication keeps its predecessor so that a reader holding the        *)
(* previous cameras.conf can still open its generation: a read that        *)
(* refuses was overtaken by at least two publications.                     *)
OvertakenTwice ==
  [][\A r \in Readers : answer'[r] = Refused => overlap[r] >= 2]_splitVars

\* The readers see one register that is replaced as a whole.
Register == INSTANCE PublishedSelection WITH
  Values <- Conf, value <- conf, safe <- confDisk, NoAnswer <- Nothing

(* A lock-free read answers with one cameras.conf, pin, reference and      *)
(* selection together, that was current at some moment of the read, or     *)
(* refuses; and a power loss leaves the file or one published earlier, as  *)
(* a whole (publish_split, read_camera_selection_with).                    *)
ReadsAtomically == Register!SelectionSpec
=============================================================================
