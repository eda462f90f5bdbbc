----------------------------- MODULE SplitProofs -----------------------------
(***************************************************************************)
(* Proofs about SplitPublish, for every set of pairs and readers and every *)
(* bound: the reference is backed in both copies of the files, a reader is *)
(* refused only after two publications, and the files with their lock-free *)
(* readers implement the register of PublishedSelection.                   *)
(***************************************************************************)
EXTENDS SplitPublish, TLAPS, WellFoundedInduction

\* Configuration c has a selection that resolves and, with a generation, records.
Coherent(c) ==
  IF c.gen = 0 THEN c.digest = {} /\ c.sel = NoPair
  ELSE c.digest # {} /\ (c.sel = NoPair \/ c.sel \in c.digest)

FilesTyped ==
  /\ conf \in Conf /\ confDisk \in Conf
  /\ gens \in [Numbers -> Contents] /\ gensDisk \in [Numbers -> Contents]

\* What the holder of the lock knows at each of its steps.  The generation it
\* writes is above everything the two copies of cameras.conf name.
WriterInv ==
  /\ pc \in {"idle", "generation", "publish", "retain"}
  /\ predecessor \in 0..MAX_GENERATION
  /\ pc # "idle" => want \in Conf
  /\ pc \in {"generation", "publish"} => predecessor = conf.gen
  /\ pc = "generation" => /\ want.gen # 0 /\ Coherent(want)
                          /\ gens[want.gen] = Missing
                          /\ want.gen > confDisk.gen
  /\ pc = "publish" => Backed(want)
  /\ pc \in {"generation", "publish"} /\ want.gen # 0 =>
       want.gen > conf.gen /\ want.gen >= confDisk.gen
  /\ pc = "retain" => conf = confDisk /\ conf.gen = want.gen

\* A power loss never brings back a generation above the one referenced.
NumbersGrow == conf.gen # 0 => confDisk.gen <= conf.gen

FilesInv == FilesTyped /\ ReferenceBacked /\ WriterInv /\ NumbersGrow

\* A read that at most one publication overtook still finds its generation.
Findable(o) ==
  /\ Coherent(o)
  /\ o.gen # 0 =>
       /\ gens[o.gen] = o.digest
       /\ conf.gen # 0 => o.gen <= conf.gen
       /\ pc = "retain" => o.gen \in {want.gen, predecessor}

ReaderInv(r) ==
  /\ rpc[r] = "idle" => seen[r] = {}
  /\ rpc[r] # "idle" => conf \in seen[r] /\ obs[r] \in seen[r] /\ obs[r] \in Conf
  /\ rpc[r] = "read" /\ overlap[r] = 0 => obs[r] = conf
  /\ rpc[r] = "read" /\ overlap[r] = 1 => Findable(obs[r])
  /\ rpc[r] \in {"again", "reread"} => overlap[r] >= 2

ReadersInv ==
  /\ rpc \in [Readers -> {"idle", "read", "again", "reread"}]
  /\ obs \in [Readers -> Conf \cup {Nothing}]
  /\ seen \in [Readers -> SUBSET Conf]
  /\ overlap \in [Readers -> 0..MaxOverlap]
  /\ answer \in [Readers -> Conf \cup {Refused, Nothing}]
  /\ \A r \in Readers : ReaderInv(r)

SplitInv == FilesInv /\ ReadersInv

-----------------------------------------------------------------------------
(* Numbers.                                                                *)

(* A non-empty set of numbers that has a bound has a greatest element, and *)
(* Max names it.                                                           *)
LEMMA MaxOfBounded ==
  ASSUME NEW N \in Nat, NEW S \in SUBSET (0..N), S # {}
  PROVE  Max(S) \in S /\ \A y \in S : Max(S) >= y
<1> DEFINE T == {N - x : x \in S}
<1>1. T \subseteq Nat /\ T # {}
  <2>1. ASSUME NEW x \in S PROVE N - x \in Nat /\ N - x \in T
    OBVIOUS
  <2>2. \A t \in T : \E x \in S : t = N - x
    OBVIOUS
  <2> QED
    BY Zenon, <2>1, <2>2
<1>2. PICK m \in T : \A y \in T : ~(<<y, m>> \in OpToRel(<, Nat))
  BY <1>1, NatLessThanWellFounded, WFMin
<1>3. \A y \in T : ~(y < m)
  BY Zenon, <1>1, <1>2 DEF OpToRel
<1>4. PICK x \in S : m = N - x
  OBVIOUS
<1>5. \A y \in S : x >= y
  <2> TAKE y \in S
  <2>1. N - y \in T /\ x \in Nat /\ y \in Nat
    OBVIOUS
  <2>2. ~(N - y < N - x)
    BY Zenon, <1>3, <1>4, <2>1
  <2> QED
    BY <2>1, <2>2
<1> QED
  BY Zenon, <1>5 DEF Max

(* publish_split's number is above everything on disk and both references. *)
LEMMA NextNumberIsNew ==
  ASSUME FilesTyped, ReferenceBacked, NextNumber <= MAX_GENERATION
  PROVE  /\ NextNumber \in Numbers /\ gens[NextNumber] = Missing
         /\ NextNumber > conf.gen /\ NextNumber > confDisk.gen
<1> DEFINE S == OnDisk \cup {conf.gen, 0}
<1>1. S \in SUBSET (0..MAX_GENERATION) /\ S # {}
  BY SplitConstants DEF FilesTyped, Conf, OnDisk, Numbers
<1>2. Max(S) \in S /\ \A y \in S : Max(S) >= y
  BY Zenon, <1>1, SplitConstants, MaxOfBounded
<1>3. Max(S) \in Nat /\ NextNumber = Max(S) + 1
  BY <1>1, <1>2 DEF NextNumber
<1>4. NextNumber \in Numbers /\ NextNumber \notin OnDisk
  BY <1>1, <1>2, <1>3, SplitConstants DEF Numbers
<1>5. confDisk.gen \in S
  BY SplitConstants DEF ReferenceBacked, Backed, OnDisk, FilesTyped, Conf, Numbers, Missing
<1>6. conf.gen \in Nat /\ confDisk.gen \in Nat
  BY SplitConstants DEF FilesTyped, Conf
<1> QED
  BY <1>2, <1>3, <1>4, <1>5, <1>6 DEF OnDisk

-----------------------------------------------------------------------------
(* The files and the holder of the lock.                                   *)

LEMMA InitFiles == SplitInit => FilesInv
<1> SUFFICES ASSUME SplitInit PROVE FilesInv
  OBVIOUS
<1>1. PICK pin \in Pins : conf = NoKeys(pin)
  BY DEF SplitInit
<1>2. conf \in Conf /\ conf.gen = 0 /\ conf.digest = {} /\ conf.sel = NoPair
  BY <1>1, SplitConstants DEF NoKeys, Conf, Contents
<1>3. confDisk = conf /\ gens = [n \in Numbers |-> {}] /\ gensDisk = gens /\ pc = "idle" /\ predecessor = 0
  BY DEF SplitInit, Missing
<1>4. FilesTyped
  BY <1>2, <1>3 DEF FilesTyped, Contents
<1>5. ReferenceBacked
  BY <1>2, <1>3 DEF ReferenceBacked, Backed
<1>6. WriterInv /\ NumbersGrow
  BY <1>2, <1>3, SplitConstants DEF WriterInv, NumbersGrow
<1> QED
  BY <1>4, <1>5, <1>6 DEF FilesInv

(* Files that are not unlinked stay, the others stay or go.                *)
LEMMA Unlinked ==
  ASSUME gens \in [Numbers -> Contents], NEW ns, Unlink(ns)
  PROVE  /\ gens' \in [Numbers -> Contents]
         /\ \A n \in Numbers : n \notin ns => gens'[n] = gens[n]
  BY DEF Unlink, Missing, Contents

(* A publication begins; nothing is written yet.                           *)
LEMMA BeginKeeps ==
  ASSUME FilesInv, NEW records \in SUBSET Pairs, NEW sel \in Pairs \cup {NoPair},
         Begin(records, sel)
  PROVE  FilesInv'
<1>0. /\ UNCHANGED <<conf, confDisk, gens, gensDisk>> /\ predecessor' = conf.gen
      /\ sel = NoPair \/ sel \in records
  BY DEF Begin, fileVars
<1>1. FilesTyped' /\ ReferenceBacked' /\ NumbersGrow'
  BY <1>0 DEF FilesInv, FilesTyped, ReferenceBacked, Backed, NumbersGrow
<1>2. conf \in Conf /\ conf.gen \in 0..MAX_GENERATION /\ confDisk.gen \in 0..MAX_GENERATION
  BY DEF FilesInv, FilesTyped, Conf
<1>3. CASE records = {}
  <2>1. want' = NoKeys(conf.pin) /\ pc' = "publish"
    BY <1>3 DEF Begin
  <2>2. /\ want' \in Conf /\ want'.gen = 0 /\ want'.digest = {} /\ want'.sel = NoPair
    BY <1>2, <2>1, SplitConstants DEF NoKeys, Conf, Contents
  <2>3. Backed(want)'
    BY <2>2 DEF Backed
  <2> QED
    BY <1>0, <1>1, <1>2, <2>1, <2>2, <2>3 DEF FilesInv, WriterInv
<1>4. CASE records # {}
  <2>1. /\ NextNumber <= MAX_GENERATION /\ pc' = "generation"
        /\ want' = [conf EXCEPT !.gen = NextNumber, !.digest = records, !.sel = sel]
    BY <1>4 DEF Begin
  <2>2. /\ NextNumber \in Numbers /\ gens[NextNumber] = Missing
        /\ NextNumber > conf.gen /\ NextNumber > confDisk.gen
    BY <2>1, NextNumberIsNew DEF FilesInv
  <2>3. want' \in Conf /\ want'.gen = NextNumber /\ want'.digest = records /\ want'.sel = sel
    <3> DEFINE a == [conf EXCEPT !.gen = NextNumber]
               b == [a EXCEPT !.digest = records]
    <3>1. NextNumber \in 0..MAX_GENERATION
      BY <2>2, SplitConstants DEF Numbers
    <3>2. a \in Conf /\ a.gen = NextNumber
      BY <1>2, <3>1 DEF Conf
    <3>3. b \in Conf /\ b.gen = NextNumber /\ b.digest = records
      BY Zenon, <3>2 DEF Conf, Contents
    <3>4. want' = [b EXCEPT !.sel = sel]
      BY <2>1
    <3> HIDE DEF a, b
    <3> QED
      BY <3>3, <3>4 DEF Conf
  <2>4. Coherent(want)' /\ want'.gen # 0
    BY <1>0, <1>4, <2>2, <2>3, SplitConstants DEF Coherent, Numbers
  <2>5. want'.gen > conf'.gen /\ want'.gen > confDisk'.gen /\ want'.gen >= confDisk'.gen
        /\ gens'[want'.gen] = Missing
    BY <1>0, <1>2, <2>2, <2>3, SplitConstants DEF Numbers
  <2> QED
    BY <1>0, <1>1, <1>2, <2>1, <2>3, <2>4, <2>5 DEF FilesInv, WriterInv
<1> QED
  BY <1>3, <1>4

(* The requests that publish.                                              *)
LEMMA RequestsBegin ==
  ASSUME FilesInv,
         \/ \E p \in Pairs : SplitAdd(p) \/ SplitRemove(p)
         \/ \E p \in Pairs \cup {NoPair} : SplitSelect(p)
  PROVE  \E records \in SUBSET Pairs : \E sel \in Pairs \cup {NoPair} : Begin(records, sel)
<1>1. conf.digest \in SUBSET Pairs /\ conf.sel \in Pairs \cup {NoPair}
  BY DEF FilesInv, FilesTyped, Conf, Contents
<1>2. \A records : Kept(records) \in Pairs \cup {NoPair}
  BY <1>1 DEF Kept
<1> QED
  BY Zenon, <1>1, <1>2 DEF SplitAdd, SplitRemove, SplitSelect

(* The generation file is written: no reference names its number yet.      *)
LEMMA WriteGenerationKeeps ==
  ASSUME FilesInv, WriteGeneration
  PROVE  FilesInv'
<1>0. /\ pc = "generation" /\ UNCHANGED <<conf, confDisk>>
      /\ gens' = [gens EXCEPT ![want.gen] = want.digest]
      /\ \/ gensDisk' = gens' /\ pc' = "publish" /\ UNCHANGED <<want, predecessor>>
         \/ gensDisk' = gensDisk /\ pc' = "idle" /\ predecessor' = 0
  BY DEF WriteGeneration, confVars, Unlock
<1>1. /\ want \in Conf /\ want.gen # 0 /\ Coherent(want) /\ gens[want.gen] = Missing
      /\ want.gen > confDisk.gen /\ want.gen > conf.gen /\ want.gen >= confDisk.gen /\ predecessor = conf.gen
  BY <1>0 DEF FilesInv, WriterInv
<1>2. want.gen \in Numbers /\ want.digest \in Contents /\ conf.gen \in 0..MAX_GENERATION
  BY <1>1, SplitConstants DEF Conf, Numbers, FilesInv, FilesTyped
<1>3. FilesTyped'
  BY <1>0, <1>2 DEF FilesInv, FilesTyped
<1>4. /\ gens'[want.gen] = want.digest
      /\ \A n \in Numbers : n # want.gen => gens'[n] = gens[n]
  BY <1>0, <1>2 DEF FilesInv, FilesTyped
<1>5. ASSUME NEW c \in Conf, Backed(c) PROVE Backed(c)'
  <2>1. c.gen # 0 => c.gen \in Numbers /\ c.gen # want.gen
    BY <1>1, <1>5, SplitConstants DEF Backed, Missing, Conf, Numbers
  <2> QED
    BY Zenon, <1>0, <1>4, <1>5, <2>1 DEF Backed
<1>6. ReferenceBacked'
  BY <1>0, <1>5 DEF FilesInv, FilesTyped, ReferenceBacked
<1>7. pc' = "publish" => Backed(want)'
  BY Zenon, <1>0, <1>1, <1>4 DEF Backed, Coherent
<1>8. WriterInv' /\ NumbersGrow'
  BY <1>0, <1>1, <1>2, <1>7, SplitConstants DEF FilesInv, WriterInv, NumbersGrow
<1> QED
  BY <1>3, <1>6, <1>8 DEF FilesInv

(* The commit point.                                                       *)
LEMMA PublishConfKeeps ==
  ASSUME FilesInv, PublishConf
  PROVE  FilesInv'
<1>0. /\ pc = "publish" /\ UNCHANGED <<gens, gensDisk>>
      /\ conf' = [want EXCEPT !.pin = conf.pin]
      /\ \/ confDisk' = conf' /\ pc' = "retain" /\ UNCHANGED <<want, predecessor>>
         \/ confDisk' = confDisk /\ pc' = "idle" /\ predecessor' = 0
  BY DEF PublishConf, Rename, Unlock
<1>1. /\ want \in Conf /\ Backed(want) /\ predecessor \in 0..MAX_GENERATION
      /\ want.gen # 0 => want.gen > conf.gen /\ want.gen >= confDisk.gen
  BY <1>0 DEF FilesInv, WriterInv
<1>2. conf' \in Conf /\ conf'.gen = want.gen /\ conf'.digest = want.digest /\ conf'.sel = want.sel
  BY <1>0, <1>1 DEF FilesInv, FilesTyped, Conf
<1>3. FilesTyped'
  BY <1>0, <1>2 DEF FilesInv, FilesTyped
<1>4. ReferenceBacked'
  BY Zenon, <1>0, <1>1, <1>2 DEF FilesInv, ReferenceBacked, Backed
<1>5. want.gen \in Nat /\ confDisk.gen \in Nat
  BY <1>1, SplitConstants DEF Conf, FilesInv, FilesTyped
<1>6. \/ confDisk' = conf' /\ pc' = "retain" /\ UNCHANGED <<want, predecessor>>
      \/ confDisk' = confDisk /\ pc' = "idle" /\ predecessor' = 0
  BY <1>0
<1>7. WriterInv' /\ NumbersGrow'
  BY <1>1, <1>2, <1>5, <1>6, SplitConstants DEF WriterInv, NumbersGrow
<1> QED
  BY <1>3, <1>4, <1>7 DEF FilesInv

(* Files go that neither copy of cameras.conf names.                       *)
LEMMA UnlinkKeepsFiles ==
  ASSUME FilesInv, NEW ns, Unlink(ns), conf.gen \notin ns, confDisk.gen \notin ns,
         UNCHANGED <<conf, confDisk, gensDisk>>, pc' = "idle", predecessor' \in 0..MAX_GENERATION
  PROVE  FilesInv'
<1>1. gens' \in [Numbers -> Contents] /\ \A n \in Numbers : n \notin ns => gens'[n] = gens[n]
  BY Unlinked DEF FilesInv, FilesTyped
<1>2. FilesTyped'
  BY <1>1 DEF FilesInv, FilesTyped
<1>3. \A c \in {conf, confDisk} : c.gen \in 0..MAX_GENERATION
  BY DEF FilesInv, FilesTyped, Conf
<1>4. ReferenceBacked'
  BY <1>1, <1>3, SplitConstants DEF FilesInv, ReferenceBacked, Backed, Numbers
<1> QED
  BY <1>2, <1>4 DEF FilesInv, WriterInv, NumbersGrow

LEMMA RetainKeeps ==
  ASSUME FilesInv, Retain
  PROVE  FilesInv'
<1>1. /\ pc = "retain" /\ Unlink(OnDisk \ {want.gen, predecessor})
      /\ UNCHANGED <<conf, confDisk, gensDisk>> /\ pc' = "idle" /\ predecessor' = 0
  BY DEF Retain, Unlock, confVars
<1>2. conf.gen = want.gen /\ confDisk.gen = want.gen
  BY <1>1 DEF FilesInv, WriterInv
<1>3. predecessor' \in 0..MAX_GENERATION
  BY <1>1, SplitConstants
<1> QED
  BY <1>1, <1>2, <1>3, UnlinkKeepsFiles

LEMMA SweepKeeps ==
  ASSUME FilesInv, Sweep
  PROVE  FilesInv'
<1>1. /\ pc = "idle" /\ conf.gen # 0 /\ Unlink({n \in OnDisk : n > conf.gen})
      /\ UNCHANGED <<conf, confDisk, gensDisk>> /\ pc' = "idle" /\ predecessor' = predecessor
  BY DEF Sweep, confVars, writerVars
<1>2. confDisk.gen <= conf.gen /\ conf.gen \in Nat /\ confDisk.gen \in Nat
  BY <1>1, SplitConstants DEF FilesInv, NumbersGrow, FilesTyped, Conf
<1>3. predecessor' \in 0..MAX_GENERATION
  BY <1>1 DEF FilesInv, WriterInv
<1>4. conf.gen \notin {n \in OnDisk : n > conf.gen} /\ confDisk.gen \notin {n \in OnDisk : n > conf.gen}
  BY <1>2
<1> QED
  BY <1>1, <1>3, <1>4, UnlinkKeepsFiles

LEMMA WritePinKeeps ==
  ASSUME FilesInv, NEW pin \in Pins, WritePin(pin)
  PROVE  FilesInv'
<1>0. /\ pc = "idle" /\ UNCHANGED <<gens, gensDisk, pc, want, predecessor>>
      /\ conf' = [conf EXCEPT !.pin = pin] /\ confDisk' \in {confDisk, conf'}
  BY DEF WritePin, Rename, writerVars
<1>1. conf' \in Conf /\ conf'.gen = conf.gen /\ conf'.digest = conf.digest /\ conf'.sel = conf.sel
  BY <1>0 DEF FilesInv, FilesTyped, Conf
<1>2. FilesTyped'
  BY <1>0, <1>1 DEF FilesInv, FilesTyped
<1>3. ReferenceBacked'
  BY Zenon, <1>0, <1>1 DEF FilesInv, ReferenceBacked, Backed
<1>4. conf.gen \in Nat /\ pc' = "idle" /\ predecessor' = predecessor
      /\ confDisk'.gen \in {confDisk.gen, conf'.gen}
  BY <1>0, SplitConstants DEF FilesInv, FilesTyped, Conf
<1>5. WriterInv' /\ NumbersGrow'
  BY <1>1, <1>4 DEF FilesInv, WriterInv, NumbersGrow
<1> QED
  BY <1>2, <1>3, <1>5 DEF FilesInv

(* A power loss leaves some mixture of seen and durable generation files;  *)
(* a generation that a reference names is the same in both.                *)
LEMMA PowerLossKeeps ==
  ASSUME FilesInv, PowerLoss
  PROVE  FilesInv'
<1>0. /\ conf' \in {conf, confDisk} /\ confDisk' = conf' /\ gensDisk' = gens'
      /\ pc' = "idle" /\ predecessor' = 0
  BY DEF PowerLoss, Unlock
<1>1. PICK old \in SUBSET Numbers :
        gens' = [n \in Numbers |-> IF n \in old THEN gensDisk[n] ELSE gens[n]]
  BY DEF PowerLoss
<1>2. FilesTyped'
  BY <1>0, <1>1 DEF FilesInv, FilesTyped
<1>3. conf' \in Conf /\ Backed(conf')
  BY <1>0 DEF FilesInv, FilesTyped, ReferenceBacked
<1>4. conf'.gen \in 0..MAX_GENERATION
  BY <1>3 DEF Conf
<1>5. ReferenceBacked'
  <2>1. CASE conf'.gen = 0
    BY <1>0, <1>3, <2>1 DEF ReferenceBacked, Backed
  <2>2. CASE conf'.gen # 0
    <3>1. conf'.gen \in Numbers
      BY <1>4, <2>2, SplitConstants DEF Numbers
    <3>2. gens'[conf'.gen] = conf'.digest
      BY <1>1, <1>3, <2>2, <3>1 DEF Backed
    <3> QED
      BY <1>0, <1>3, <2>2, <3>2 DEF ReferenceBacked, Backed
  <2> QED
    BY <2>1, <2>2
<1>6. WriterInv' /\ NumbersGrow'
  BY <1>0, <1>4, SplitConstants DEF WriterInv, NumbersGrow
<1> QED
  BY <1>2, <1>5, <1>6 DEF FilesInv

-----------------------------------------------------------------------------
(* The readers.                                                            *)

LEMMA InitReaders == SplitInit => ReadersInv
  BY SplitConstants DEF SplitInit, ReadersInv, ReaderInv

(* A step of the writer that leaves cameras.conf alone, and the files of   *)
(* readers that were overtaken once.                                       *)
LEMMA StillReaders ==
  ASSUME ReadersInv, UNCHANGED <<conf, rpc, obs, seen, overlap>>, Quiet,
         \A o \in Conf : Findable(o) => Findable(o)'
  PROVE  ReadersInv'
<1>1. answer' \in [Readers -> Conf \cup {Refused, Nothing}]
  BY DEF Quiet
<1>2. ASSUME NEW r \in Readers PROVE ReaderInv(r)'
  BY DEF ReadersInv, ReaderInv
<1> QED
  BY <1>1, <1>2 DEF ReadersInv

LEMMA BeginLeavesReaders ==
  ASSUME SplitInv, NEW records, NEW sel, Begin(records, sel)
  PROVE  ReadersInv'
<1>1. UNCHANGED <<conf, gens, rpc, obs, seen, overlap>> /\ Quiet /\ pc' \in {"publish", "generation"}
  BY DEF Begin, fileVars, readVars
<1>2. \A o \in Conf : Findable(o) => Findable(o)'
  BY <1>1 DEF Findable, Coherent
<1> QED
  BY <1>1, <1>2, StillReaders DEF SplitInv

LEMMA StopsLeavesReaders ==
  ASSUME SplitInv, Stops
  PROVE  ReadersInv'
<1>1. UNCHANGED <<conf, gens, rpc, obs, seen, overlap>> /\ Quiet /\ pc' = "idle"
  BY DEF Stops, Unlock, fileVars, readVars
<1>2. \A o \in Conf : Findable(o) => Findable(o)'
  BY <1>1 DEF Findable, Coherent
<1> QED
  BY <1>1, <1>2, StillReaders DEF SplitInv

LEMMA WriteGenerationLeavesReaders ==
  ASSUME SplitInv, WriteGeneration
  PROVE  ReadersInv'
<1>1. /\ UNCHANGED <<conf, rpc, obs, seen, overlap>> /\ Quiet
      /\ pc = "generation" /\ pc' \in {"publish", "idle"}
      /\ gens' = [gens EXCEPT ![want.gen] = want.digest]
  BY DEF WriteGeneration, Unlock, confVars, readVars
<1>2. gens[want.gen] = {} /\ gens \in [Numbers -> Contents]
  BY <1>1 DEF SplitInv, FilesInv, WriterInv, FilesTyped, Missing
<1>3. ASSUME NEW o \in Conf, Findable(o) PROVE Findable(o)'
  <2>1. o.gen # 0 => o.gen \in Numbers /\ o.gen # want.gen
    BY <1>2, <1>3, SplitConstants DEF Findable, Coherent, Conf, Numbers
  <2>2. o.gen # 0 => gens'[o.gen] = gens[o.gen]
    BY <1>1, <1>2, <2>1
  <2>3. pc' # "retain" /\ conf' = conf
    BY <1>1
  <2> QED
    BY <1>3, <2>2, <2>3 DEF Findable, Coherent
<1> QED
  BY <1>1, <1>3, StillReaders DEF SplitInv

LEMMA UnlinkLeavesReaders ==
  ASSUME SplitInv, NEW ns, Unlink(ns), UNCHANGED <<conf, rpc, obs, seen, overlap>>, Quiet, pc' = "idle",
         \A o \in Conf : Findable(o) => o.gen \notin ns
  PROVE  ReadersInv'
<1>1. \A n \in Numbers : n \notin ns => gens'[n] = gens[n]
  BY Unlinked DEF SplitInv, FilesInv, FilesTyped
<1>2. ASSUME NEW o \in Conf, Findable(o) PROVE Findable(o)'
  <2>1. o.gen # 0 => gens'[o.gen] = gens[o.gen]
    BY <1>1, <1>2, SplitConstants DEF Conf, Numbers
  <2> QED
    BY <1>2, <2>1 DEF Findable, Coherent
<1> QED
  BY <1>2, StillReaders DEF SplitInv

LEMMA RetainLeavesReaders ==
  ASSUME SplitInv, Retain
  PROVE  ReadersInv'
<1>1. /\ pc = "retain" /\ Unlink(OnDisk \ {want.gen, predecessor})
      /\ UNCHANGED <<conf, rpc, obs, seen, overlap>> /\ Quiet /\ pc' = "idle"
  BY DEF Retain, Unlock, confVars, readVars
<1>2. \A o \in Conf : Findable(o) => o.gen \notin OnDisk \ {want.gen, predecessor}
  BY <1>1, SplitConstants DEF Findable, OnDisk, Numbers
<1> QED
  BY <1>1, <1>2, UnlinkLeavesReaders

LEMMA SweepLeavesReaders ==
  ASSUME SplitInv, Sweep
  PROVE  ReadersInv'
<1>1. /\ conf.gen # 0 /\ Unlink({n \in OnDisk : n > conf.gen})
      /\ UNCHANGED <<conf, rpc, obs, seen, overlap>> /\ Quiet /\ pc' = "idle"
  BY DEF Sweep, confVars, readVars, writerVars
<1>2. conf.gen \in Nat /\ \A o \in Conf : o.gen \in Nat
  BY SplitConstants DEF Conf, SplitInv, FilesInv, FilesTyped
<1>3. \A o \in Conf : Findable(o) => o.gen \notin {n \in OnDisk : n > conf.gen}
  BY <1>1, <1>2, SplitConstants DEF Findable, OnDisk, Numbers
<1> QED
  BY <1>1, <1>3, UnlinkLeavesReaders

(* cameras.conf is replaced: a read that saw the old one is overtaken.     *)
LEMMA RenameOvertakes ==
  ASSUME SplitInv, NEW c \in Conf, Rename(c), gens' = gens, c.gen # 0 => conf.gen <= c.gen,
         pc' = "retain" => conf.gen = predecessor'
  PROVE  ReadersInv'
<1>0. /\ conf' = c /\ UNCHANGED <<rpc, obs>> /\ Quiet
      /\ \A r \in Readers : overlap[r] < MaxOverlap
      /\ seen' = [r \in Readers |-> IF rpc[r] = "idle" THEN {} ELSE seen[r] \cup {c}]
      /\ overlap' = [r \in Readers |-> IF rpc[r] = "idle" THEN 0 ELSE overlap[r] + 1]
  BY DEF Rename
<1>1. answer' \in [Readers -> Conf \cup {Refused, Nothing}]
  BY <1>0 DEF Quiet
<1>2. overlap' \in [Readers -> 0..MaxOverlap] /\ seen' \in [Readers -> SUBSET Conf]
  BY <1>0, SplitConstants DEF SplitInv, ReadersInv
<1>3. \A o \in {conf} : Findable(o)'
  <2>1. Backed(conf) /\ conf \in Conf
    BY DEF SplitInv, FilesInv, ReferenceBacked, FilesTyped
  <2>2. Coherent(conf) /\ (conf.gen # 0 => gens[conf.gen] = conf.digest)
    BY <2>1 DEF Backed, Coherent
  <2>3. conf'.gen # 0 => conf.gen <= conf'.gen
    BY <1>0
  <2>4. ASSUME NEW o \in {conf} PROVE Findable(o)'
    BY <2>2, <2>3 DEF Findable, Coherent
  <2> QED
    BY <2>4
<1>4. ASSUME NEW r \in Readers PROVE ReaderInv(r)'
  <2>1. CASE rpc[r] = "idle"
    BY <1>0, <2>1 DEF ReaderInv
  <2>2. CASE rpc[r] # "idle"
    <3>1. seen'[r] = seen[r] \cup {c} /\ overlap'[r] = overlap[r] + 1 /\ overlap[r] \in Nat
      BY <1>0, <2>2, SplitConstants DEF SplitInv, ReadersInv
    <3>2. ReaderInv(r)
      BY DEF SplitInv, ReadersInv
    <3>3. rpc'[r] = "read" /\ overlap'[r] = 1 => Findable(obs[r])'
      BY <1>0, <1>3, <3>1, <3>2 DEF ReaderInv
    <3> QED
      BY <1>0, <2>2, <3>1, <3>2, <3>3 DEF ReaderInv
  <2> QED
    BY <2>1, <2>2
<1> QED
  BY <1>0, <1>1, <1>2, <1>4 DEF SplitInv, ReadersInv

LEMMA PublishConfOvertakes ==
  ASSUME SplitInv, PublishConf
  PROVE  ReadersInv'
<1>1. /\ pc = "publish" /\ gens' = gens /\ Rename([want EXCEPT !.pin = conf.pin])
      /\ pc' = "retain" => predecessor' = predecessor
  BY DEF PublishConf, Unlock
<1>2. want \in Conf /\ predecessor = conf.gen /\ (want.gen # 0 => want.gen > conf.gen)
  BY <1>1 DEF SplitInv, FilesInv, WriterInv
<1>3. [want EXCEPT !.pin = conf.pin] \in Conf /\ [want EXCEPT !.pin = conf.pin].gen = want.gen
  BY <1>2 DEF SplitInv, FilesInv, FilesTyped, Conf
<1>4. want.gen \in Nat /\ conf.gen \in Nat
  BY <1>2, SplitConstants DEF Conf, SplitInv, FilesInv, FilesTyped
<1>5. want.gen # 0 => conf.gen <= want.gen
  BY <1>2, <1>4
<1> QED
  BY Zenon, <1>1, <1>2, <1>3, <1>5, RenameOvertakes

LEMMA WritePinOvertakes ==
  ASSUME SplitInv, NEW pin \in Pins, WritePin(pin)
  PROVE  ReadersInv'
<1>1. pc' = "idle" /\ gens' = gens /\ Rename([conf EXCEPT !.pin = pin])
  BY DEF WritePin, writerVars
<1>2. [conf EXCEPT !.pin = pin] \in Conf /\ [conf EXCEPT !.pin = pin].gen = conf.gen
  BY DEF SplitInv, FilesInv, FilesTyped, Conf
<1> DEFINE c == [conf EXCEPT !.pin = pin]
<1>3. c.gen # 0 => conf.gen <= c.gen
  BY <1>2, SplitConstants DEF Conf, SplitInv, FilesInv, FilesTyped
<1>4. c \in Conf /\ Rename(c) /\ pc' # "retain"
  BY <1>1, <1>2
<1> HIDE DEF c
<1> QED
  BY <1>1, <1>3, <1>4, RenameOvertakes

(* Nobody reads across a power loss.                                       *)
LEMMA PowerLossEndsReads ==
  ASSUME PowerLoss
  PROVE  ReadersInv'
<1>1. /\ rpc' = [r \in Readers |-> "idle"] /\ obs' = [r \in Readers |-> Nothing]
      /\ seen' = [r \in Readers |-> {}] /\ overlap' = [r \in Readers |-> 0]
      /\ answer' = [r \in Readers |-> Nothing]
  BY DEF PowerLoss, Quiet
<1> QED
  BY <1>1, SplitConstants DEF ReadersInv, ReaderInv

(* A read ends with some answer.                                           *)
LEMMA AnswerKeeps ==
  ASSUME SplitInv, NEW r \in Readers, NEW a \in Conf \cup {Refused}, Answer(r, a)
  PROVE  ReadersInv'
<1>0. /\ UNCHANGED <<conf, gens, pc, want, predecessor>>
      /\ answer' = [q \in Readers |-> IF q = r THEN a ELSE Nothing]
      /\ rpc' = [rpc EXCEPT ![r] = "idle"] /\ obs' = [obs EXCEPT ![r] = Nothing]
      /\ seen' = [seen EXCEPT ![r] = {}] /\ overlap' = [overlap EXCEPT ![r] = 0]
  BY DEF Answer, fileVars, writerVars
<1>1. /\ rpc' \in [Readers -> {"idle", "read", "again", "reread"}]
      /\ obs' \in [Readers -> Conf \cup {Nothing}] /\ seen' \in [Readers -> SUBSET Conf]
      /\ overlap' \in [Readers -> 0..MaxOverlap] /\ answer' \in [Readers -> Conf \cup {Refused, Nothing}]
  BY <1>0, SplitConstants DEF SplitInv, ReadersInv
<1>2. ASSUME NEW q \in Readers PROVE ReaderInv(q)'
  <2>1. CASE q = r
    <3>1. rpc'[q] = "idle" /\ seen'[q] = {}
      BY <1>0, <2>1 DEF SplitInv, ReadersInv
    <3> QED
      BY <3>1 DEF ReaderInv
  <2>2. CASE q # r
    <3>1. rpc'[q] = rpc[q] /\ obs'[q] = obs[q] /\ seen'[q] = seen[q] /\ overlap'[q] = overlap[q]
      BY <1>0, <2>2 DEF SplitInv, ReadersInv
    <3>2. ReaderInv(q)
      BY DEF SplitInv, ReadersInv
    <3> QED
      BY <1>0, <3>1, <3>2 DEF ReaderInv, Findable, Coherent
  <2> QED
    BY <2>1, <2>2
<1> QED
  BY <1>1, <1>2 DEF ReadersInv

(* A reader that was overtaken at most once finds its generation.          *)
LEMMA FoundUnlessOvertaken ==
  ASSUME SplitInv, NEW r \in Readers, rpc[r] = "read", overlap[r] < 2
  PROVE  /\ obs[r] \in Conf /\ Coherent(obs[r])
         /\ obs[r].gen # 0 => gens[obs[r].gen] = obs[r].digest
<1>1. ReaderInv(r) /\ overlap[r] \in {0, 1}
  BY SplitConstants DEF SplitInv, ReadersInv
<1>2. CASE overlap[r] = 0
  BY <1>1, <1>2 DEF ReaderInv, SplitInv, FilesInv, ReferenceBacked, Backed, Coherent
<1>3. CASE overlap[r] = 1
  BY <1>1, <1>3 DEF ReaderInv, Findable
<1> QED
  BY <1>1, <1>2, <1>3

(* What a reader's step does: it goes on, or it answers with what it       *)
(* observed, or refuses; it refuses only when it was overtaken twice.      *)
LEMMA ReaderMoves ==
  ASSUME SplitInv, NEW r \in Readers, ReadGeneration(r) \/ ObserveAgain(r) \/ Reread(r)
  PROVE  \/ \E a \in {obs[r], Refused} : Answer(r, a) /\ (a = Refused => overlap[r] >= 2)
         \/ /\ overlap[r] >= 2 /\ Quiet /\ UNCHANGED <<fileVars, writerVars, seen, overlap>>
            /\ \/ rpc[r] = "read" /\ rpc' = [rpc EXCEPT ![r] = "again"] /\ obs' = obs
               \/ rpc[r] = "again" /\ rpc' = [rpc EXCEPT ![r] = "reread"] /\ obs' = [obs EXCEPT ![r] = conf]
<1>0. ReaderInv(r) /\ overlap[r] \in Nat /\ rpc[r] # "idle"
  BY SplitConstants DEF SplitInv, ReadersInv, ReadGeneration, ObserveAgain, Reread
<1>1. CASE ReadGeneration(r)
  <2>1. CASE obs[r].gen = 0
    <3>1. Answer(r, obs[r])
      BY <1>1, <2>1 DEF ReadGeneration
    <3>2. obs[r] # Refused
      BY <1>0, SplitConstants DEF ReaderInv
    <3> QED
      BY <3>1, <3>2
  <2>2. CASE obs[r].gen # 0 /\ gens[obs[r].gen] # Missing
    <3>1. Answer(r, Judge(obs[r]))
      BY <1>1, <2>2 DEF ReadGeneration
    <3>2. Judge(obs[r]) \in {obs[r], Refused}
      BY DEF Judge
    <3>3. Judge(obs[r]) = Refused => overlap[r] >= 2
      <4>1. SUFFICES ASSUME overlap[r] < 2 PROVE Judge(obs[r]) # Refused
        BY <1>0
      <4>2. Judge(obs[r]) = obs[r]
        BY <1>1, <2>2, <4>1, FoundUnlessOvertaken DEF Judge, Coherent, ReadGeneration
      <4> QED
        BY <1>0, <4>2, SplitConstants DEF ReaderInv
    <3> QED
      BY <3>1, <3>2, <3>3
  <2>3. CASE obs[r].gen # 0 /\ gens[obs[r].gen] = Missing
    <3>1. /\ rpc[r] = "read" /\ rpc' = [rpc EXCEPT ![r] = "again"]
          /\ Quiet /\ UNCHANGED <<fileVars, writerVars, obs, seen, overlap>>
      BY <1>1, <2>3 DEF ReadGeneration
    <3>2. overlap[r] >= 2
      BY <1>0, <2>3, <3>1, FoundUnlessOvertaken DEF Coherent, Missing
    <3> QED
      BY <3>1, <3>2
  <2> QED
    BY <2>1, <2>2, <2>3
<1>2. CASE ObserveAgain(r)
  <2>1. rpc[r] = "again" /\ overlap[r] >= 2
    BY <1>0, <1>2 DEF ObserveAgain, ReaderInv
  <2> QED
    BY <1>2, <2>1 DEF ObserveAgain
<1>3. CASE Reread(r)
  <2>1. rpc[r] = "reread" /\ overlap[r] >= 2
    BY <1>0, <1>3 DEF Reread, ReaderInv
  <2>2. (IF obs[r].gen = 0 THEN obs[r] ELSE Judge(obs[r])) \in {obs[r], Refused}
    BY DEF Judge
  <2> QED
    BY <1>3, <2>1, <2>2 DEF Reread
<1> QED
  BY <1>1, <1>2, <1>3

LEMMA ObserveKeeps ==
  ASSUME SplitInv, NEW r \in Readers, Observe(r)
  PROVE  ReadersInv'
<1>0. /\ UNCHANGED <<conf, gens, pc, want, predecessor, overlap>> /\ Quiet
      /\ rpc' = [rpc EXCEPT ![r] = "read"] /\ obs' = [obs EXCEPT ![r] = conf]
      /\ seen' = [seen EXCEPT ![r] = {conf}]
  BY DEF Observe, fileVars, writerVars
<1>1. conf \in Conf
  BY DEF SplitInv, FilesInv, FilesTyped
<1>2. /\ rpc' \in [Readers -> {"idle", "read", "again", "reread"}]
      /\ obs' \in [Readers -> Conf \cup {Nothing}] /\ seen' \in [Readers -> SUBSET Conf]
      /\ overlap' \in [Readers -> 0..MaxOverlap] /\ answer' \in [Readers -> Conf \cup {Refused, Nothing}]
  BY <1>0, <1>1 DEF SplitInv, ReadersInv, Quiet
<1>3. ASSUME NEW q \in Readers PROVE ReaderInv(q)'
  <2>1. CASE q = r
    <3>1. rpc'[q] = "read" /\ obs'[q] = conf /\ seen'[q] = {conf}
      BY <1>0, <2>1 DEF SplitInv, ReadersInv
    <3>2. Findable(conf)
      BY DEF SplitInv, FilesInv, ReferenceBacked, Backed, Findable, Coherent, WriterInv, FilesTyped, Conf
    <3> QED
      BY <1>0, <1>1, <3>1, <3>2 DEF ReaderInv, Findable, Coherent
  <2>2. CASE q # r
    <3>1. rpc'[q] = rpc[q] /\ obs'[q] = obs[q] /\ seen'[q] = seen[q] /\ overlap'[q] = overlap[q]
      BY <1>0, <2>2 DEF SplitInv, ReadersInv
    <3>2. ReaderInv(q)
      BY DEF SplitInv, ReadersInv
    <3> QED
      BY <1>0, <3>1, <3>2 DEF ReaderInv, Findable, Coherent
  <2> QED
    BY <2>1, <2>2
<1> QED
  BY <1>2, <1>3 DEF ReadersInv

(* A reader whose file is missing looks again.                             *)
LEMMA LookAgainKeeps ==
  ASSUME SplitInv, NEW r \in Readers, overlap[r] >= 2, Quiet, rpc[r] # "idle",
         UNCHANGED <<conf, gens, pc, want, predecessor, seen, overlap>>,
         NEW to \in {"again", "reread"}, rpc' = [rpc EXCEPT ![r] = to],
         obs' = obs \/ obs' = [obs EXCEPT ![r] = conf]
  PROVE  ReadersInv'
<1>1. conf \in Conf
  BY DEF SplitInv, FilesInv, FilesTyped
<1>2. /\ rpc' \in [Readers -> {"idle", "read", "again", "reread"}]
      /\ obs' \in [Readers -> Conf \cup {Nothing}] /\ seen' \in [Readers -> SUBSET Conf]
      /\ overlap' \in [Readers -> 0..MaxOverlap] /\ answer' \in [Readers -> Conf \cup {Refused, Nothing}]
  BY <1>1 DEF SplitInv, ReadersInv, Quiet
<1>3. ASSUME NEW q \in Readers PROVE ReaderInv(q)'
  <2>0. ReaderInv(q)
    BY DEF SplitInv, ReadersInv
  <2>1. CASE q = r
    <3>1. rpc'[q] = to /\ obs'[q] \in {obs[q], conf}
      BY <2>1 DEF SplitInv, ReadersInv
    <3> QED
      BY <1>1, <2>0, <2>1, <3>1 DEF ReaderInv
  <2>2. CASE q # r
    <3>1. rpc'[q] = rpc[q] /\ obs'[q] = obs[q]
      BY <2>2 DEF SplitInv, ReadersInv
    <3> QED
      BY <2>0, <3>1 DEF ReaderInv, Findable, Coherent
  <2> QED
    BY <2>1, <2>2
<1> QED
  BY <1>2, <1>3 DEF ReadersInv

-----------------------------------------------------------------------------
(* The specification.                                                      *)

LEMMA WriterKeeps ==
  ASSUME SplitInv, WriterNext
  PROVE  SplitInv'
<1>1. CASE \/ \E p \in Pairs : SplitAdd(p) \/ SplitRemove(p)
           \/ \E p \in Pairs \cup {NoPair} : SplitSelect(p)
  <2>1. PICK records \in SUBSET Pairs, sel \in Pairs \cup {NoPair} : Begin(records, sel)
    BY <1>1, RequestsBegin DEF SplitInv
  <2> QED
    BY <2>1, BeginKeeps, BeginLeavesReaders DEF SplitInv
<1>2. CASE WriteGeneration
  BY <1>2, WriteGenerationKeeps, WriteGenerationLeavesReaders DEF SplitInv
<1>3. CASE PublishConf
  BY <1>3, PublishConfKeeps, PublishConfOvertakes DEF SplitInv
<1>4. CASE Retain
  BY <1>4, RetainKeeps, RetainLeavesReaders DEF SplitInv
<1>5. CASE Stops
  <2>1. UNCHANGED <<conf, confDisk, gens, gensDisk>> /\ pc' = "idle" /\ predecessor' = 0
    BY <1>5 DEF Stops, Unlock, fileVars
  <2>2. FilesInv'
    BY <2>1, SplitConstants DEF SplitInv, FilesInv, FilesTyped, ReferenceBacked, Backed, WriterInv, NumbersGrow
  <2> QED
    BY <1>5, <2>2, StopsLeavesReaders DEF SplitInv
<1>6. CASE \E pin \in Pins : WritePin(pin)
  BY <1>6, WritePinKeeps, WritePinOvertakes DEF SplitInv
<1>7. CASE Sweep
  BY <1>7, SweepKeeps, SweepLeavesReaders DEF SplitInv
<1>8. CASE PowerLoss
  BY <1>8, PowerLossKeeps, PowerLossEndsReads DEF SplitInv
<1> QED
  BY <1>1, <1>2, <1>3, <1>4, <1>5, <1>6, <1>7, <1>8 DEF WriterNext

LEMMA ReaderKeeps ==
  ASSUME SplitInv, NEW r \in Readers, ReaderNext(r)
  PROVE  SplitInv'
<1>1. UNCHANGED <<conf, confDisk, gens, gensDisk, pc, want, predecessor>>
  BY DEF ReaderNext, Observe, ReadGeneration, ObserveAgain, Reread, Answer, fileVars, writerVars
<1>2. FilesInv'
  BY <1>1 DEF SplitInv, FilesInv, FilesTyped, ReferenceBacked, Backed, WriterInv, NumbersGrow, Coherent
<1>3. CASE Observe(r)
  BY <1>2, <1>3, ObserveKeeps DEF SplitInv
<1>4. CASE ReadGeneration(r) \/ ObserveAgain(r) \/ Reread(r)
  <2>1. ReaderInv(r) /\ rpc[r] # "idle"
    BY <1>4 DEF SplitInv, ReadersInv, ReadGeneration, ObserveAgain, Reread
  <2>2. CASE \E a \in {obs[r], Refused} : Answer(r, a)
    <3>1. {obs[r], Refused} \subseteq Conf \cup {Refused}
      BY <2>1 DEF ReaderInv
    <3> QED
      BY <1>2, <2>2, <3>1, AnswerKeeps DEF SplitInv
  <2>3. CASE /\ overlap[r] >= 2 /\ Quiet /\ UNCHANGED <<fileVars, writerVars, seen, overlap>>
             /\ \/ rpc[r] = "read" /\ rpc' = [rpc EXCEPT ![r] = "again"] /\ obs' = obs
                \/ rpc[r] = "again" /\ rpc' = [rpc EXCEPT ![r] = "reread"] /\ obs' = [obs EXCEPT ![r] = conf]
    <3>1. PICK to \in {"again", "reread"} : rpc' = [rpc EXCEPT ![r] = to]
      BY <2>3
    <3> QED
      BY Zenon, <1>1, <1>2, <2>1, <2>3, <3>1, LookAgainKeeps DEF SplitInv
  <2> QED
    BY <1>4, <2>2, <2>3, ReaderMoves
<1> QED
  BY <1>3, <1>4 DEF ReaderNext

LEMMA SplitInvKept == SplitInv /\ [SplitNext]_splitVars => SplitInv'
<1> SUFFICES ASSUME SplitInv, [SplitNext]_splitVars PROVE SplitInv'
  OBVIOUS
<1>1. CASE WriterNext
  BY <1>1, WriterKeeps
<1>2. CASE \E r \in Readers : ReaderNext(r)
  BY <1>2, ReaderKeeps
<1>3. CASE UNCHANGED splitVars
  <2>1. UNCHANGED <<conf, confDisk, gens, gensDisk, pc, want, predecessor, rpc, obs, seen, overlap, answer>>
    BY <1>3 DEF splitVars, fileVars, writerVars, readVars
  <2> QED
    BY Zenon, <2>1 DEF SplitInv, FilesInv, FilesTyped, ReferenceBacked, Backed, WriterInv, NumbersGrow, Coherent,
       ReadersInv, ReaderInv, Findable
<1> QED
  BY <1>1, <1>2, <1>3 DEF SplitNext

(* The inductive invariant of split_publish.rs and its lock-free readers.  *)
THEOREM SplitInvariant == SplitSpec => []SplitInv
<1>1. SplitInit => SplitInv
  BY InitFiles, InitReaders DEF SplitInv
<1> QED
  BY <1>1, SplitInvKept, PTL DEF SplitSpec

(* Both copies of cameras.conf always name a generation file that is there *)
(* in both copies of the directory with the records the digest stands for, *)
(* for any number of pairs and generations (publish_split, retain_only).   *)
THEOREM AlwaysBacked == SplitSpec => []ReferenceBacked
<1>1. SplitInv => ReferenceBacked
  BY DEF SplitInv, FilesInv
<1> QED
  BY <1>1, SplitInvariant, PTL

(* How the steps of the writer look to readers.                            *)
LEMMA WriterMoves ==
  ASSUME SplitInv, WriterNext
  PROVE  \/ UNCHANGED <<conf, confDisk, rpc, obs, seen, overlap>> /\ Quiet
         \/ (\E c \in Conf : Rename(c)) /\ confDisk' \in {confDisk, conf'}
         \/ PowerLoss
<1>1. CASE \/ \E p \in Pairs : SplitAdd(p) \/ SplitRemove(p)
           \/ \E p \in Pairs \cup {NoPair} : SplitSelect(p)
  <2>1. PICK records \in SUBSET Pairs, sel \in Pairs \cup {NoPair} : Begin(records, sel)
    BY <1>1, RequestsBegin DEF SplitInv
  <2> QED
    BY <2>1 DEF Begin, fileVars, readVars
<1>2. CASE WriteGeneration \/ Retain \/ Stops \/ Sweep
  BY <1>2 DEF WriteGeneration, Retain, Stops, Sweep, confVars, fileVars, readVars
<1>3. CASE PublishConf
  <2>1. [want EXCEPT !.pin = conf.pin] \in Conf
    <3>1. want \in Conf /\ conf.pin \in Pins
      BY <1>3 DEF PublishConf, SplitInv, FilesInv, WriterInv, FilesTyped, Conf
    <3> QED
      BY <3>1 DEF Conf
  <2>2. Rename([want EXCEPT !.pin = conf.pin]) /\ confDisk' \in {confDisk, conf'}
    BY <1>3 DEF PublishConf
  <2> QED
    BY <2>1, <2>2
<1>4. CASE \E pin \in Pins : WritePin(pin)
  <2>1. PICK pin \in Pins : WritePin(pin)
    BY <1>4
  <2>2. [conf EXCEPT !.pin = pin] \in Conf
    BY DEF SplitInv, FilesInv, FilesTyped, Conf
  <2>3. Rename([conf EXCEPT !.pin = pin]) /\ confDisk' \in {confDisk, conf'}
    BY <2>1 DEF WritePin
  <2> QED
    BY <2>2, <2>3
<1> QED
  BY <1>1, <1>2, <1>3, <1>4 DEF WriterNext

(* read_camera_selection_with refuses only a reader that at least two      *)
(* publications overtook, since each keeps its predecessor's generation.   *)
THEOREM RefusedOnlyOvertaken == SplitSpec => OvertakenTwice
<1> DEFINE Fair == \A r \in Readers : answer'[r] = Refused => overlap[r] >= 2
<1>1. SplitInv /\ [SplitNext]_splitVars => [Fair]_splitVars
  <2> SUFFICES ASSUME SplitInv, SplitNext, NEW r \in Readers, answer'[r] = Refused
               PROVE  overlap[r] >= 2
    OBVIOUS
  <2>0. ~Quiet
    BY SplitConstants DEF Quiet
  <2>1. CASE WriterNext
    BY <2>0, <2>1, WriterMoves DEF Rename, PowerLoss
  <2>2. CASE \E q \in Readers : ReaderNext(q)
    <3>1. PICK q \in Readers : ReaderNext(q)
      BY <2>2
    <3>2. PICK a \in {obs[q], Refused} : Answer(q, a) /\ (a = Refused => overlap[q] >= 2)
      BY <2>0, <3>1, ReaderMoves DEF ReaderNext, Observe
    <3> QED
      BY <3>2, SplitConstants DEF Answer
  <2> QED
    BY <2>1, <2>2 DEF SplitNext
<1> QED
  BY <1>1, SplitInvariant, PTL DEF SplitSpec, OvertakenTwice

LEMMA InitIsRegister == SplitInit => Register!SelectionInit
<1> SUFFICES ASSUME SplitInit PROVE Register!SelectionInit
  OBVIOUS
<1>1. conf \in Conf
  BY InitFiles DEF FilesInv, FilesTyped
<1> QED
  BY <1>1 DEF SplitInit, Register!SelectionInit

LEMMA StepIsRegister ==
  SplitInv /\ [SplitNext]_splitVars => [Register!SelectionNext]_(Register!selectionVars)
<1> SUFFICES ASSUME SplitInv, [SplitNext]_splitVars
             PROVE  Register!SelectionNext \/ UNCHANGED Register!selectionVars
  OBVIOUS
<1>0. \A r \in Readers : (rpc[r] = "idle" <=> seen[r] = {})
  BY DEF SplitInv, ReadersInv, ReaderInv
<1>1. CASE UNCHANGED <<conf, confDisk, rpc, obs, seen, overlap>> /\ Quiet
  BY <1>1 DEF Register!SelectionNext, Register!Quiet, Quiet
<1>2. ASSUME NEW c \in Conf, Rename(c), confDisk' \in {confDisk, conf'}
      PROVE  Register!SelectionNext
  <2>1. /\ conf' = c /\ Quiet
        /\ seen' = [r \in Readers |-> IF rpc[r] = "idle" THEN {} ELSE seen[r] \cup {c}]
    BY <1>2 DEF Rename
  <2>2. seen' = [r \in Readers |-> IF seen[r] = {} THEN {} ELSE seen[r] \cup {c}]
    BY <1>0, <2>1
  <2>3. Register!Replace(c)
    BY <1>2, <2>1, <2>2 DEF Register!Replace, Register!Quiet, Quiet
  <2> QED
    BY <2>3 DEF Register!SelectionNext
<1>3. CASE PowerLoss
  BY <1>3 DEF PowerLoss, Quiet, Register!SelectionNext, Register!LosePower, Register!Quiet
<1>4. ASSUME NEW r \in Readers, Observe(r) PROVE Register!SelectionNext
  <2>1. Register!Start(r)
    BY <1>0, <1>4 DEF Observe, Quiet, fileVars, Register!Start, Register!Quiet
  <2> QED
    BY <2>1 DEF Register!SelectionNext
<1>5. ASSUME NEW r \in Readers, ReadGeneration(r) \/ ObserveAgain(r) \/ Reread(r)
      PROVE  Register!SelectionNext
  <2>1. rpc[r] # "idle" /\ obs[r] \in seen[r]
    BY <1>5 DEF SplitInv, ReadersInv, ReaderInv, ReadGeneration, ObserveAgain, Reread
  <2>2. ASSUME NEW a \in {obs[r], Refused}, Answer(r, a) PROVE Register!Finish(r)
    BY <1>0, <2>1, <2>2 DEF Answer, fileVars, Register!Finish
  <2>3. CASE Quiet /\ UNCHANGED <<fileVars, writerVars, seen, overlap>>
    BY <2>3 DEF fileVars, Quiet, Register!SelectionNext, Register!Quiet
  <2> QED
    BY <1>5, <2>2, <2>3, ReaderMoves DEF Register!SelectionNext
<1>6. CASE UNCHANGED splitVars
  BY <1>6 DEF splitVars, fileVars, readVars, Register!selectionVars
<1> QED
  BY <1>1, <1>2, <1>3, <1>4, <1>5, <1>6, WriterMoves DEF SplitNext, ReaderNext

(* The files and their lock-free readers implement one register that is    *)
(* replaced as a whole: every step of split_publish.rs is a step of        *)
(* PublishedSelection or leaves it as it is.                               *)
THEOREM FilesImplementRegister == SplitSpec => ReadsAtomically
  BY SplitInvariant, InitIsRegister, StepIsRegister, PTL
     DEF SplitSpec, ReadsAtomically, Register!SelectionSpec
=============================================================================
