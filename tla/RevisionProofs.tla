--------------------------- MODULE RevisionProofs ---------------------------
(***************************************************************************)
(* Proofs about LiveRevision, for any number of accounts, any bound of the *)
(* accounts counted and any number of changes.                             *)
(***************************************************************************)
EXTENDS LiveRevision, FiniteSetTheorems, TLAPS

RevisionTyped ==
  /\ revision \in Nat /\ shared_revision \in Nat
  /\ Counted \subseteq Accounts
  /\ account_revisions \in [Counted -> [changes : Nat, latest : Nat]]

RevisionInv == RevisionTyped /\ CountsFitRevision /\ IsFiniteSet(ChangesCounted)

\* How many changes are counted for b.
Own(b) == IF b \in Counted THEN account_revisions[b].changes ELSE 0

\* The pairs of ChangesCounted, by their parts.
PairsOf(f) == UNION {{a} \X (1 .. f[a].changes) : a \in DOMAIN f}

LEMMA PairsParts ==
  ASSUME NEW f
  PROVE  /\ \A p \in PairsOf(f) : p = <<p[1], p[2]>>
         /\ \A b, n : <<b, n>> \in PairsOf(f) <=> b \in DOMAIN f /\ n \in 1 .. f[b].changes
<1>1. ASSUME NEW p \in PairsOf(f)
      PROVE  p = <<p[1], p[2]>> /\ p[1] \in DOMAIN f /\ p[2] \in 1 .. f[p[1]].changes
  <2>1. PICK a \in DOMAIN f : p \in {a} \X (1 .. f[a].changes)
    BY DEF PairsOf
  <2> QED
    BY <2>1
<1>2. ASSUME NEW b, NEW n, <<b, n>> \in PairsOf(f)
      PROVE  b \in DOMAIN f /\ n \in 1 .. f[b].changes
  <2>1. PICK p \in PairsOf(f) : p = <<b, n>>
    BY <1>2
  <2>2. p[1] = b /\ p[2] = n
    BY <2>1
  <2> QED
    BY <1>1, <2>2
<1>3. ASSUME NEW b \in DOMAIN f, NEW n \in 1 .. f[b].changes
      PROVE  <<b, n>> \in PairsOf(f)
  <2>1. <<b, n>> \in {b} \X (1 .. f[b].changes)
    OBVIOUS
  <2> QED
    BY <2>1 DEF PairsOf
<1> QED
  BY <1>1, <1>2, <1>3

LEMMA CountedPairs ==
  /\ \A p \in ChangesCounted : p = <<p[1], p[2]>>
  /\ \A b, n : <<b, n>> \in ChangesCounted <=> b \in Counted /\ n \in 1 .. account_revisions[b].changes
<1>1. ChangesCounted = PairsOf(account_revisions) /\ Counted = DOMAIN account_revisions
  BY DEF ChangesCounted, PairsOf, Counted
<1> QED
  BY <1>1, PairsParts

LEMMA CountedPairsNext ==
  /\ \A p \in ChangesCounted' : p = <<p[1], p[2]>>
  /\ \A b, n : <<b, n>> \in ChangesCounted' <=> b \in Counted' /\ n \in 1 .. account_revisions'[b].changes
<1>1. ChangesCounted' = PairsOf(account_revisions') /\ Counted' = DOMAIN account_revisions'
  BY DEF ChangesCounted, PairsOf, Counted
<1> QED
  BY <1>1, PairsParts

\* min_by_key finds an account whenever there is one.
LEMMA EvictionFinds ==
  ASSUME RevisionTyped, NEW a, a \notin Counted, IsFiniteSet(Counted),
         Cardinality(Counted) = MAX_REVISION_ACCOUNTS
  PROVE  Evicted(a) # {}
<1>1. Counted # {}
  BY RevisionConstants, FS_EmptySet
<1> DEFINE T == {account_revisions[b].latest : b \in Counted}
<1>2. T \subseteq Nat /\ T # {}
  BY <1>1 DEF RevisionTyped
<1>3. PICK m \in T : \A y \in T : ~(<<y, m>> \in OpToRel(<, Nat))
  BY <1>2, NatLessThanWellFounded, WFMin
<1>4. \A y \in T : ~(y < m)
  BY <1>2, <1>3 DEF OpToRel
<1>5. PICK e \in Counted : account_revisions[e].latest = m
  OBVIOUS
<1>6. \A b \in Counted : account_revisions[e].latest <= account_revisions[b].latest
  <2> TAKE b \in Counted
  <2>1. account_revisions[b].latest \in T
    OBVIOUS
  <2>2. account_revisions[b].latest \in Nat /\ m \in Nat /\ ~(account_revisions[b].latest < m)
    BY <1>2, <1>4, <2>1
  <2> QED
    BY <1>5, <2>2
<1> QED
  BY <1>5, <1>6 DEF Evicted

\* account.changes += 1 on the counts that are left, by its fields.
LEMMA CountingDoes ==
  ASSUME NEW counts, NEW D, counts \in [D -> [changes : Nat, latest : Nat]], NEW a, revision \in Nat,
         account_revisions' = Counting(counts, a)
  PROVE  /\ Counted' = D \cup {a}
         /\ account_revisions' \in [D \cup {a} -> [changes : Nat, latest : Nat]]
         /\ account_revisions'[a].changes = (IF a \in D THEN counts[a].changes ELSE 0) + 1
         /\ \A b \in D \ {a} : account_revisions'[b] = counts[b]
<1> DEFINE old == IF a \in D THEN counts[a].changes ELSE 0
<1>0. DOMAIN counts = D /\ old \in Nat
  OBVIOUS
<1>1. account_revisions' = [b \in D \cup {a} |->
         IF b = a THEN [changes |-> old + 1, latest |-> revision + 1] ELSE counts[b]]
  BY <1>0 DEF Counting
<1>2. [changes |-> old + 1, latest |-> revision + 1] \in [changes : Nat, latest : Nat]
  BY <1>0
<1> HIDE DEF old
<1>3. account_revisions' \in [D \cup {a} -> [changes : Nat, latest : Nat]]
  BY <1>1, <1>2
<1>4. account_revisions'[a].changes = old + 1
  BY <1>1
<1>5. \A b \in D \ {a} : account_revisions'[b] = counts[b]
  BY <1>1
<1> QED
  BY <1>1, <1>3, <1>4, <1>5 DEF Counted, old

\* A change of an account's state when no count has to leave.
LEMMA RoomDoes ==
  ASSUME RevisionTyped, NEW a \in Accounts, account_revisions' = Counting(account_revisions, a)
  PROVE  /\ Counted' = Counted \cup {a}
         /\ account_revisions' \in [Counted \cup {a} -> [changes : Nat, latest : Nat]]
         /\ account_revisions'[a].changes = Own(a) + 1
         /\ \A b \in Counted \ {a} : account_revisions'[b] = account_revisions[b]
BY CountingDoes DEF RevisionTyped, Own

\* A change of an account's state that takes the count of e.
LEMMA EvictionDoes ==
  ASSUME RevisionTyped, NEW a \in Accounts, NEW e \in Evicted(a),
         account_revisions' = Counting(Removing(e), a)
  PROVE  /\ e \in Counted /\ a \notin Counted /\ Cardinality(Counted) = MAX_REVISION_ACCOUNTS
         /\ Counted' = (Counted \ {e}) \cup {a}
         /\ account_revisions' \in [(Counted \ {e}) \cup {a} -> [changes : Nat, latest : Nat]]
         /\ account_revisions'[a].changes = 1
         /\ \A b \in Counted \ {e} : account_revisions'[b] = account_revisions[b]
<1>1. e \in Counted /\ a \notin Counted /\ Cardinality(Counted) = MAX_REVISION_ACCOUNTS
  BY DEF Evicted
<1> DEFINE counts == Removing(e)
<1>2. counts \in [Counted \ {e} -> [changes : Nat, latest : Nat]]
  BY DEF RevisionTyped, Removing, Restrict
<1>3. \A b \in Counted \ {e} : counts[b] = account_revisions[b]
  BY DEF Removing, Restrict
<1>4. account_revisions' = Counting(counts, a) /\ revision \in Nat
  BY DEF RevisionTyped
<1> HIDE DEF counts
<1>5. /\ Counted' = (Counted \ {e}) \cup {a}
      /\ account_revisions' \in [(Counted \ {e}) \cup {a} -> [changes : Nat, latest : Nat]]
      /\ account_revisions'[a].changes = (IF a \in Counted \ {e} THEN counts[a].changes ELSE 0) + 1
      /\ \A b \in (Counted \ {e}) \ {a} : account_revisions'[b] = counts[b]
  BY <1>2, <1>4, CountingDoes
<1>6. account_revisions'[a].changes = 1
  BY <1>1, <1>5
<1>7. \A b \in Counted \ {e} : account_revisions'[b] = account_revisions[b]
  BY <1>1, <1>3, <1>5
<1> QED
  BY <1>1, <1>5, <1>6, <1>7

\* One more change of a is one more pair, and the counts of the others stay.
LEMMA RoomCounts ==
  ASSUME RevisionInv, NEW a \in Accounts, account_revisions' = Counting(account_revisions, a)
  PROVE  /\ IsFiniteSet(ChangesCounted')
         /\ Cardinality(ChangesCounted') = Cardinality(ChangesCounted) + 1
<1> DEFINE new == <<a, Own(a) + 1>>
<1>0. Own(a) \in Nat /\ RevisionTyped /\ IsFiniteSet(ChangesCounted)
  BY DEF RevisionInv, RevisionTyped, Own
<1>1. new \notin ChangesCounted
  BY <1>0, CountedPairs DEF Own
<1>2. /\ \A p \in ChangesCounted' : p = <<p[1], p[2]>>
      /\ \A b, n : <<b, n>> \in ChangesCounted' <=> b \in Counted' /\ n \in 1 .. account_revisions'[b].changes
  BY CountedPairsNext
<1>3. \A b, n : <<b, n>> \in ChangesCounted' <=> <<b, n>> \in ChangesCounted \/ <<b, n>> = new
  <2> SUFFICES ASSUME NEW b, NEW n
               PROVE  <<b, n>> \in ChangesCounted' <=> <<b, n>> \in ChangesCounted \/ <<b, n>> = new
    OBVIOUS
  <2>1. CASE b = a
    <3>1. <<b, n>> \in ChangesCounted' <=> n \in 1 .. Own(a) + 1
      BY <1>0, <1>2, <2>1, RoomDoes
    <3>2. <<b, n>> \in ChangesCounted <=> n \in 1 .. Own(a)
      BY <1>0, <2>1, CountedPairs DEF Own
    <3> QED
      BY <1>0, <2>1, <3>1, <3>2
  <2>2. CASE b # a
    <3>1. Counted' = Counted \cup {a} /\ \A d \in Counted \ {a} : account_revisions'[d] = account_revisions[d]
      BY <1>0, RoomDoes
    <3>2. <<b, n>> \in ChangesCounted' <=> <<b, n>> \in ChangesCounted
      BY <1>2, <2>2, <3>1, CountedPairs
    <3> QED
      BY <2>2, <3>2
  <2> QED
    BY <2>1, <2>2
<1>4. ChangesCounted' = ChangesCounted \cup {new}
  BY <1>2, <1>3, CountedPairs
<1> HIDE DEF new
<1> QED
  BY <1>0, <1>1, <1>4, FS_AddElement

\* The pairs of e leave, as many as the shared count gains.
LEMMA EvictionCounts ==
  ASSUME RevisionInv, NEW a \in Accounts, NEW e \in Evicted(a),
         account_revisions' = Counting(Removing(e), a)
  PROVE  /\ account_revisions[e].changes \in Nat
         /\ IsFiniteSet(ChangesCounted')
         /\ Cardinality(ChangesCounted') =
              Cardinality(ChangesCounted) - account_revisions[e].changes + 1
<1> DEFINE c == account_revisions[e].changes
           new == <<a, 1>>
           gone == {e} \X (1 .. c)
<1>0. /\ c \in Nat /\ RevisionTyped /\ IsFiniteSet(ChangesCounted)
      /\ e \in Counted /\ a \notin Counted
  BY EvictionDoes DEF RevisionInv, RevisionTyped
<1>1. gone \subseteq ChangesCounted /\ new \notin ChangesCounted
  BY <1>0, CountedPairs
<1>2. /\ \A p \in ChangesCounted' : p = <<p[1], p[2]>>
      /\ \A b, n : <<b, n>> \in ChangesCounted' <=> b \in Counted' /\ n \in 1 .. account_revisions'[b].changes
  BY CountedPairsNext
<1>3. \A b, n : <<b, n>> \in ChangesCounted' <=>
                  (<<b, n>> \in ChangesCounted /\ <<b, n>> \notin gone) \/ <<b, n>> = new
  <2> SUFFICES ASSUME NEW b, NEW n
               PROVE  <<b, n>> \in ChangesCounted' <=>
                        (<<b, n>> \in ChangesCounted /\ <<b, n>> \notin gone) \/ <<b, n>> = new
    OBVIOUS
  <2>0. /\ Counted' = (Counted \ {e}) \cup {a}
        /\ account_revisions'[a].changes = 1
        /\ \A d \in Counted \ {e} : account_revisions'[d] = account_revisions[d]
    BY <1>0, EvictionDoes
  <2>1. CASE b = a
    <3>1. <<b, n>> \in ChangesCounted' <=> n = 1
      BY <1>2, <2>0, <2>1
    <3> QED
      BY <1>0, <2>1, <3>1, CountedPairs
  <2>2. CASE b = e
    <3>1. <<b, n>> \notin ChangesCounted' /\ <<b, n>> # new
      BY <1>0, <1>2, <2>0, <2>2
    <3>2. <<b, n>> \in ChangesCounted => <<b, n>> \in gone
      BY <2>2, CountedPairs
    <3> QED
      BY <3>1, <3>2
  <2>3. CASE b # a /\ b # e
    BY <1>2, <2>0, <2>3, CountedPairs
  <2> QED
    BY <2>1, <2>2, <2>3
<1>4. ChangesCounted' = (ChangesCounted \ gone) \cup {new}
  <2>1. \A p \in ChangesCounted' : p \in (ChangesCounted \ gone) \cup {new}
    BY <1>2, <1>3
  <2>2. \A p \in (ChangesCounted \ gone) \cup {new} : p = <<p[1], p[2]>>
    BY CountedPairs
  <2>3. \A p \in (ChangesCounted \ gone) \cup {new} : p \in ChangesCounted'
    BY <1>3, <2>2
  <2> QED
    BY <2>1, <2>3
<1>5. IsFiniteSet(gone) /\ Cardinality(gone) = c
  <2>1. IsFiniteSet({e}) /\ Cardinality({e}) = 1
    BY FS_Singleton
  <2>2. IsFiniteSet(1 .. c) /\ Cardinality(1 .. c) = c
    <3> HIDE DEF c
    <3>1. 1 \in Int /\ c \in Int
      BY <1>0
    <3>2. IsFiniteSet(1 .. c) /\ Cardinality(1 .. c) = IF 1 > c THEN 0 ELSE c - 1 + 1
      BY <3>1, FS_Interval
    <3> QED
      BY <1>0, <3>2
  <2>3. IsFiniteSet(gone) /\ Cardinality(gone) = Cardinality({e}) * Cardinality(1 .. c)
    BY <2>1, <2>2, FS_Product
  <2> HIDE DEF gone
  <2> QED
    BY <1>0, <2>1, <2>2, <2>3
<1> HIDE DEF gone, new
<1>6. /\ IsFiniteSet(ChangesCounted \ gone)
      /\ Cardinality(ChangesCounted \ gone) = Cardinality(ChangesCounted) - Cardinality(ChangesCounted \cap gone)
  BY <1>0, FS_Difference
<1>7. ChangesCounted \cap gone = gone
  BY <1>1
<1>8. /\ IsFiniteSet((ChangesCounted \ gone) \cup {new})
      /\ Cardinality((ChangesCounted \ gone) \cup {new}) = Cardinality(ChangesCounted \ gone) + 1
  BY <1>1, <1>6, FS_AddElement
<1> QED
  BY <1>0, <1>4, <1>5, <1>6, <1>7, <1>8

-----------------------------------------------------------------------------
LEMMA InitRevisionInv == RevisionInit => RevisionInv
<1> SUFFICES ASSUME RevisionInit PROVE RevisionInv
  OBVIOUS
<1>1. Counted = {} /\ RevisionTyped
  BY DEF RevisionInit, Counted, RevisionTyped
<1>2. ChangesCounted = {}
  BY <1>1 DEF ChangesCounted
<1>3. IsFiniteSet(ChangesCounted) /\ Cardinality(ChangesCounted) = 0 /\ Cardinality(Counted) = 0
  BY <1>1, <1>2, FS_EmptySet
<1> QED
  BY <1>1, <1>3, RevisionConstants DEF RevisionInit, RevisionInv, CountsFitRevision

\* What a change adds up to, whoever observes it.
LEMMA AccountNoted ==
  ASSUME RevisionInv, NEW a \in Accounts, NoteAccount(a), revision' = revision + 1
  PROVE  RevisionInv'
<1>0. /\ RevisionTyped /\ IsFiniteSet(Counted) /\ Cardinality(Counted) \in Nat
      /\ Cardinality(Counted) <= MAX_REVISION_ACCOUNTS /\ MAX_REVISION_ACCOUNTS \in Nat
      /\ IsFiniteSet(ChangesCounted) /\ Cardinality(ChangesCounted) \in Nat
      /\ revision \in Nat /\ shared_revision \in Nat
      /\ shared_revision + Cardinality(ChangesCounted) <= revision
  BY RevisionConstants, FS_Subset, FS_CardinalityType DEF RevisionInv, RevisionTyped, CountsFitRevision
<1>1. CASE Evicted(a) = {} /\ account_revisions' = Counting(account_revisions, a) /\ UNCHANGED shared_revision
  <2>0. /\ Counted' = Counted \cup {a}
        /\ account_revisions' \in [Counted \cup {a} -> [changes : Nat, latest : Nat]]
    BY <1>0, <1>1, RoomDoes
  <2>1. Counted' = Counted \cup {a} /\ RevisionTyped'
    BY <1>0, <1>1, <2>0 DEF RevisionTyped
  <2>2. a \notin Counted => Cardinality(Counted) # MAX_REVISION_ACCOUNTS
    BY <1>0, <1>1, EvictionFinds
  <2>3. Cardinality(Counted \cup {a}) = IF a \in Counted THEN Cardinality(Counted) ELSE Cardinality(Counted) + 1
    BY <1>0, FS_AddElement
  <2>4. Cardinality(Counted') <= MAX_REVISION_ACCOUNTS
    BY <1>0, <2>1, <2>2, <2>3
  <2>5. IsFiniteSet(ChangesCounted') /\ Cardinality(ChangesCounted') = Cardinality(ChangesCounted) + 1
    BY <1>1, RoomCounts
  <2>6. shared_revision' + Cardinality(ChangesCounted') <= revision'
    BY <1>0, <1>1, <2>5
  <2> QED
    BY <2>1, <2>4, <2>5, <2>6 DEF RevisionInv, CountsFitRevision
<1>2. CASE \E e \in Evicted(a) :
             /\ account_revisions' = Counting(Removing(e), a)
             /\ shared_revision' = shared_revision + account_revisions[e].changes
  <2>0. PICK e \in Evicted(a) : /\ account_revisions' = Counting(Removing(e), a)
                                /\ shared_revision' = shared_revision + account_revisions[e].changes
    BY <1>2
  <2>1. /\ e \in Counted /\ a \notin Counted
        /\ Counted' = (Counted \ {e}) \cup {a}
        /\ account_revisions' \in [(Counted \ {e}) \cup {a} -> [changes : Nat, latest : Nat]]
    BY <1>0, <2>0, EvictionDoes
  <2>2. IsFiniteSet(Counted \ {e}) /\ Cardinality(Counted \ {e}) = Cardinality(Counted) - 1
    BY <1>0, <2>1, FS_RemoveElement
  <2>3. Cardinality((Counted \ {e}) \cup {a}) = Cardinality(Counted \ {e}) + 1
    BY <2>1, <2>2, FS_AddElement
  <2>4. Cardinality(Counted') <= MAX_REVISION_ACCOUNTS
    BY <1>0, <2>1, <2>2, <2>3
  <2>5. /\ account_revisions[e].changes \in Nat
        /\ IsFiniteSet(ChangesCounted')
        /\ Cardinality(ChangesCounted') = Cardinality(ChangesCounted) - account_revisions[e].changes + 1
    BY <2>0, EvictionCounts
  <2>6. shared_revision' + Cardinality(ChangesCounted') <= revision'
    BY <1>0, <2>0, <2>5
  <2>7. RevisionTyped'
    BY <1>0, <2>0, <2>1, <2>5 DEF RevisionTyped
  <2> QED
    BY <2>4, <2>5, <2>6, <2>7 DEF RevisionInv, CountsFitRevision
<1> QED
  BY <1>1, <1>2 DEF NoteAccount

\* The readers of a change of an account's state, as change_readers tells them.
LEMMA ReadersOf ==
  ASSUME NEW k, NEW o \in Owners, change_readers(k, o) = "Account"
  PROVE  o \in Accounts /\ k # "CameraSetup"
BY DEF change_readers, Owners

LEMMA RevisionKept ==
  ASSUME RevisionInv, [RevisionNext]_revisionVars
  PROVE  RevisionInv'
<1>1. CASE UNCHANGED revisionVars
  BY <1>1 DEF revisionVars, RevisionInv, RevisionTyped, CountsFitRevision, ChangesCounted, Counted
<1>2. ASSUME NEW k \in Kinds, NEW o \in Owners, note_change(k, o) PROVE RevisionInv'
  <2>1. CASE change_readers(k, o) = "Account" /\ NoteAccount(o)
    BY <1>2, <2>1, ReadersOf, AccountNoted DEF note_change
  <2>2. CASE shared_revision' \in {shared_revision, shared_revision + 1} /\ UNCHANGED account_revisions
    <3>1. Counted' = Counted /\ ChangesCounted' = ChangesCounted /\ revision' = revision + 1
      BY <1>2, <2>2 DEF Counted, ChangesCounted, note_change
    <3>2. Cardinality(ChangesCounted) \in Nat
      BY FS_CardinalityType DEF RevisionInv
    <3> QED
      BY <2>2, <3>1, <3>2 DEF RevisionInv, RevisionTyped, CountsFitRevision
  <2> QED
    BY <1>2, <2>1, <2>2 DEF note_change
<1> QED
  BY <1>1, <1>2 DEF RevisionNext

LEMMA RevisionInvariant == RevisionSpec => []RevisionInv
BY InitRevisionInv, RevisionKept, PTL DEF RevisionSpec

(* What note_change says of its counts, "Every count below adds up to at   *)
(* most `revision`, so none overflows", holds for any number of accounts,  *)
(* and no more than MAX_REVISION_ACCOUNTS are ever counted.                *)
THEOREM CountsNeverOverflow == RevisionSpec => []CountsFitRevision
BY RevisionInvariant, PTL DEF RevisionInv

\* What another account's revision is made of.
LEMMA AccountReads ==
  ASSUME NEW u \in Accounts
  PROVE  /\ revision_for(u) = shared_revision + Own(u)
         /\ revision_for(u)' = shared_revision' + Own(u)'
BY RevisionConstants DEF revision_for, Own

\* What one change does to every reader's revision.
LEMMA ChangeMoves ==
  ASSUME RevisionInv, NEW k \in Kinds, NEW o \in Owners, note_change(k, o)
  PROVE  /\ \A u \in Readers : revision_for(u)' >= revision_for(u)
         /\ \A u \in Observers(k, o) : revision_for(u)' > revision_for(u)
         /\ k = "Enrollment" /\ o \in Accounts /\ Evicted(o) = {} =>
              \A u \in Accounts \ {o} : revision_for(u)' = revision_for(u)
<1>0. /\ RevisionTyped /\ revision \in Nat /\ shared_revision \in Nat
      /\ \A u : Own(u) \in Nat
  BY DEF RevisionInv, RevisionTyped, Own
<1>1. /\ revision_for(Root) = revision /\ revision_for(Root)' = revision + 1
      /\ revision + 1 > revision /\ revision + 1 >= revision
  BY <1>0 DEF note_change, revision_for
<1>2. CASE change_readers(k, o) = "Every" /\ shared_revision' = shared_revision + 1 /\ UNCHANGED account_revisions
  <2>1. \A u \in Accounts : revision_for(u)' = revision_for(u) + 1 /\ revision_for(u) \in Nat
    <3> TAKE u \in Accounts
    <3>1. Own(u)' = Own(u)
      BY <1>2 DEF Own, Counted
    <3> QED
      BY <1>0, <1>2, <3>1, AccountReads
  <2>2. \A u \in Readers : revision_for(u)' > revision_for(u) /\ revision_for(u)' >= revision_for(u)
    BY <1>1, <2>1 DEF Readers
  <2>3. Observers(k, o) \subseteq Readers /\ ~(k = "Enrollment" /\ o \in Accounts)
    BY <1>2, RevisionConstants DEF Observers, change_readers, Readers, Owners
  <2> QED
    BY <2>2, <2>3
<1>3. CASE change_readers(k, o) = "RootOnly" /\ UNCHANGED <<shared_revision, account_revisions>>
  <2>1. \A u \in Accounts : revision_for(u)' = revision_for(u) /\ revision_for(u) \in Nat
    <3> TAKE u \in Accounts
    <3>1. Own(u)' = Own(u)
      BY <1>3 DEF Own, Counted
    <3> QED
      BY <1>0, <1>3, <3>1, AccountReads
  <2>2. \A u \in Readers : revision_for(u)' >= revision_for(u)
    BY <1>1, <2>1 DEF Readers
  <2>3. Observers(k, o) = {Root}
    BY <1>3 DEF Observers, change_readers
  <2> QED
    BY <1>1, <2>1, <2>2, <2>3
<1>4. CASE change_readers(k, o) = "Account" /\ NoteAccount(o)
  <2>0. o \in Accounts /\ Observers(k, o) = {o, Root}
    BY <1>4, ReadersOf, RevisionConstants DEF Observers
  <2>1. ASSUME Evicted(o) = {}, account_revisions' = Counting(account_revisions, o), UNCHANGED shared_revision
        PROVE  \A u \in Accounts : revision_for(u)' = IF u = o THEN revision_for(u) + 1 ELSE revision_for(u)
    <3> TAKE u \in Accounts
    <3>0. /\ Counted' = Counted \cup {o}
          /\ account_revisions'[o].changes = Own(o) + 1
          /\ \A b \in Counted \ {o} : account_revisions'[b] = account_revisions[b]
      BY <1>0, <2>0, <2>1, RoomDoes
    <3>1. Own(u)' = IF u = o THEN Own(u) + 1 ELSE Own(u)
      BY <3>0 DEF Own
    <3> QED
      BY <1>0, <2>1, <3>1, AccountReads
  <2>2. ASSUME NEW e \in Evicted(o), account_revisions' = Counting(Removing(e), o),
               shared_revision' = shared_revision + account_revisions[e].changes
        PROVE  \A u \in Accounts : /\ revision_for(u)' >= revision_for(u)
                                   /\ u = o => revision_for(u)' > revision_for(u)
    <3> TAKE u \in Accounts
    <3>0. /\ e \in Counted /\ o \notin Counted
          /\ Counted' = (Counted \ {e}) \cup {o}
          /\ account_revisions'[o].changes = 1
          /\ \A b \in Counted \ {e} : account_revisions'[b] = account_revisions[b]
      BY <1>0, <2>0, <2>2, EvictionDoes
    <3>1. Own(e) = account_revisions[e].changes /\ Own(o) = 0
      BY <3>0 DEF Own
    <3>2. Own(u)' = IF u = o THEN 1 ELSE IF u = e THEN 0 ELSE Own(u)
      BY <3>0 DEF Own
    <3>3. CASE u = o
      BY <1>0, <2>2, <3>1, <3>2, <3>3, AccountReads
    <3>4. CASE u = e /\ u # o
      BY <1>0, <2>2, <3>1, <3>2, <3>4, AccountReads
    <3>5. CASE u # e /\ u # o
      BY <1>0, <2>2, <3>1, <3>2, <3>5, AccountReads
    <3> QED
      BY <3>3, <3>4, <3>5
  <2>3. \A u \in Accounts : revision_for(u) \in Nat
    BY <1>0, AccountReads
  <2>4. \A u \in Accounts : revision_for(u)' >= revision_for(u) /\ (u = o => revision_for(u)' > revision_for(u))
    BY <1>4, <2>1, <2>2, <2>3 DEF NoteAccount
  <2>5. Evicted(o) = {} => \A u \in Accounts \ {o} : revision_for(u)' = revision_for(u)
    BY <1>4, <2>1 DEF NoteAccount
  <2>6. \A u \in Readers : revision_for(u)' >= revision_for(u)
    BY <1>1, <2>4 DEF Readers
  <2>7. \A u \in Observers(k, o) : revision_for(u)' > revision_for(u)
    BY <1>1, <2>0, <2>4
  <2> QED
    BY <2>5, <2>6, <2>7
<1> QED
  BY <1>2, <1>3, <1>4 DEF note_change

(* A reader that compares revisions never misses a change that concerns it *)
(* and never sees its revision go back, whichever account loses its count, *)
(* and with room for all a change of one account moves no other's          *)
(* (note_change: "each only grows").                                       *)
THEOREM ObserversNotice == RevisionSpec => ObservedChangeMoves
<1> DEFINE Grows == \A u \in Readers : revision_for(u)' >= revision_for(u)
           Moves == \A k \in Kinds, o \in Owners : note_change(k, o) =>
                      \A u \in Observers(k, o) : revision_for(u)' > revision_for(u)
           Apart == \A a \in Accounts : note_change("Enrollment", a) /\ Evicted(a) = {} =>
                      \A u \in Accounts \ {a} : revision_for(u)' = revision_for(u)
<1>1. RevisionInv /\ [RevisionNext]_revisionVars => [Grows /\ Moves /\ Apart]_revisionVars
  <2> SUFFICES ASSUME RevisionInv, RevisionNext PROVE Grows /\ Moves /\ Apart
    OBVIOUS
  <2>1. Grows
    BY ChangeMoves DEF RevisionNext
  <2>2. Moves
    BY ChangeMoves
  <2>3. Apart
    BY ChangeMoves DEF Kinds, Owners
  <2> QED
    BY <2>1, <2>2, <2>3
<1> QED
  BY <1>1, RevisionInvariant, PTL DEF RevisionSpec, ObservedChangeMoves

=============================================================================
