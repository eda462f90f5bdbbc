-------------------------- MODULE AcceptLoopProofs --------------------------
(***************************************************************************)
(* Theorems about the connection slots and the accept loop, for every set  *)
(* of connections and every value of the limits.                           *)
(***************************************************************************)
EXTENDS AcceptLoop, FiniteSetTheorems, TLAPS

\* What the slots' own invariant needs to be inductive: peers other than root
\* never hold more than the shared slots.
SharedPoolBounded ==
  Cardinality(HeldBy(Peers \ {Root})) <= TOTAL - ROOT_RESERVED

SlotsInv == SlotsTypeOK /\ CountersAreLiveSlots /\ SharedPoolBounded

(* The slots held by any set of peers are finitely many.                   *)
LEMMA HeldFinite ==
  ASSUME NEW S
  PROVE  IsFiniteSet(HeldBy(S)) /\ Cardinality(HeldBy(S)) \in Nat
<1>1. HeldBy(S) \in SUBSET Conns
  BY DEF HeldBy
<1>2. IsFiniteSet(HeldBy(S))
  BY <1>1, ConnsFinite, FS_Subset
<1> QED
  BY <1>2, FS_CardinalityType

(* ConnectionSlots::take adds one slot to every set of peers the taker is  *)
(* in, and none to the others.                                             *)
LEMMA TakeCounts ==
  ASSUME SlotsTypeOK, NEW c \in Conns, NEW p \in Peers, Take(c, p),
         NEW S \in SUBSET Peers
  PROVE  Cardinality(HeldBy(S)') =
           IF p \in S THEN Cardinality(HeldBy(S)) + 1 ELSE Cardinality(HeldBy(S))
<1>1. c \notin HeldBy(S)
  BY SlotConstants DEF HeldBy, Take, Peers
<1>2. HeldBy(S)' = IF p \in S THEN HeldBy(S) \cup {c} ELSE HeldBy(S)
  BY <1>1 DEF HeldBy, Take, SlotsTypeOK
<1> QED
  BY <1>1, <1>2, HeldFinite, FS_AddElement

(* Slot::drop takes one slot from every set of peers its holder is in.     *)
LEMMA DropCounts ==
  ASSUME SlotsTypeOK, NEW c \in Conns, Drop(c), NEW S \in SUBSET Peers
  PROVE  /\ Cardinality(HeldBy(S)') =
              IF holder[c] \in S THEN Cardinality(HeldBy(S)) - 1
              ELSE Cardinality(HeldBy(S))
         /\ holder[c] \in S => Cardinality(HeldBy(S)) # 0
<1>1. HeldBy(S)' = HeldBy(S) \ {c}
  BY SlotConstants DEF HeldBy, Drop, SlotsTypeOK, Peers
<1>2. c \in HeldBy(S) <=> holder[c] \in S
  BY DEF HeldBy
<1> QED
  BY <1>1, <1>2, HeldFinite, FS_RemoveElement, FS_EmptySet

LEMMA InitSlotsInv == SlotsInit => SlotsInv
<1> SUFFICES ASSUME SlotsInit PROVE SlotsInv
  OBVIOUS
<1>1. SlotsTypeOK
  BY DEF SlotsInit, SlotsTypeOK
<1>2. ASSUME NEW S \in SUBSET Peers PROVE Cardinality(HeldBy(S)) = 0
  <2>1. HeldBy(S) = {}
    BY SlotConstants DEF HeldBy, SlotsInit, Peers
  <2> QED
    BY <2>1, FS_EmptySet
<1>3. CountersAreLiveSlots
  BY <1>2 DEF CountersAreLiveSlots, SlotsInit, Accounts, Peers
<1>4. SharedPoolBounded
  BY <1>2, SlotConstants DEF SharedPoolBounded
<1> QED
  BY <1>1, <1>3, <1>4 DEF SlotsInv

LEMMA TakeSlotsInv ==
  ASSUME SlotsInv, NEW c \in Conns, NEW p \in Peers, Take(c, p)
  PROVE  SlotsInv'
<1> USE DEF SlotsInv
<1>1. SlotsTypeOK'
  BY DEF SlotsTypeOK, Take, Accounts
<1>2. CountersAreLiveSlots'
  <2>1. all' = Cardinality(HeldBy(Peers)')
    BY TakeCounts DEF CountersAreLiveSlots, Take
  <2>2. ASSUME NEW u \in Accounts PROVE by_uid'[u] = Cardinality(HeldBy({u})')
    <3>1. Cardinality(HeldBy({u})') =
            IF p \in {u} THEN Cardinality(HeldBy({u})) + 1 ELSE Cardinality(HeldBy({u}))
      BY TakeCounts DEF Accounts, Peers
    <3>2. by_uid[u] = Cardinality(HeldBy({u}))
      BY DEF CountersAreLiveSlots
    <3> QED
      BY <3>1, <3>2 DEF Take, SlotsTypeOK
  <2> QED
    BY <2>1, <2>2 DEF CountersAreLiveSlots, HeldBy
<1>3. SharedPoolBounded'
  <2> DEFINE shared == Peers \ {Root}
  <2>1. Cardinality(HeldBy(shared)') =
          IF p \in shared THEN Cardinality(HeldBy(shared)) + 1 ELSE Cardinality(HeldBy(shared))
    BY TakeCounts
  <2>2. Cardinality(HeldBy(shared)) <= Cardinality(HeldBy(Peers))
    <3>1. HeldBy(shared) \in SUBSET HeldBy(Peers)
      BY DEF HeldBy
    <3> QED
      BY <3>1, HeldFinite, FS_Subset
  <2>3. p # Root => all < TOTAL - ROOT_RESERVED
    BY SlotConstants DEF Take, SlotRefused, PoolFull, Ceiling, SlotsTypeOK
  <2>4. all = Cardinality(HeldBy(Peers))
    BY DEF CountersAreLiveSlots
  <2>5. Cardinality(HeldBy(shared)') <= TOTAL - ROOT_RESERVED
    BY <2>1, <2>2, <2>3, <2>4, HeldFinite, SlotConstants DEF SharedPoolBounded
  <2> QED
    BY <2>5 DEF SharedPoolBounded, HeldBy
<1> QED
  BY <1>1, <1>2, <1>3

LEMMA DropSlotsInv ==
  ASSUME SlotsInv, NEW c \in Conns, Drop(c)
  PROVE  SlotsInv'
<1> USE DEF SlotsInv
<1>1. SlotsTypeOK'
  BY DEF SlotsTypeOK, Drop, SaturatingPred
<1>2. holder[c] \in Peers
  BY DEF SlotsTypeOK, Drop
<1>3. CountersAreLiveSlots'
  <2>1. all' = Cardinality(HeldBy(Peers)')
    BY <1>2, DropCounts DEF CountersAreLiveSlots, Drop, SaturatingPred
  <2>2. ASSUME NEW u \in Accounts PROVE by_uid'[u] = Cardinality(HeldBy({u})')
    <3>1. /\ Cardinality(HeldBy({u})') =
               IF holder[c] \in {u} THEN Cardinality(HeldBy({u})) - 1
               ELSE Cardinality(HeldBy({u}))
          /\ holder[c] \in {u} => Cardinality(HeldBy({u})) # 0
      BY DropCounts DEF Accounts, Peers
    <3>2. by_uid[u] = Cardinality(HeldBy({u}))
      BY DEF CountersAreLiveSlots
    <3> QED
      BY <3>1, <3>2 DEF Drop, SaturatingPred, SlotsTypeOK
  <2> QED
    BY <2>1, <2>2 DEF CountersAreLiveSlots, HeldBy
<1>4. SharedPoolBounded'
  <2> DEFINE shared == Peers \ {Root}
  <2>1. Cardinality(HeldBy(shared)') <= Cardinality(HeldBy(shared))
    BY DropCounts, HeldFinite
  <2>2. Cardinality(HeldBy(shared)') <= TOTAL - ROOT_RESERVED
    <3>1. Cardinality(HeldBy(shared)') \in Nat
      BY DropCounts, HeldFinite
    <3> QED
      BY <2>1, <3>1, HeldFinite, SlotConstants DEF SharedPoolBounded
  <2> QED
    BY <2>2 DEF SharedPoolBounded, HeldBy
<1> QED
  BY <1>1, <1>3, <1>4

(* Counters and slots agree in every reachable state of                    *)
(* connection_slots.rs, and the shared pool is never overdrawn.            *)
THEOREM SlotsInvariant == SlotsSpec => []SlotsInv
<1>1. SlotsInv /\ [SlotsNext]_slotVars => SlotsInv'
  <2> SUFFICES ASSUME SlotsInv, [SlotsNext]_slotVars PROVE SlotsInv'
    OBVIOUS
  <2>1. CASE UNCHANGED slotVars
    BY <2>1 DEF SlotsInv, SlotsTypeOK, CountersAreLiveSlots, SharedPoolBounded,
                HeldBy, slotVars
  <2>2. ASSUME NEW c \in Conns, Drop(c) PROVE SlotsInv'
    BY <2>2, DropSlotsInv
  <2>3. ASSUME NEW c \in Conns, NEW p \in Peers, Take(c, p) PROVE SlotsInv'
    BY <2>3, TakeSlotsInv
  <2> QED
    BY <2>1, <2>2, <2>3 DEF SlotsNext
<1> QED
  BY InitSlotsInv, <1>1, PTL DEF SlotsSpec

(* The accept loop uses the slots only through take and drop: each of its  *)
(* steps is one of theirs or leaves the slots alone.                       *)
THEOREM AcceptLoopUsesSlots == AcceptSpec => SlotsSpec
<1>1. AcceptInit => SlotsInit
  BY DEF AcceptInit
<1>2. [AcceptNext]_acceptVars => [SlotsNext]_slotVars
  BY DEF AcceptNext, acceptVars, slotVars, SlotsNext, Tick, Janitor,
         RequestRefused, ThreadEnds, Hold, AdmitRefused, Admit
<1> QED
  BY <1>1, <1>2, PTL DEF AcceptSpec, SlotsSpec

(* The counters of take and Slot::drop are the live slots, whatever the    *)
(* accept loop and the connection threads do.                              *)
THEOREM CountersCorrect == AcceptSpec => []CountersAreLiveSlots
<1>1. SlotsInv => CountersAreLiveSlots
  BY DEF SlotsInv
<1> QED
  BY <1>1, SlotsInvariant, AcceptLoopUsesSlots, PTL

(* Root's reserve holds for all limits: while root has fewer than          *)
(* ROOT_RESERVED connections, its next one gets a slot.                    *)
THEOREM RootReserve == AcceptSpec => []RootServable
<1>1. SlotsInv => RootServable
  <2> SUFFICES ASSUME SlotsInv, Cardinality(HeldBy({Root})) < ROOT_RESERVED
               PROVE  ~SlotRefused(Root)
    BY DEF RootServable
  <2> DEFINE shared == Peers \ {Root}
  <2>1. HeldBy(Peers) = HeldBy({Root}) \cup HeldBy(shared)
    BY SlotConstants DEF HeldBy, Peers
  <2>2. HeldBy({Root}) \cap HeldBy(shared) = {}
    BY DEF HeldBy
  <2>3. Cardinality(HeldBy(Peers)) =
          Cardinality(HeldBy({Root})) + Cardinality(HeldBy(shared))
    <3>1. Cardinality(HeldBy({Root}) \cap HeldBy(shared)) = 0
      BY <2>2, FS_EmptySet
    <3> HIDE DEF shared
    <3>2. Cardinality(HeldBy({Root}) \cup HeldBy(shared)) =
            Cardinality(HeldBy({Root})) + Cardinality(HeldBy(shared))
              - Cardinality(HeldBy({Root}) \cap HeldBy(shared))
      BY HeldFinite, FS_Union
    <3> QED
      BY <2>1, <3>1, <3>2, HeldFinite
  <2>4. all < TOTAL
    BY <2>3, HeldFinite, SlotConstants
    DEF SlotsInv, CountersAreLiveSlots, SharedPoolBounded
  <2> QED
    BY <2>4, SlotConstants
    DEF SlotRefused, PoolFull, AccountFull, Ceiling, Accounts, SlotsInv, SlotsTypeOK
<1> QED
  BY <1>1, SlotsInvariant, AcceptLoopUsesSlots, PTL

-----------------------------------------------------------------------------
\* The bound on an account's debt needs the per-account limit on its slots.
AccountsBounded == \A u \in Accounts : by_uid[u] <= PER_ACCOUNT

AcceptInv == SlotsInv /\ AcceptTypeOK /\ AccountsBounded /\ DebtBoundedBySlots

LEMMA ChargeableFinite ==
  ASSUME NEW u
  PROVE  /\ IsFiniteSet(Chargeable(u))
         /\ Cardinality(Chargeable(u)) \in Nat
         /\ Cardinality(Chargeable(u)) <= Cardinality(HeldBy({u}))
<1>1. Chargeable(u) \in SUBSET HeldBy({u})
  BY DEF Chargeable
<1> QED
  BY <1>1, HeldFinite, FS_Subset, FS_CardinalityType

LEMMA AcceptTypeStep ==
  ASSUME AcceptInv, [AcceptNext]_acceptVars
  PROVE  AcceptTypeOK' /\ AccountsBounded'
<1> USE SlotConstants, AcceptConstants DEF AcceptInv, AcceptTypeOK, SlotsTypeOK, AccountsBounded
<1>1. CASE UNCHANGED acceptVars
  BY <1>1 DEF acceptVars
<1>2. CASE Tick
  BY <1>2 DEF Tick, slotVars, PenaltyBox
<1>3. CASE Janitor
  BY <1>3 DEF Janitor, slotVars, PenaltyBox, Phases
<1>4. ASSUME NEW c \in Conns, RequestRefused(c) PROVE AcceptTypeOK' /\ AccountsBounded'
  BY <1>4 DEF RequestRefused, record_refusal, slotVars, Phases, Larger
<1>5. ASSUME NEW c \in Conns, ThreadEnds(c) PROVE AcceptTypeOK' /\ AccountsBounded'
  BY <1>5 DEF ThreadEnds, Drop, SaturatingPred, Phases
<1>6. ASSUME NEW c \in Conns, NEW p \in Peers, Hold(c, p)
      PROVE  AcceptTypeOK' /\ AccountsBounded'
  BY <1>6 DEF Hold, slotVars, Phases
<1>7. ASSUME NEW c \in Conns, NEW p \in Peers, AdmitRefused(c, p)
      PROVE  AcceptTypeOK' /\ AccountsBounded'
  BY <1>7 DEF AdmitRefused, record_refusal, slotVars, Larger
<1>8. ASSUME NEW c \in Conns, NEW p \in Peers, Admit(c, p)
      PROVE  AcceptTypeOK' /\ AccountsBounded'
  BY <1>8 DEF Admit, Take, SlotRefused, AccountFull, Phases, Peers
<1> QED
  BY <1>1, <1>2, <1>3, <1>4, <1>5, <1>6, <1>7, <1>8 DEF AcceptNext

LEMMA DebtStep ==
  ASSUME AcceptInv, [AcceptNext]_acceptVars
  PROVE  DebtBoundedBySlots'
<1> SUFFICES ASSUME NEW u \in Accounts
             PROVE  tokens'[u] >= -1 - (PER_ACCOUNT - Cardinality(Chargeable(u)'))
  BY DEF DebtBoundedBySlots, Chargeable, HeldBy
<1> DEFINE n == Cardinality(Chargeable(u))
<1>a. /\ tokens \in [Accounts -> Int] /\ n \in Nat /\ n <= PER_ACCOUNT
      /\ tokens[u] >= -1 - (PER_ACCOUNT - n)
      /\ by_uid[u] \in Nat /\ n <= by_uid[u]
  <2>1. tokens \in [Accounts -> Int]
    BY AcceptConstants DEF AcceptInv, AcceptTypeOK
  <2>2. by_uid[u] \in Nat /\ by_uid[u] <= PER_ACCOUNT /\ by_uid[u] = Cardinality(HeldBy({u}))
    BY DEF AcceptInv, AccountsBounded, SlotsInv, SlotsTypeOK, CountersAreLiveSlots
  <2>3. n \in Nat /\ n <= by_uid[u]
    BY <2>2, ChargeableFinite
  <2>4. tokens[u] >= -1 - (PER_ACCOUNT - n)
    BY DEF AcceptInv, DebtBoundedBySlots
  <2> QED
    BY <2>1, <2>2, <2>3, <2>4, SlotConstants
<1> HIDE DEF n
<1>b. Cardinality(Chargeable(u)) = n
  BY DEF n
<1>1. CASE UNCHANGED acceptVars
  <2>1. Chargeable(u)' = Chargeable(u)
    BY <1>1 DEF Chargeable, HeldBy, acceptVars
  <2> QED
    BY <1>1, <1>a, <1>b, <2>1 DEF acceptVars
<1>2. CASE Tick
  <2>1. Chargeable(u)' = Chargeable(u)
    BY <1>2 DEF Chargeable, HeldBy, Tick, slotVars
  <2>2. tokens'[u] >= tokens[u] /\ tokens'[u] \in Int
    BY <1>2, <1>a, AcceptConstants DEF Tick, AcceptInv, AcceptTypeOK
  <2> QED
    BY <1>a, <1>b, <2>1, <2>2, SlotConstants
<1>3. CASE Janitor
  <2>1. Chargeable(u)' = Chargeable(u)
    BY <1>3 DEF Chargeable, HeldBy, Janitor, slotVars, PenaltyBox, AcceptInv, AcceptTypeOK
  <2> QED
    BY <1>3, <1>a, <1>b, <2>1 DEF Janitor
<1>4. ASSUME NEW c \in Conns, RequestRefused(c)
      PROVE  tokens'[u] >= -1 - (PER_ACCOUNT - Cardinality(Chargeable(u)'))
  <2>1. CASE holder[c] = u
    <3>1. c \in Chargeable(u) /\ Chargeable(u)' = Chargeable(u) \ {c}
      BY <1>4, <2>1 DEF Chargeable, HeldBy, RequestRefused, slotVars, AcceptInv, AcceptTypeOK
    <3>2. Cardinality(Chargeable(u)') = n - 1
      BY <3>1, <1>b, ChargeableFinite, FS_RemoveElement
    <3>3. tokens'[u] >= tokens[u] - 1 /\ tokens'[u] \in Int
      BY <1>4, <2>1, <1>a, AcceptConstants DEF RequestRefused, record_refusal, Larger
    <3> QED
      BY <1>a, <3>2, <3>3, SlotConstants
  <2>2. CASE holder[c] # u
    <3>1. Chargeable(u)' = Chargeable(u)
      BY <1>4, <2>2 DEF Chargeable, HeldBy, RequestRefused, slotVars, AcceptInv, AcceptTypeOK
    <3>2. tokens'[u] = tokens[u]
      BY <1>4, <2>2, <1>a DEF RequestRefused, record_refusal
    <3> QED
      BY <1>a, <1>b, <3>1, <3>2
  <2> QED
    BY <2>1, <2>2
<1>5. ASSUME NEW c \in Conns, ThreadEnds(c)
      PROVE  tokens'[u] >= -1 - (PER_ACCOUNT - Cardinality(Chargeable(u)'))
  <2>1. Chargeable(u)' \in SUBSET Chargeable(u)
    BY <1>5, SlotConstants
    DEF Chargeable, HeldBy, ThreadEnds, Drop, AcceptInv, AcceptTypeOK, SlotsTypeOK, Accounts
  <2>2. Cardinality(Chargeable(u)') \in Nat /\ Cardinality(Chargeable(u)') <= n
    BY <2>1, <1>b, ChargeableFinite, FS_Subset, FS_CardinalityType
  <2> QED
    BY <1>5, <1>a, <2>2, SlotConstants DEF ThreadEnds
<1>6. ASSUME NEW c \in Conns, NEW p \in Peers, Hold(c, p)
      PROVE  tokens'[u] >= -1 - (PER_ACCOUNT - Cardinality(Chargeable(u)'))
  <2>1. Chargeable(u)' = Chargeable(u)
    BY <1>6 DEF Chargeable, HeldBy, Hold, slotVars, AcceptInv, AcceptTypeOK
  <2> QED
    BY <1>6, <1>a, <1>b, <2>1 DEF Hold
<1>7. ASSUME NEW c \in Conns, NEW p \in Peers, AdmitRefused(c, p)
      PROVE  tokens'[u] >= -1 - (PER_ACCOUNT - Cardinality(Chargeable(u)'))
  <2>1. Chargeable(u)' = Chargeable(u)
    BY <1>7 DEF Chargeable, HeldBy, AdmitRefused, slotVars
  <2>2. tokens'[u] = tokens[u] \/ (tokens[u] >= 0 /\ tokens'[u] >= tokens[u] - 1)
    BY <1>7, <1>a, AcceptConstants
    DEF AdmitRefused, record_refusal, refusal_throttled, Larger
  <2>3. tokens'[u] \in Int
    BY <1>7, <1>a, AcceptConstants DEF AdmitRefused, record_refusal, Larger
  <2> QED
    BY <1>a, <1>b, <2>1, <2>2, <2>3, SlotConstants
<1>8. ASSUME NEW c \in Conns, NEW p \in Peers, Admit(c, p)
      PROVE  tokens'[u] >= -1 - (PER_ACCOUNT - Cardinality(Chargeable(u)'))
  <2>1. CASE p = u
    <3>1. c \notin Chargeable(u) /\ Chargeable(u)' = Chargeable(u) \cup {c}
      BY <1>8, <2>1, SlotConstants
      DEF Chargeable, HeldBy, Admit, Take, AcceptInv, AcceptTypeOK, SlotsTypeOK
    <3>2. Cardinality(Chargeable(u)') = n + 1
      BY <3>1, <1>b, ChargeableFinite, FS_AddElement
    <3>3. tokens[u] >= 0 /\ by_uid[u] < PER_ACCOUNT /\ tokens' = tokens
      BY <1>8, <2>1, <1>a, SlotConstants DEF Admit, Take, SlotRefused, AccountFull, refusal_throttled
    <3> QED
      BY <1>a, <3>2, <3>3, SlotConstants
  <2>2. CASE p # u
    <3>1. Chargeable(u)' = Chargeable(u)
      BY <1>8, <2>2, SlotConstants
      DEF Chargeable, HeldBy, Admit, Take, AcceptInv, AcceptTypeOK, SlotsTypeOK, Accounts
    <3> QED
      BY <1>8, <1>a, <1>b, <3>1 DEF Admit
  <2> QED
    BY <2>1, <2>2
<1> QED
  BY <1>1, <1>2, <1>3, <1>4, <1>5, <1>6, <1>7, <1>8 DEF AcceptNext

(* Every reachable state of the accept loop satisfies the invariant.       *)
THEOREM AcceptInvariant == AcceptSpec => []AcceptInv
<1>1. AcceptInit => AcceptInv
  <2> SUFFICES ASSUME AcceptInit PROVE AcceptInv
    OBVIOUS
  <2>1. SlotsInv
    BY InitSlotsInv DEF AcceptInit
  <2>2. AcceptTypeOK /\ AccountsBounded
    BY <2>1, SlotConstants, AcceptConstants
    DEF AcceptInit, SlotsInit, SlotsInv, AcceptTypeOK, AccountsBounded, Phases
  <2>3. ASSUME NEW u \in Accounts PROVE Chargeable(u) = {}
    BY DEF Chargeable, HeldBy, AcceptInit
  <2>4. DebtBoundedBySlots
    BY <2>3, FS_EmptySet, SlotConstants, AcceptConstants DEF DebtBoundedBySlots, AcceptInit
  <2> QED
    BY <2>1, <2>2, <2>4 DEF AcceptInv
<1>2. AcceptInv /\ SlotsInv' /\ [AcceptNext]_acceptVars => AcceptInv'
  BY AcceptTypeStep, DebtStep DEF AcceptInv
<1> QED
  BY <1>1, <1>2, SlotsInvariant, AcceptLoopUsesSlots, PTL DEF AcceptSpec

(* However connections and refusals interleave, a throttled account owes   *)
(* at most PER_ACCOUNT + 1 refusals, so it is served again after that many *)
(* tokens' worth of time.                                                  *)
THEOREM DebtBounded == AcceptSpec => []DebtBoundedBySlots
<1>1. AcceptInv => DebtBoundedBySlots
  BY DEF AcceptInv
<1> QED
  BY <1>1, AcceptInvariant, PTL

(* A connection holds a slot exactly while its thread runs (one held in    *)
(* the penalty box holds none), and no bucket leaves its range.            *)
THEOREM AcceptTyped == AcceptSpec => []AcceptTypeOK
<1>1. AcceptInv => AcceptTypeOK
  BY DEF AcceptInv
<1> QED
  BY <1>1, AcceptInvariant, PTL
=============================================================================
