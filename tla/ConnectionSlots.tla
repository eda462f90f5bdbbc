-------------------------- MODULE ConnectionSlots --------------------------
(***************************************************************************)
(* crates/irlume-daemon/src/connection_slots.rs: how many connections the  *)
(* daemon serves at once.  A connection takes a slot at accept and gives   *)
(* it back when its thread ends, by return or by unwind.                   *)
(***************************************************************************)
EXTENDS Integers, FiniteSets

CONSTANTS Conns,          \* connections that may be accepted
          Uids,           \* uids of peers, Root among them
          Root,           \* uid 0
          Unreadable,     \* a peer whose credentials could not be read
          NoSlot,         \* a connection that holds no slot
          TOTAL, ROOT_RESERVED, PER_ACCOUNT

ASSUME SlotConstants ==
  /\ Root \in Uids
  /\ Unreadable \notin Uids
  /\ NoSlot \notin Uids \cup {Unreadable}
  /\ TOTAL \in Nat
  /\ ROOT_RESERVED \in 0..TOTAL
  /\ PER_ACCOUNT \in Nat

ASSUME ConnsFinite == IsFiniteSet(Conns)

VARIABLES all,      \* Held::all
          by_uid,   \* Held::by_uid; an absent entry reads as 0
          holder    \* the peer each live Slot was taken for

slotVars == <<all, by_uid, holder>>

Peers == Uids \cup {Unreadable}
Accounts == Uids \ {Root}
HeldBy(S) == {c \in Conns : holder[c] \in S}

SlotsInit ==
  /\ all = 0
  /\ by_uid = [u \in Accounts |-> 0]
  /\ holder = [c \in Conns |-> NoSlot]

\* Faulty variant: everyone may take the whole pool.
CeilingNoReserve(p) == TOTAL

\* The slots a peer may see taken before it is refused: all of them for root,
\* the shared ones for everyone else.
Ceiling(p) == IF p = Root THEN TOTAL ELSE TOTAL - ROOT_RESERVED

PoolFull(p) == all >= Ceiling(p)
AccountFull(p) == p \in Accounts /\ by_uid[p] >= PER_ACCOUNT
SlotRefused(p) == PoolFull(p) \/ AccountFull(p)

Take(c, p) ==
  /\ holder[c] = NoSlot
  /\ ~SlotRefused(p)
  /\ by_uid' = IF p \in Accounts THEN [by_uid EXCEPT ![p] = @ + 1] ELSE by_uid
  /\ all' = all + 1
  /\ holder' = [holder EXCEPT ![c] = p]

SaturatingPred(n) == IF n = 0 THEN 0 ELSE n - 1

\* Faulty variant: the account's count is given back for every peer but the
\* account's own entry is forgotten on the first drop.
DropForgetsAccount(c) ==
  /\ holder[c] # NoSlot
  /\ all' = SaturatingPred(all)
  /\ by_uid' = IF holder[c] \in Accounts
               THEN [by_uid EXCEPT ![holder[c]] = 0]
               ELSE by_uid
  /\ holder' = [holder EXCEPT ![c] = NoSlot]

Drop(c) ==
  /\ holder[c] # NoSlot
  /\ all' = SaturatingPred(all)
  /\ by_uid' = IF holder[c] \in Accounts
               THEN [by_uid EXCEPT ![holder[c]] = SaturatingPred(@)]
               ELSE by_uid
  /\ holder' = [holder EXCEPT ![c] = NoSlot]

SlotsNext == \E c \in Conns : Drop(c) \/ \E p \in Peers : Take(c, p)

SlotsSpec == SlotsInit /\ [][SlotsNext]_slotVars

-----------------------------------------------------------------------------
(* Every counter is a natural number and every slot was taken for a peer.  *)
SlotsTypeOK ==
  /\ all \in Nat
  /\ by_uid \in [Accounts -> Nat]
  /\ holder \in [Conns -> Peers \cup {NoSlot}]

(* The counters that take and Slot::drop keep apart from the slots are     *)
(* exactly the live slots, in total and for every account: none leaks (an  *)
(* account refused for connections that ended) and none is given back      *)
(* twice (a limit passed unnoticed).                                       *)
CountersAreLiveSlots ==
  /\ all = Cardinality(HeldBy(Peers))
  /\ \A u \in Accounts : by_uid[u] = Cardinality(HeldBy({u}))

(* The reserve: while root holds fewer than ROOT_RESERVED slots, a root    *)
(* connection is not refused, whatever the other peers hold and whoever    *)
(* came first.                                                             *)
RootServable ==
  Cardinality(HeldBy({Root})) < ROOT_RESERVED => ~SlotRefused(Root)
=============================================================================
