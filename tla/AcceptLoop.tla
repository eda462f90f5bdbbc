----------------------------- MODULE AcceptLoop -----------------------------
(***************************************************************************)
(* The accept loop of crates/irlume-daemon/src/main.rs: every accepted     *)
(* connection is held in the penalty box, refused a slot, or served on a   *)
(* thread of its own.  Refusals charge the peer's token bucket, and the    *)
(* bucket decides whether the peer's next connection is held.              *)
(*                                                                         *)
(* Time advances by Tick, one tick being the time that refills one token   *)
(* (1 / refusal_rate_limit seconds).  refill computes the same tokens      *)
(* lazily: nothing is taken from a bucket between two of its refills.      *)
(***************************************************************************)
EXTENDS ConnectionSlots

CONSTANTS RATE,              \* refusal_rate_limit: tokens a full bucket holds
          PENALTY,           \* REFUSAL_PENALTY, in ticks
          MAX_PENALTY_BOX

ASSUME AcceptConstants ==
  /\ RATE \in Nat \ {0}
  /\ PENALTY \in Nat \ {0}
  /\ MAX_PENALTY_BOX \in Nat

VARIABLES tokens,   \* RefusalBucket::tokens; an absent bucket reads as full
          phase,    \* where each connection is in the daemon
          age       \* ticks a connection has spent in the penalty box

acceptVars == <<all, by_uid, holder, tokens, phase, age>>

\* "closed": not accepted, or closed by the daemon;  "serving": its thread
\* runs and the arbiter has not refused its request;  "refused": its thread
\* runs and has been refused;  "held": in the penalty box.
Phases == {"closed", "serving", "refused", "held"}

\* The connections whose request may still be charged to account u.
Chargeable(u) == {c \in HeldBy({u}) : phase[c] = "serving"}

PenaltyBox == {c \in Conns : phase[c] = "held"}

AcceptInit ==
  /\ SlotsInit
  /\ tokens = [u \in Accounts |-> RATE]
  /\ phase = [c \in Conns |-> "closed"]
  /\ age = [c \in Conns |-> 0]

\* Faulty variant: the bucket's debt is compared with its floor.
ThrottledAtFloor(p) == p \in Accounts /\ tokens[p] <= -RATE

refusal_throttled(p) == p \in Accounts /\ tokens[p] < 0

Larger(a, b) == IF a > b THEN a ELSE b

record_refusal(p) ==
  tokens' = IF p \in Accounts
            THEN [tokens EXCEPT ![p] = Larger(@ - 1, -RATE)]
            ELSE tokens

\* Faulty variant: holding a connection is itself charged as a refusal.
HoldCharged(c, p) ==
  /\ phase[c] = "closed"
  /\ refusal_throttled(p)
  /\ Cardinality(PenaltyBox) < MAX_PENALTY_BOX
  /\ phase' = [phase EXCEPT ![c] = "held"]
  /\ age' = [age EXCEPT ![c] = 0]
  /\ record_refusal(p)
  /\ UNCHANGED slotVars

\* A throttled peer's connection goes to the penalty box ...
Hold(c, p) ==
  /\ phase[c] = "closed"
  /\ refusal_throttled(p)
  /\ Cardinality(PenaltyBox) < MAX_PENALTY_BOX
  /\ phase' = [phase EXCEPT ![c] = "held"]
  /\ age' = [age EXCEPT ![c] = 0]
  /\ UNCHANGED <<slotVars, tokens>>

\* ... and any other connection asks for a slot.  (Past MAX_PENALTY_BOX a
\* throttled peer's stream is dropped where it was accepted: no step.)
AdmitRefused(c, p) ==
  /\ phase[c] = "closed"
  /\ ~refusal_throttled(p)
  /\ SlotRefused(p)
  /\ record_refusal(p)
  /\ UNCHANGED <<slotVars, phase, age>>

Admit(c, p) ==
  /\ phase[c] = "closed"
  /\ ~refusal_throttled(p)
  /\ Take(c, p)
  /\ phase' = [phase EXCEPT ![c] = "serving"]
  /\ UNCHANGED <<tokens, age>>

\* The connection's one request is refused by the arbiter.
RequestRefused(c) ==
  /\ phase[c] = "serving"
  /\ holder[c] # Unreadable
  /\ record_refusal(holder[c])
  /\ phase' = [phase EXCEPT ![c] = "refused"]
  /\ UNCHANGED <<slotVars, age>>

\* The connection's thread ends: answered, failed, unwound or never spawned.
ThreadEnds(c) ==
  /\ phase[c] \in {"serving", "refused"}
  /\ Drop(c)
  /\ phase' = [phase EXCEPT ![c] = "closed"]
  /\ UNCHANGED <<tokens, age>>

\* Faulty variant: the box is drained only when a later connection is served.
JanitorAtAccept ==
  LET expired == {c \in PenaltyBox : age[c] >= PENALTY}
  IN  /\ expired # {}
      /\ \E c \in Conns : phase[c] = "serving"
      /\ phase' = [c \in Conns |-> IF c \in expired THEN "closed" ELSE phase[c]]
      /\ age' = [c \in Conns |-> IF c \in expired THEN 0 ELSE age[c]]
      /\ UNCHANGED <<slotVars, tokens>>

\* The penalty thread drops every held stream whose penalty is over.
Janitor ==
  LET expired == {c \in PenaltyBox : age[c] >= PENALTY}
  IN  /\ expired # {}
      /\ phase' = [c \in Conns |-> IF c \in expired THEN "closed" ELSE phase[c]]
      /\ age' = [c \in Conns |-> IF c \in expired THEN 0 ELSE age[c]]
      /\ UNCHANGED <<slotVars, tokens>>

\* Only ticks that change something: a full bucket stays full, and a penalty
\* that is over stays over.
Tick ==
  /\ \/ \E u \in Accounts : tokens[u] < RATE
     \/ \E c \in PenaltyBox : age[c] < PENALTY
  /\ tokens' = [u \in Accounts |-> IF tokens[u] < RATE THEN tokens[u] + 1 ELSE RATE]
  /\ age' = [c \in Conns |-> IF c \in PenaltyBox /\ age[c] < PENALTY
                             THEN age[c] + 1 ELSE age[c]]
  /\ UNCHANGED <<slotVars, phase>>

AcceptNext ==
  \/ Tick
  \/ Janitor
  \/ \E c \in Conns :
       \/ RequestRefused(c)
       \/ ThreadEnds(c)
       \/ \E p \in Peers : Hold(c, p) \/ AdmitRefused(c, p) \/ Admit(c, p)

\* Time passes, the penalty thread keeps waking, and a connection thread ends
\* (its reads, its writes and its wait for the worker all have timeouts).
AcceptFairness ==
  /\ WF_acceptVars(Tick)
  /\ WF_acceptVars(Janitor)
  /\ \A c \in Conns : WF_acceptVars(ThreadEnds(c))

AcceptSpec == AcceptInit /\ [][AcceptNext]_acceptVars /\ AcceptFairness

-----------------------------------------------------------------------------
(* Every bucket is between its floor and its capacity, and a connection    *)
(* holds a slot exactly while its thread runs.                             *)
AcceptTypeOK ==
  /\ SlotsTypeOK
  /\ tokens \in [Accounts -> -RATE..RATE]
  /\ phase \in [Conns -> Phases]
  /\ age \in [Conns -> 0..PENALTY]
  /\ \A c \in Conns : phase[c] \in {"serving", "refused"} <=> holder[c] # NoSlot

(* "The window is deliberately short so this self-heals in well under a    *)
(* second": a throttled account is never more than PER_ACCOUNT + 1 tokens  *)
(* in debt, because only the threads it already has, at most PER_ACCOUNT,  *)
(* can still be refused once the bucket is empty.                          *)
DebtBoundedBySlots ==
  \A u \in Accounts :
    tokens[u] >= -1 - (PER_ACCOUNT - Cardinality(Chargeable(u)))

(* A held client's read returns: no connection stays in the penalty box    *)
(* for good, even when no further connection arrives to wake the accept    *)
(* loop.                                                                   *)
HeldIsReleased == \A c \in Conns : phase[c] = "held" ~> phase[c] # "held"

(* Throttling ends: an account over its refusal budget gets back to a      *)
(* state in which its connections are admitted or refused, not held.       *)
ThrottleHeals ==
  \A u \in Accounts : refusal_throttled(u) ~> ~refusal_throttled(u)
=============================================================================
