---------------------------- MODULE LiveRevision ----------------------------
(***************************************************************************)
(* crates/irlume-daemon/src/live.rs, Inner::note_change and revision_for:  *)
(* the revision a reader compares to know whether what it cached is stale. *)
(* Root reads one count of every change; another account reads a shared    *)
(* count plus its own, and own counts are kept for a bounded number of     *)
(* accounts.                                                               *)
(***************************************************************************)
EXTENDS Naturals, FiniteSets, Functions

CONSTANTS Accounts,     \* uids other than 0
          Root,         \* uid 0
          Daemon, Unresolved,       \* owners that are not an account
          MAX_REVISION_ACCOUNTS,
          MaxChanges    \* bound of the model: changes noted

ASSUME RevisionConstants ==
  /\ IsFiniteSet(Accounts) /\ Accounts \cap {Root, Daemon, Unresolved} = {}
  /\ MAX_REVISION_ACCOUNTS \in Nat \ {0}
  /\ MaxChanges \in Nat

Owners == Accounts \cup {Root, Daemon, Unresolved}
Readers == Accounts \cup {Root}
\* The kinds change_readers tells apart.
Kinds == {"CameraSetup", "Enrollment"}

VARIABLES revision, shared_revision,
          account_revisions   \* from the accounts counted to changes and latest

revisionVars == <<revision, shared_revision, account_revisions>>

RevisionInit ==
  /\ revision = 0 /\ shared_revision = 0
  /\ account_revisions = [a \in {} |-> [changes |-> 0, latest |-> 0]]

change_readers(k, o) ==
  IF k = "CameraSetup" \/ o \in {Daemon, Unresolved} THEN "Every"
  ELSE IF o = Root THEN "RootOnly" ELSE "Account"

Counted == DOMAIN account_revisions

\* The accounts whose latest change is oldest; none when there is room.
Evicted(a) ==
  IF a \in Counted \/ Cardinality(Counted) # MAX_REVISION_ACCOUNTS THEN {}
  ELSE {e \in Counted : \A b \in Counted :
          account_revisions[e].latest <= account_revisions[b].latest}

\* Faulty variant: a count moved into the shared one is still kept.
RemovingNothing(e) == account_revisions

\* account_revisions.remove(&evicted)
Removing(e) == Restrict(account_revisions, Counted \ {e})

\* account.changes += 1; account.latest = revision
Counting(counts, a) ==
  LET old == IF a \in DOMAIN counts THEN counts[a].changes ELSE 0
  IN  [b \in DOMAIN counts \cup {a} |->
         IF b = a THEN [changes |-> old + 1, latest |-> revision + 1] ELSE counts[b]]

\* Faulty variant: an evicted count is forgotten.
NoteAccountForgetting(a) ==
  /\ \/ Evicted(a) = {} /\ account_revisions' = Counting(account_revisions, a)
     \/ \E e \in Evicted(a) : account_revisions' = Counting(Removing(e), a)
  /\ UNCHANGED shared_revision

NoteAccount(a) ==
  \/ /\ Evicted(a) = {}
     /\ account_revisions' = Counting(account_revisions, a)
     /\ UNCHANGED shared_revision
  \/ \E e \in Evicted(a) :
       /\ account_revisions' = Counting(Removing(e), a)
       /\ shared_revision' = shared_revision + account_revisions[e].changes

note_change(k, o) ==
  /\ revision < MaxChanges
  /\ revision' = revision + 1
  /\ \/ /\ change_readers(k, o) = "Every"
        /\ shared_revision' = shared_revision + 1
        /\ UNCHANGED account_revisions
     \/ change_readers(k, o) = "Account" /\ NoteAccount(o)
     \/ /\ change_readers(k, o) = "RootOnly"
        /\ UNCHANGED <<shared_revision, account_revisions>>

RevisionNext == \E k \in Kinds, o \in Owners : note_change(k, o)
RevisionSpec == RevisionInit /\ [][RevisionNext]_revisionVars

revision_for(u) ==
  IF u = Root THEN revision
  ELSE shared_revision + (IF u \in Counted THEN account_revisions[u].changes ELSE 0)

-----------------------------------------------------------------------------
\* The readers a change of kind k to owner o's state concerns.
Observers(k, o) ==
  IF k = "CameraSetup" \/ o \in {Daemon, Unresolved} THEN Readers ELSE {o, Root}

\* Every change counted for an account, as the account and the change's number.
ChangesCounted == UNION {{a} \X (1 .. account_revisions[a].changes) : a \in Counted}

(* The counts stay within the bound and below root's count (note_change:   *)
(* "Every count below adds up to at most `revision`, so none overflows").  *)
CountsFitRevision ==
  /\ Cardinality(Counted) <= MAX_REVISION_ACCOUNTS
  /\ shared_revision + Cardinality(ChangesCounted) <= revision

(* A change moves the revision of every reader that can observe it, and no *)
(* reader's revision ever goes back, although an account may lose its own  *)
(* count to another at any change.  While there is room for every account, *)
(* a change to one account's state moves no other account's revision.      *)
ObservedChangeMoves ==
  [][/\ \A u \in Readers : revision_for(u)' >= revision_for(u)
     /\ \A k \in Kinds, o \in Owners : note_change(k, o) =>
          \A u \in Observers(k, o) : revision_for(u)' > revision_for(u)
     /\ \A a \in Accounts : note_change("Enrollment", a) /\ Evicted(a) = {} =>
          \A u \in Accounts \ {a} : revision_for(u)' = revision_for(u)]_revisionVars
=============================================================================
