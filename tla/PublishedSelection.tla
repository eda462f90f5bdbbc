------------------------- MODULE PublishedSelection -------------------------
(***************************************************************************)
(* What the camera selection promises its readers: one value, replaced as  *)
(* a whole.  A read answers with a value that was current while it ran, or *)
(* refuses.  A power loss may bring back the value that was last safe, as  *)
(* a whole; which replacements are safe at once is left open.              *)
(***************************************************************************)
CONSTANTS Values, Readers, Refused, NoAnswer

VARIABLES value,   \* what a read that starts now would find
          safe,    \* what a power loss can fall back to
          seen,    \* values current since reader r's read began; {}: no read
          answer   \* what reader r's read, if one has just ended, answered

selectionVars == <<value, safe, seen, answer>>

SelectionInit ==
  /\ value \in Values /\ safe = value
  /\ seen = [r \in Readers |-> {}]
  /\ answer = [r \in Readers |-> NoAnswer]

Quiet == answer' = [r \in Readers |-> NoAnswer]

Replace(v) ==
  /\ value' = v
  /\ safe' \in {safe, v}
  /\ seen' = [r \in Readers |-> IF seen[r] = {} THEN {} ELSE seen[r] \cup {v}]
  /\ Quiet

Start(r) ==
  /\ seen[r] = {}
  /\ seen' = [seen EXCEPT ![r] = {value}]
  /\ Quiet
  /\ UNCHANGED <<value, safe>>

Finish(r) ==
  /\ seen[r] # {}
  /\ \E v \in seen[r] \cup {Refused} :
       answer' = [q \in Readers |-> IF q = r THEN v ELSE NoAnswer]
  /\ seen' = [seen EXCEPT ![r] = {}]
  /\ UNCHANGED <<value, safe>>

LosePower ==
  /\ value' \in {value, safe} /\ safe' = value'
  /\ seen' = [r \in Readers |-> {}]
  /\ Quiet

SelectionNext ==
  \/ \E v \in Values : Replace(v)
  \/ \E r \in Readers : Start(r) \/ Finish(r)
  \/ LosePower
  \/ Quiet /\ UNCHANGED <<value, safe, seen>>

SelectionSpec == SelectionInit /\ [][SelectionNext]_selectionVars
=============================================================================
