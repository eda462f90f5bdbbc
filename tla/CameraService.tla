--------------------------- MODULE CameraService ----------------------------
(***************************************************************************)
(* What the arbiter promises, without its queues: one item has the camera  *)
(* worker at a time; authentication goes first; other camera work is       *)
(* turned away, not queued, while an authentication waits or is served;    *)
(* the daemon's own work waits for every request.                          *)
(***************************************************************************)
CONSTANTS Requests, Tasks, class

VARIABLE status

Items == Requests \cup Tasks

IsAuth(i) == i \in Requests /\ class[i] = "Auth"
UsesCamera(i) == i \in Tasks \/ class[i] = "Camera"
WithStatus(s) == {i \in Items : status[i] \in s}

Init == status = [i \in Items |-> "idle"]

Admit(i) ==
  /\ status[i] = "idle"
  /\ UsesCamera(i) => \A a \in WithStatus({"queued", "serving"}) : ~IsAuth(a)
  /\ status' = [status EXCEPT ![i] = "queued"]

TurnAway(i) ==
  /\ i \in Requests
  /\ status[i] = "idle"
  /\ status' = [status EXCEPT ![i] = "over"]

Serve(i) ==
  /\ status[i] = "queued"
  /\ WithStatus({"serving"}) = {}
  /\ ~IsAuth(i) => \A a \in WithStatus({"queued"}) : ~IsAuth(a)
  /\ i \in Tasks => WithStatus({"queued"}) \subseteq Tasks
  /\ status' = [status EXCEPT ![i] = "serving"]

\* A task may be offered again; a request is submitted once.
Complete(i) ==
  /\ status[i] = "serving"
  /\ status' = [status EXCEPT ![i] = IF i \in Tasks THEN "idle" ELSE "over"]

Next == \E i \in Items : Admit(i) \/ TurnAway(i) \/ Serve(i) \/ Complete(i)

Spec == Init /\ [][Next]_status
=============================================================================
