--------------------------- MODULE DaemonRequests ---------------------------
(***************************************************************************)
(* What the daemon's parts know of a parsed request: who sent it and what  *)
(* it costs the camera (classify in crates/irlume-daemon/src/arbiter.rs).  *)
(***************************************************************************)
CONSTANTS Requests,    \* parsed requests, each submitted at most once
          Uids, Root,  \* peers, and uid 0
          uid,         \* the peer that sent each request
          class        \* classify(req)

Classes == {"Auth", "Camera", "Plain", "Status"}

ASSUME RequestConstants ==
  /\ Root \in Uids
  /\ class \in [Requests -> Classes]
  /\ uid \in [Requests -> Uids]
=============================================================================
