--------------------------- MODULE MCCameraLease ----------------------------
(* Two places.  Three threads contend for the cameras in a world that stays *)
(* as it is; two do while something happens to one camera; one while        *)
(* something happens to one and the monitoring fails; none while two things *)
(* happen to any and it fails.                                              *)
EXTENDS CameraLease

CONSTANTS i1, i2, i3, t1, t2

Scenario(changes, unsteady, faults, threads) ==
    [changes |-> changes, unsteady |-> unsteady, faults |-> faults, threads |-> threads, retired |-> {}]

MCScenarios ==
    {Scenario(0, {}, 0, {i1, i2, i3}),
     Scenario(1, {t1}, 0, {i1, i2}),
     Scenario(1, {t1}, 1, {i1}),
     Scenario(2, {t1, t2}, 1, {})}
=============================================================================
