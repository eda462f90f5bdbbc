SPECIFICATION Spec
CONSTANTS
    i1 = i1
    i2 = i2
    i3 = i3
    t1 = t1
    t2 = t2
    Topologies = {t1, t2}
    Threads = {i1, i2, i3}
    Scenarios <- MCScenarios
INVARIANTS
    CurrentIsTrue
    RolesOfPlugged
    NoForgottenWaiter
    ExclusiveCamera
PROPERTIES
    HandedOutIsSelected
    InventorySettles
    WaitersServed
CHECK_DEADLOCK FALSE
