---------------------------- MODULE MCController ----------------------------
(* Small instances of Controller.                                            *)
EXTENDS Controller

CONSTANTS s1, s2, a1
MCOneSensor == {s1}
MCTwoSensors == {s1, s2}
MCOneActuator == {a1}
MCNoActuator == {}
=============================================================================
