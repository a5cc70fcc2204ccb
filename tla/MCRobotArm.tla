----------------------------- MODULE MCRobotArm -----------------------------
(* Constants for RobotArm: the default slots A1 and B2 and the heights of    *)
(* the code in units of 50, the arm raised as in tests/test_robot_arm.py.    *)
EXTENDS RobotArm

Slots == {[horizontal |-> 2, vertical |-> 4, level |-> 1],
          [horizontal |-> 4, vertical |-> 8, level |-> 2]}
Clearances == <<3, 7>>
Raised == [horizontal |-> 0, vertical |-> 10]
=============================================================================
