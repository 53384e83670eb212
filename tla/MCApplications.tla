--------------------------- MODULE MCApplications ---------------------------
(* Every program with each of the options it accepts, "check" standing for  *)
(* --check and --help; two servos.                                         *)
EXTENDS Applications

CONSTANTS s1, s2

MCServo == {s1, s2}

MCPrograms ==
    ({"x7_follow"} \X {"plain", "bundle", "timed", "posture", "check"})
    \cup ({"x7_track"} \X {"plain", "bundle", "timed", "check"})
    \cup ({"x7_teach passive", "x7_teach gravity"} \X {"plain", "bundle", "check"})
    \cup ({"x7_pose"} \X {"plain", "tcp"})
    \cup ({"x7_follow_sim", "x7_track_sim"} \X {"plain", "bundle", "disturbed", "check"})
    \cup ({"x7_plan_ptp"} \X {"plain", "bundle"})
    \cup ({"x7_force_budget"} \X {"plain", "check"})
    \cup ({"x7_bus_timing"} \X {"plain", "inventory"})
    \cup ({"x7_read", "x7_float", "x7_gravity_demo",
            "x7_move_simple", "x7_onoff"} \X {"plain"})
=============================================================================
