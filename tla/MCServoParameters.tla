------------------------- MODULE MCServoParameters -------------------------
(* Two servos of the two models, and the files that make a difference, one  *)
(* of them with a motor that is not there.                                  *)
EXTENDS ServoParameters, TLC

MCJoints == <<2, 3>>
MCModel == 2 :> "xm430" @@ 3 :> "xm540"

File(p2, p3) ==
    <<[id |-> 2, model |-> "xm430", params |-> p2],
      [id |-> 3, model |-> "xm540", params |-> p3]>>

MCFiles == {
    File("mode" :> 2, "mode" :> 3 @@ "gain" :> 1 @@ "port" :> 2),
    File("low" :> 2 @@ "gain" :> 3, "profile" :> 2),
    File("low" :> 3 @@ "mode" :> 2, "high" :> 3),
    File("gain" :> 2, "baud" :> 2),
    File("port" :> 2, "gain" :> 2),
    <<[id |-> 3, model |-> "xm430", params |-> "gain" :> 2]>>,
    <<[id |-> 3, model |-> "xm540", params |-> "mode" :> 2],
      [id |-> 4, model |-> "xm430", params |-> "gain" :> 2],
      [id |-> 2, model |-> "xm430", params |-> "gain" :> 2]>>,
    <<[id |-> 2, model |-> "xm430", params |-> "gain" :> 2],
      [id |-> 2, model |-> "xm430", params |-> "gain" :> 3]>> }
=============================================================================
