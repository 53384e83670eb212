-------------------------- MODULE MCLatencySession --------------------------
(* Both tools; a session of three steps, one at the starting value or at   *)
(* another, one attempted earlier, and a session without steps.            *)
EXTENDS LatencySession

MCPrograms == {"hold", "session"}

Run(step, timer_, earlier) == [step |-> step, timer |-> timer_, earlier |-> earlier]

MCRunLists ==
    {<<Run(0, TRUE, FALSE), Run(1, FALSE, TRUE), Run(1, FALSE, FALSE)>>,
     <<Run(NoStep, TRUE, FALSE), Run(NoStep, FALSE, FALSE)>>}
=============================================================================
