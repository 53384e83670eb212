----------------------------- MODULE MCArmRuns -----------------------------
(* Every loop. *)
EXTENDS ArmRuns

MCKinds == {"follow", "posture", "track", "float", "feel", "demo", "teach", "passive"}
=============================================================================
