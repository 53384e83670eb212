-------------------------- MODULE AbstractSession --------------------------
(***************************************************************************)
(* What the arm's owner is promised by CraneX7 (include/rtctrl/hw/         *)
(* crane_x7.hpp), with the bus transactions of a call forgotten: a call    *)
(* begins, switches servos on and off in any order, and returns a result   *)
(* that says something about all of them.  ServoSession implements this    *)
(* module; Applications builds the programs on it.                         *)
(***************************************************************************)
CONSTANT Servo

VARIABLES
    busy,      \* a call of the API is in progress
    result,    \* what the last finished call returned
    on,        \* servos this program switched on and has not switched off
    active,    \* activated_
    thread,    \* the background thread: "none", "running", "exited"
    silent     \* the bus no longer transmits: quiesced, or its port closed

sessionVars == <<busy, result, on, active, thread, silent>>

SessionTypeOK ==
    /\ busy \in BOOLEAN /\ active \in BOOLEAN /\ silent \in BOOLEAN
    /\ result \in {"none", "active", "refused", "released", "clean",
                   "unclean", "limp", "threw"}
    /\ on \subseteq Servo
    /\ thread \in {"none", "running", "exited"}

SessionInit ==
    /\ busy = FALSE /\ result = "none"
    /\ on = {} /\ active = FALSE /\ thread = "none" /\ silent = FALSE

(* A stopping call joins the thread before its first transaction. *)
Call ==
    /\ ~busy
    /\ busy' = TRUE /\ result' = "none"
    /\ thread' \in {thread, "none"}
    /\ UNCHANGED <<on, active, silent>>

(* One transaction.  A silent bus switches nothing. *)
Switches == on' \in SUBSET Servo /\ (silent => on' = on)

Transaction ==
    /\ busy /\ Switches
    /\ UNCHANGED <<busy, result, active, thread, silent>>

(* What each result promises of the servos and of the session; a silent    *)
(* bus confirms nothing.                                                   *)
Promise(r) ==
    CASE r = "active" -> ~silent /\ active' = TRUE /\ on' = Servo
      [] r \in {"clean", "limp"} -> ~silent /\ active' = FALSE /\ on' = {}
      [] r \in {"released", "unclean", "threw"} -> active' = FALSE
      [] r = "refused" -> active' = active /\ on' \subseteq on /\ (active => on' = Servo)

(* A call may be refused on its arguments, and an escalation ends the      *)
(* thread and may close the port.                                          *)
Return(r) ==
    /\ busy \/ r = "refused"
    /\ busy' = FALSE /\ result' = r
    /\ Switches /\ Promise(r)
    /\ thread' \in {thread} \cup (IF thread = "running" THEN {"exited"} ELSE {})
    /\ silent' \in {silent, TRUE}

Returns ==
    \E r \in {"active", "refused", "released", "clean", "unclean", "limp",
              "threw"} : Return(r)

(* startThread(), stopThread(), requestQuiesce(). *)
ThreadStarts ==
    /\ ~busy /\ active /\ thread = "none"
    /\ thread' = "running"
    /\ UNCHANGED <<busy, result, on, active, silent>>

ThreadJoined ==
    /\ ~busy /\ thread' = "none"
    /\ UNCHANGED <<busy, result, on, active, silent>>

Silenced ==
    /\ silent' = TRUE
    /\ UNCHANGED <<busy, result, on, active, thread>>

SessionNext ==
    Call \/ Transaction \/ Returns \/ ThreadStarts \/ ThreadJoined \/ Silenced

SessionSpec == SessionInit /\ [][SessionNext]_sessionVars
=============================================================================
