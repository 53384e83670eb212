---------------------------- MODULE AbstractLog ----------------------------
(***************************************************************************)
(* What include/rtctrl/util/async_writer.hpp promises a control program    *)
(* about its log: rows reach the file whole and in commit order, the log   *)
(* is either complete or reported incomplete, and it never silently has    *)
(* gaps.  AsyncWriter implements this module (its property                 *)
(* ImplementsAbstractLog).                                                 *)
(***************************************************************************)
EXTENDS Naturals, Sequences, SequencesExt

VARIABLES
    log,      \* every byte the producer was told is committed
    durable,  \* the bytes in the file
    refused,  \* some row was dropped, or some write failed
    verdict   \* what close() returned: "none" while it has not

vars == <<log, durable, refused, verdict>>

Init ==
    /\ log = <<>>
    /\ durable = <<>>
    /\ refused = FALSE
    /\ verdict = "none"

(* A row is accepted only while nothing was refused before it. *)
Commit ==
    /\ ~refused
    /\ verdict = "none"
    /\ log' # log
    /\ IsPrefix(log, log')
    /\ UNCHANGED <<durable, refused, verdict>>

Refuse ==
    /\ refused' = TRUE
    /\ UNCHANGED <<log, durable, verdict>>

(* More of the log reaches the file, in order. *)
Persist ==
    /\ verdict = "none"
    /\ durable' # durable
    /\ IsPrefix(durable, durable')
    /\ IsPrefix(durable', log)
    /\ UNCHANGED <<log, refused, verdict>>

(* fclose may still push bytes out, but a complete log needed none. *)
Close ==
    /\ verdict = "none"
    /\ IsPrefix(durable, durable')
    /\ IsPrefix(durable', log)
    /\ \/ /\ verdict' = "complete"
          /\ ~refused
          /\ durable = log
       \/ verdict' = "incomplete"
    /\ UNCHANGED <<log, refused>>

Next == Commit \/ Refuse \/ Persist \/ Close

Spec == Init /\ [][Next]_vars
=============================================================================
