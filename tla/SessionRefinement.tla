--------------------------- MODULE SessionRefinement ---------------------------
(***************************************************************************)
(* Session implements PowerCommand.  Connecting, reading, waiting and      *)
(* retrying are steps the abstract command does not take; a key that is    *)
(* written is a press, a key the TV holds is one under way, and what main  *)
(* prints is the report.                                                   *)
(***************************************************************************)
EXTENDS Session

\* A power state that was read off the TV, not assumed.
Seen == cmd.name = "status" \/ attempt.observed = Want

ReportView ==
    IF pc # "done" THEN [kind |-> "none"]
    ELSE IF out.kind # "ok" THEN [kind |-> "failure"]
    ELSE [kind |-> "success", power |-> out.power, changed |-> out.changed, seen |-> Seen]

Promise == INSTANCE PowerCommand WITH
    Attempts <- POWER_ON_ATTEMPTS,
    goal <- cmd.name,
    power <- tv.power,
    presses <- Len(written),
    underway <- pending # <<>>,
    report <- ReportView

\* read_power, press_power_once, set_power and set_power_with_wake: whatever
\* the network and the TV do, each step of a status, on or off is a step of the
\* abstract command or invisible to it.
KeepsPromise == Promise!Spec
==============================================================================
