----------------------------- MODULE PowerCommand -----------------------------
(***************************************************************************)
(* What atv status, on and off promise of one TV, without connections,     *)
(* messages or time.  The command presses a toggle that the TV may ignore  *)
(* or never get; it presses only a TV that is not in the state asked for   *)
(* and that no press is on its way to, so no press is ever one too many;   *)
(* and its report tells a state that was seen from one that is assumed.    *)
(***************************************************************************)
EXTENDS Naturals

CONSTANT Attempts       \* presses that `on` may make

VARIABLES
    goal,               \* "status", or the state that is asked for
    power,              \* the TV's
    presses,            \* presses made so far
    underway,           \* is a press on its way to the TV?
    report              \* what the command reports in the end

vars == <<goal, power, presses, underway, report>>

Power == {"on", "off"}
Flip(p) == IF p = "on" THEN "off" ELSE "on"
Budget == IF goal = "on" THEN Attempts ELSE 1

NoReport == [kind |-> "none"]
Failure == [kind |-> "failure"]
Success(p, changed, seen) ==
    [kind |-> "success", power |-> p, changed |-> changed, seen |-> seen]

Init ==
    /\ goal \in Power \cup {"status"} /\ power \in Power
    /\ presses = 0 /\ underway = FALSE /\ report = NoReport

Press ==
    /\ report = NoReport /\ goal \in Power
    /\ power # goal /\ ~underway /\ presses < Budget
    /\ presses' = presses + 1
    /\ underway' \in BOOLEAN            \* FALSE: it never reaches the TV
    /\ UNCHANGED <<goal, power, report>>

Act ==                                  \* the TV takes the press, or ignores it
    /\ underway /\ underway' = FALSE
    /\ power' \in {power, Flip(power)}
    /\ UNCHANGED <<goal, presses, report>>

Wake ==                                 \* a magic packet, before any press
    /\ report = NoReport /\ goal = "on" /\ presses = 0
    /\ power' \in {power, "on"}
    /\ UNCHANGED <<goal, presses, underway, report>>

\* A failure has pressed nothing.  A success says whether it has pressed; a
\* state it has seen is the TV's, and is the one asked for; only a command that
\* has pressed may report a state it has not seen.
Report ==
    /\ report = NoReport
    /\ \/ presses = 0 /\ report' = Failure
       \/ \E p \in Power, seen \in BOOLEAN :
              /\ seen => p = power /\ (goal \in Power => p = goal)
              /\ ~seen => presses > 0
              /\ report' = Success(p, presses > 0, seen)
    /\ UNCHANGED <<goal, power, presses, underway>>

Next == Press \/ Act \/ Wake \/ Report

Spec == Init /\ [][Next]_vars
==============================================================================
