------------------------------ MODULE Enrollment ------------------------------
(***************************************************************************)
(* What `atv pair` promises of the machine and the TV, without files,      *)
(* messages or crashes: there is one identity, generated once and kept for *)
(* good; the TV trusts that one and no other; and a run only reports that  *)
(* it has paired when the TV trusts it.                                    *)
(***************************************************************************)
CONSTANTS
    Proc,           \* the invocations
    Insistent       \* those whose TV may say a thing twice

VARIABLES
    identity,       \* the usable identity, named after its run; or "absent"
    trusted,        \* the identities that the TV accepts
    report          \* what each run has reported: "none", "paired", "failed"

vars == <<identity, trusted, report>>

Init ==
    /\ identity = "absent" /\ trusted = {}
    /\ report = [p \in Proc |-> "none"]

\* A first run, or one that finds what a crash has left, makes the identity.
Generate ==
    /\ identity = "absent" /\ identity' \in Proc
    /\ UNCHANGED <<trusted, report>>

\* The TV accepts the identity; it is shown no other.
Accept ==
    /\ identity # "absent" /\ trusted' = trusted \cup {identity}
    /\ UNCHANGED <<identity, report>>

Succeed(p) ==
    /\ report[p] = "none" /\ identity # "absent"
    /\ p \in Insistent \/ identity \in trusted
    /\ report' = [report EXCEPT ![p] = "paired"]
    /\ UNCHANGED <<identity, trusted>>

Fail(p) ==
    /\ report[p] = "none"
    /\ report' = [report EXCEPT ![p] = "failed"]
    /\ UNCHANGED <<identity, trusted>>

Next == Generate \/ Accept \/ \E p \in Proc : Succeed(p) \/ Fail(p)

Spec == Init /\ [][Next]_vars
==============================================================================
