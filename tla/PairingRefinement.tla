-------------------------- MODULE PairingRefinement --------------------------
(***************************************************************************)
(* Pairing implements Enrollment, as long as runs do not overlap.          *)
(***************************************************************************)
EXTENDS Pairing

\* The identity that from_credential_dir finds in the two files.
StoredIdentity == IF LoadError(cert, key) = "none" THEN cert ELSE "absent"

ReportOf(p) ==
    IF result[p] \in {"none", "paired"} THEN result[p] ELSE "failed"

Promise == INSTANCE Enrollment WITH
    identity <- StoredIdentity,
    report <- [p \in Proc |-> ReportOf(p)]

\* ensure_identity, from_credential_dir and pair, as long as runs do not overlap:
\* whatever crashes, fails or is refused, a usable identity is never replaced, the
\* TV is shown no other one, and a run that reports paired:true leaves one on
\* disk that the TV trusts.
KeepsIdentity == Promise!Spec
==============================================================================
