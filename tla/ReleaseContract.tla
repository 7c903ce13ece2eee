----------------------------- MODULE ReleaseContract -----------------------------
(***************************************************************************)
(* What .github/workflows/release.yml promises of the release of one tag:  *)
(* nothing is public at first; what becomes public is complete, of one     *)
(* build and attested; and once public it never changes.                   *)
(***************************************************************************)
CONSTANTS
    Build,     \* the builds that runs of the workflow can produce
    Full(_)    \* what a complete release of a build contains

VARIABLES
    attested,  \* builds with a GitHub attestation
    public     \* the contents of the published release, as a set of none or one

Init == attested = {} /\ public = {}

Attest(b) == attested' = attested \cup {b} /\ UNCHANGED public

Publish(b) ==
    /\ public = {}
    /\ b \in attested
    /\ public' = {Full(b)}
    /\ UNCHANGED attested

Next == \E b \in Build : Attest(b) \/ Publish(b)

Spec == Init /\ [][Next]_<<attested, public>>
=============================================================================
