----------------------------- MODULE MCSendFence ----------------------------
(* Instances of SendFence for TLC. *)
EXTENDS SendFence, TLC

CONSTANTS s1, s2, s3, activation, deactivation, denial, disabling

\* One administrative transaction of each kind.
EachOnce ==
  (activation :> "activate") @@ (deactivation :> "deactivate")
    @@ (denial :> "deny") @@ (disabling :> "disable")

JustDeactivation == deactivation :> "deactivate"
=============================================================================
