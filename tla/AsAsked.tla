------------------------------- MODULE AsAsked ------------------------------
(***************************************************************************)
(* What a container was asked to run with: the limits of its task          *)
(* (Resources), its mounts (Mounts) and its runtime (Runtimes).  The three *)
(* share no state.                                                         *)
(***************************************************************************)
EXTENDS Resources, Mounts, Runtimes

(* A container runs as it was asked for: its task under the limits of the spec,
   its mounts where they are seen, its runtime the one of its pod. *)
RunsAsAsked ==
    /\ LimitTypeOK /\ LimitsAgree
    /\ MountTypeOK /\ MountsRight
    /\ RuntimeTypeOK /\ RuntimesRight
=============================================================================
