------------------------- MODULE RollbackGuarantee -------------------------
(***************************************************************************)
(* What over-the-air updating promises a headless device, independent of   *)
(* slots, otadata, tasks and power cuts: there is always exactly one       *)
(* proven version to come back to, an update is a newer candidate beside   *)
(* it, and the candidate either replaces the proven version or disappears. *)
(* OtaLifecycle implements this.                                           *)
(***************************************************************************)
EXTENDS Naturals

CONSTANTS Version,      \* the firmware versions that exist
          NoVersion     \* "no candidate"

VARIABLES proven,       \* the version the device falls back to
          candidate     \* the verified image on trial, or NoVersion

vars == <<proven, candidate>>

Init == proven \in Version /\ candidate = NoVersion

Offer == /\ candidate = NoVersion
         /\ \E v \in Version : v > proven /\ candidate' = v
         /\ UNCHANGED proven

Commit == /\ candidate # NoVersion
          /\ proven' = candidate
          /\ candidate' = NoVersion

Discard == /\ candidate # NoVersion
           /\ candidate' = NoVersion
           /\ UNCHANGED proven

Next == Offer \/ Commit \/ Discard

Spec == Init /\ [][Next]_vars
=============================================================================
