--------------------------- MODULE PositionFusion ---------------------------
(***************************************************************************)
(* How the positions the receivers estimate become one                     *)
(* (fusePositionEstimates in apps/dashboard/src/multi-node-engine.ts).     *)
(* A receiver's estimate is a trained zone with a weight, its confidence   *)
(* times its link quality, or no zone; weights are small integers.         *)
(***************************************************************************)
EXTENDS Naturals, FiniteSets, FiniteSetsExt

CONSTANTS Zone, NoZone,
          Receivers,  \* how many receivers report, in the order of their ids
          MaxWeight

ASSUME FusionAssumption ==
  Receivers \in Nat \ {0} /\ MaxWeight \in Nat \ {0} /\ NoZone \notin Zone

VARIABLES estimate,  \* the ready receivers' estimates, in order
          fused      \* the zone the dashboard shows, or NoZone

fusionVars == <<estimate, fused>>

Place == 1..Receivers
\* positional: the receiver runs a model whose target is a position.
Estimate == [positional : BOOLEAN, zone : Zone \cup {NoZone}, weight : 1..MaxWeight]
Silent == [positional |-> FALSE, zone |-> NoZone, weight |-> 1]

Votes(est, z) == {p \in Place : est[p].positional /\ est[p].zone = z}
Positional(est) == {p \in Place : est[p].positional}
Voters(est) == {p \in Positional(est) : est[p].zone \in Zone}
Voted(est) == {z \in Zone : Votes(est, z) # {}}

\* The weight a zone has and the weight of all: a vote of weight w has w ballots.
Ballots(est, votes) == {b \in votes \X (1..MaxWeight) : b[2] <= est[b[1]].weight}
Weight(est, z) == Cardinality(Ballots(est, Votes(est, z)))
TotalWeight(est) == Cardinality(Ballots(est, Voters(est)))

\* The vote that leads after the sort by weight; a Map keeps the order in
\* which zones were first voted for, and the sort is stable.
First(est, z) == Min(Votes(est, z))
Leader(est) ==
  CHOOSE z \in Voted(est) : \A y \in Voted(est) \ {z} :
    \/ Weight(est, z) > Weight(est, y)
    \/ Weight(est, z) = Weight(est, y) /\ First(est, z) < First(est, y)

\* Accepted with two contributors, or one if only one receiver estimates
\* positions, and an agreement of some percent.
Accepted(est, z, percent) ==
  /\ Cardinality(Votes(est, z)) >= Min({2, Cardinality(Positional(est))})
  /\ 100 * Weight(est, z) >= percent * TotalWeight(est)

\* Mutant: the leader needs less than half of the weight.
FuseByPlurality(est) ==
  LET z == Leader(est)
  IN  IF Voted(est) # {} /\ Accepted(est, z, 45) THEN z ELSE NoZone

Fuse(est) ==
  LET z == Leader(est)
  IN  IF Voted(est) # {} /\ Accepted(est, z, 55) THEN z ELSE NoZone

FusionInit == estimate = [p \in Place |-> Silent] /\ fused = NoZone

\* A receiver's estimate changes, and the next snapshot fuses them.
Report ==
  \E p \in Place, e \in Estimate :
    /\ e.positional \/ e = Silent
    /\ estimate' = [estimate EXCEPT ![p] = e]
    /\ fused' = Fuse(estimate')

FusionNext == Report
FusionSpec == FusionInit /\ [][FusionNext]_fusionVars

\* Which receiver is listed first never decides the position shown: the same
\* estimates at any other places give the same zone, a tie none (the sort by
\* weight and the agreement gate of fusePositionEstimates).
FusionOrderFree ==
  \A p, q \in Place :
    Fuse([estimate EXCEPT ![p] = estimate[q], ![q] = estimate[p]]) = fused

-----------------------------------------------------------------------------
(* The inductive invariant.                                                *)

FusionIInv == estimate \in [Place -> Estimate] /\ fused = Fuse(estimate)
=============================================================================
