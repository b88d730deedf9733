--------------------------- MODULE MCLivePosition ---------------------------
\* The two ways from datagrams to a position, each on its own: the aligner of
\* joint packets with the live runtime (as in MCJointXY), and the multi-node
\* engine, of whose verdicts the fused position is made.  A behaviour is of one
\* of them.
EXTENDS MCJointXY, MultiNodeEngine, PositionFusion

\* The stream key of each datagram of a boot: the first two boots each move to
\* another one and back.
Streams(b, i) == IF <<b, i>> \in {<<1, 1>>, <<2, 1>>, <<2, 2>>} THEN "moved" ELSE "home"
\* All datagrams have all their words.
SteadyCut(b, i) == FALSE

VARIABLE part
positionVars == <<part, vars, engineVars, fusionVars>>

PositionInit ==
  /\ part \in {"joint", "engine", "fusion"}
  /\ Init /\ EngineInit /\ FusionInit

Joint == part = "joint" /\ Next /\ UNCHANGED <<part, engineVars, fusionVars>>
Engine == part = "engine" /\ EngineNext /\ UNCHANGED <<part, vars, fusionVars>>
Fusion == part = "fusion" /\ FusionNext /\ UNCHANGED <<part, vars, engineVars>>

PositionSpec == PositionInit /\ [][Joint \/ Engine \/ Fusion]_positionVars
=============================================================================
