----------------------------- MODULE MCJointXY -----------------------------
\* Three or four interchangeable receivers; the packets straddle the wrap at 8.
EXTENDS JointXY
CONSTANTS A, B, C, D, ch1, ch2
Slots3 == {A, B, C}
Slots4 == Slots3 \cup {D}
Slots3Symmetry == Permutations(Slots3)
Slots4Symmetry == Permutations(Slots4)
OneChannel == {ch1}
TwoChannels == {ch1, ch2}
=============================================================================
