---------------------------- MODULE MCWorldVersions ----------------------------
EXTENDS WorldVersions, TLC

CONSTANTS red, green, s1, s2, s3

TwoValues == {red, green}
ThreeSources == {s1, s2, s3}
Alike == Permutations(TwoValues) \cup Permutations(ThreeSources)
=============================================================================
