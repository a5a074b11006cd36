--------------------------- MODULE MCControlPlane ---------------------------
EXTENDS ControlPlaneOrder, TLC

CONSTANTS c1, c2, b1, b2

JustOne == {Dev(c1, b1)}                 \* one client, one device
TwoOfOne == {Dev(c1, b1), Dev(c1, b2)}   \* one client with two devices
SameBusid == {Dev(c1, b1), Dev(c2, b1)}  \* two clients, a busid in common

ConnSymmetry == Permutations(Conns)   \* connections are interchangeable
=============================================================================
