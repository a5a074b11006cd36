---------------------------- MODULE MCRemoteUsb -----------------------------
EXTENDS RemoteUsb

CONSTANTS c1, b1, b2

JustOne == {Dev(c1, b1)}                 \* one device
TwoOfOne == {Dev(c1, b1), Dev(c1, b2)}   \* two devices of one host
=============================================================================
