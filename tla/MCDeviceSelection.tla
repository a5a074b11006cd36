------------------------- MODULE MCDeviceSelection --------------------------
EXTENDS DeviceSelection

CONSTANTS b1, b2

Part(zeros, value) == [zeros |-> zeros, value |-> value]
Id(vid, pid, upper) == [kind |-> "id", vid |-> vid, pid |-> pid, upper |-> upper]
Busid(b) == [kind |-> "busid", busid |-> b]
Other == [kind |-> "other"]

\* A stick 000a:0010, and a hub that has the same product number.
Stick == [vid |-> 10, pid |-> 16, hub |-> FALSE]
AHub == [vid |-> 11, pid |-> 16, hub |-> TRUE]

\* "a:10", "000A:0010", "0000a:0010", "b:010"
Short == Id(Part(0, 10), Part(0, 16), FALSE)
Full == Id(Part(3, 10), Part(2, 16), TRUE)
Long == Id(Part(4, 10), Part(2, 16), FALSE)
HubId == Id(Part(0, 11), Part(1, 16), FALSE)

Auto(match, exclude, hubs) ==
  [kind |-> "auto", match |-> match, exclude |-> exclude, hubs |-> hubs, selector |-> Other]
With(kind, selector) ==
  [kind |-> kind, match |-> {}, exclude |-> {}, hubs |-> FALSE, selector |-> selector]

CommandLines ==
  {Auto({Short, HubId}, {}, FALSE), Auto({Short, HubId}, {Full}, TRUE),
   Auto({}, {Short, Long}, TRUE), Auto({Other}, {}, FALSE)}
    \cup {With(k, s) : k \in {"one", "unbind"}, s \in {Busid(b1), Short, Full, Long, Other}}

SomeThings == {Stick, AHub}
=============================================================================
