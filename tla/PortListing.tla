---------------------------- MODULE PortListing -----------------------------
(***************************************************************************)
(* How the server finds the port of an imported device (usbip_cmd.rs): it  *)
(* runs `usbip port`, cuts the listing into records (parse_port_list) and  *)
(* maps the remote busids of the ports in use to their port numbers        *)
(* (attached_remote_busids).  ControlPlane uses the outcome as InUse and   *)
(* ListFound; here the listing is gone through line by line.               *)
(***************************************************************************)
EXTENDS Integers, Sequences, SequencesExt

CONSTANTS
  LastPort,  \* the vhci ports are 0 .. LastPort
  Busids,    \* remote bus ids
  None       \* "free port", "not in the map"

ASSUME PortListingAssumption ==
  /\ LastPort \in Nat
  /\ None \notin Busids \cup (0..LastPort)

PortNums == 0..LastPort

VARIABLES
  vhci,   \* the remote busid imported at each port
  free,   \* whether the listing has records of free ports
  lines,  \* the lines of the listing that are still to be parsed
  ports,  \* the records found: port number, in use or not, remote busid
  map     \* the port of each remote busid

vars == <<vhci, free, lines, ports, map>>

Line(kind, p, b) == [kind |-> kind, port |-> p, bus |-> b]
Blank == Line("blank", None, None)

\* The record of a port: a header, and for a port in use the product, the
\* remote device and, in some versions, more lines (tail).
Record(p, tail) ==
  LET header == Line("header", p, vhci[p])
  IN  IF vhci[p] # None
      THEN <<header, Line("product", p, None), Line("remote", p, vhci[p])>> \o tail
      ELSE IF free THEN <<header, Blank>> ELSE <<>>

Tails == {<<>>, <<Blank>>, <<Line("more", None, None), Blank>>}

Listing(tail) ==
  <<Line("title", None, None)>>
    \o FlattenSeq([k \in 1..(LastPort + 1) |-> Record(k - 1, tail)])

Init ==
  /\ vhci \in [PortNums -> Busids \cup {None}]
  /\ free \in BOOLEAN
  /\ \E tail \in Tails : lines = Listing(tail)
  /\ ports = <<>>
  /\ map = [b \in Busids |-> None]
-----------------------------------------------------------------------------
SkipLine ==
  /\ lines # <<>> /\ Head(lines).kind # "header"
  /\ lines' = Tail(lines)
  /\ UNCHANGED <<vhci, free, ports, map>>

\* remote_busid_from_port_line: only a remote line has a usbip:// URL.
RemoteBusid(l) == IF l.kind = "remote" THEN l.bus ELSE None

\* Mutant of ReadRecord: the records are numbered instead of read.
ReadRecordCounting ==
  /\ lines # <<>> /\ Head(lines).kind = "header"
  /\ LET remote == IF Len(lines) >= 3 THEN lines[3] ELSE Blank
     IN  ports' = Append(ports, [port |-> Len(ports),
                                 inUse |-> Head(lines).bus # None,
                                 bus |-> RemoteBusid(remote)])
  /\ lines' = SubSeq(lines, 4, Len(lines))
  /\ UNCHANGED <<vhci, free, map>>

\* Whatever they are, the two lines after a header are taken as the product
\* and the remote line of its record.
ReadRecord ==
  /\ lines # <<>> /\ Head(lines).kind = "header"
  /\ LET remote == IF Len(lines) >= 3 THEN lines[3] ELSE Blank
     IN  ports' = Append(ports, [port |-> Head(lines).port,
                                 inUse |-> Head(lines).bus # None,
                                 bus |-> RemoteBusid(remote)])
  /\ lines' = SubSeq(lines, 4, Len(lines))
  /\ UNCHANGED <<vhci, free, map>>

\* Mutant of Collect: a busid that is in the map keeps its port.
CollectFirst ==
  /\ lines = <<>> /\ ports # <<>>
  /\ LET r == Head(ports)
     IN  map' = IF r.inUse /\ r.bus # None /\ map[r.bus] = None
                THEN [map EXCEPT ![r.bus] = r.port] ELSE map
  /\ ports' = Tail(ports)
  /\ UNCHANGED <<vhci, free, lines>>

\* attached_remote_busids; a later record replaces an earlier one.
Collect ==
  /\ lines = <<>> /\ ports # <<>>
  /\ LET r == Head(ports)
     IN  map' = IF r.inUse /\ r.bus # None THEN [map EXCEPT ![r.bus] = r.port] ELSE map
  /\ ports' = Tail(ports)
  /\ UNCHANGED <<vhci, free, lines>>

Next == SkipLine \/ ReadRecord \/ Collect

Spec == Init /\ [][Next]_vars
-----------------------------------------------------------------------------
Attached(b) == {p \in PortNums : vhci[p] = b}

\* In a listing of the ports in use alone, which is what usbip prints, no
\* device is missed: at the end each imported busid is in the map, with the
\* highest of its ports (this is what ListFound of ControlPlane assumes).
MapsPortsInUse ==
  ~free /\ lines = <<>> /\ ports = <<>> =>
    \A b \in Busids :
      IF Attached(b) = {} THEN map[b] = None
      ELSE map[b] \in Attached(b) /\ \A q \in Attached(b) : q <= map[b]

\* A listing with records of free ports, as in the tests of usbip_cmd.rs,
\* is cut in wrong places: the record of a free port swallows the header of
\* the next one.  A device may be missed, but none is mapped to a wrong port.
NamesNoWrongPort ==
  \A b \in Busids : map[b] # None => vhci[map[b]] = b
=============================================================================
