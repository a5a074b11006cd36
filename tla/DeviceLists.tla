---------------------------- MODULE DeviceLists -----------------------------
(***************************************************************************)
(* How a client finds local devices (usbip_cmd.rs, filter.rs): the texts   *)
(* of `usbip list` and what the parsers make of them, how ids typed by the *)
(* user are compared with listed ones, the device filter and selectors.    *)
(*                                                                         *)
(* A text is [kind |-> "busid", busid], [kind |-> "other"] or an id,       *)
(* [kind |-> "id", vid, pid, upper], where each part of an id is a string  *)
(* of hex digits: so many leading zeros, then the digits of a value.       *)
(***************************************************************************)
EXTENDS Naturals, Sequences, FiniteSets

Parts == [zeros : Nat, value : Nat]
Ids == [kind : {"id"}, vid : Parts, pid : Parts, upper : BOOLEAN]

Digits(v) == Cardinality({k \in 0..3 : v >= 16 ^ k})
Width(part) == part.zeros + Digits(part.value)

LooksLikeVidPid(t) == t.kind = "id" /\ Width(t.vid) > 0 /\ Width(t.pid) > 0

Pad(part) ==
  IF Width(part) < 4 THEN [part EXCEPT !.zeros = 4 - Digits(part.value)] ELSE part

\* Mutant of NormalizeVidPid: ids are made lower case and compared as typed.
NormalizeNoPad(t) == [t EXCEPT !.upper = FALSE]

\* Lower case, each part filled up with zeros to four digits; a longer part
\* stays as it is.
NormalizeVidPid(t) ==
  [kind |-> "id", vid |-> Pad(t.vid), pid |-> Pad(t.pid), upper |-> FALSE]

\* The id of a device as usbip prints it.
Printed(thing) ==
  [kind |-> "id", upper |-> FALSE,
   vid |-> [zeros |-> 4 - Digits(thing.vid), value |-> thing.vid],
   pid |-> [zeros |-> 4 - Digits(thing.pid), value |-> thing.pid]]
-----------------------------------------------------------------------------
(***************************************************************************)
(* `usbip list`.  A line is a header, which names a device, or a text.     *)
(***************************************************************************)
Text == [kind |-> "text"]
Header(busid, thing) == [kind |-> "device", busid |-> busid, vid_pid |-> Printed(thing)]

\* The devices in `order`: " - busid 1-6 (14cd:1212)", the product, a blank.
HumanList(order, plugged) ==
  [k \in 1..(3 * Len(order)) |->
     IF k % 3 = 1 THEN LET b == order[(k + 2) \div 3] IN Header(b, plugged[b]) ELSE Text]

\* `usbip list -p`: "busid=1-6#usbid=14cd:1212#".
ParsableList(order, plugged) ==
  [k \in 1..Len(order) |-> Header(order[k], plugged[order[k]])]

Device(line) == [busid |-> line.busid, vid_pid |-> line.vid_pid]

\* Mutant of ParseHuman: the loop ends where no header is.
ParseHumanBreaks(lines) ==
  LET from[k \in 1..(Len(lines) + 2)] ==
        IF k > Len(lines) THEN <<>>
        ELSE IF lines[k].kind = "device" THEN <<Device(lines[k])>> \o from[k + 2]
        ELSE <<>>
  IN  from[1]

\* The line after a header is taken as the product, whatever it is.
ParseHuman(lines) ==
  LET from[k \in 1..(Len(lines) + 2)] ==
        IF k > Len(lines) THEN <<>>
        ELSE IF lines[k].kind = "device" THEN <<Device(lines[k])>> \o from[k + 2]
        ELSE from[k + 1]
  IN  from[1]

ParseParsable(lines) == [k \in DOMAIN lines |-> Device(lines[k])]
-----------------------------------------------------------------------------
(***************************************************************************)
(* Selectors and filters.                                                  *)
(***************************************************************************)
SameId(t, device) ==
  LooksLikeVidPid(t) /\ NormalizeVidPid(device.vid_pid) = NormalizeVidPid(t)

\* Where in the list the devices are that a selector fits.  No busid looks like
\* an id.
Hits(devices, t) ==
  {k \in DOMAIN devices : IF t.kind = "busid" THEN devices[k].busid = t.busid
                          ELSE SameId(t, devices[k])}

\* Mutant of Resolve: of several devices with the id the first one is taken.
ResolveAny(devices, t) ==
  LET hits == Hits(devices, t)
  IN  {devices[k] : k \in {h \in hits : \A j \in hits : h <= j}}

\* The device a selector means, if there is one: the first with the busid, the
\* only one with the id.
Resolve(devices, t) ==
  LET hits == Hits(devices, t)
      Taken(h) == \A j \in hits : IF t.kind = "busid" THEN h <= j ELSE h = j
  IN  {devices[k] : k \in {h \in hits : Taken(h)}}

\* DeviceFilter::from_cli
FromCli(filter) == \A t \in filter.match \cup filter.exclude : LooksLikeVidPid(t)

\* DeviceFilter::allows; whether a device is a hub is read from sysfs.
Allows(filter, device, isHub) ==
  LET id == NormalizeVidPid(device.vid_pid)
      ids(texts) == {NormalizeVidPid(t) : t \in texts}
  IN  /\ id \notin ids(filter.exclude)
      /\ filter.match = {} \/ id \in ids(filter.match)
      /\ filter.hubs \/ ~isHub

\* What a user means by an id: the numbers, in at most four digits each.
Means(t, thing) ==
  /\ t.kind = "id" /\ Width(t.vid) \in 1..4 /\ Width(t.pid) \in 1..4
  /\ t.vid.value = thing.vid /\ t.pid.value = thing.pid
=============================================================================
