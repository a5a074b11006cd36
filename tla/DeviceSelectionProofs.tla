----------------------- MODULE DeviceSelectionProofs ------------------------
(***************************************************************************)
(* Ids, filters and selectors mean what a user means by them, for all ids, *)
(* and what `attach --auto` and the selectors take, for all hosts.         *)
(* ParseHuman is a recursive function: what it finds in a listing of any   *)
(* length is proved by induction on the lines.                             *)
(***************************************************************************)
EXTENDS DeviceSelection, InductionProofs, FiniteSetTheorems

\* As many zeros as a number needs to have four digits.
Filled(value) == [zeros |-> 4 - Digits(value), value |-> value]

LEMMA DigitsType == ASSUME NEW v \in Nat PROVE Digits(v) \in 0..4
<1>1. IsFiniteSet(0..3) /\ Cardinality(0..3) = 4
  <2>1. 0 \in Int /\ 3 \in Int /\ ~(0 > 3) /\ 3 - 0 + 1 = 4
    OBVIOUS
  <2>. QED
    BY ONLY <2>1, FS_Interval, Zenon
<1>2. /\ IsFiniteSet({k \in 0..3 : v >= 16 ^ k})
      /\ Cardinality({k \in 0..3 : v >= 16 ^ k}) <= 4
  BY <1>1, FS_Subset
<1>. QED
  BY <1>2, FS_CardinalityType DEF Digits

LEMMA PadFills ==
  ASSUME NEW part \in Parts, NEW v \in Nat
  PROVE  Pad(part) = Filled(v) <=> Width(part) <= 4 /\ part.value = v
<1>1. part.zeros \in Nat /\ part.value \in Nat
      /\ part = [zeros |-> part.zeros, value |-> part.value]
  BY DEF Parts
<1>2. Digits(part.value) \in 0..4
  BY <1>1, DigitsType
<1>3. CASE Width(part) < 4
  <2>1. Pad(part) = Filled(part.value)
    BY <1>1, <1>3 DEF Pad, Filled, Parts
  <2>2. Filled(part.value) = Filled(v) <=> part.value = v
    BY DEF Filled
  <2>. QED
    BY <1>1, <1>2, <1>3, <2>1, <2>2 DEF Width
<1>4. CASE ~(Width(part) < 4)
  <2>1. Pad(part) = part
    BY <1>4 DEF Pad
  <2>2. part = Filled(v) <=> part.zeros = 4 - Digits(v) /\ part.value = v
    BY <1>1 DEF Filled
  <2>. QED
    BY <1>1, <1>2, <1>4, <2>1, <2>2 DEF Width
<1>. QED
  BY <1>3, <1>4

LEMMA NormalForm ==
  ASSUME NEW v, NEW p, NEW u
  PROVE  NormalizeVidPid([kind |-> "id", vid |-> v, pid |-> p, upper |-> u]) =
           [kind |-> "id", upper |-> FALSE, vid |-> Pad(v), pid |-> Pad(p)]
BY DEF NormalizeVidPid

LEMMA PrintedStays ==
  ASSUME NEW t \in Things, t.vid \in Nat, t.pid \in Nat
  PROVE  NormalizeVidPid(Printed(t)) =
           [kind |-> "id", upper |-> FALSE, vid |-> Filled(t.vid), pid |-> Filled(t.pid)]
<1>1. ASSUME NEW v \in Nat PROVE Pad(Filled(v)) = Filled(v)
  <2>1. Digits(v) \in 0..4
    BY DigitsType
  <2>2. Filled(v) \in Parts /\ Filled(v).value = v /\ Filled(v).zeros = 4 - Digits(v)
    BY <2>1 DEF Filled, Parts
  <2>3. Width(Filled(v)) <= 4
    BY <2>1, <2>2 DEF Width
  <2>. QED
    BY <2>2, <2>3, PadFills
<1>2. Printed(t) = [kind |-> "id", upper |-> FALSE, vid |-> Filled(t.vid), pid |-> Filled(t.pid)]
  BY DEF Printed, Filled
<1>. QED
  BY <1>1, <1>2, NormalForm

\* A typed id is that of a listed device just if it has at most four digits
\* in each part and the same numbers, whatever its case and its zeros.
THEOREM IdsByNumber ==
  ASSUME NEW x \in Ids, NEW t \in Things, t.vid \in Nat, t.pid \in Nat,
         Width(x.vid) > 0, Width(x.pid) > 0
  PROVE  NormalizeVidPid(Printed(t)) = NormalizeVidPid(x) <=> Means(x, t)
<1>1. x.vid \in Parts /\ x.pid \in Parts /\ x.kind = "id"
      /\ x = [kind |-> "id", vid |-> x.vid, pid |-> x.pid, upper |-> x.upper]
  BY DEF Ids
<1>2. NormalizeVidPid(x) = [kind |-> "id", upper |-> FALSE, vid |-> Pad(x.vid), pid |-> Pad(x.pid)]
  BY <1>1, NormalForm
<1>3. NormalizeVidPid(Printed(t)) = NormalizeVidPid(x)
        <=> Pad(x.vid) = Filled(t.vid) /\ Pad(x.pid) = Filled(t.pid)
  BY <1>2, PrintedStays
<1>4. Width(x.vid) \in Nat /\ Width(x.pid) \in Nat
  BY <1>1, DigitsType DEF Width, Parts
<1>5. Means(x, t) <=> /\ Width(x.vid) <= 4 /\ x.vid.value = t.vid
                      /\ Width(x.pid) <= 4 /\ x.pid.value = t.pid
  BY <1>1, <1>4 DEF Means
<1>. QED
  BY <1>1, <1>3, <1>5, PadFills

LEMMA SameIdMeans ==
  ASSUME NEW x, x.kind = "id" => x \in Ids, NEW t \in Things, NEW device,
         device.vid_pid = Printed(t)
  PROVE  SameId(x, device) <=> Means(x, t)
<1>1. t.vid \in Nat /\ t.pid \in Nat
  BY SelectionAssumption DEF SelectionAssumption
<1>2. CASE LooksLikeVidPid(x)
  BY <1>1, <1>2, IdsByNumber DEF SameId, LooksLikeVidPid
<1>3. CASE ~LooksLikeVidPid(x)
  <2>1. x.kind = "id" => Width(x.vid) \in Nat /\ Width(x.pid) \in Nat
    BY DigitsType DEF Width, Ids, Parts
  <2>. QED
    BY <1>3, <2>1 DEF SameId, LooksLikeVidPid, Means
<1>. QED
  BY <1>2, <1>3

\* The filter lets through what the user wants, however the ids in it are
\* written.
THEOREM FilterByNumber ==
  ASSUME NEW c \in Commands, FromCli(c), NEW t \in Things, NEW device,
         device.vid_pid = Printed(t)
  PROVE  Allows(c, device, t.hub) <=> Wanted(c, t)
<1>1. t.vid \in Nat /\ t.pid \in Nat
  BY SelectionAssumption DEF SelectionAssumption
<1>2. ASSUME NEW x \in c.match \cup c.exclude
      PROVE  NormalizeVidPid(device.vid_pid) = NormalizeVidPid(x) <=> Means(x, t)
  <2>1. x \in Ids /\ Width(x.vid) > 0 /\ Width(x.pid) > 0
    BY <1>2, SelectionAssumption DEF SelectionAssumption, FromCli, LooksLikeVidPid
  <2>. QED
    BY <1>1, <2>1, IdsByNumber
<1>. QED
  BY <1>2 DEF Allows, Wanted
-----------------------------------------------------------------------------
(***************************************************************************)
(* Listings.  ParseHuman goes through the lines from the first; what it    *)
(* finds from line k on is any function that goes through them as it does. *)
(***************************************************************************)
Found(lines, found) ==
  found = [k \in 1..(Len(lines) + 2) |->
             IF k > Len(lines) THEN <<>>
             ELSE IF lines[k].kind = "device" THEN <<Device(lines[k])>> \o found[k + 2]
             ELSE found[k + 1]]

LEMMA FoundAt ==
  ASSUME NEW lines, Len(lines) \in Nat, NEW found, Found(lines, found),
         NEW k \in 1..(Len(lines) + 2)
  PROVE  found[k] = IF k > Len(lines) THEN <<>>
                    ELSE IF lines[k].kind = "device" THEN <<Device(lines[k])>> \o found[k + 2]
                    ELSE found[k + 1]
BY DEF Found

LEMMA ParseFinds ==
  ASSUME NEW lines, Len(lines) \in Nat, NEW found, Found(lines, found)
  PROVE  ParseHuman(lines) = found[1]
<1>. DEFINE N == Len(lines)
            from == CHOOSE f : Found(lines, f)
<1>1. ParseHuman(lines) = from[1]
  BY Zenon DEF ParseHuman, Found
<1>2. Found(lines, from)
  BY Zenon
<1>. HIDE DEF from
<1>. DEFINE S == {m \in Nat : \A k \in 1..(N + 2) : k + m > N => from[k] = found[k]}
<1>f. ASSUME NEW k \in 1..(N + 2)
      PROVE  from[k] = IF k > N THEN <<>>
                       ELSE IF lines[k].kind = "device" THEN <<Device(lines[k])>> \o from[k + 2]
                       ELSE from[k + 1]
  BY <1>2, FoundAt, Zenon
<1>g. ASSUME NEW k \in 1..(N + 2)
      PROVE  found[k] = IF k > N THEN <<>>
                        ELSE IF lines[k].kind = "device" THEN <<Device(lines[k])>> \o found[k + 2]
                        ELSE found[k + 1]
  BY FoundAt, Zenon
<1>3. 0 \in S
  <2>. SUFFICES ASSUME NEW k \in 1..(N + 2), k + 0 > N PROVE from[k] = found[k]
    OBVIOUS
  <2>1. k > N
    OBVIOUS
  <2>. QED
    BY <2>1, <1>f, <1>g
<1>4. ASSUME NEW m \in S PROVE m + 1 \in S
  <2>. SUFFICES ASSUME NEW k \in 1..(N + 2), k + (m + 1) > N PROVE from[k] = found[k]
    BY <1>4
  <2>1. CASE k > N
    BY <2>1, <1>f, <1>g
  <2>2. CASE ~(k > N)
    <3>1. /\ k + 1 \in 1..(N + 2) /\ (k + 1) + m > N
          /\ k + 2 \in 1..(N + 2) /\ (k + 2) + m > N
      BY <1>4, <2>2
    <3>2. from[k + 1] = found[k + 1] /\ from[k + 2] = found[k + 2]
      BY <1>4, <3>1
    <3>3. from[k] = IF lines[k].kind = "device" THEN <<Device(lines[k])>> \o from[k + 2]
                    ELSE from[k + 1]
      BY <2>2, <1>f
    <3>4. found[k] = IF lines[k].kind = "device" THEN <<Device(lines[k])>> \o found[k + 2]
                     ELSE found[k + 1]
      BY <2>2, <1>g
    <3>. QED
      BY <3>2, <3>3, <3>4
  <2>. QED
    BY <2>1, <2>2
<1>5. S = Nat
  <2>. HIDE DEF S
  <2>1. S \subseteq Nat
    BY DEF S
  <2>. QED
    BY <1>3, <1>4, <2>1, SetInduction
<1>6. N \in S /\ 1 \in 1..(N + 2) /\ 1 + N > N
  BY <1>5
<1>7. from[1] = found[1]
  BY <1>6
<1>. QED
  BY <1>1, <1>7

\* What a listing of the plugged devices in an order shows.
Entry(b) == [busid |-> b, vid_pid |-> Printed(plugged[b])]
Shown(o) == [i \in 1..Len(o) |-> Entry(o[i])]

\* A listing shows every plugged device, and once.
LEMMA OrderOfAll ==
  ASSUME NEW o \in Orders
  PROVE  /\ Len(o) \in Nat /\ DOMAIN o = 1..Len(o)
         /\ \A i \in 1..Len(o) : o[i] \in Plugged
         /\ \A b \in Plugged : \E i \in 1..Len(o) : o[i] = b
         /\ \A i, j \in 1..Len(o) : o[i] = o[j] => i = j
<1>. DEFINE n == Cardinality(Plugged)
<1>1. IsFiniteSet(Plugged) /\ n \in Nat
  BY SelectionAssumption, FS_Subset, FS_CardinalityType DEF SelectionAssumption, Plugged
<1>2. o \in [1..n -> Plugged] /\ \A i, j \in 1..n : o[i] = o[j] => i = j
  BY DEF Orders
<1>. HIDE DEF n
<1>3. Len(o) = n /\ DOMAIN o = 1..n
  <2>1. o \in Seq(Plugged)
    BY <1>1, <1>2
  <2>. QED
    BY <1>1, <1>2, <2>1
<1>4. o \in Injection(1..n, Plugged)
  <2>1. \A i, j \in DOMAIN o : o[i] = o[j] => i = j
    BY <1>2, <1>3
  <2>. QED
    BY <1>2, <2>1, Zenon DEF Injection, IsInjective
<1>5. IsFiniteSet(1..n) /\ Cardinality(1..n) = n
  <2>1. 1 \in Int /\ n \in Int /\ (IF 1 > n THEN 0 ELSE n - 1 + 1) = n
    BY <1>1
  <2>. QED
    BY ONLY <2>1, FS_Interval, Zenon
<1>6. o \in Surjection(1..n, Plugged)
  BY <1>1, <1>4, <1>5, FS_Injection, Zenon DEF n
<1>. QED
  BY <1>1, <1>2, <1>3, <1>6 DEF Surjection

\* The first of the devices whose header is line k or a later one.
First(k) == (k + 4) \div 3

LEMMA HumanShown ==
  ASSUME NEW o \in Orders
  PROVE  ParseHuman(HumanList(o, plugged)) = Shown(o)
<1>. DEFINE n == Len(o)
            L == HumanList(o, plugged)
            D(i) == Entry(o[i])
            R == [k \in 1..(3 * n + 2) |-> [j \in 1..(n + 1 - First(k)) |-> D(First(k) - 1 + j)]]
<1>1. n \in Nat /\ Shown(o) = [j \in 1..n |-> D(j)]
  BY OrderOfAll DEF Shown
<1>. HIDE DEF n
<1>2. Len(L) = 3 * n
  <2>1. L \in [1..(3 * n) -> {Text} \cup {L[k] : k \in 1..(3 * n)}]
    BY DEF HumanList, n
  <2>. QED
    BY <1>1, <2>1
<1>. SUFFICES ASSUME TRUE PROVE ParseHuman(L) = Shown(o)
  OBVIOUS
<1>3. ASSUME NEW i \in 1..n
      PROVE  L[3 * i - 2].kind = "device" /\ Device(L[3 * i - 2]) = D(i)
  <2>1. 3 * i - 2 \in 1..(3 * n) /\ (3 * i - 2) % 3 = 1 /\ ((3 * i - 2) + 2) \div 3 = i
    BY <1>1
  <2>2. L[3 * i - 2] = Header(o[i], plugged[o[i]])
    BY <2>1 DEF HumanList, n
  <2>. QED
    BY <2>2 DEF Header, Device, Entry
<1>4. ASSUME NEW k \in 1..(3 * n), \A i \in 1..n : k # 3 * i - 2
      PROVE  L[k].kind # "device"
  <2>1. k % 3 # 1
    <3>. SUFFICES ASSUME k % 3 = 1 PROVE FALSE
      OBVIOUS
    <3>1. (k + 2) \div 3 \in 1..n /\ k = 3 * ((k + 2) \div 3) - 2
      BY <1>1
    <3>. QED
      BY <3>1, <1>4
  <2>2. L[k] = Text
    BY <2>1 DEF HumanList, n
  <2>. QED
    BY <2>2 DEF Text
<1>. HIDE DEF L, D
<1>5. ASSUME NEW k \in 1..(3 * n + 2)
      PROVE  R[k] = IF k > 3 * n THEN <<>>
                    ELSE IF L[k].kind = "device" THEN <<Device(L[k])>> \o R[k + 2]
                    ELSE R[k + 1]
  <2>0. ASSUME NEW m \in 1..(3 * n + 2)
        PROVE  R[m] = [j \in 1..(n + 1 - First(m)) |-> D(First(m) - 1 + j)]
    BY Zenon
  <2>. HIDE DEF R
  <2>1. CASE k > 3 * n
    <3>1. First(k) \in Int /\ First(k) >= n + 1
      BY <1>1, <2>1 DEF First
    <3>2. 1..(n + 1 - First(k)) = {}
      BY <1>1, <3>1
    <3>3. R[k] = [j \in {} |-> D(First(k) - 1 + j)]
      BY <2>0, <3>2
    <3>. QED
      BY <2>1, <3>3
  <2>2. CASE k <= 3 * n /\ \E i \in 1..n : k = 3 * i - 2
    <3>1. PICK i \in 1..n : k = 3 * i - 2
      BY <2>2
    <3>2. /\ First(k) = i /\ First(k + 2) = i + 1
          /\ k + 2 \in 1..(3 * n + 2) /\ ~(k > 3 * n)
      BY <1>1, <2>2, <3>1 DEF First
    <3>3. R[k] = [j \in 1..(n + 1 - i) |-> D(i - 1 + j)]
          /\ R[k + 2] = [j \in 1..(n - i) |-> D(i + j)]
      <4>1. n + 1 - (i + 1) = n - i /\ \A j \in 1..(n - i) : (i + 1) - 1 + j = i + j
        BY <1>1
      <4>. QED
        BY <2>0, <3>2, <4>1
    <3>4. R[k] = <<D(i)>> \o R[k + 2]
      <4>. DEFINE S == [j \in 1..(n - i) |-> D(i + j)]
      <4>1. n - i \in Nat /\ Len(S) = n - i
        BY <1>1
      <4>2. \A j \in 1..(n - i) : S[j] = D(i + j)
        OBVIOUS
      <4>. HIDE DEF S
      <4>3. <<D(i)>> \o S = [j \in 1..(1 + (n - i)) |-> IF j <= 1 THEN <<D(i)>>[j] ELSE S[j - 1]]
        BY <4>1
      <4>4. \A j \in 1..(n + 1 - i) :
              D(i - 1 + j) = IF j <= 1 THEN <<D(i)>>[j] ELSE S[j - 1]
        BY <1>1, <4>1, <4>2
      <4>5. 1 + (n - i) = n + 1 - i
        BY <1>1
      <4>. QED
        BY <3>3, <4>3, <4>4, <4>5 DEF S
    <3>5. L[k].kind = "device" /\ Device(L[k]) = D(i)
      BY <1>3, <3>1
    <3>. QED
      BY <3>2, <3>4, <3>5
  <2>3. CASE k <= 3 * n /\ \A i \in 1..n : k # 3 * i - 2
    <3>1. First(k) = First(k + 1)
      <4>1. k % 3 # 1
        <5>. SUFFICES ASSUME k % 3 = 1 PROVE FALSE
          OBVIOUS
        <5>1. (k + 2) \div 3 \in 1..n /\ k = 3 * ((k + 2) \div 3) - 2
          BY <1>1, <2>3
        <5>. QED
          BY <5>1, <2>3
      <4>. QED
        BY <1>1, <4>1 DEF First
    <3>2. L[k].kind # "device" /\ k + 1 \in 1..(3 * n + 2) /\ ~(k > 3 * n)
      BY <1>1, <1>4, <2>3
    <3>3. R[k] = R[k + 1]
      BY <2>0, <3>1, <3>2
    <3>. QED
      BY <3>2, <3>3
  <2>4. k > 3 * n \/ k <= 3 * n
    BY <1>1
  <2>. QED
    BY <2>1, <2>2, <2>3, <2>4
<1>6. Found(L, R)
  <2>1. R = [k \in 1..(3 * n + 2) |-> R[k]]
    OBVIOUS
  <2>. HIDE DEF R
  <2>. QED
    BY <1>2, <1>5, <2>1 DEF Found
<1>7. R[1] = [j \in 1..n |-> D(j)]
  <2>1. First(1) = 1 /\ n + 1 - 1 = n /\ 1 \in 1..(3 * n + 2) /\ \A j \in 1..n : 1 - 1 + j = j
    BY <1>1 DEF First
  <2>. QED
    BY <2>1
<1>. HIDE DEF R
<1>8. ParseHuman(L) = R[1]
  <2>1. Len(L) \in Nat
    BY <1>1, <1>2
  <2>. QED
    BY <2>1, <1>6, ParseFinds, Zenon
<1>. QED
  BY <1>1, <1>7, <1>8, Zenon

LEMMA ParsableShown ==
  ASSUME NEW o \in Orders
  PROVE  ParseParsable(ParsableList(o, plugged)) = Shown(o)
BY DEF ParseParsable, ParsableList, Device, Header, Shown, Entry
-----------------------------------------------------------------------------
(***************************************************************************)
(* What attach --auto takes for attached.                                  *)
(***************************************************************************)

\* A device that is not there any more is missed until a poll, if it is in
\* offered or its OK is under way.
KInv ==
  /\ plugged \in [Busids -> Things \cup {None}]
  /\ bound \subseteq Plugged /\ taken \subseteq Plugged
  /\ okSent \in BOOLEAN /\ clear \in BOOLEAN
  /\ okSent => pc = "offer"
  /\ clear => (offered \cup Awaited) \ Plugged \subseteq missed
  /\ clear => Awaited \subseteq missed \cup taken
  /\ pc = "off" => offered = {} /\ taken = {}
  /\ KnowsWhatIsTaken

LEMMA InitKInv == Init => KInv
BY DEF Init, KInv, KnowsWhatIsTaken, Plugged, Awaited

LEMMA HostKInv == ASSUME KInv, Host PROVE KInv'
<1>1. PICK b \in Busids : Plug(b) \/ Unplug(b) \/ BindByHand(b)
  BY DEF Host
<1>2. UNCHANGED cmdVars /\ Awaited' = Awaited
  BY <1>1 DEF Plug, Unplug, BindByHand, cmdVars, linkVars, Awaited
<1>. USE DEF cmdVars, linkVars
<1>3. CASE Plug(b)
  <2>1. Plugged' = Plugged \cup {b} /\ b \notin Plugged
    BY <1>3, SelectionAssumption DEF SelectionAssumption, Plug, Plugged, KInv
  <2>. QED
    BY <1>2, <1>3, <2>1 DEF Plug, KInv, KnowsWhatIsTaken
<1>4. CASE Unplug(b)
  <2>1. Plugged' = Plugged \ {b}
    BY <1>4 DEF Unplug, Plugged, KInv
  <2>. QED
    BY <1>2, <1>4, <2>1 DEF Unplug, KInv, KnowsWhatIsTaken
<1>5. CASE BindByHand(b)
  <2>1. Plugged' = Plugged
    BY <1>5 DEF BindByHand, Plugged
  <2>. QED
    BY <1>2, <1>5, <2>1 DEF BindByHand, KInv, KnowsWhatIsTaken
<1>. QED
  BY <1>1, <1>3, <1>4, <1>5

LEMMA ServerTakesKInv == ASSUME KInv, NEW b \in Busids, ServerTakes(b) PROVE KInv'
<1>1. Plugged' = Plugged /\ Awaited = {} /\ Awaited' = {b} /\ b \in Plugged
  BY DEF ServerTakes, Plugged, Awaited, KInv
<1>. QED
  BY <1>1 DEF ServerTakes, KInv, KnowsWhatIsTaken

\* A step at which no OK is under way.
LEMMA QuietKInv ==
  ASSUME KInv, okSent' = okSent, UNCHANGED <<plugged, taken, clear>>, bound' \subseteq Plugged,
         ~okSent, pc # "off", pc' # "off",
         \/ UNCHANGED <<cmd, offered, missed>>
            /\ (pc \in {"leave", "end"} => pc' \in {"leave", "end"})
         \/ UNCHANGED cmd /\ offered' = offered \cap Plugged /\ missed' = missed \cap Plugged
            /\ pc \notin {"leave", "end"}
         \/ UNCHANGED missed /\ offered' \subseteq offered /\ pc' = "leave"
  PROVE  KInv'
<1>1. Plugged' = Plugged /\ Awaited = {} /\ Awaited' = {}
      /\ okSent' \in BOOLEAN /\ clear' \in BOOLEAN /\ ~okSent'
  BY DEF Plugged, Awaited, KInv
<1>2. bound' \subseteq Plugged' /\ taken' \subseteq Plugged'
  BY <1>1 DEF KInv
<1>3. clear' => (offered' \cup Awaited') \ Plugged' \subseteq missed'
  BY <1>1 DEF KInv
<1>4. KnowsWhatIsTaken'
  BY <1>1 DEF KInv, KnowsWhatIsTaken
<1>. QED
  BY <1>1, <1>2, <1>3, <1>4 DEF KInv

LEMMA ProgramKInv == ASSUME KInv, Program PROVE KInv'
<1>. USE DEF Goto, Stay, hostVars, linkVars
<1>q. pc # "offer" => ~okSent
  BY DEF KInv
<1>1. CASE List
  BY <1>1, <1>q, QuietKInv
  DEF List, ListHuman, ListHumanFails, ListParsable, ListParsableFails, AfterList, KInv
<1>2. CASE ResolveSelector \/ Hold
  BY <1>2, <1>q, QuietKInv DEF ResolveSelector, Hold, KInv
<1>3. CASE Release
  BY <1>3, <1>q, QuietKInv DEF Release, KInv
<1>4. CASE Top \/ PickNone \/ LeaveNone
  BY <1>4, <1>q, QuietKInv DEF Top, PickNone, LeaveNone, KInv
<1>5. CASE BindFails
  BY <1>5, <1>q, QuietKInv DEF BindFails, KInv
<1>6. CASE Retain
  BY <1>6, <1>q, QuietKInv DEF Retain, KInv
<1>7. CASE Pick
  BY <1>7, <1>q, QuietKInv DEF Pick, KInv
<1>8. ASSUME NEW b \in Busids, BindOk(b) PROVE KInv'
  BY <1>8, <1>q, QuietKInv DEF BindOk, KInv
<1>9. CASE Leave
  <2>1. ~okSent /\ okSent' = okSent /\ pc = "leave" /\ pc' = "leave"
        /\ offered' \subseteq offered /\ bound' \subseteq bound
        /\ UNCHANGED <<plugged, taken, clear, missed>>
    BY <1>9, <1>q DEF Leave
  <2>. QED
    BY <2>1, QuietKInv DEF KInv
<1>10. CASE OfferOk
  <2>1. /\ UNCHANGED <<cmd, dev, clear, plugged, bound, taken, missed>>
        /\ Plugged' = Plugged /\ Awaited' = {} /\ ~okSent' /\ okSent' \in BOOLEAN
        /\ pc = "offer" /\ (okSent \/ ~clear)
    BY <1>10 DEF OfferOk, Plugged, Awaited
  <2>2. CASE cmd.kind = "one"
    BY <1>10, <2>1, <2>2 DEF OfferOk, KInv, KnowsWhatIsTaken, Awaited
  <2>3. CASE cmd.kind # "one"
    <3>1. offered' = offered \cup {dev.busid} /\ pc' = "pick"
      BY <1>10, <2>3 DEF OfferOk
    <3>2. clear => okSent /\ Awaited = {dev.busid}
      BY <2>1 DEF Awaited
    <3>. QED
      BY <2>1, <3>1, <3>2 DEF KInv, KnowsWhatIsTaken
  <2>. QED
    BY <2>2, <2>3
<1>11. CASE OfferFails
  <2>1. /\ UNCHANGED <<cmd, dev, offered, plugged, bound, taken>>
        /\ Plugged' = Plugged /\ Awaited' = {} /\ ~okSent' /\ okSent' \in BOOLEAN
        /\ pc = "offer" /\ pc' \in {"pick", "end"} /\ clear' \in BOOLEAN
        /\ clear' => clear /\ Awaited = {} /\ missed' = missed
    BY <1>11 DEF OfferFails, Plugged, Awaited, KInv
  <2>. QED
    BY <2>1 DEF KInv, KnowsWhatIsTaken
<1>12. CASE End
  BY <1>12 DEF End, Gone, KInv, KnowsWhatIsTaken, Plugged, Awaited
<1>. QED
  BY <1>1, <1>2, <1>3, <1>4, <1>5, <1>6, <1>7, <1>8, <1>9, <1>10, <1>11, <1>12 DEF Program

LEMMA KeepsKInv == ASSUME KInv, [Next]_vars PROVE KInv'
<1>1. ASSUME Launch PROVE KInv'
  BY <1>1 DEF Launch, KInv, KnowsWhatIsTaken, Goto, hostVars, linkVars, Plugged, Awaited
<1>2. ASSUME Kill PROVE KInv'
  BY <1>2 DEF Kill, Gone, KInv, KnowsWhatIsTaken, Goto, Plugged, Awaited
<1>3. ASSUME UNCHANGED vars PROVE KInv'
  BY <1>3 DEF vars, hostVars, cmdVars, linkVars, KInv, KnowsWhatIsTaken, Plugged, Awaited
<1>. QED
  BY <1>1, <1>2, <1>3, HostKInv, ProgramKInv, ServerTakesKInv DEF Next

\* As long as every OFFER is answered by one line in time, attach --auto takes
\* for offered just the plugged devices that the server took on an OFFER of this
\* run, also when a device is unplugged or exchanged while the server imports it
\* or while its OK is under way; only what no poll saw gone may be mistaken.  It
\* does not say that the server still has them: after a detach or the end of the
\* link the code goes on taking them for offered (client.rs:190-236).
THEOREM TakenIsKnown == Spec => []KnowsWhatIsTaken
BY InitKInv, KeepsKInv, PTL DEF Spec, KInv
-----------------------------------------------------------------------------
(***************************************************************************)
(* What the commands take.                                                 *)
(***************************************************************************)

\* Devices that were there at the listing and still are.
Stayed == Plugged \ changed

\* In attach --auto the devices still to be visited have their own ids.
SeenRight ==
  cmd.kind = "auto" /\ pc \in {"pick", "bind", "offer"} =>
    \A k \in DOMAIN seen :
      seen[k].busid \in Stayed => seen[k].vid_pid = Printed(plugged[seen[k].busid])

\* The list of devices to be visited shows things at busids of the host.
Devices == [busid : Busids, vid_pid : {Printed(t) : t \in Things}]

Labels == {"off", "top", "list", "relist", "resolve", "retain", "pick",
           "bind", "offer", "hold", "release", "leave", "end"}

Visiting == pc \in {"retain", "pick"} \/ (pc \in {"bind", "offer"} /\ cmd.kind = "auto")

TypeInv ==
  /\ pc \in Labels
  /\ changed \in SUBSET Busids /\ missed \in SUBSET Busids /\ offered \in SUBSET Busids
  /\ Listed \in Seq(Devices)
  /\ Visiting => seen \in Seq(Devices)
  /\ pc \in {"bind", "offer", "hold", "release"} => dev.busid \in Busids

TInv ==
  /\ plugged \in [Busids -> Things \cup {None}]
  /\ pc # "off" => cmd \in Commands /\ FromCli(cmd)
  /\ pc \in {"top", "retain", "pick"} => cmd.kind = "auto"
  /\ pc \in {"resolve", "hold", "release"} => cmd.kind # "auto"
  /\ pc \in {"bind", "offer", "hold"} => cmd.kind # "unbind"
  /\ SeenRight
  /\ TakesWhatIsMeant

LEMMA InitTInv == Init => TInv
BY DEF Init, TInv, SeenRight, TakesWhatIsMeant

\* A step that keeps the command and moves on with the same device.
LEMMA MovesOn ==
  ASSUME TInv, pc # "off", UNCHANGED <<cmd, seen, dev, plugged, changed>>,
         pc' \in {"top", "retain", "pick"} => cmd.kind = "auto",
         pc' \in {"resolve", "hold", "release"} => cmd.kind # "auto",
         pc' \in {"bind", "offer", "hold"} => cmd.kind # "unbind",
         pc' \in {"pick", "bind", "offer"} => pc \in {"pick", "bind", "offer"},
         pc' \in {"bind", "offer", "hold", "release"} =>
           pc \in {"bind", "offer", "hold", "release"}
  PROVE  TInv'
<1>1. Plugged' = Plugged /\ Stayed' = Stayed
  BY DEF Plugged, Stayed
<1>2. SeenRight'
  BY <1>1 DEF TInv, SeenRight
<1>3. TakesWhatIsMeant'
  <2>. SUFFICES ASSUME pc' \in {"bind", "offer", "hold", "release"}, dev.busid \in Stayed
                PROVE  IF cmd.kind = "auto" THEN Wanted(cmd, plugged[dev.busid])
                       ELSE Selected(cmd, dev.busid)'
    BY <1>1 DEF TakesWhatIsMeant, Stayed
  <2>1. Selected(cmd, dev.busid)' <=> Selected(cmd, dev.busid)
    BY <1>1 DEF Selected
  <2>. QED
    BY <2>1 DEF TInv, TakesWhatIsMeant, Stayed
<1>. QED
  BY <1>2, <1>3 DEF TInv

LEMMA HostTInv == ASSUME TInv, Host PROVE TInv'
<1>1. PICK b \in Busids : Plug(b) \/ Unplug(b) \/ BindByHand(b)
  BY DEF Host
<1>2. /\ UNCHANGED cmdVars /\ plugged' \in [Busids -> Things \cup {None}]
      /\ Stayed' \subseteq Stayed
      /\ \A x \in Stayed' : plugged'[x] = plugged[x]
  BY <1>1 DEF Plug, Unplug, BindByHand, TInv, Stayed, Plugged, cmdVars
<1>3. SeenRight'
  BY <1>2 DEF TInv, SeenRight, cmdVars
<1>4. TakesWhatIsMeant'
  <2>. SUFFICES ASSUME pc \in {"bind", "offer", "hold", "release"}, dev.busid \in Stayed'
                PROVE  IF cmd.kind = "auto" THEN Wanted(cmd, plugged'[dev.busid])
                       ELSE Selected(cmd, dev.busid)'
    BY <1>2 DEF TakesWhatIsMeant, Stayed, cmdVars
  <2>1. plugged'[dev.busid] = plugged[dev.busid] /\ dev.busid \in Stayed
    BY <1>2
  <2>2. Selected(cmd, dev.busid) => Selected(cmd, dev.busid)'
    BY <1>2 DEF Selected, Stayed, cmdVars
  <2>. QED
    BY <2>1, <2>2 DEF TInv, TakesWhatIsMeant, Stayed
<1>. QED
  BY <1>2, <1>3, <1>4 DEF TInv, cmdVars

\* A step to where no device is taken yet.
LEMMA TakesNothing ==
  ASSUME TInv, plugged' = plugged,
         pc' \in {"off", "top", "list", "relist", "resolve", "retain", "leave", "end"},
         \/ pc' = "off" \/ (pc # "off" /\ cmd' = cmd)
         \/ cmd' \in Commands /\ FromCli(cmd'),
         pc' \in {"top", "retain"} => cmd'.kind = "auto",
         pc' = "resolve" => cmd'.kind # "auto"
  PROVE  TInv'
BY DEF TInv, SeenRight, TakesWhatIsMeant

\* A listed device is the one that is there.
LEMMA ListedIsThere ==
  ASSUME ListsPlugged, pc = "retain" \/ (pc = "resolve" /\ seen # None),
         NEW b \in Stayed
  PROVE  /\ \A k \in DOMAIN seen : seen[k].busid = b => seen[k].vid_pid = Printed(plugged[b])
         /\ \E k \in DOMAIN seen : seen[k].busid = b
<1>. DEFINE at == {k \in DOMAIN seen : seen[k].busid = b}
<1>1. \E k \in at : at = {k} /\ seen[k].vid_pid = Printed(plugged[b])
  BY DEF ListsPlugged, Stayed, Plugged
<1>. QED
  BY <1>1

LEMMA ResolveTInv == ASSUME TInv, ListsPlugged, ResolveSelector PROVE TInv'
<1>. DEFINE found == Resolve(Listed, cmd.selector)
            which == IF found # {} THEN found ELSE ByName
<1>1. pc = "resolve" /\ cmd \in Commands /\ cmd.kind # "auto" /\ UNCHANGED <<cmd, seen, hostVars>>
  BY DEF ResolveSelector, TInv
<1>2. CASE which = {}
  BY <1>1, <1>2, TakesNothing DEF ResolveSelector, Goto, hostVars
<1>3. CASE which # {}
  <2>1. /\ dev' \in which /\ pc' \in {"bind", "release"} /\ (pc' = "bind" => cmd.kind = "one")
        /\ Plugged' = Plugged /\ Stayed' = Stayed
    BY <1>1, <1>3 DEF ResolveSelector, Goto, hostVars, Plugged, Stayed
  <2>2. ASSUME dev'.busid \in Stayed PROVE Selected(cmd, dev'.busid)
    <3>1. CASE cmd.selector.kind = "busid"
      <4>1. dev'.busid = cmd.selector.busid
        BY <2>1, <3>1 DEF Resolve, Hits, ByName
      <4>. QED
        BY <3>1, <4>1 DEF Selected
    <3>2. CASE cmd.selector.kind # "busid"
      <4>0. PICK h \in Hits(Listed, cmd.selector) :
              dev' = Listed[h] /\ \A j \in Hits(Listed, cmd.selector) : h = j
        BY <2>1, <3>2 DEF ByName, Resolve
      <4>1. /\ h \in DOMAIN Listed /\ SameId(cmd.selector, Listed[h])
            /\ \A j \in DOMAIN Listed : SameId(cmd.selector, Listed[j]) => h = j
        BY <3>2, <4>0 DEF Hits
      <4>2. seen # None /\ Listed = seen
        BY <4>1 DEF Listed
      <4>3. ASSUME NEW x \in Stayed, NEW k \in DOMAIN seen, seen[k].busid = x
            PROVE  SameId(cmd.selector, seen[k]) <=> Means(cmd.selector, plugged[x])
        <5>1. seen[k].vid_pid = Printed(plugged[x])
          BY <1>1, <4>2, <4>3, ListedIsThere
        <5>2. plugged[x] \in Things
          BY DEF TInv, Stayed, Plugged
        <5>3. cmd.selector.kind = "id" => cmd.selector \in Ids
          BY <1>1, SelectionAssumption DEF SelectionAssumption
        <5>. QED
          BY <5>1, <5>2, <5>3, SameIdMeans
      <4>4. ASSUME NEW x \in Stayed, Means(cmd.selector, plugged[x]) PROVE x = dev'.busid
        <5>1. PICK k \in DOMAIN seen : seen[k].busid = x
          BY <1>1, <4>2, ListedIsThere
        <5>2. SameId(cmd.selector, seen[k])
          BY <4>3, <4>4, <5>1
        <5>3. k = h
          BY <4>1, <4>2, <5>2
        <5>. QED
          BY <4>0, <4>2, <5>1, <5>3
      <4>5. Means(cmd.selector, plugged[dev'.busid])
        BY <2>2, <4>0, <4>1, <4>2, <4>3
      <4>. QED
        BY <4>4, <4>5 DEF Selected, Stayed
    <3>. QED
      BY <3>1, <3>2
  <2>3. TakesWhatIsMeant'
    BY <1>1, <2>1, <2>2 DEF TakesWhatIsMeant, Stayed, Selected, hostVars
  <2>. QED
    BY <1>1, <2>1, <2>3 DEF TInv, SeenRight, hostVars
<1>. QED
  BY <1>2, <1>3

\* Going on to the next device.
LEMMA Steps ==
  ASSUME NEW s \in Seq(Devices), s # <<>>
  PROVE  /\ 1 \in DOMAIN s /\ Head(s) = s[1] /\ Head(s) \in Devices
         /\ Tail(s) \in Seq(Devices)
         /\ \A k \in DOMAIN Tail(s) : k + 1 \in DOMAIN s /\ Tail(s)[k] = s[k + 1]
OBVIOUS

LEMMA PickTInv == ASSUME TInv, TypeInv, Pick PROVE TInv'
<1>1. /\ pc = "pick" /\ cmd.kind = "auto" /\ cmd \in Commands /\ FromCli(cmd)
      /\ UNCHANGED <<cmd, offered, hostVars>> /\ pc' \in {"pick", "bind", "offer"}
  BY DEF Pick, TInv, Goto
<1>2. Plugged' = Plugged /\ Stayed' = Stayed /\ UNCHANGED <<plugged, changed>>
  BY <1>1 DEF hostVars, Plugged, Stayed
<1>3. /\ 1 \in DOMAIN seen /\ dev' = seen[1]
      /\ \A k \in DOMAIN seen' : k + 1 \in DOMAIN seen /\ seen'[k] = seen[k + 1]
      /\ (pc' # "pick" => Allows(cmd, dev', IsHub(dev'.busid)))
  <2>1. seen \in Seq(Devices) /\ seen # <<>> /\ seen' = Tail(seen) /\ dev' = Head(seen)
    BY <1>1 DEF Pick, TypeInv, Visiting
  <2>2. pc' # "pick" => Allows(cmd, dev', IsHub(dev'.busid))
    BY <1>1 DEF Pick, Goto
  <2>. QED
    BY <2>1, <2>2, Steps
<1>4. ASSUME pc' # "pick", dev'.busid \in Stayed PROVE Wanted(cmd, plugged[dev'.busid])
  <2>1. dev'.vid_pid = Printed(plugged[dev'.busid])
    BY <1>1, <1>3, <1>4 DEF TInv, SeenRight
  <2>2. plugged[dev'.busid] \in Things /\ plugged[dev'.busid] # None
    BY <1>4 DEF TInv, Stayed, Plugged
  <2>3. Allows(cmd, dev', plugged[dev'.busid].hub)
    BY <1>3, <1>4, <2>2 DEF Allows, IsHub
  <2>. QED
    BY <1>1, <2>1, <2>2, <2>3, FilterByNumber
<1>5. SeenRight'
  BY <1>1, <1>2, <1>3 DEF TInv, SeenRight
<1>6. TakesWhatIsMeant'
  BY <1>1, <1>2, <1>4 DEF TakesWhatIsMeant, Stayed
<1>. QED
  BY <1>1, <1>2, <1>5, <1>6 DEF TInv

LEMMA ServerTakesTInv == ASSUME TInv, NEW b \in Busids, ServerTakes(b) PROVE TInv'
<1>1. pc = "offer" /\ UNCHANGED <<pc, cmd, seen, dev, plugged, changed>>
  BY DEF ServerTakes
<1>. QED
  BY <1>1, MovesOn DEF TInv

LEMMA RetainTInv == ASSUME TInv, ListsPlugged, Retain PROVE TInv'
<1>1. /\ pc = "retain" /\ pc' = "pick" /\ UNCHANGED <<cmd, seen, dev, plugged, changed>>
  BY DEF Retain, Goto
<1>2. Stayed' = Stayed
  BY <1>1 DEF Stayed, Plugged
<1>3. SeenRight'
  BY <1>1, <1>2, ListedIsThere DEF SeenRight
<1>. QED
  BY <1>1, <1>3 DEF TInv, TakesWhatIsMeant

LEMMA ProgramTInv == ASSUME TInv, TypeInv, ListsPlugged, Program PROVE TInv'
<1>. USE DEF Goto, Stay, hostVars, linkVars
<1>1. CASE List
  <2>1. /\ pc \in {"list", "relist"} /\ UNCHANGED <<cmd, plugged>>
        /\ pc' \in {"relist", AfterList, "top", "end"}
        /\ pc' = "top" => cmd.kind = "auto"
    <3>1. CASE ListHuman
      BY <3>1 DEF ListHuman, AfterList
    <3>2. CASE ListHumanFails
      BY <3>2 DEF ListHumanFails
    <3>3. CASE ListParsable
      BY <3>3 DEF ListParsable, AfterList
    <3>4. CASE ListParsableFails
      BY <3>4 DEF ListParsableFails, AfterList
    <3>. QED
      BY <1>1, <3>1, <3>2, <3>3, <3>4 DEF List
  <2>2. AfterList = IF cmd.kind = "auto" THEN "retain" ELSE "resolve"
    BY DEF AfterList
  <2>. QED
    BY <2>1, <2>2, TakesNothing
<1>2. CASE Hold \/ Release
  BY <1>2, MovesOn DEF Hold, Release, TInv
<1>3. CASE Top \/ PickNone \/ LeaveNone
  BY <1>3, MovesOn DEF Top, PickNone, LeaveNone, TInv
<1>4. CASE BindFails \/ OfferFails
  <2>1. cmd.kind \in {"auto", "one"}
    BY <1>4, SelectionAssumption DEF SelectionAssumption, BindFails, OfferFails, TInv
  <2>. QED
    BY <1>4, <2>1, MovesOn DEF BindFails, OfferFails, TInv
<1>5. ASSUME NEW b \in Busids, BindOk(b) PROVE TInv'
  BY <1>5, MovesOn DEF BindOk, TInv
<1>6. CASE OfferOk
  <2>1. cmd.kind \in {"auto", "one"}
    BY <1>6, SelectionAssumption DEF SelectionAssumption, OfferOk, TInv
  <2>. QED
    BY <1>6, <2>1, MovesOn DEF OfferOk, TInv
<1>7. CASE Leave
  BY <1>7, MovesOn DEF Leave
<1>8. CASE End
  BY <1>8, TakesNothing DEF End, Gone
<1>. QED
  BY <1>1, <1>2, <1>3, <1>4, <1>5, <1>6, <1>7, <1>8, ResolveTInv, PickTInv, RetainTInv DEF Program

-----------------------------------------------------------------------------
(***************************************************************************)
(* What the commands know of the host.                                     *)
(***************************************************************************)

\* What was listed is what is there, but for what came or went since.
AsPlugged ==
  \A b \in Busids \ changed :
    LET at == {k \in DOMAIN seen : seen[k].busid = b}
    IN  IF plugged[b] = None THEN at = {}
        ELSE \E k \in at : at = {k} /\ seen[k].vid_pid = Printed(plugged[b])

\* An empty human listing may stand although the parsable one is made later.
LInv == (pc = "relist" /\ seen # None => AsPlugged) /\ ListsPlugged

LEMMA ListsAsPlugged ==
  ListsPlugged <=> (pc = "retain" \/ (pc = "resolve" /\ seen # None) => AsPlugged)
BY DEF ListsPlugged, AsPlugged

LEMMA ShownAsPlugged ==
  ASSUME NEW o \in Orders, NEW b \in Busids
  PROVE  LET at == {k \in DOMAIN Shown(o) : Shown(o)[k].busid = b}
         IN  IF plugged[b] = None THEN at = {}
             ELSE \E k \in at : at = {k} /\ Shown(o)[k].vid_pid = Printed(plugged[b])
<1>. DEFINE at == {k \in DOMAIN Shown(o) : Shown(o)[k].busid = b}
<1>1. /\ DOMAIN Shown(o) = 1..Len(o)
      /\ \A k \in 1..Len(o) : Shown(o)[k].busid = o[k]
                              /\ Shown(o)[k].vid_pid = Printed(plugged[o[k]])
  BY DEF Shown, Entry
<1>2. at = {k \in 1..Len(o) : o[k] = b}
  BY <1>1
<1>3. ASSUME plugged[b] = None PROVE at = {}
  BY <1>2, <1>3, OrderOfAll DEF Plugged
<1>4. ASSUME plugged[b] # None
      PROVE  \E k \in at : at = {k} /\ Shown(o)[k].vid_pid = Printed(plugged[b])
  <2>1. PICK k \in 1..Len(o) : o[k] = b
    BY <1>4, OrderOfAll DEF Plugged
  <2>2. at = {k}
    BY <1>2, <2>1, OrderOfAll
  <2>. QED
    BY <1>1, <2>1, <2>2
<1>. QED
  BY <1>3, <1>4

LEMMA ListingLInv ==
  ASSUME TInv, ListHuman \/ ListParsable
  PROVE  (\E o \in Orders : seen' = Shown(o)) /\ LInv'
<1>1. PICK o \in Orders : seen' = Shown(o)
  BY HumanShown, ParsableShown DEF ListHuman, ListParsable
<1>2. plugged' = plugged
  BY DEF ListHuman, ListParsable
<1>3. AsPlugged'
  BY <1>1, <1>2, ShownAsPlugged DEF AsPlugged
<1>. QED
  BY <1>1, <1>3 DEF LInv, ListsPlugged, AsPlugged

\* A step that lists nothing and moves the command on.
LEMMA KeepsLInv ==
  ASSUME LInv,
         \/ pc' \notin {"relist", "retain", "resolve"}
         \/ /\ UNCHANGED <<plugged, changed, seen>>
            /\ pc' = pc \/ (pc = "relist" /\ (seen = None => pc' # "retain"))
         \/ pc' = "relist" /\ seen' = None
  PROVE  LInv'
<1>1. CASE pc' \notin {"relist", "retain", "resolve"}
  BY <1>1 DEF LInv, ListsPlugged
<1>2. CASE /\ UNCHANGED <<plugged, changed, seen>>
           /\ pc' = pc \/ (pc = "relist" /\ (seen = None => pc' # "retain"))
  <2>1. AsPlugged' <=> AsPlugged
    BY <1>2 DEF AsPlugged
  <2>2. ListsPlugged' <=> (pc' = "retain" \/ (pc' = "resolve" /\ seen' # None) => AsPlugged')
    BY DEF ListsPlugged, AsPlugged
  <2>. QED
    BY <1>2, <2>1, <2>2, ListsAsPlugged DEF LInv
<1>3. CASE pc' = "relist" /\ seen' = None
  BY <1>3 DEF LInv, ListsPlugged
<1>. QED
  BY <1>1, <1>2, <1>3

LEMMA HostLInv == ASSUME LInv, Host PROVE LInv'
<1>1. PICK b \in Busids : Plug(b) \/ Unplug(b) \/ BindByHand(b)
  BY DEF Host
<1>2. UNCHANGED cmdVars /\ changed \subseteq changed'
      /\ \A x \in Busids \ changed' : plugged'[x] = plugged[x]
  <2>1. CASE Plug(b)
    BY <2>1 DEF Plug
  <2>2. CASE Unplug(b)
    BY <2>2 DEF Unplug
  <2>3. CASE BindByHand(b)
    BY <2>3 DEF BindByHand
  <2>. QED
    BY <1>1, <2>1, <2>2, <2>3
<1>3. AsPlugged => AsPlugged'
  BY <1>2 DEF AsPlugged, cmdVars
<1>4. ListsPlugged' <=> (pc' = "retain" \/ (pc' = "resolve" /\ seen' # None) => AsPlugged')
  BY DEF ListsPlugged, AsPlugged
<1>. QED
  BY <1>2, <1>3, <1>4, ListsAsPlugged DEF LInv, cmdVars

LEMMA ProgramLInv == ASSUME TInv, LInv, Program PROVE LInv'
<1>. USE DEF Goto, Stay, hostVars, linkVars
<1>1. CASE ListHuman \/ ListParsable
  BY <1>1, ListingLInv
<1>2. CASE ListHumanFails
  BY <1>2, KeepsLInv DEF ListHumanFails
<1>3. CASE ListParsableFails
  <2>1. seen = None => pc' # "retain"
    BY <1>3, SelectionAssumption DEF SelectionAssumption, ListParsableFails, AfterList, TInv
  <2>. QED
    BY <1>3, <2>1, KeepsLInv DEF ListParsableFails
<1>4. CASE ResolveSelector
  BY <1>4, KeepsLInv DEF ResolveSelector
<1>5. CASE Hold \/ Release \/ Top \/ Retain \/ PickNone
  BY <1>5, KeepsLInv DEF Hold, Release, Top, Retain, PickNone
<1>6. CASE Pick
  BY <1>6, KeepsLInv DEF Pick
<1>7. CASE BindFails \/ OfferOk \/ OfferFails
  BY <1>7, KeepsLInv DEF BindFails, OfferOk, OfferFails
<1>8. ASSUME NEW b \in Busids, BindOk(b) PROVE LInv'
  BY <1>8, KeepsLInv DEF BindOk
<1>9. CASE Leave \/ LeaveNone \/ End
  BY <1>9, KeepsLInv DEF Leave, LeaveNone, End, Gone
<1>. QED
  BY <1>1, <1>2, <1>3, <1>4, <1>5, <1>6, <1>7, <1>8, <1>9 DEF Program, List

LEMMA ServerTakesLInv == ASSUME LInv, NEW b \in Busids, ServerTakes(b) PROVE LInv'
BY KeepsLInv DEF ServerTakes
-----------------------------------------------------------------------------
(***************************************************************************)
(* The type invariant.  The devices that are still to be visited have the  *)
(* busids of the host, for they were all listed.                           *)
(***************************************************************************)
\* A step that goes on with the devices seen, or with none.
LEMMA KeepsTypeInv ==
  ASSUME TypeInv, pc' \in Labels,
         changed' \in SUBSET Busids, missed' \in SUBSET Busids, offered' \in SUBSET Busids,
         seen' = seen \/ seen' \in {None, <<>>},
         Visiting' => Visiting /\ seen' = seen,
         pc' \in {"bind", "offer", "hold", "release"} =>
           dev' = dev /\ pc \in {"bind", "offer", "hold", "release"}
  PROVE  TypeInv'
<1>1. Listed' \in Seq(Devices)
  <2>1. <<>> \in Seq(Devices)
    OBVIOUS
  <2>. QED
    BY <2>1 DEF TypeInv, Listed
<1>. QED
  BY <1>1 DEF TypeInv

LEMMA HostTypeInv == ASSUME TypeInv, Host PROVE TypeInv'
<1>1. PICK b \in Busids : Plug(b) \/ Unplug(b) \/ BindByHand(b)
  BY DEF Host
<1>. USE DEF TypeInv, cmdVars
<1>2. CASE Plug(b)
  BY <1>2, KeepsTypeInv DEF Plug, Visiting
<1>3. CASE Unplug(b)
  BY <1>3, KeepsTypeInv DEF Unplug, Visiting
<1>4. CASE BindByHand(b)
  BY <1>4, KeepsTypeInv DEF BindByHand, Visiting
<1>. QED
  BY <1>1, <1>2, <1>3, <1>4

LEMMA ServerTakesTypeInv == ASSUME TypeInv, NEW b \in Busids, ServerTakes(b) PROVE TypeInv'
BY KeepsTypeInv DEF ServerTakes, TypeInv, Visiting

LEMMA ShownDevices ==
  ASSUME TInv, NEW o \in Orders
  PROVE  Shown(o) \in Seq(Devices)
<1>1. \A b \in Plugged : Entry(b) \in Devices
  BY DEF Entry, Devices, Plugged, TInv
<1>2. \A i \in 1..Len(o) : Entry(o[i]) \in Devices
  BY <1>1, OrderOfAll
<1>3. Len(o) \in Nat
  BY OrderOfAll
<1>. QED
  BY <1>2, <1>3 DEF Shown

LEMMA ProgramTypeInv == ASSUME TypeInv, TInv, Program PROVE TypeInv'
<1>. USE DEF Goto, Stay, hostVars, linkVars
<1>t. /\ pc \in Labels /\ changed \in SUBSET Busids /\ missed \in SUBSET Busids
      /\ offered \in SUBSET Busids /\ AfterList \in {"retain", "resolve"}
  BY DEF TypeInv, AfterList
<1>1. CASE ListHuman \/ ListParsable
  <2>1. PICK o \in Orders : seen' = Shown(o)
    BY <1>1, ListingLInv
  <2>2. pc' \in {"relist", "retain", "resolve"} /\ changed' = {}
        /\ UNCHANGED <<cmd, dev, missed, offered>>
    BY <1>1, <1>t DEF ListHuman, ListParsable
  <2>3. seen' \in Seq(Devices) /\ Listed' \in Seq(Devices)
    BY <2>1, ShownDevices DEF Listed
  <2>. QED
    BY <2>2, <2>3, <1>t DEF TypeInv, Labels
<1>2. CASE ListHumanFails
  BY <1>2, <1>t, KeepsTypeInv DEF ListHumanFails, Labels, Visiting
<1>3. CASE ListParsableFails
  <2>1. pc' \in {"top", "end", "retain", "resolve"} /\ UNCHANGED <<cmd, seen, dev, offered, hostVars>>
        /\ pc = "relist"
    BY <1>3, <1>t DEF ListParsableFails
  <2>2. pc' = "retain" => seen # None
    BY <1>3, SelectionAssumption DEF SelectionAssumption, ListParsableFails, AfterList, TInv
  <2>. QED
    BY <2>1, <2>2 DEF TypeInv, Labels, Visiting, Listed
<1>4. CASE ResolveSelector
  <2>. DEFINE found == Resolve(Listed, cmd.selector)
              which == IF found # {} THEN found ELSE ByName
  <2>1. pc = "resolve" /\ cmd \in Commands /\ UNCHANGED <<cmd, seen, offered, hostVars>>
        /\ \/ pc' = "end"
           \/ pc' \in {"bind", "release"} /\ dev' \in which
    BY <1>4 DEF ResolveSelector, TInv
  <2>2. ASSUME NEW d \in which PROVE d.busid \in Busids
    <3>1. CASE d \in found
      <4>1. PICK k \in DOMAIN Listed : d = Listed[k]
        BY <3>1 DEF Resolve, Hits
      <4>2. Listed[k] \in Devices
        BY DEF TypeInv
      <4>. QED
        BY <4>1, <4>2 DEF Devices
    <3>2. CASE d \in ByName
      <4>1. cmd.selector.kind = "busid" /\ d = [busid |-> cmd.selector.busid]
        BY <3>2 DEF ByName
      <4>2. cmd.selector.busid \in Busids
        BY <2>1, <4>1, SelectionAssumption DEF SelectionAssumption
      <4>. QED
        BY <4>1, <4>2
    <3>. QED
      BY <2>2, <3>1, <3>2
  <2>3. ~Visiting'
    BY <2>1 DEF Visiting, TInv
  <2>4. pc' \in {"bind", "offer", "hold", "release"} => dev'.busid \in Busids
    BY <2>1, <2>2
  <2>. HIDE DEF which, found
  <2>. QED
    BY <2>1, <2>3, <2>4 DEF TypeInv, Labels, Listed
<1>5. CASE Hold \/ Release
  BY <1>5, <1>t, KeepsTypeInv DEF Hold, Release, Labels, Visiting
<1>6. CASE Top \/ PickNone \/ LeaveNone
  BY <1>6, <1>t, KeepsTypeInv DEF Top, PickNone, LeaveNone, Labels, Visiting
<1>7. CASE Retain
  BY <1>7, <1>t, KeepsTypeInv DEF Retain, Labels, Visiting
<1>8. CASE Pick
  <2>1. seen' = Tail(seen) /\ dev' = Head(seen) /\ seen # <<>> /\ pc = "pick"
        /\ pc' \in {"pick", "bind", "offer"} /\ UNCHANGED <<changed, missed, offered>>
    BY <1>8 DEF Pick
  <2>2. seen' \in Seq(Devices) /\ dev' \in Devices
    BY <2>1, Steps DEF TypeInv, Visiting
  <2>3. Listed' \in Seq(Devices)
    BY <2>2 DEF Listed
  <2>4. dev'.busid \in Busids
    BY <2>2 DEF Devices
  <2>. QED
    BY <2>1, <2>2, <2>3, <2>4, <1>t DEF TypeInv, Labels
<1>9. CASE BindFails \/ OfferOk \/ OfferFails
  <2>1. pc \in {"bind", "offer"} /\ pc' \in {"pick", "offer", "hold", "end"}
        /\ UNCHANGED <<cmd, seen, dev, changed>>
        /\ (pc' = "pick" => cmd.kind = "auto")
    BY <1>9, SelectionAssumption DEF SelectionAssumption, BindFails, OfferOk, OfferFails, TInv
  <2>2. missed' \in SUBSET Busids /\ offered' \in SUBSET Busids
    <3>1. dev.busid \in Busids
      BY <2>1 DEF TypeInv
    <3>. QED
      BY <1>9, <1>t, <3>1 DEF BindFails, OfferOk, OfferFails
  <2>3. Visiting' => Visiting
    BY <2>1 DEF Visiting
  <2>. QED
    BY <2>1, <2>2, <2>3, <1>t, KeepsTypeInv DEF Labels
<1>10. ASSUME NEW b \in Busids, BindOk(b) PROVE TypeInv'
  BY <1>10, <1>t, KeepsTypeInv DEF BindOk, Labels, Visiting
<1>11. CASE Leave
  BY <1>11, <1>t, KeepsTypeInv DEF Leave, Labels, Visiting
<1>12. CASE End
  BY <1>12, <1>t, KeepsTypeInv DEF End, Gone, Labels, Visiting
<1>. QED
  BY <1>1, <1>2, <1>3, <1>4, <1>5, <1>6, <1>7, <1>8, <1>9, <1>10, <1>11, <1>12
  DEF Program, List

\* A step before any command, and its end.
LEMMA EdgeTypeInv == ASSUME TypeInv, Launch \/ Kill PROVE TypeInv'
<1>1. ASSUME Launch PROVE TypeInv'
  <2>1. pc' \in {"top", "list"} /\ UNCHANGED <<seen, dev, changed, missed, offered>>
    BY <1>1 DEF Launch, Goto, hostVars
  <2>. QED
    BY <2>1, KeepsTypeInv DEF TypeInv, Labels, Visiting
<1>2. ASSUME Kill PROVE TypeInv'
  BY <1>2, KeepsTypeInv DEF Kill, Gone, Goto, TypeInv, Labels, Visiting
<1>. QED
  BY <1>1, <1>2

LEMMA MeansWhatIsThere == Spec => [](KInv /\ TInv /\ LInv /\ TypeInv)
<1>1. Init => KInv /\ TInv /\ LInv /\ TypeInv
  <2>1. <<>> \in Seq(Devices)
    OBVIOUS
  <2>. QED
    BY <2>1, InitKInv, InitTInv DEF Init, LInv, ListsPlugged, TypeInv, Labels, Visiting, Listed
<1>2. KInv /\ TInv /\ LInv /\ TypeInv /\ [Next]_vars => KInv' /\ TInv' /\ LInv' /\ TypeInv'
  <2>. SUFFICES ASSUME KInv, TInv, LInv, TypeInv, [Next]_vars PROVE TInv' /\ LInv' /\ TypeInv'
    BY KeepsKInv
  <2>1. ASSUME Launch PROVE TInv' /\ LInv'
    BY <2>1, TakesNothing, KeepsLInv DEF Launch, Goto, hostVars
  <2>2. ASSUME Kill PROVE TInv' /\ LInv'
    BY <2>2, TakesNothing, KeepsLInv DEF Kill, Gone, Goto
  <2>3. ASSUME UNCHANGED vars PROVE TInv' /\ LInv' /\ TypeInv'
    <3>1. TInv'
      BY <2>3 DEF vars, hostVars, cmdVars, TInv, SeenRight, TakesWhatIsMeant, Stayed, Plugged,
                  Selected
    <3>2. LInv'
      BY <2>3, KeepsLInv DEF vars, hostVars, cmdVars
    <3>3. TypeInv'
      BY <2>3 DEF vars, hostVars, cmdVars, TypeInv, Visiting, Listed
    <3>. QED
      BY <3>1, <3>2, <3>3
  <2>4. ASSUME Host PROVE TInv' /\ LInv' /\ TypeInv'
    BY <2>4, HostTInv, HostLInv, HostTypeInv
  <2>5. ASSUME Program PROVE TInv' /\ LInv' /\ TypeInv'
    BY <2>5, ProgramTInv, ProgramLInv, ProgramTypeInv DEF LInv
  <2>6. ASSUME NEW b \in Busids, ServerTakes(b) PROVE TInv' /\ LInv' /\ TypeInv'
    BY <2>6, ServerTakesTInv, ServerTakesLInv, ServerTakesTypeInv
  <2>. QED
    BY <2>1, <2>2, <2>3, <2>4, <2>5, <2>6, EdgeTypeInv DEF Next
<1>. QED
  BY <1>1, <1>2, PTL DEF Spec

\* What the parsers make of a listing is what is plugged in, each device once
\* and with its own id, in whatever order and however many devices are listed,
\* and also when the first `usbip list` failed or was empty.
THEOREM ListsRight == Spec => []ListsPlugged
BY MeansWhatIsThere, PTL DEF LInv

\* What is bound, offered or released is what the user means, unless the device
\* was exchanged after the listing.
THEOREM TakenAsMeant == Spec => []TakesWhatIsMeant
BY MeansWhatIsThere, PTL DEF TInv

\* The type invariant; above all, every device that a command binds, offers or
\* releases, and every one that attach --auto remembers, is one of a busid that
\* was listed or typed.
THEOREM TypeCorrect == Spec => []TypeOK
<1>1. KInv /\ TypeInv => TypeOK
  BY DEF KInv, TypeInv, TypeOK, Labels, Plugged
<1>. QED
  BY <1>1, MeansWhatIsThere, PTL
=============================================================================
