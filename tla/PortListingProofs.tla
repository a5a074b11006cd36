------------------------- MODULE PortListingProofs --------------------------
(***************************************************************************)
(* Whatever ports there are and however the records of usbip's listing     *)
(* end, attached_remote_busids gives no busid a wrong port, and misses     *)
(* none in a listing of the ports in use alone.                            *)
(***************************************************************************)
EXTENDS PortListing, InductionProofs

Kinds == {"title", "header", "product", "remote", "more", "blank"}
Lines == {Line(k, p, b) : k \in Kinds, p \in PortNums \cup {None}, b \in Busids \cup {None}}
Records == [port : PortNums, inUse : BOOLEAN, bus : Busids \cup {None}]

Headers(s) == {k \in DOMAIN s : s[k].kind = "header"}

\* Each header is that of a port, and the record of a port in use is whole.
Whole(s) ==
  \A k \in Headers(s) :
    /\ s[k].port \in PortNums /\ s[k].bus = vhci[s[k].port]
    /\ s[k].bus # None =>
         /\ k + 2 \in DOMAIN s /\ s[k + 1].kind = "product"
         /\ s[k + 2] = Line("remote", s[k].port, s[k].bus)

\* The headers are those of ports in use, by increasing port.
InUseOnly(s) ==
  \A k \in Headers(s) :
    /\ s[k].bus # None
    /\ \A l \in Headers(s) : k < l => s[k].port < s[l].port

Names(s, p) == \E k \in Headers(s) : s[k].port = p

VhciType == vhci \in [PortNums -> Busids \cup {None}] /\ free \in BOOLEAN
-----------------------------------------------------------------------------
(***************************************************************************)
(* The listing, port by port.                                              *)
(***************************************************************************)
LEMMA LineFields ==
  ASSUME NEW k, NEW p, NEW b
  PROVE  Line(k, p, b).kind = k /\ Line(k, p, b).port = p /\ Line(k, p, b).bus = b
BY DEF Line

LEMMA ConcatLines ==
  ASSUME NEW s \in Seq(Lines), NEW r \in Seq(Lines)
  PROVE  /\ s \o r \in Seq(Lines) /\ Len(s) \in Nat /\ Len(r) \in Nat
         /\ DOMAIN s = 1..Len(s) /\ DOMAIN r = 1..Len(r)
         /\ DOMAIN (s \o r) = 1..(Len(s) + Len(r))
         /\ \A k \in DOMAIN s : k \in DOMAIN (s \o r) /\ (s \o r)[k] = s[k]
         /\ \A k \in DOMAIN r : k + Len(s) \in DOMAIN (s \o r) /\ (s \o r)[k + Len(s)] = r[k]
         /\ Headers(s \o r) = Headers(s) \cup {k + Len(s) : k \in Headers(r)}
<1>1. /\ s \o r \in Seq(Lines) /\ Len(s) \in Nat /\ Len(r) \in Nat
      /\ DOMAIN s = 1..Len(s) /\ DOMAIN r = 1..Len(r)
      /\ DOMAIN (s \o r) = 1..(Len(s) + Len(r))
      /\ \A k \in 1..(Len(s) + Len(r)) :
           (s \o r)[k] = IF k <= Len(s) THEN s[k] ELSE r[k - Len(s)]
  OBVIOUS
<1>2. \A k \in DOMAIN s : k \in DOMAIN (s \o r) /\ (s \o r)[k] = s[k]
  BY <1>1
<1>3. ASSUME NEW k \in DOMAIN r
      PROVE  k + Len(s) \in DOMAIN (s \o r) /\ (s \o r)[k + Len(s)] = r[k]
  <2>1. k + Len(s) \in 1..(Len(s) + Len(r)) /\ ~(k + Len(s) <= Len(s)) /\ (k + Len(s)) - Len(s) = k
    BY <1>1
  <2>. QED
    BY <1>1, <2>1
<1>4. ASSUME NEW k \in DOMAIN (s \o r), k \notin DOMAIN s
      PROVE  \E l \in DOMAIN r : k = l + Len(s)
  <2>1. k - Len(s) \in DOMAIN r /\ k = (k - Len(s)) + Len(s)
    BY <1>1, <1>4
  <2>. QED
    BY <2>1
<1>5. Headers(s \o r) \subseteq Headers(s) \cup {k + Len(s) : k \in Headers(r)}
  BY <1>2, <1>3, <1>4 DEF Headers
<1>6. Headers(s) \cup {k + Len(s) : k \in Headers(r)} \subseteq Headers(s \o r)
  BY <1>2, <1>3 DEF Headers
<1>. QED
  BY <1>1, <1>2, <1>3, <1>5, <1>6

LEMMA RecordLines ==
  ASSUME VhciType, NEW p \in PortNums, NEW tail \in Tails
  PROVE  /\ Record(p, tail) \in Seq(Lines)
         /\ Headers(Record(p, tail)) = IF vhci[p] # None \/ free THEN {1} ELSE {}
         /\ vhci[p] # None \/ free => Record(p, tail)[1] = Line("header", p, vhci[p])
         /\ vhci[p] # None => /\ 3 \in DOMAIN Record(p, tail)
                              /\ Record(p, tail)[2].kind = "product"
                              /\ Record(p, tail)[3] = Line("remote", p, vhci[p])
<1>. DEFINE header == Line("header", p, vhci[p])
            r == Record(p, tail)
<1>1. /\ header \in Lines /\ Line("product", p, None) \in Lines
      /\ Line("remote", p, vhci[p]) \in Lines /\ Blank \in Lines
      /\ Line("more", None, None) \in Lines
  BY DEF VhciType, Lines, Kinds, Blank
<1>2. tail \in Seq(Lines) /\ \A k \in DOMAIN tail : tail[k].kind # "header"
  <2>1. Blank.kind # "header" /\ Line("more", None, None).kind # "header"
    BY LineFields DEF Blank
  <2>2. CASE tail = <<>>
    BY <2>2
  <2>3. CASE tail = <<Blank>>
    <3>1. tail \in Seq(Lines) /\ DOMAIN tail = {1} /\ tail[1] = Blank
      BY <1>1, <2>3
    <3>. QED
      BY <2>1, <3>1
  <2>4. CASE tail = <<Line("more", None, None), Blank>>
    <3>1. /\ tail \in Seq(Lines) /\ DOMAIN tail = {1, 2}
          /\ tail[1] = Line("more", None, None) /\ tail[2] = Blank
      BY <1>1, <2>4
    <3>. QED
      BY <2>1, <3>1
  <2>. QED
    BY <2>2, <2>3, <2>4 DEF Tails
<1>3. /\ header.kind = "header" /\ Line("product", p, None).kind = "product"
      /\ Line("remote", p, vhci[p]).kind = "remote" /\ Blank.kind = "blank"
  BY LineFields DEF Blank
<1>4. CASE vhci[p] # None
  <2>. DEFINE h == <<header, Line("product", p, None), Line("remote", p, vhci[p])>>
  <2>1. r = h \o tail
    BY <1>4 DEF Record
  <2>2. h \in Seq(Lines) /\ Len(h) = 3 /\ h[1] = header /\ h[2] = Line("product", p, None)
        /\ h[3] = Line("remote", p, vhci[p])
    BY <1>1
  <2>. HIDE DEF h, header
  <2>3. /\ r \in Seq(Lines) /\ DOMAIN r = 1..(3 + Len(tail)) /\ Len(tail) \in Nat
        /\ r[1] = header /\ r[2] = Line("product", p, None) /\ r[3] = Line("remote", p, vhci[p])
        /\ \A k \in 4..(3 + Len(tail)) : k - 3 \in DOMAIN tail /\ r[k] = tail[k - 3]
    <3>1. DOMAIN h = 1..3
      BY <2>2
    <3>2. /\ h \o tail \in Seq(Lines) /\ DOMAIN (h \o tail) = 1..(3 + Len(tail))
          /\ Len(tail) \in Nat /\ DOMAIN tail = 1..Len(tail)
          /\ \A k \in DOMAIN h : (h \o tail)[k] = h[k]
          /\ \A k \in DOMAIN tail : (h \o tail)[k + 3] = tail[k]
      <4>1. h \in Seq(Lines) /\ tail \in Seq(Lines) /\ Len(h) = 3
        BY <1>2, <2>2
      <4>2. /\ h \o tail \in Seq(Lines) /\ DOMAIN (h \o tail) = 1..(Len(h) + Len(tail))
            /\ Len(tail) \in Nat /\ DOMAIN tail = 1..Len(tail)
            /\ \A k \in DOMAIN h : (h \o tail)[k] = h[k]
            /\ \A k \in DOMAIN tail : (h \o tail)[k + Len(h)] = tail[k]
        BY <4>1, ConcatLines, Zenon
      <4>. QED
        BY <4>1, <4>2
    <3>. HIDE DEF r
    <3>3. ASSUME NEW k \in 4..(3 + Len(tail))
          PROVE  k - 3 \in DOMAIN tail /\ r[k] = tail[k - 3]
      <4>1. k - 3 \in 1..Len(tail) /\ (k - 3) + 3 = k
        BY <3>2
      <4>. QED
        BY <2>1, <3>2, <4>1
    <3>4. 1 \in DOMAIN h /\ 2 \in DOMAIN h /\ 3 \in DOMAIN h
      BY <3>1
    <3>. QED
      BY <2>1, <2>2, <3>2, <3>3, <3>4
  <2>. HIDE DEF r
  <2>4. Headers(r) = {1}
    <3>1. ASSUME NEW k \in DOMAIN r, r[k].kind = "header" PROVE k = 1
      BY <1>2, <1>3, <2>3, <3>1
    <3>. QED
      BY <1>3, <2>3, <3>1 DEF Headers
  <2>. QED
    BY <1>3, <1>4, <2>3, <2>4 DEF r, header
<1>5. CASE vhci[p] = None /\ free
  <2>1. r = <<header, Blank>>
    BY <1>5 DEF Record
  <2>. HIDE DEF header, r
  <2>2. r \in Seq(Lines) /\ DOMAIN r = {1, 2} /\ r[1] = header /\ r[2] = Blank
    BY <1>1, <2>1
  <2>3. Headers(r) = {1}
    BY <1>3, <2>2 DEF Headers
  <2>. QED
    BY <1>5, <2>2, <2>3 DEF r, header
<1>6. CASE vhci[p] = None /\ ~free
  <2>1. r = <<>>
    BY <1>6 DEF Record
  <2>. QED
    BY <1>6, <2>1 DEF Headers
<1>. QED
  BY <1>4, <1>5, <1>6 DEF VhciType

LEMMA ConcatWhole ==
  ASSUME NEW s \in Seq(Lines), NEW r \in Seq(Lines), Whole(s), Whole(r)
  PROVE  Whole(s \o r)
<1>. DEFINE t == s \o r
<1>1. /\ Len(s) \in Nat /\ Len(r) \in Nat /\ DOMAIN s = 1..Len(s) /\ DOMAIN r = 1..Len(r)
      /\ \A k \in DOMAIN s : k \in DOMAIN t /\ t[k] = s[k]
      /\ \A k \in DOMAIN r : k + Len(s) \in DOMAIN t /\ t[k + Len(s)] = r[k]
      /\ Headers(t) = Headers(s) \cup {k + Len(s) : k \in Headers(r)}
  BY ConcatLines
<1>. HIDE DEF t
<1>. SUFFICES ASSUME NEW k \in Headers(t)
              PROVE  /\ t[k].port \in PortNums /\ t[k].bus = vhci[t[k].port]
                     /\ t[k].bus # None =>
                          /\ k + 2 \in DOMAIN t /\ t[k + 1].kind = "product"
                          /\ t[k + 2] = Line("remote", t[k].port, t[k].bus)
  BY DEF Whole, t
<1>2. CASE k \in Headers(s)
  <2>1. k \in DOMAIN s /\ t[k] = s[k]
    BY <1>1, <1>2 DEF Headers
  <2>2. s[k].bus # None => k + 1 \in DOMAIN s /\ k + 2 \in DOMAIN s
    BY <1>1, <1>2, <2>1 DEF Whole
  <2>. QED
    BY <1>1, <1>2, <2>1, <2>2 DEF Whole
<1>3. CASE k \notin Headers(s)
  <2>1. PICK l \in Headers(r) : k = l + Len(s)
    BY <1>1, <1>3
  <2>2. l \in DOMAIN r /\ t[k] = r[l]
    BY <1>1, <2>1 DEF Headers
  <2>3. ASSUME r[l].bus # None
        PROVE  /\ l + 1 \in DOMAIN r /\ l + 2 \in DOMAIN r
               /\ k + 1 = (l + 1) + Len(s) /\ k + 2 = (l + 2) + Len(s)
    <3>1. l + 2 \in DOMAIN r
      BY <2>3 DEF Whole
    <3>2. Len(r) \in Nat /\ l \in Int /\ 1 <= l /\ l + 2 <= Len(r)
      BY <1>1, <2>2, <3>1
    <3>3. l + 1 \in 1..Len(r) /\ l + 2 \in 1..Len(r)
      BY <3>2
    <3>4. k + 1 = (l + 1) + Len(s) /\ k + 2 = (l + 2) + Len(s)
      BY <1>1, <2>1, <3>2
    <3>. QED
      BY <1>1, <3>3, <3>4
  <2>. QED
    BY <1>1, <2>1, <2>2, <2>3 DEF Whole
<1>. QED
  BY <1>2, <1>3

\* What the records of the first n ports make.
GoodListing(n) ==
  {s \in Seq(Lines) :
     /\ Whole(s)
     /\ ~free => /\ InUseOnly(s)
                 /\ \A k \in Headers(s) : s[k].port < n
                 /\ \A p \in PortNums : p < n /\ vhci[p] # None => Names(s, p)}

LEMMA NextRecord ==
  ASSUME VhciType, NEW p \in PortNums, NEW tail \in Tails, NEW s \in GoodListing(p)
  PROVE  s \o Record(p, tail) \in GoodListing(p + 1)
<1>. DEFINE r == Record(p, tail)
            t == s \o r
<1>1. /\ r \in Seq(Lines)
      /\ Headers(r) = IF vhci[p] # None \/ free THEN {1} ELSE {}
      /\ vhci[p] # None \/ free => r[1] = Line("header", p, vhci[p])
      /\ vhci[p] # None => /\ 3 \in DOMAIN r /\ r[2].kind = "product"
                           /\ r[3] = Line("remote", p, vhci[p])
  BY RecordLines
<1>2. ASSUME NEW k \in Headers(r) PROVE k = 1 /\ r[k].port = p /\ r[k].bus = vhci[p]
  BY <1>1, <1>2, LineFields
<1>3. Whole(r)
  BY <1>1, <1>2 DEF Whole
<1>. HIDE DEF r
<1>4. s \in Seq(Lines) /\ Whole(s)
  BY DEF GoodListing
<1>5. t \in Seq(Lines) /\ Whole(t)
  BY <1>1, <1>3, <1>4, ConcatLines, ConcatWhole
<1>6. /\ Len(s) \in Nat /\ DOMAIN s = 1..Len(s)
      /\ \A k \in DOMAIN s : t[k] = s[k]
      /\ \A k \in DOMAIN r : t[k + Len(s)] = r[k]
      /\ Headers(t) = Headers(s) \cup {k + Len(s) : k \in Headers(r)}
  BY <1>1, <1>4, ConcatLines
<1>. HIDE DEF t
<1>7. ASSUME ~free
      PROVE  /\ InUseOnly(t)
             /\ \A k \in Headers(t) : t[k].port < p + 1
             /\ \A q \in PortNums : q < p + 1 /\ vhci[q] # None => Names(t, q)
  <2>1. /\ InUseOnly(s)
        /\ \A k \in Headers(s) : s[k].port < p
        /\ \A q \in PortNums : q < p /\ vhci[q] # None => Names(s, q)
    BY <1>7 DEF GoodListing
  <2>2. ASSUME NEW k \in Headers(s)
        PROVE  k \in 1..Len(s) /\ t[k] = s[k] /\ k \in Headers(t) /\ s[k].port \in PortNums
    BY <1>4, <1>6 DEF Headers, Whole
  <2>3. ASSUME NEW k \in Headers(t), k \notin Headers(s)
        PROVE  k = 1 + Len(s) /\ t[k].port = p /\ t[k].bus = vhci[p] /\ vhci[p] # None
    <3>1. PICK l \in Headers(r) : k = l + Len(s)
      BY <1>6, <2>3
    <3>2. l \in DOMAIN r /\ vhci[p] # None
      BY <1>1, <1>7 DEF Headers
    <3>. QED
      BY <1>2, <1>6, <3>1, <3>2
  <2>4. ASSUME vhci[p] # None PROVE Names(t, p)
    <3>1. 1 \in Headers(r) /\ 1 \in DOMAIN r
      BY <1>1, <2>4 DEF Headers
    <3>2. 1 + Len(s) \in Headers(t) /\ t[1 + Len(s)].port = p
      BY <1>2, <1>6, <3>1
    <3>. QED
      BY <3>2 DEF Names
  <2>5. InUseOnly(t)
    <3>. SUFFICES ASSUME NEW k \in Headers(t)
                  PROVE  t[k].bus # None /\ \A l \in Headers(t) : k < l => t[k].port < t[l].port
      BY DEF InUseOnly
    <3>1. t[k].bus # None
      BY <2>1, <2>2, <2>3 DEF InUseOnly
    <3>2. ASSUME NEW l \in Headers(t), k < l PROVE t[k].port < t[l].port
      <4>1. CASE k \in Headers(s) /\ l \in Headers(s)
        BY <2>1, <2>2, <3>2, <4>1 DEF InUseOnly
      <4>2. CASE k \in Headers(s) /\ l \notin Headers(s)
        BY <2>1, <2>2, <2>3, <4>2
      <4>3. CASE k \notin Headers(s)
        <5>1. k = 1 + Len(s) /\ (l \in 1..Len(s) \/ l = 1 + Len(s))
          BY <2>2, <2>3, <4>3
        <5>. QED
          BY <1>6, <3>2, <5>1
      <4>. QED
        BY <4>1, <4>2, <4>3
    <3>. QED
      BY <3>1, <3>2
  <2>6. ASSUME NEW k \in Headers(t) PROVE t[k].port < p + 1
    BY <2>1, <2>2, <2>3 DEF PortNums
  <2>7. ASSUME NEW q \in PortNums, q < p + 1, vhci[q] # None PROVE Names(t, q)
    <3>1. CASE q < p
      BY <2>1, <2>2, <2>7, <3>1 DEF Names
    <3>2. q < p \/ q = p
      BY <2>7 DEF PortNums
    <3>. QED
      BY <2>4, <2>7, <3>1, <3>2
  <2>. QED
    BY <2>5, <2>6, <2>7
<1>. QED
  BY <1>5, <1>7 DEF GoodListing, t, r

\* The whole listing is as `usbip port' prints it for the ports there are.
LEMMA ListingGood ==
  ASSUME VhciType, NEW tail \in Tails
  PROVE  Listing(tail) \in GoodListing(LastPort + 1)
<1>. DEFINE n == LastPort + 1
            seqs == [k \in 1..n |-> Record(k - 1, tail)]
            Good == [i \in 0..n |-> GoodListing(i)]
            title == <<Line("title", None, None)>>
            rest == FlattenSeq(seqs)
<1>1. n \in Nat
  BY PortListingAssumption DEF PortListingAssumption
<1>2. seqs \in [1..n -> Seq(Lines)]
  <2>1. ASSUME NEW k \in 1..n PROVE k - 1 \in PortNums
    BY PortListingAssumption DEF PortListingAssumption, PortNums
  <2>. QED
    BY <2>1, RecordLines
<1>3. <<>> \in Good[0]
  <2>1. <<>> \in Seq(Lines) /\ Headers(<<>>) = {}
    BY DEF Headers
  <2>2. <<>> \in GoodListing(0)
    <3>1. \A p \in PortNums : ~(p < 0)
      BY DEF PortNums
    <3>. QED
      BY <2>1, <3>1 DEF GoodListing, Whole, InUseOnly
  <2>. QED
    BY <1>1, <2>2
<1>4. ASSUME NEW i \in 1..n, NEW s \in Seq(Lines), s \in Good[i - 1]
      PROVE  s \o seqs[i] \in Good[i]
  <2>1. i - 1 \in PortNums /\ i - 1 \in 0..n /\ i \in 0..n /\ (i - 1) + 1 = i
    BY PortListingAssumption DEF PortListingAssumption, PortNums
  <2>2. s \in GoodListing(i - 1)
    BY <1>4, <2>1
  <2>3. s \o Record(i - 1, tail) \in GoodListing((i - 1) + 1)
    BY <2>1, <2>2, NextRecord
  <2>. QED
    BY <2>1, <2>3
<1>5. rest \in GoodListing(n)
  <2>1. rest \in Good[n]
    <3>. HIDE DEF seqs, Good, n
    <3>. QED
      BY <1>1, <1>2, <1>3, <1>4, FlattenInduction
  <2>. QED
    BY <1>1, <2>1
<1>. HIDE DEF rest
<1>6. rest \in Seq(Lines) /\ title \in Seq(Lines) /\ Headers(title) = {} /\ Len(title) = 1
  <2>1. Line("title", None, None) \in Lines /\ Line("title", None, None).kind # "header"
    BY LineFields DEF Lines, Kinds
  <2>2. DOMAIN title = {1} /\ title[1] = Line("title", None, None)
    OBVIOUS
  <2>. QED
    BY <1>5, <2>1, <2>2 DEF GoodListing, Headers
<1>. HIDE DEF title
<1>. DEFINE t == title \o rest
<1>7. /\ t \in Seq(Lines) /\ DOMAIN rest = 1..Len(rest)
      /\ \A k \in DOMAIN rest : t[k + 1] = rest[k]
      /\ Headers(t) = {k + 1 : k \in Headers(rest)}
  <2>1. /\ t \in Seq(Lines) /\ DOMAIN rest = 1..Len(rest)
        /\ \A k \in DOMAIN rest : t[k + Len(title)] = rest[k]
        /\ Headers(t) = Headers(title) \cup {k + Len(title) : k \in Headers(rest)}
    BY <1>6, ConcatLines
  <2>2. Len(title) = 1 /\ Headers(title) = {}
    BY <1>6
  <2>. HIDE DEF t
  <2>3. Headers(t) = {} \cup {k + 1 : k \in Headers(rest)}
    BY <2>1, <2>2
  <2>. QED
    BY <2>1, <2>2, <2>3
<1>8. Whole(t)
  BY <1>5, <1>6, ConcatWhole DEF Whole, GoodListing
<1>. HIDE DEF t
<1>9. ASSUME NEW l \in Headers(t)
      PROVE  /\ l - 1 \in Headers(rest) /\ t[l] = rest[l - 1] /\ l \in Int
  <2>1. PICK k \in Headers(rest) : l = k + 1
    BY <1>7
  <2>2. k \in DOMAIN rest /\ k \in Int
    BY <1>6, <1>7 DEF Headers
  <2>3. l - 1 = k
    BY <2>1, <2>2
  <2>. QED
    BY <1>7, <2>1, <2>2, <2>3
<1>10. ASSUME ~free
       PROVE  /\ InUseOnly(t)
              /\ \A k \in Headers(t) : t[k].port < n
              /\ \A q \in PortNums : q < n /\ vhci[q] # None => Names(t, q)
  <2>1. /\ InUseOnly(rest)
        /\ \A k \in Headers(rest) : rest[k].port < n
        /\ \A q \in PortNums : q < n /\ vhci[q] # None => Names(rest, q)
    BY <1>5, <1>10 DEF GoodListing
  <2>2. InUseOnly(t)
    <3>1. ASSUME NEW k \in Headers(t), NEW l \in Headers(t), k < l PROVE k - 1 < l - 1
      BY <1>9, <3>1
    <3>. QED
      BY <1>9, <2>1, <3>1 DEF InUseOnly
  <2>3. ASSUME NEW q \in PortNums, q < n, vhci[q] # None PROVE Names(t, q)
    <3>1. PICK k \in Headers(rest) : rest[k].port = q
      BY <2>1, <2>3 DEF Names
    <3>2. k \in DOMAIN rest /\ k + 1 \in Headers(t)
      BY <1>7 DEF Headers
    <3>. QED
      BY <1>7, <3>1, <3>2 DEF Names
  <2>. QED
    BY <1>9, <2>1, <2>2, <2>3
<1>11. t \in GoodListing(n)
  BY <1>7, <1>8, <1>10 DEF GoodListing
<1>. QED
  BY <1>11 DEF t, title, rest, Listing
-----------------------------------------------------------------------------
(***************************************************************************)
(* The parser.                                                             *)
(***************************************************************************)

\* What was read and mapped so far is right.
Right ==
  /\ VhciType /\ lines \in Seq(Lines) /\ ports \in Seq(Records)
  /\ map \in [Busids -> PortNums \cup {None}]
  /\ Whole(lines)
  /\ \A j \in DOMAIN ports :
       ports[j].inUse /\ ports[j].bus # None => ports[j].bus = vhci[ports[j].port]
  /\ NamesNoWrongPort

\* In a listing of the ports in use, what is mapped, read and still to be read
\* follow each other by port, and each port in use is in one of the three, or
\* another port of its busid took its place in the map.
Complete ==
  /\ InUseOnly(lines)
  /\ \A j \in DOMAIN ports :
       /\ ports[j].inUse /\ ports[j].bus # None
       /\ \A i \in DOMAIN ports : j < i => ports[j].port < ports[i].port
       /\ \A k \in Headers(lines) : ports[j].port < lines[k].port
  /\ \A b \in Busids : map[b] # None =>
       /\ \A j \in DOMAIN ports : map[b] < ports[j].port
       /\ \A k \in Headers(lines) : map[b] < lines[k].port
  /\ \A p \in PortNums : vhci[p] # None =>
       \/ Names(lines, p)
       \/ \E j \in DOMAIN ports : ports[j].port = p
       \/ map[vhci[p]] # None /\ p <= map[vhci[p]]

PInv == Right /\ (~free => Complete)

LEMMA InitPInv == Init => PInv
<1>. SUFFICES ASSUME Init PROVE PInv
  OBVIOUS
<1>1. VhciType /\ ports = <<>> /\ map = [b \in Busids |-> None]
  BY DEF Init, VhciType
<1>2. lines \in GoodListing(LastPort + 1)
  BY <1>1, ListingGood DEF Init
<1>3. lines \in Seq(Lines) /\ Whole(lines) /\ ports \in Seq(Records) /\ DOMAIN ports = {}
  BY <1>1, <1>2 DEF GoodListing
<1>4. map \in [Busids -> PortNums \cup {None}] /\ \A b \in Busids : map[b] = None
  BY <1>1
<1>5. Right
  BY <1>1, <1>3, <1>4 DEF Right, NamesNoWrongPort
<1>6. ASSUME ~free PROVE Complete
  <2>1. InUseOnly(lines) /\ \A p \in PortNums : p < LastPort + 1 /\ vhci[p] # None => Names(lines, p)
    BY <1>2, <1>6 DEF GoodListing
  <2>2. \A p \in PortNums : p < LastPort + 1
    BY PortListingAssumption DEF PortListingAssumption, PortNums
  <2>. QED
    BY <1>3, <1>4, <2>1, <2>2 DEF Complete
<1>. QED
  BY <1>5, <1>6 DEF PInv

\* A suffix of the lines that loses no header that is needed.
LEMMA CutLines ==
  ASSUME NEW s \in Seq(Lines), NEW r \in Seq(Lines), NEW n \in Nat,
         DOMAIN r = {k \in Nat : k > 0 /\ k + n \in DOMAIN s},
         \A k \in DOMAIN r : r[k] = s[k + n]
  PROVE  /\ \A k \in Headers(r) : k \in Nat /\ k + n \in Headers(s) /\ r[k] = s[k + n]
         /\ \A k \in Headers(s) : k > n => k - n \in Headers(r) /\ r[k - n] = s[k]
         /\ Whole(s) => Whole(r)
         /\ InUseOnly(s) => InUseOnly(r)
<1>1. ASSUME NEW k \in Headers(r) PROVE k \in Nat /\ k + n \in Headers(s) /\ r[k] = s[k + n]
  BY DEF Headers
<1>2. ASSUME NEW k \in Headers(s), k > n PROVE k - n \in Headers(r) /\ r[k - n] = s[k]
  <2>1. k \in Nat /\ k \in DOMAIN s
    BY DEF Headers
  <2>2. k - n \in Nat /\ k - n > 0 /\ (k - n) + n = k
    BY <1>2, <2>1
  <2>3. k - n \in DOMAIN r
    BY <2>1, <2>2
  <2>. QED
    BY <2>2, <2>3 DEF Headers
<1>3. ASSUME Whole(s) PROVE Whole(r)
  <2>. SUFFICES ASSUME NEW k \in Headers(r)
                PROVE  /\ r[k].port \in PortNums /\ r[k].bus = vhci[r[k].port]
                       /\ r[k].bus # None =>
                            /\ k + 2 \in DOMAIN r /\ r[k + 1].kind = "product"
                            /\ r[k + 2] = Line("remote", r[k].port, r[k].bus)
    BY DEF Whole
  <2>1. k \in Nat /\ k + n \in Headers(s) /\ k + n \in DOMAIN s /\ r[k] = s[k + n]
    BY <1>1 DEF Headers
  <2>2. ASSUME r[k].bus # None
        PROVE  /\ k + 2 \in DOMAIN r /\ r[k + 1].kind = "product"
               /\ r[k + 2] = Line("remote", r[k].port, r[k].bus)
    <3>1. /\ (k + n) + 2 \in DOMAIN s /\ s[(k + n) + 1].kind = "product"
          /\ s[(k + n) + 2] = Line("remote", r[k].port, r[k].bus)
      BY <1>3, <2>1, <2>2 DEF Whole
    <3>2. (k + n) + 1 = (k + 1) + n /\ (k + n) + 2 = (k + 2) + n /\ k + 1 \in Nat /\ k + 2 \in Nat
          /\ k + 1 > 0 /\ k + 2 > 0
      BY <2>1
    <3>3. (k + n) + 1 \in DOMAIN s
      BY <2>1, <3>1
    <3>4. k + 1 \in DOMAIN r /\ k + 2 \in DOMAIN r
      BY <3>1, <3>2, <3>3
    <3>. QED
      BY <3>1, <3>2, <3>4
  <2>. QED
    BY <1>3, <2>1, <2>2 DEF Whole
<1>4. ASSUME InUseOnly(s) PROVE InUseOnly(r)
  BY <1>1, <1>4 DEF InUseOnly
<1>. QED
  BY <1>1, <1>2, <1>3, <1>4

LEMMA SkipPInv == ASSUME PInv, SkipLine PROVE PInv'
<1>1. /\ lines \in Seq(Lines) /\ lines # <<>> /\ lines[1].kind # "header"
      /\ lines' = Tail(lines) /\ UNCHANGED <<vhci, free, ports, map>>
  BY DEF SkipLine, PInv, Right
<1>2. /\ lines' \in Seq(Lines) /\ DOMAIN lines' = {k \in Nat : k > 0 /\ k + 1 \in DOMAIN lines}
      /\ \A k \in DOMAIN lines' : lines'[k] = lines[k + 1]
  BY <1>1
<1>3. /\ \A k \in Headers(lines') : k \in Nat /\ k + 1 \in Headers(lines) /\ lines'[k] = lines[k + 1]
      /\ \A k \in Headers(lines) : k > 1 => k - 1 \in Headers(lines') /\ lines'[k - 1] = lines[k]
      /\ Whole(lines) => Whole(lines')
      /\ InUseOnly(lines) => InUseOnly(lines')
  <2>1. 1 \in Nat /\ lines \in Seq(Lines) /\ lines' \in Seq(Lines)
    BY <1>1, <1>2
  <2>. QED
    BY <1>2, <2>1, CutLines, Zenon
<1>4. Right'
  BY <1>1, <1>2, <1>3 DEF PInv, Right, VhciType, Whole, NamesNoWrongPort
<1>5. ASSUME ~free PROVE Complete'
  <2>1. Complete
    BY <1>5 DEF PInv
  <2>2. ASSUME NEW p \in PortNums, Names(lines, p) PROVE Names(lines', p)
    <3>1. PICK k \in Headers(lines) : lines[k].port = p
      BY <2>2 DEF Names
    <3>2. k > 1
      BY <1>1, <3>1 DEF Headers
    <3>. QED
      BY <1>3, <3>1, <3>2 DEF Names
  <2>3. InUseOnly(lines')
    BY <1>3, <2>1 DEF Complete
  <2>. QED
    BY <1>1, <1>3, <2>1, <2>2, <2>3 DEF Complete, InUseOnly, Names, Headers
<1>. QED
  BY <1>1, <1>4, <1>5 DEF PInv

LEMMA ReadPInv == ASSUME PInv, ReadRecord PROVE PInv'
<1>. DEFINE h == lines[1]
            remote == IF Len(lines) >= 3 THEN lines[3] ELSE Blank
            rec == [port |-> h.port, inUse |-> h.bus # None, bus |-> RemoteBusid(remote)]
            n == Len(ports) + 1
<1>1. /\ lines \in Seq(Lines) /\ lines # <<>> /\ ports \in Seq(Records)
      /\ h.kind = "header" /\ 1 \in Headers(lines)
      /\ ports' = Append(ports, rec) /\ lines' = SubSeq(lines, 4, Len(lines))
      /\ UNCHANGED <<vhci, free, map>>
  BY DEF ReadRecord, PInv, Right, Headers
<1>2. /\ lines' \in Seq(Lines) /\ DOMAIN lines' = {k \in Nat : k > 0 /\ k + 3 \in DOMAIN lines}
      /\ \A k \in DOMAIN lines' : lines'[k] = lines[k + 3]
  <2>1. Len(lines) \in Nat /\ DOMAIN lines = 1..Len(lines)
    BY <1>1
  <2>2. Len(lines') = IF 4 <= Len(lines) THEN Len(lines) - 3 ELSE 0
    BY <1>1, <2>1
  <2>3. lines' \in Seq(Lines) /\ DOMAIN lines' = 1..Len(lines')
        /\ \A k \in 1..Len(lines') : lines'[k] = lines[k + 3]
    BY <1>1, <2>1, <2>2
  <2>4. 1..Len(lines') = {k \in Nat : k > 0 /\ k + 3 \in 1..Len(lines)}
    <3>1. CASE 4 <= Len(lines)
      <4>1. Len(lines') = Len(lines) - 3
        BY <2>2, <3>1
      <4>. QED
        BY <2>1, <4>1
    <3>2. CASE ~(4 <= Len(lines))
      <4>1. Len(lines') = 0
        BY <2>2, <3>2
      <4>. QED
        BY <2>1, <3>2, <4>1
    <3>. QED
      BY <3>1, <3>2
  <2>. QED
    BY <2>1, <2>3, <2>4
<1>3. /\ \A k \in Headers(lines') : k \in Nat /\ k + 3 \in Headers(lines) /\ lines'[k] = lines[k + 3]
      /\ \A k \in Headers(lines) : k > 3 => k - 3 \in Headers(lines') /\ lines'[k - 3] = lines[k]
      /\ Whole(lines) => Whole(lines')
      /\ InUseOnly(lines) => InUseOnly(lines')
  <2>1. 3 \in Nat /\ lines \in Seq(Lines) /\ lines' \in Seq(Lines)
    BY <1>1, <1>2
  <2>. QED
    BY <1>2, <2>1, CutLines, Zenon
<1>4. /\ h.port \in PortNums /\ h.bus = vhci[h.port]
      /\ h.bus # None => /\ 3 \in DOMAIN lines /\ lines[2].kind = "product"
                         /\ lines[3] = Line("remote", h.port, h.bus)
  BY <1>1 DEF PInv, Right, Whole
<1>5. h.bus # None => RemoteBusid(remote) = h.bus
  <2>. SUFFICES ASSUME h.bus # None PROVE RemoteBusid(remote) = h.bus
    OBVIOUS
  <2>1. remote = Line("remote", h.port, h.bus)
    BY <1>1, <1>4
  <2>. HIDE DEF remote
  <2>. QED
    BY <2>1, LineFields DEF RemoteBusid
<1>6. RemoteBusid(remote) \in Busids \cup {None}
  <2>1. ASSUME NEW l \in Lines PROVE l.bus \in Busids \cup {None}
    BY LineFields DEF Lines
  <2>2. Len(lines) >= 3 => lines[3] \in Lines
    BY <1>1
  <2>. QED
    BY <2>1, <2>2, LineFields DEF RemoteBusid, Blank
<1>. HIDE DEF remote
<1>7. rec \in Records /\ rec.port = h.port /\ (rec.inUse <=> h.bus # None)
      /\ rec.bus = RemoteBusid(remote)
  BY <1>4, <1>6 DEF Records
<1>. HIDE DEF rec, h
<1>8. /\ ports' \in Seq(Records) /\ n \in Nat /\ DOMAIN ports = 1..(n - 1)
      /\ DOMAIN ports' = 1..n /\ ports'[n] = rec
      /\ \A j \in DOMAIN ports : j \in Nat /\ j < n /\ j \in DOMAIN ports' /\ ports'[j] = ports[j]
      /\ \A j \in DOMAIN ports' : j \notin DOMAIN ports => j = n
      /\ n \in DOMAIN ports'
  BY <1>1, <1>7
<1>. HIDE DEF n
<1>9. Right'
  <2>1. ASSUME NEW j \in DOMAIN ports', ports'[j].inUse, ports'[j].bus # None
        PROVE  ports'[j].bus = vhci[ports'[j].port]
    BY <1>4, <1>5, <1>7, <1>8, <2>1 DEF PInv, Right
  <2>2. Whole(lines')
    BY <1>3 DEF PInv, Right
  <2>3. Whole(lines)'
    BY <1>1, <2>2 DEF Whole, Headers
  <2>. QED
    BY <1>1, <1>2, <1>8, <2>1, <2>3 DEF PInv, Right, VhciType, NamesNoWrongPort
<1>10. ASSUME ~free PROVE Complete'
  <2>1. Complete
    BY <1>10 DEF PInv
  <2>2. h.bus # None
    BY <1>1, <2>1 DEF Complete, InUseOnly, h
  <2>3. \A k \in Headers(lines) : k = 1 \/ k > 3
    <3>1. /\ lines[2].kind # "header" /\ lines[3].kind # "header"
          /\ DOMAIN lines = 1..Len(lines) /\ Len(lines) \in Nat
      BY <1>1, <1>4, <2>2, LineFields
    <3>. QED
      BY <3>1 DEF Headers
  <2>4. rec.inUse /\ rec.bus # None /\ rec.port = h.port
    BY <1>5, <1>7, <2>2
  <2>5. ASSUME NEW k \in Headers(lines') PROVE rec.port < lines'[k].port
    <3>1. k + 3 \in Headers(lines) /\ lines'[k] = lines[k + 3] /\ 1 < k + 3
      BY <1>3
    <3>. QED
      BY <1>1, <2>1, <2>4, <3>1 DEF Complete, InUseOnly, h
  <2>6. ASSUME NEW j \in DOMAIN ports
        PROVE  /\ ports[j].port < rec.port
               /\ \A k \in Headers(lines') : ports[j].port < lines'[k].port
    BY <1>1, <1>3, <2>1, <2>4 DEF Complete, h
  <2>7. ASSUME NEW j \in DOMAIN ports'
        PROVE  /\ ports'[j].inUse /\ ports'[j].bus # None
               /\ \A i \in DOMAIN ports' : j < i => ports'[j].port < ports'[i].port
               /\ \A k \in Headers(lines') : ports'[j].port < lines'[k].port
    <3>1. CASE j \in DOMAIN ports
      BY <1>8, <2>1, <2>6, <3>1 DEF Complete
    <3>2. CASE j = n
      <4>1. \A i \in DOMAIN ports' : ~(n < i)
        BY <1>8
      <4>. QED
        BY <1>8, <2>4, <2>5, <3>2, <4>1
    <3>. QED
      BY <1>8, <3>1, <3>2
  <2>8. ASSUME NEW b \in Busids, map[b] # None
        PROVE  /\ \A j \in DOMAIN ports' : map[b] < ports'[j].port
               /\ \A k \in Headers(lines') : map[b] < lines'[k].port
    <3>1. map[b] < rec.port
      BY <1>1, <2>1, <2>4, <2>8 DEF Complete, h
    <3>. QED
      BY <1>3, <1>8, <2>1, <2>8, <3>1 DEF Complete
  <2>9. ASSUME NEW p \in PortNums, vhci[p] # None
        PROVE  \/ Names(lines', p)
               \/ \E j \in DOMAIN ports' : ports'[j].port = p
               \/ map[vhci[p]] # None /\ p <= map[vhci[p]]
    <3>1. CASE Names(lines, p)
      <4>1. PICK k \in Headers(lines) : lines[k].port = p
        BY <3>1 DEF Names
      <4>2. CASE k = 1
        BY <1>8, <2>4, <4>1, <4>2 DEF h
      <4>3. CASE k > 3
        BY <1>3, <4>1, <4>3 DEF Names
      <4>. QED
        BY <2>3, <4>2, <4>3
    <3>. QED
      BY <1>8, <2>1, <2>9, <3>1 DEF Complete
  <2>10. InUseOnly(lines')
    BY <1>3, <2>1 DEF Complete
  <2>11. InUseOnly(lines)'
    BY <2>10 DEF InUseOnly, Headers
  <2>. QED
    BY <1>1, <2>7, <2>8, <2>9, <2>11 DEF Complete, Names, Headers
<1>. QED
  BY <1>1, <1>9, <1>10 DEF PInv

LEMMA CollectPInv == ASSUME PInv, Collect PROVE PInv'
<1>. DEFINE r == ports[1]
<1>1. /\ ports \in Seq(Records) /\ ports # <<>> /\ 1 \in DOMAIN ports /\ r \in Records
      /\ ports' = Tail(ports) /\ UNCHANGED <<vhci, free, lines>>
      /\ map \in [Busids -> PortNums \cup {None}]
      /\ map' = IF r.inUse /\ r.bus # None THEN [map EXCEPT ![r.bus] = r.port] ELSE map
  <2>1. ports \in Seq(Records) /\ ports # <<>> /\ map \in [Busids -> PortNums \cup {None}]
    BY DEF Collect, PInv, Right
  <2>2. 1 \in DOMAIN ports /\ r \in Records /\ Head(ports) = r
    BY <2>1
  <2>. HIDE DEF r
  <2>3. map' = IF r.inUse /\ r.bus # None THEN [map EXCEPT ![r.bus] = r.port] ELSE map
    BY <2>2, Zenon DEF Collect
  <2>. QED
    BY <2>1, <2>2, <2>3 DEF Collect
<1>2. r.port \in PortNums /\ r.bus \in Busids \cup {None}
  BY <1>1 DEF Records
<1>3. /\ ports' \in Seq(Records)
      /\ \A j \in DOMAIN ports' : j \in Nat /\ j + 1 \in DOMAIN ports /\ 1 < j + 1
                                  /\ ports'[j] = ports[j + 1]
      /\ \A j \in DOMAIN ports : j = 1 \/ (j - 1 \in DOMAIN ports' /\ ports'[j - 1] = ports[j])
  BY <1>1
<1>4. r.inUse /\ r.bus # None => r.bus = vhci[r.port] /\ r.bus \in Busids
  BY <1>1, <1>2 DEF PInv, Right
<1>5. map' \in [Busids -> PortNums \cup {None}]
      /\ \A b \in Busids : map'[b] = IF r.inUse /\ r.bus = b /\ b # None THEN r.port ELSE map[b]
  BY <1>1, <1>2, <1>4
<1>. HIDE DEF r
<1>6. Right'
  <2>1. NamesNoWrongPort'
    BY <1>1, <1>4, <1>5 DEF PInv, Right, NamesNoWrongPort
  <2>. QED
    BY <1>1, <1>3, <1>5, <2>1 DEF PInv, Right, VhciType, Whole, Headers
<1>7. ASSUME ~free PROVE Complete'
  <2>1. Complete
    BY <1>7 DEF PInv
  <2>2. /\ r.inUse /\ r.bus # None
        /\ \A i \in DOMAIN ports : 1 < i => r.port < ports[i].port
        /\ \A k \in Headers(lines) : r.port < lines[k].port
    BY <1>1, <2>1 DEF Complete, r
  <2>3. \A b \in Busids : map'[b] = IF r.bus = b THEN r.port ELSE map[b]
    BY <1>5, <2>2
  <2>4. ASSUME NEW b \in Busids, map'[b] # None
        PROVE  /\ \A j \in DOMAIN ports' : map'[b] < ports'[j].port
               /\ \A k \in Headers(lines) : map'[b] < lines[k].port
    <3>1. CASE r.bus = b
      BY <1>3, <2>2, <2>3, <3>1
    <3>2. CASE r.bus # b
      BY <1>3, <2>1, <2>3, <2>4, <3>2 DEF Complete
    <3>. QED
      BY <3>1, <3>2
  <2>5. ASSUME NEW p \in PortNums, vhci[p] # None
        PROVE  \/ Names(lines, p)
               \/ \E j \in DOMAIN ports' : ports'[j].port = p
               \/ map'[vhci[p]] # None /\ p <= map'[vhci[p]]
    <3>1. vhci[p] \in Busids
      BY <2>5 DEF PInv, Right, VhciType
    <3>2. CASE r.port = p
      <4>1. map'[vhci[p]] = p
        BY <1>4, <2>2, <2>3, <3>1, <3>2
      <4>. QED
        BY <4>1, PortListingAssumption DEF PortListingAssumption, PortNums
    <3>3. CASE map[vhci[p]] # None /\ p <= map[vhci[p]]
      <4>1. r.bus = vhci[p] => map[vhci[p]] < r.port
        BY <1>1, <2>1, <3>1, <3>3 DEF Complete, r
      <4>2. r.port # None /\ p \in Int /\ r.port \in Int
            /\ map[vhci[p]] \in Int
        BY <1>1, <1>2, <3>1, <3>3, PortListingAssumption DEF PortListingAssumption, PortNums
      <4>. QED
        BY <2>3, <3>1, <3>3, <4>1, <4>2
    <3>4. CASE \E j \in DOMAIN ports : ports[j].port = p
      BY <1>3, <3>2, <3>4 DEF r
    <3>. QED
      BY <2>1, <2>5, <3>2, <3>3, <3>4 DEF Complete
  <2>6. ASSUME NEW j \in DOMAIN ports'
        PROVE  /\ ports'[j].inUse /\ ports'[j].bus # None
               /\ \A i \in DOMAIN ports' : j < i => ports'[j].port < ports'[i].port
               /\ \A k \in Headers(lines) : ports'[j].port < lines[k].port
    <3>1. j + 1 \in DOMAIN ports /\ ports'[j] = ports[j + 1]
      BY <1>3
    <3>2. /\ ports[j + 1].inUse /\ ports[j + 1].bus # None
          /\ \A k \in Headers(lines) : ports[j + 1].port < lines[k].port
      BY <2>1, <3>1, Zenon DEF Complete
    <3>3. ASSUME NEW i \in DOMAIN ports', j < i PROVE ports'[j].port < ports'[i].port
      <4>1. i + 1 \in DOMAIN ports /\ ports'[i] = ports[i + 1] /\ j + 1 < i + 1
        BY <1>3, <3>3
      <4>. QED
        BY <2>1, <3>1, <4>1, Zenon DEF Complete
    <3>. QED
      BY <3>1, <3>2, <3>3, Zenon
  <2>7. InUseOnly(lines)' /\ Headers(lines)' = Headers(lines)
        /\ \A p : Names(lines, p)' <=> Names(lines, p)
    BY <1>1, <2>1 DEF Complete, InUseOnly, Headers, Names
  <2>. QED
    BY <1>1, <2>4, <2>5, <2>6, <2>7 DEF Complete
<1>. QED
  BY <1>1, <1>6, <1>7 DEF PInv

LEMMA ParsesRight == Spec => []PInv
<1>1. PInv /\ [Next]_vars => PInv'
  <2>1. ASSUME PInv, UNCHANGED vars PROVE PInv'
    BY <2>1 DEF vars, PInv, Right, Complete, VhciType, Whole, InUseOnly, Names, Headers,
                NamesNoWrongPort
  <2>. QED
    BY <2>1, SkipPInv, ReadPInv, CollectPInv DEF Next
<1>. QED
  BY <1>1, InitPInv, PTL DEF Spec

\* However the listing is cut, also where it has records of free ports, no
\* busid is mapped to a port where another one, or none, is imported.
THEOREM NoWrongPort == Spec => []NamesNoWrongPort
BY ParsesRight, PTL DEF PInv, Right

\* In a listing of the ports in use no device is missed, and of several ports
\* of a busid the highest is in the map.
THEOREM AllPortsMapped == Spec => []MapsPortsInUse
<1>1. PInv => MapsPortsInUse
  <2>. SUFFICES ASSUME PInv, ~free, lines = <<>>, ports = <<>>, NEW b \in Busids
                PROVE  IF Attached(b) = {} THEN map[b] = None
                       ELSE map[b] \in Attached(b) /\ \A q \in Attached(b) : q <= map[b]
    BY DEF MapsPortsInUse
  <2>1. b # None /\ map[b] \in PortNums \cup {None} /\ (map[b] # None => vhci[map[b]] = b)
    BY PortListingAssumption DEF PortListingAssumption, PInv, Right, NamesNoWrongPort
  <2>2. ASSUME NEW q \in Attached(b) PROVE map[b] # None /\ q <= map[b]
    <3>1. ~Names(lines, q) /\ DOMAIN ports = {}
      BY DEF Names, Headers
    <3>. QED
      BY <2>1, <3>1 DEF Attached, PInv, Complete
  <2>. QED
    BY <2>1, <2>2 DEF Attached
<1>. QED
  BY <1>1, ParsesRight, PTL
=============================================================================
