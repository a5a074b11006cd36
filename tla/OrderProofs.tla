---------------------------- MODULE OrderProofs -----------------------------
(***************************************************************************)
(* The control plane implements CommandOrder, for any number of clients    *)
(* and connections and for queues of any length.                           *)
(***************************************************************************)
EXTENDS ControlPlaneOrder, QueueProofs, InductionProofs

\* What client c has unread on connection i, and on those in q one by one.
Part(c, cn, i) == IF cn[i].cl = c THEN cn[i].c2s ELSE <<>>
Parts(c, cn, q) == [k \in DOMAIN q |-> Part(c, cn, q[k])]
Stream(c, cn, q) == FlattenSeq(Parts(c, cn, q))

Doing == IF msg = None THEN None ELSE <<conn[cur].cl, msg>>

Typed(cn) == \A i \in Conns : cn[i] \in Slots

LEMMA StreamParts ==
  ASSUME NEW c, NEW cn, Typed(cn), NEW q \in Seq(Conns)
  PROVE  /\ Len(q) \in Nat /\ DOMAIN q = 1..Len(q)
         /\ Parts(c, cn, q) \in [1..Len(q) -> Seq(Msgs)]
         /\ \A k \in DOMAIN q : Parts(c, cn, q)[k] = Part(c, cn, q[k])
         /\ Stream(c, cn, q) \in Seq(Msgs)
<1>1. Len(q) \in Nat /\ DOMAIN q = 1..Len(q)
  OBVIOUS
<1>2. ASSUME NEW k \in 1..Len(q) PROVE Part(c, cn, q[k]) \in Seq(Msgs)
  <2>1. cn[q[k]] \in Slots
    BY DEF Typed
  <2>2. cn[q[k]].c2s \in Seq(Msgs) /\ <<>> \in Seq(Msgs)
    BY <2>1 DEF Slots
  <2>. QED
    BY <2>2 DEF Part
<1>3. /\ Parts(c, cn, q) \in [1..Len(q) -> Seq(Msgs)]
      /\ \A k \in DOMAIN q : Parts(c, cn, q)[k] = Part(c, cn, q[k])
  BY <1>1, <1>2 DEF Parts
<1>4. Stream(c, cn, q) \in Seq(Msgs)
  BY <1>1, <1>3, FlattenType DEF Stream
<1>. QED
  BY <1>1, <1>3, <1>4

LEMMA SameStream ==
  ASSUME NEW c, NEW cn, NEW cm, NEW q,
         \A k \in DOMAIN q : Part(c, cm, q[k]) = Part(c, cn, q[k])
  PROVE  Stream(c, cm, q) = Stream(c, cn, q)
<1>1. Parts(c, cm, q) = Parts(c, cn, q)
  BY DEF Parts
<1>. QED
  BY <1>1 DEF Stream

LEMMA StreamNone == ASSUME NEW c, NEW cn PROVE Stream(c, cn, <<>>) = <<>>
<1>1. Parts(c, cn, <<>>) \in [1..0 -> Seq(Msgs)]
  BY DEF Parts
<1>2. 0 \in Nat /\ \A i \in 1..0 : FALSE
  OBVIOUS
<1>. QED
  BY <1>1, <1>2, FlattenNone DEF Stream

LEMMA StreamFirst ==
  ASSUME NEW c, NEW cn, Typed(cn), NEW q \in Seq(Conns), NEW i \in Conns
  PROVE  Stream(c, cn, <<i>> \o q) = Part(c, cn, i) \o Stream(c, cn, q)
<1>. DEFINE r == <<i>> \o q
            n == Len(q)
            seqs == Parts(c, cn, q)
            more == Parts(c, cn, r)
<1>1. /\ n \in Nat /\ r \in Seq(Conns) /\ Len(r) = n + 1 /\ r[1] = i
      /\ \A k \in 1..n : r[k + 1] = q[k]
      /\ 1 \in 1..(n + 1) /\ \A k \in 1..n : k + 1 \in 1..(n + 1)
  OBVIOUS
<1>. HIDE DEF r
<1>2. /\ DOMAIN q = 1..n /\ seqs \in [1..n -> Seq(Msgs)]
      /\ \A k \in DOMAIN q : seqs[k] = Part(c, cn, q[k])
  BY StreamParts
<1>3. /\ DOMAIN r = 1..Len(r) /\ more \in [1..Len(r) -> Seq(Msgs)]
      /\ \A k \in DOMAIN r : more[k] = Part(c, cn, r[k])
  BY <1>1, StreamParts
<1>. HIDE DEF seqs, more, n
<1>4. \A k \in 1..n : more[k + 1] = seqs[k]
  BY <1>1, <1>2, <1>3
<1>5. more[1] = Part(c, cn, i) /\ more \in [1..(n + 1) -> Seq(Msgs)]
  BY <1>1, <1>3
<1>6. FlattenSeq(more) = more[1] \o FlattenSeq(seqs)
  BY <1>1, <1>2, <1>4, <1>5, FlattenFirst
<1>. QED
  BY <1>5, <1>6, Zenon DEF Stream, seqs, more, r

LEMMA StreamLast ==
  ASSUME NEW c, NEW cn, Typed(cn), NEW q \in Seq(Conns), NEW i \in Conns
  PROVE  Stream(c, cn, Append(q, i)) = Stream(c, cn, q) \o Part(c, cn, i)
<1>. DEFINE r == Append(q, i)
            n == Len(q)
            seqs == Parts(c, cn, q)
            more == Parts(c, cn, r)
<1>1. /\ n \in Nat /\ r \in Seq(Conns) /\ Len(r) = n + 1 /\ r[n + 1] = i
      /\ \A k \in 1..n : r[k] = q[k]
      /\ n + 1 \in 1..(n + 1) /\ \A k \in 1..n : k \in 1..(n + 1)
  OBVIOUS
<1>. HIDE DEF r
<1>2. /\ DOMAIN q = 1..n /\ seqs \in [1..n -> Seq(Msgs)]
      /\ \A k \in DOMAIN q : seqs[k] = Part(c, cn, q[k])
  BY StreamParts
<1>3. /\ DOMAIN r = 1..Len(r) /\ more \in [1..Len(r) -> Seq(Msgs)]
      /\ \A k \in DOMAIN r : more[k] = Part(c, cn, r[k])
  BY <1>1, StreamParts
<1>. HIDE DEF seqs, more, n
<1>4. \A k \in 1..n : more[k] = seqs[k]
  BY <1>1, <1>2, <1>3
<1>5. more[n + 1] = Part(c, cn, i) /\ more \in [1..(n + 1) -> Seq(Msgs)]
  BY <1>1, <1>3
<1>6. FlattenSeq(more) = FlattenSeq(seqs) \o more[n + 1]
  BY <1>1, <1>2, <1>4, <1>5, FlattenLast
<1>. QED
  BY <1>5, <1>6, Zenon DEF Stream, seqs, more, r

\* A request written on the connection of the client that is served last.
LEMMA StreamSent ==
  ASSUME NEW c, NEW cn, NEW cm, Typed(cn), Typed(cm), NEW q \in Seq(Conns),
         NEW k \in DOMAIN q, NEW m \in Msgs,
         Part(c, cm, q[k]) = Append(Part(c, cn, q[k]), m),
         \A j \in DOMAIN q : j # k => Part(c, cm, q[j]) = Part(c, cn, q[j]),
         \A j \in DOMAIN q : k < j => Part(c, cn, q[j]) = <<>>
  PROVE  Stream(c, cm, q) = Append(Stream(c, cn, q), m)
<1>. DEFINE n == Len(q)
            seqs == Parts(c, cn, q)
            more == Parts(c, cm, q)
<1>1. /\ n \in Nat /\ DOMAIN q = 1..n /\ seqs \in [1..n -> Seq(Msgs)]
      /\ \A j \in DOMAIN q : seqs[j] = Part(c, cn, q[j])
  BY StreamParts
<1>2. /\ more \in [1..n -> Seq(Msgs)]
      /\ \A j \in DOMAIN q : more[j] = Part(c, cm, q[j])
  BY StreamParts
<1>. HIDE DEF seqs, more, n
<1>3. /\ k \in 1..n /\ more[k] = Append(seqs[k], m)
      /\ \A j \in 1..n : j # k => more[j] = seqs[j]
      /\ \A j \in 1..n : k < j => seqs[j] = <<>>
  BY <1>1, <1>2
<1>4. FlattenSeq(more) = Append(FlattenSeq(seqs), m)
  BY <1>1, <1>2, <1>3, FlattenAppend
<1>. QED
  BY <1>4, Zenon DEF Stream, seqs, more
-----------------------------------------------------------------------------
(***************************************************************************)
(* Steps of CommandOrder, in terms of the control plane.                   *)
(***************************************************************************)
LEMMA Stutters ==
  ASSUME \A c \in Clients : Unserved(c)' = Unserved(c), Doing' = Doing
  PROVE  UNCHANGED Order!vars
BY DEF Order!vars, Doing

LEMMA Loses ==
  ASSUME \A c \in Clients : IsSuffix(Unserved(c)', Unserved(c)), Doing' \in {Doing, None}
  PROVE  Order!Next
<1>1. \A s, t : IsSuffix(s, t) => Order!IsSuffix(s, t)
  BY DEF IsSuffix, IsPrefix, Reverse, Order!IsSuffix, Order!IsPrefix, Order!Reverse
<1>2. Order!Lose
  BY <1>1 DEF Order!Lose, Doing
<1>. QED
  BY <1>2 DEF Order!Next

LEMMA Takes ==
  ASSUME NEW c \in Clients, msg = None, Unserved(c) # <<>>,
         Doing' = <<c, Head(Unserved(c))>>,
         \A d \in Clients : Unserved(d)' = IF d = c THEN Tail(Unserved(c)) ELSE Unserved(d)
  PROVE  Order!Next
<1>1. Order!Take(c)
  BY DEF Order!Take, Doing
<1>. QED
  BY <1>1 DEF Order!Next

LEMMA Issues ==
  ASSUME NEW c \in Clients, NEW m \in Msgs, Doing' = Doing,
         \A d \in Clients : Unserved(d)' = IF d = c THEN Append(Unserved(c), m) ELSE Unserved(d)
  PROVE  Order!Next
<1>1. Order!Issue(c, m)
  BY DEF Order!Issue, Doing
<1>. QED
  BY <1>1 DEF Order!Next
-----------------------------------------------------------------------------
LEMMA UnservedStream ==
  ASSUME NEW c
  PROVE  /\ Unserved(c) = Stream(c, conn, ServedOrder)
         /\ Unserved(c)' = Stream(c, conn', ServedOrder')
BY DEF Unserved, Stream, Parts, Part

\* The connections the server still gets to are open at its end and distinct.
LEMMA Served ==
  ASSUME TypeOK, Sessions
  PROVE  /\ ServedOrder \in Seq(Conns) /\ backlog \in Seq(Conns) /\ Typed(conn)
         /\ \A k \in DOMAIN ServedOrder :
              ServedOrder[k] \in Conns /\ conn[ServedOrder[k]].srvOpen
         /\ \A j, k \in DOMAIN ServedOrder : ServedOrder[j] = ServedOrder[k] => j = k
         /\ cur # None => cur \in Conns /\ conn[cur].srvOpen /\ ServedOrder = <<cur>> \o backlog
         /\ cur = None => ServedOrder = backlog /\ msg = None
<1>1. backlog \in Seq(Conns) /\ Typed(conn)
  BY DEF TypeOK, Typed
<1>2. \A k \in DOMAIN backlog : backlog[k] \in Conns
  BY <1>1
<1>3. CASE cur = None
  <2>1. ServedOrder = backlog
    BY <1>1, <1>3 DEF ServedOrder
  <2>2. msg = None
    BY <1>3 DEF Sessions, InScope, Busy
  <2>. QED
    BY <1>1, <1>2, <1>3, <2>1, <2>2 DEF Sessions, Queued
<1>4. CASE cur # None
  <2>1. ServedOrder = <<cur>> \o backlog
    BY <1>4 DEF ServedOrder
  <2>2. cur \in Conns /\ conn[cur].srvOpen
    BY <1>4 DEF TypeOK, Sessions, Queued
  <2>3. /\ ServedOrder \in Seq(Conns) /\ DOMAIN ServedOrder = 1..(Len(backlog) + 1)
        /\ DOMAIN backlog = 1..Len(backlog) /\ Len(backlog) \in Nat
        /\ ServedOrder[1] = cur
        /\ \A k \in DOMAIN ServedOrder :
             k # 1 => k - 1 \in DOMAIN backlog /\ ServedOrder[k] = backlog[k - 1]
    BY <1>1, <2>1, <2>2
  <2>4. \A k \in DOMAIN ServedOrder : ServedOrder[k] \in Conns /\ conn[ServedOrder[k]].srvOpen
    BY <1>2, <2>2, <2>3 DEF Sessions, Queued
  <2>5. ASSUME NEW j \in DOMAIN ServedOrder, NEW k \in DOMAIN ServedOrder,
               ServedOrder[j] = ServedOrder[k]
        PROVE  j = k
    <3>1. CASE j = 1
      BY <2>3, <2>5, <3>1 DEF Sessions, Queued
    <3>2. CASE j # 1
      <4>1. k # 1
        BY <2>3, <2>5, <3>2 DEF Sessions, Queued
      <4>2. j - 1 = k - 1
        BY <2>3, <2>5, <3>2, <4>1 DEF Sessions, Queued
      <4>. QED
        BY <4>2, <2>3
    <3>. QED
      BY <3>1, <3>2
  <2>. QED
    BY <1>1, <1>4, <2>1, <2>2, <2>3, <2>4, <2>5
<1>. QED
  BY <1>3, <1>4

\* The stream of a client while one of its connections is served.
LEMMA StreamServed ==
  ASSUME TypeOK, Sessions, cur # None, NEW c
  PROVE  /\ Unserved(c) = Part(c, conn, cur) \o Stream(c, conn, backlog)
         /\ Part(c, conn, cur) \in Seq(Msgs) /\ Stream(c, conn, backlog) \in Seq(Msgs)
<1>1. cur \in Conns /\ ServedOrder = <<cur>> \o backlog /\ backlog \in Seq(Conns) /\ Typed(conn)
  BY Served
<1>2. conn[cur].c2s \in Seq(Msgs) /\ <<>> \in Seq(Msgs)
  BY <1>1 DEF Typed, Slots
<1>3. Stream(c, conn, <<cur>> \o backlog) = Part(c, conn, cur) \o Stream(c, conn, backlog)
  BY <1>1, StreamFirst
<1>4. Part(c, conn, cur) \in Seq(Msgs) /\ Stream(c, conn, backlog) \in Seq(Msgs)
  BY <1>1, <1>2, StreamParts DEF Part
<1>5. Unserved(c) = Stream(c, conn, ServedOrder)
  BY UnservedStream, Zenon
<1>6. ServedOrder = <<cur>> \o backlog
  BY <1>1
<1>7. Unserved(c) = Stream(c, conn, <<cur>> \o backlog)
  BY ONLY <1>5, <1>6
<1>. QED
  BY ONLY <1>3, <1>4, <1>7

LEMMA UnservedType ==
  ASSUME TypeOK, Sessions, NEW c PROVE Unserved(c) \in Seq(Msgs)
<1>1. ServedOrder \in Seq(Conns) /\ Typed(conn)
  BY Served
<1>2. Stream(c, conn, ServedOrder) \in Seq(Msgs)
  BY <1>1, StreamParts
<1>. QED
  BY <1>2, UnservedStream

\* Nothing is read from, and no request written on, a connection in the order.
LEMMA KeepsStreams ==
  ASSUME TypeOK, Sessions, UNCHANGED <<cur, backlog, msg>>,
         \A i \in Conns : conn[i].srvOpen => conn'[i].cl = conn[i].cl /\ conn'[i].c2s = conn[i].c2s
  PROVE  UNCHANGED Order!vars
<1>1. ServedOrder' = ServedOrder
  BY DEF ServedOrder
<1>2. ASSUME NEW c \in Clients PROVE Unserved(c)' = Unserved(c)
  <2>1. \A k \in DOMAIN ServedOrder :
          Part(c, conn', ServedOrder[k]) = Part(c, conn, ServedOrder[k])
    BY Served DEF Part
  <2>2. Stream(c, conn', ServedOrder) = Stream(c, conn, ServedOrder)
    BY <2>1, SameStream
  <2>. QED
    BY <1>1, <2>2, UnservedStream
<1>3. Doing' = Doing
  BY Served DEF Doing
<1>. QED
  BY <1>2, <1>3, Stutters

LEMMA HeadTailOfConcat ==
  ASSUME NEW T, NEW s \in Seq(T), NEW t \in Seq(T), s # <<>>
  PROVE  s \o t # <<>> /\ Head(s \o t) = Head(s) /\ Tail(s \o t) = Tail(s) \o t
OBVIOUS

\* The steps of the server between reading a request and answering it.
LEMMA ServerWorks ==
  ASSUME TypeOK, Sessions,
         \/ AttachOk \/ AttachFails \/ ListFound \/ ListNotFound \/ DetachOk \/ DetachFails
         \/ CtrlC \/ StartServer
  PROVE  UNCHANGED Order!vars
<1>1. UNCHANGED <<cur, backlog, msg, conn>>
  BY DEF AttachOk, AttachFails, ListFound, ListNotFound, DetachOk, DetachFails, CtrlC, StartServer
<1>. QED
  BY <1>1, KeepsStreams

LEMMA AcceptOrder ==
  ASSUME TypeOK, Sessions, Accept PROVE UNCHANGED Order!vars
<1>1. /\ cur = None /\ msg = None /\ backlog \in Seq(Conns) /\ backlog # <<>>
      /\ \A k \in DOMAIN backlog : backlog[k] \in Conns
  BY DEF Accept, Sessions, InScope, Busy, TypeOK
<1>2. /\ cur' = Head(backlog) /\ backlog' = Tail(backlog) /\ msg' = msg /\ conn' = conn
      /\ cur' # None
  <2>1. Head(backlog) \in Conns
    BY <1>1
  <2>. QED
    BY <2>1, ControlPlaneAssumption DEF Accept, ControlPlaneAssumption
<1>3. ServedOrder = backlog
  BY <1>1, Served
<1>4. ServedOrder' = <<Head(backlog)>> \o Tail(backlog)
  BY <1>2 DEF ServedOrder
<1>5. <<Head(backlog)>> \o Tail(backlog) = backlog
  BY <1>1
<1>6. \A c \in Clients : Unserved(c)' = Unserved(c)
  BY <1>2, <1>3, <1>4, <1>5, UnservedStream
<1>7. Doing' = Doing
  BY <1>1, <1>2 DEF Doing
<1>. QED
  BY <1>6, <1>7, Stutters

LEMMA ReadOrder ==
  ASSUME TypeOK, Sessions, ReadLine PROVE Order!Next
<1>1. /\ cur \in Conns /\ cur # None /\ conn[cur].srvOpen /\ msg = None
      /\ ServedOrder = <<cur>> \o backlog /\ backlog \in Seq(Conns)
  BY Served DEF ReadLine, Sessions, InScope, Busy
<1>2. /\ conn[cur] \in Slots /\ conn[cur].c2s \in Seq(Msgs) /\ conn[cur].c2s # <<>>
      /\ conn[cur].cl \in Clients
  BY <1>1 DEF ReadLine, TypeOK, Slots, Sessions, Ends
<1>c. PICK c \in Clients : c = conn[cur].cl
  BY <1>2
<1>3. /\ cur' = cur /\ backlog' = backlog /\ msg' = Head(conn[cur].c2s)
      /\ conn' = [conn EXCEPT ![cur].c2s = Tail(conn[cur].c2s)]
  BY DEF ReadLine, Answer
<1>4. /\ conn'[cur].cl = c /\ conn'[cur].c2s = Tail(conn[cur].c2s)
      /\ \A i \in Conns \ {cur} : conn'[i] = conn[i]
  BY <1>1, <1>2, <1>3, <1>c DEF TypeOK, Slots
<1>5. ServedOrder' = <<cur>> \o backlog
  BY <1>1, <1>3 DEF ServedOrder
<1>6. ASSUME NEW d \in Clients
      PROVE  /\ Unserved(d) = Part(d, conn, cur) \o Stream(d, conn, backlog)
             /\ Stream(d, conn, backlog) \in Seq(Msgs)
             /\ Unserved(d)' = Part(d, conn', cur) \o Stream(d, conn, backlog)
  <2>1. Unserved(d) = Part(d, conn, cur) \o Stream(d, conn, backlog)
        /\ Stream(d, conn, backlog) \in Seq(Msgs)
    BY <1>1, StreamServed
  <2>2. \A k \in DOMAIN backlog : Part(d, conn', backlog[k]) = Part(d, conn, backlog[k])
    BY <1>1, <1>4 DEF Part, Sessions, Queued
  <2>3. Stream(d, conn', backlog) = Stream(d, conn, backlog)
    BY <2>2, SameStream
  <2>4. Typed(conn')
    BY ServerType DEF Server, ServerRun, TypeOK, Typed
  <2>5. Stream(d, conn', <<cur>> \o backlog) = Part(d, conn', cur) \o Stream(d, conn', backlog)
    BY <1>1, <2>4, StreamFirst
  <2>6. Unserved(d)' = Stream(d, conn', <<cur>> \o backlog)
    BY <1>5, UnservedStream
  <2>. QED
    BY <2>1, <2>3, <2>5, <2>6
<1>7. /\ Unserved(c) # <<>> /\ Head(Unserved(c)) = Head(conn[cur].c2s)
      /\ Unserved(c)' = Tail(Unserved(c))
  <2>1. Part(c, conn, cur) = conn[cur].c2s /\ Part(c, conn', cur) = Tail(conn[cur].c2s)
    BY <1>4, <1>c DEF Part
  <2>2. /\ Unserved(c) = conn[cur].c2s \o Stream(c, conn, backlog)
        /\ Unserved(c)' = Tail(conn[cur].c2s) \o Stream(c, conn, backlog)
        /\ Stream(c, conn, backlog) \in Seq(Msgs)
    BY <1>2, <1>6, <2>1
  <2>. QED
    BY <1>2, <2>2, HeadTailOfConcat
<1>8. ASSUME NEW d \in Clients, d # c PROVE Unserved(d)' = Unserved(d)
  <2>1. Part(d, conn, cur) = <<>> /\ Part(d, conn', cur) = <<>>
    BY <1>4, <1>8, <1>c DEF Part
  <2>. QED
    BY <1>6, <2>1
<1>9. Doing' = <<c, Head(Unserved(c))>>
  <2>1. msg' # None
    BY <1>2, <1>3, RequestTypes
  <2>. QED
    BY <1>3, <1>4, <1>7, <2>1 DEF Doing
<1>. QED
  BY <1>1, <1>2, <1>7, <1>8, <1>9, Takes

\* The end of a session costs its client what it had not read of it.
LEMMA DropOrder ==
  ASSUME TypeOK, Sessions, cur # None, cur' = None, UNCHANGED backlog, msg' = None,
         \A i \in Conns \ {cur} : conn'[i] = conn[i]
  PROVE  Order!Next
<1>1. backlog \in Seq(Conns) /\ \A k \in DOMAIN backlog : backlog[k] \in Conns \ {cur}
  <2>1. backlog \in Seq(Conns) /\ \A k \in DOMAIN backlog : backlog[k] \in Conns
    BY DEF TypeOK
  <2>. QED
    BY <2>1 DEF Sessions, Queued
<1>2. ServedOrder' = backlog
  BY <1>1 DEF ServedOrder
<1>3. ASSUME NEW c \in Clients PROVE IsSuffix(Unserved(c)', Unserved(c))
  <2>1. \A k \in DOMAIN backlog : Part(c, conn', backlog[k]) = Part(c, conn, backlog[k])
    BY <1>1 DEF Part
  <2>2. Stream(c, conn', backlog) = Stream(c, conn, backlog)
    BY <2>1, SameStream
  <2>3. Unserved(c)' = Stream(c, conn, backlog)
    BY <1>2, <2>2, UnservedStream
  <2>4. /\ Unserved(c) = Part(c, conn, cur) \o Stream(c, conn, backlog)
        /\ Part(c, conn, cur) \in Seq(Msgs) /\ Stream(c, conn, backlog) \in Seq(Msgs)
    BY StreamServed
  <2>5. IsSuffix(Stream(c, conn, backlog), Part(c, conn, cur) \o Stream(c, conn, backlog))
    BY <2>4, SuffixOfConcat
  <2>. QED
    BY <2>3, <2>4, <2>5
<1>4. Doing' = None
  BY DEF Doing
<1>. QED
  BY <1>3, <1>4, Loses

\* The request is done with, and the session goes on.
LEMMA AnswerOrder ==
  ASSUME TypeOK, Sessions, UNCHANGED <<cur, backlog>>, msg' = None,
         \A i \in Conns : conn'[i].cl = conn[i].cl /\ conn'[i].c2s = conn[i].c2s
  PROVE  Order!Next
<1>1. ServedOrder' = ServedOrder
  BY DEF ServedOrder
<1>2. ASSUME NEW c \in Clients PROVE IsSuffix(Unserved(c)', Unserved(c))
  <2>1. \A k \in DOMAIN ServedOrder :
          Part(c, conn', ServedOrder[k]) = Part(c, conn, ServedOrder[k])
    BY Served DEF Part
  <2>2. Stream(c, conn', ServedOrder) = Stream(c, conn, ServedOrder)
    BY <2>1, SameStream
  <2>3. Unserved(c)' = Unserved(c)
    BY <1>1, <2>2, UnservedStream
  <2>4. IsSuffix(Unserved(c), Unserved(c))
    BY UnservedType, SuffixOfItself
  <2>. QED
    BY <2>3, <2>4
<1>3. Doing' = None
  BY DEF Doing
<1>. QED
  BY <1>2, <1>3, Loses

LEMMA StopOrder ==
  ASSUME TypeOK, Sessions, ServerGone PROVE Order!Next
<1>1. ServedOrder' = <<>> /\ msg' = None
  BY DEF ServedOrder, ServerGone
<1>2. ASSUME NEW c \in Clients PROVE IsSuffix(Unserved(c)', Unserved(c))
  <2>1. Unserved(c)' = <<>>
    <3>1. Unserved(c)' = Stream(c, conn', <<>>)
      BY <1>1, UnservedStream
    <3>. QED
      BY <3>1, StreamNone
  <2>2. IsSuffix(<<>>, Unserved(c))
    BY UnservedType, EmptySuffix
  <2>. QED
    BY <2>1, <2>2
<1>3. Doing' = None
  BY <1>1 DEF Doing
<1>. QED
  BY <1>2, <1>3, Loses

LEMMA ServerOrder ==
  ASSUME TypeOK, Sessions, Server PROVE [Order!Next]_Order!vars
<1>s. /\ spc \in Busy \cup {"read"} => cur \in Conns /\ cur # None
      /\ spc \notin Busy => msg = None
      /\ \A i \in Conns : conn[i] \in Slots
  BY DEF TypeOK, Sessions, InScope, Busy
<1>1. CASE EndSession \/ (WriteFails /\ msg.type # "BAD")
  <2>1. /\ cur \in Conns /\ cur # None /\ cur' = None /\ UNCHANGED backlog /\ msg' = None
        /\ conn' = [conn EXCEPT ![cur] = SrvClosed(@)]
    BY <1>1, <1>s DEF EndSession, WriteFails, Busy
  <2>2. \A i \in Conns \ {cur} : conn'[i] = conn[i]
    BY <2>1 DEF TypeOK
  <2>. QED
    BY <2>1, <2>2, DropOrder
<1>2. CASE WriteReply \/ (WriteFails /\ msg.type = "BAD")
  <2>1. UNCHANGED <<cur, backlog>> /\ msg' = None /\ cur \in Conns
    BY <1>2, <1>s DEF WriteReply, WriteFails, Busy
  <2>2. \A i \in Conns : conn'[i].cl = conn[i].cl /\ conn'[i].c2s = conn[i].c2s
    <3>1. CASE WriteReply
      <4>. DEFINE lines == IF conn[cur].cliOpen THEN conn[cur].s2c \o reply ELSE conn[cur].s2c
      <4>1. conn' = [conn EXCEPT ![cur].s2c = lines]
        BY <3>1 DEF WriteReply
      <4>. HIDE DEF lines
      <4>. QED
        BY <4>1, <1>s, <2>1 DEF Slots, TypeOK
    <3>2. CASE WriteFails /\ msg.type = "BAD"
      BY <3>2 DEF WriteFails
    <3>. QED
      BY <1>2, <3>1, <3>2
  <2>. QED
    BY <2>1, <2>2, AnswerOrder
<1>3. CASE StopServer \/ CrashServer
  BY <1>3, StopOrder DEF StopServer, CrashServer
<1>. QED
  BY <1>1, <1>2, <1>3, ServerWorks, AcceptOrder, ReadOrder DEF Server, ServerRun
-----------------------------------------------------------------------------
(***************************************************************************)
(* The clients.                                                            *)
(***************************************************************************)

\* Of the connections the server still gets to, the client's present one is
\* the last of its own.
LEMMA PresentLast ==
  ASSUME TypeOK, Sessions, InQueue, NEW c \in Clients, sess[c] # None, conn[sess[c]].srvOpen
  PROVE  \E k \in DOMAIN ServedOrder :
           /\ ServedOrder[k] = sess[c]
           /\ \A j \in DOMAIN ServedOrder : k < j => conn[ServedOrder[j]].cl # c
<1>1. sess[c] \in Conns /\ conn[sess[c]].cl = c
  BY DEF TypeOK, Sessions, Held
<1>2. /\ backlog \in Seq(Conns) /\ DOMAIN backlog = 1..Len(backlog) /\ Len(backlog) \in Nat
      /\ \A k \in DOMAIN backlog : backlog[k] \in Conns /\ conn[backlog[k]].srvOpen
  BY DEF TypeOK, Sessions, Queued
<1>q. ASSUME NEW j \in DOMAIN backlog, conn[backlog[j]].cl = c, backlog[j] # sess[c]
      PROVE  \E k \in DOMAIN backlog : backlog[k] = sess[c] /\ j < k
  <2>1. PICK k \in DOMAIN backlog :
          backlog[k] = sess[c] /\ \A l \in DOMAIN backlog : backlog[l] = backlog[j] => l < k
    BY <1>2, <1>q DEF InQueue, SessionLast, Newest
  <2>. QED
    BY <2>1
<1>3. CASE cur = None
  <2>1. ServedOrder = backlog
    BY <1>3, Served
  <2>2. PICK k \in DOMAIN backlog : backlog[k] = sess[c]
    BY <1>1, <1>3, ControlPlaneAssumption DEF InQueue, Placed, ControlPlaneAssumption
  <2>3. ASSUME NEW j \in DOMAIN backlog, k < j PROVE conn[backlog[j]].cl # c
    <3>. SUFFICES ASSUME conn[backlog[j]].cl = c PROVE FALSE
      OBVIOUS
    <3>1. backlog[j] # sess[c]
      BY <1>2, <2>2, <2>3 DEF Sessions, Queued
    <3>2. PICK l \in DOMAIN backlog : backlog[l] = sess[c] /\ j < l
      BY <1>q, <3>1
    <3>3. l = k
      BY <2>2, <3>2 DEF Sessions, Queued
    <3>. QED
      BY <1>2, <2>3, <3>2, <3>3
  <2>. QED
    BY <2>1, <2>2, <2>3
<1>4. CASE cur # None
  <2>1. cur \in Conns /\ ServedOrder = <<cur>> \o backlog
    BY <1>4, Served
  <2>2. /\ DOMAIN ServedOrder = 1..(Len(backlog) + 1) /\ ServedOrder[1] = cur
        /\ \A j \in DOMAIN ServedOrder :
             j # 1 => j - 1 \in DOMAIN backlog /\ ServedOrder[j] = backlog[j - 1]
        /\ \A k \in DOMAIN backlog : k + 1 \in DOMAIN ServedOrder /\ ServedOrder[k + 1] = backlog[k]
    BY <1>2, <2>1
  <2>3. CASE sess[c] = cur
    <3>1. ASSUME NEW j \in DOMAIN ServedOrder, 1 < j PROVE conn[ServedOrder[j]].cl # c
      <4>1. j - 1 \in DOMAIN backlog /\ ServedOrder[j] = backlog[j - 1]
        BY <2>2, <3>1
      <4>2. \A k \in DOMAIN backlog : backlog[k] # sess[c]
        BY <2>3 DEF Sessions, Queued
      <4>. QED
        BY <1>q, <4>1, <4>2
    <3>2. 1 \in DOMAIN ServedOrder
      BY <1>2, <2>2
    <3>. QED
      BY <2>2, <2>3, <3>1, <3>2
  <2>4. CASE sess[c] # cur
    <3>1. PICK k \in DOMAIN backlog : backlog[k] = sess[c]
      BY <1>1, <2>4 DEF InQueue, Placed
    <3>2. ASSUME NEW j \in DOMAIN ServedOrder, k + 1 < j PROVE conn[ServedOrder[j]].cl # c
      <4>. SUFFICES ASSUME conn[ServedOrder[j]].cl = c PROVE FALSE
        OBVIOUS
      <4>1. j - 1 \in DOMAIN backlog /\ ServedOrder[j] = backlog[j - 1] /\ j - 1 # k
        BY <1>2, <2>2, <3>2
      <4>2. backlog[j - 1] # sess[c]
        BY <3>1, <4>1 DEF Sessions, Queued
      <4>3. PICK l \in DOMAIN backlog : backlog[l] = sess[c] /\ j - 1 < l
        BY <1>q, <4>1, <4>2
      <4>4. l = k
        BY <3>1, <4>3 DEF Sessions, Queued
      <4>. QED
        BY <1>2, <2>2, <3>2, <4>3, <4>4
    <3>. QED
      BY <2>2, <3>1, <3>2
  <2>. QED
    BY <2>3, <2>4
<1>. QED
  BY <1>3, <1>4

LEMMA ConnectOrder ==
  ASSUME TypeOK, Sessions, NEW c \in Clients, Connect(c) PROVE UNCHANGED Order!vars
<1>1. PICK i \in Conns :
        /\ conn[i] = FreeSlot /\ backlog' = Append(backlog, i)
        /\ conn' = [j \in Conns |-> IF j = i THEN OpenConn(c)
                                    ELSE IF j = sess[c] THEN CliClosed(conn[j])
                                    ELSE conn[j]]
  BY DEF Connect
<1>2. cur' = cur /\ msg' = msg
  BY DEF Connect, serverVars
<1>3. /\ conn'[i] = OpenConn(c) /\ ~conn[i].srvOpen
      /\ \A j \in Conns : conn[j].srvOpen =>
            j # i /\ conn'[j].cl = conn[j].cl /\ conn'[j].c2s = conn[j].c2s
  <2>1. \A j \in Conns : conn[j] \in Slots
    BY DEF TypeOK
  <2>. QED
    BY <1>1, <2>1, FreshFields, ClosedFields
<1>4. ServedOrder \in Seq(Conns) /\ ServedOrder' = Append(ServedOrder, i)
  <2>1. ServedOrder \in Seq(Conns) /\ backlog \in Seq(Conns) /\ (cur # None => cur \in Conns)
    BY Served
  <2>2. CASE cur = None
    <3>1. ServedOrder = <<>> \o backlog /\ ServedOrder' = <<>> \o Append(backlog, i)
      BY <1>1, <1>2, <2>2 DEF ServedOrder
    <3>. QED
      BY <2>1, <3>1
  <2>3. CASE cur # None
    <3>1. ServedOrder = <<cur>> \o backlog /\ ServedOrder' = <<cur>> \o Append(backlog, i)
      BY <1>1, <1>2, <2>3 DEF ServedOrder
    <3>2. <<cur>> \o Append(backlog, i) = Append(<<cur>> \o backlog, i)
      BY <2>1, <2>3
    <3>. QED
      BY <2>1, <3>1, <3>2
  <2>. QED
    BY <2>2, <2>3
<1>5. ASSUME NEW d \in Clients PROVE Unserved(d)' = Unserved(d)
  <2>1. Typed(conn')
    BY ClientType DEF Client, TypeOK, Typed
  <2>2. Stream(d, conn', Append(ServedOrder, i))
          = Stream(d, conn', ServedOrder) \o Part(d, conn', i)
    BY <1>4, <2>1, StreamLast
  <2>3. Part(d, conn', i) = <<>>
    BY <1>3, FreshFields DEF Part
  <2>4. Stream(d, conn', ServedOrder) = Stream(d, conn, ServedOrder)
    <3>1. \A k \in DOMAIN ServedOrder :
            Part(d, conn', ServedOrder[k]) = Part(d, conn, ServedOrder[k])
      BY <1>3, Served DEF Part
    <3>. QED
      BY <3>1, SameStream
  <2>5. Unserved(d) \o <<>> = Unserved(d)
    BY UnservedType, ConcatEmptySeq
  <2>6. Unserved(d)' = Stream(d, conn', Append(ServedOrder, i))
    BY <1>4, UnservedStream
  <2>7. Unserved(d) = Stream(d, conn, ServedOrder)
    BY UnservedStream
  <2>. QED
    BY <2>2, <2>3, <2>4, <2>5, <2>6, <2>7
<1>6. Doing' = Doing
  BY <1>2, <1>3, Served DEF Doing
<1>. QED
  BY <1>5, <1>6, Stutters

LEMMA SendOrder ==
  ASSUME TypeOK, Sessions, InQueue, NEW c \in Clients, NEW m \in Msgs, Send(c, m)
  PROVE  [Order!Next]_Order!vars
<1>1. /\ sess[c] \in Conns /\ conn[sess[c]] \in Slots /\ conn[sess[c]].cl = c
      /\ UNCHANGED <<cur, backlog, msg>>
  BY DEF Send, TypeOK, Sessions, Held, serverVars
<1>2. CASE ~conn[sess[c]].srvOpen
  <2>1. \A i \in Conns : conn[i].srvOpen => conn'[i].cl = conn[i].cl /\ conn'[i].c2s = conn[i].c2s
    BY <1>1, <1>2 DEF Send, TypeOK
  <2>. QED
    BY <1>1, <2>1, KeepsStreams
<1>3. CASE conn[sess[c]].srvOpen
  <2>1. /\ conn'[sess[c]].c2s = Append(conn[sess[c]].c2s, m)
        /\ \A i \in Conns : conn'[i].cl = conn[i].cl /\ (i # sess[c] => conn'[i] = conn[i])
    <3>1. conn' = [conn EXCEPT ![sess[c]].c2s = Append(conn[sess[c]].c2s, m)]
      BY <1>3 DEF Send
    <3>. QED
      BY <3>1, <1>1 DEF TypeOK, Slots
  <2>2. PICK k \in DOMAIN ServedOrder :
          /\ ServedOrder[k] = sess[c]
          /\ \A j \in DOMAIN ServedOrder : k < j => conn[ServedOrder[j]].cl # c
    BY <1>1, <1>3, PresentLast DEF Send
  <2>3. ServedOrder' = ServedOrder
    BY <1>1 DEF ServedOrder
  <2>o. /\ ServedOrder \in Seq(Conns)
        /\ \A j \in DOMAIN ServedOrder :
             ServedOrder[j] \in Conns /\ (j # k => ServedOrder[j] # sess[c])
    BY <2>2, Served
  <2>4. Unserved(c)' = Append(Unserved(c), m)
    <3>1. Typed(conn) /\ Typed(conn')
      BY Served, ClientType DEF Client, TypeOK, Typed
    <3>2. Part(c, conn', ServedOrder[k]) = Append(Part(c, conn, ServedOrder[k]), m)
      BY <1>1, <2>1, <2>2 DEF Part
    <3>3. \A j \in DOMAIN ServedOrder :
            j # k => Part(c, conn', ServedOrder[j]) = Part(c, conn, ServedOrder[j])
      BY <2>1, <2>o DEF Part
    <3>4. \A j \in DOMAIN ServedOrder : k < j => Part(c, conn, ServedOrder[j]) = <<>>
      BY <2>2 DEF Part
    <3>5. Stream(c, conn', ServedOrder) = Append(Stream(c, conn, ServedOrder), m)
      BY <2>o, <3>1, <3>2, <3>3, <3>4, StreamSent
    <3>. QED
      BY <2>3, <3>5, UnservedStream
  <2>5. ASSUME NEW d \in Clients, d # c PROVE Unserved(d)' = Unserved(d)
    <3>1. \A j \in DOMAIN ServedOrder :
            Part(d, conn', ServedOrder[j]) = Part(d, conn, ServedOrder[j])
      BY <1>1, <2>1, <2>5, <2>o DEF Part
    <3>2. Stream(d, conn', ServedOrder) = Stream(d, conn, ServedOrder)
      BY <3>1, SameStream
    <3>. QED
      BY <2>3, <3>2, UnservedStream
  <2>6. Doing' = Doing
    BY <1>1, <2>1, Served DEF Doing
  <2>. QED
    BY <2>4, <2>5, <2>6, Issues
<1>. QED
  BY <1>2, <1>3

LEMMA ClientOrder ==
  ASSUME TypeOK, Sessions, InQueue, NEW c \in Clients, Client(c)
  PROVE  [Order!Next]_Order!vars
<1>s. /\ \A i \in Conns : conn[i] \in Slots
      /\ wait[c] # None => sess[c] \in Conns
  BY DEF TypeOK, Sessions, Held
<1>1. CASE Disconnect(c) \/ Exit(c)
  <2>1. \A i \in Conns : conn'[i] \in {conn[i], CliClosed(conn[i])}
    BY <1>1 DEF Disconnect, Exit, TypeOK
  <2>2. \A i \in Conns : conn[i].srvOpen => conn'[i].cl = conn[i].cl /\ conn'[i].c2s = conn[i].c2s
    BY <1>s, <2>1, ClosedFields
  <2>3. UNCHANGED <<cur, backlog, msg>>
    BY <1>1 DEF Disconnect, Exit, serverVars
  <2>. QED
    BY <2>2, <2>3, KeepsStreams
<1>2. CASE Receive(c)
  <2>1. conn' = [conn EXCEPT ![sess[c]].s2c = Tail(conn[sess[c]].s2c)] /\ sess[c] \in Conns
    BY <1>2, <1>s DEF Receive
  <2>2. \A i \in Conns : conn'[i].cl = conn[i].cl /\ conn'[i].c2s = conn[i].c2s
    BY <1>s, <2>1 DEF TypeOK, Slots
  <2>3. UNCHANGED <<cur, backlog, msg>>
    BY <1>2 DEF Receive, serverVars
  <2>. QED
    BY <2>2, <2>3, KeepsStreams
<1>3. CASE Closed(c) \/ Timeout(c) \/ \E gone \in SUBSET Busids : Forget(c, gone)
  <2>1. UNCHANGED <<cur, backlog, msg, conn>>
    BY <1>3 DEF Closed, Timeout, Forget, serverVars
  <2>. QED
    BY <2>1, KeepsStreams
<1>. QED
  BY <1>1, <1>2, <1>3, ConnectOrder, SendOrder DEF Client

LEMMA OthersOrder ==
  ASSUME TypeOK, Sessions, Kernel \/ UNCHANGED vars PROVE UNCHANGED Order!vars
<1>1. UNCHANGED <<cur, backlog, msg, conn>>
  BY DEF Kernel, LinkDown, Show, ChildAttach, ChildDetach, vars, serverVars, targetVars
<1>. QED
  BY <1>1, KeepsStreams

LEMMA InitOrder == Init => Order!Init
<1>. SUFFICES ASSUME Init PROVE Order!Init
  OBVIOUS
<1>1. ServedOrder = <<>> /\ msg = None
  BY DEF Init, ServedOrder
<1>2. \A c \in Clients : Unserved(c) = <<>>
  BY <1>1, UnservedStream, StreamNone
<1>. QED
  BY <1>1, <1>2 DEF Order!Init

\* The control plane implements CommandOrder: the requests of a client are
\* taken up in the order it sent them, each at most once, over however many
\* connections they travel, and what is lost of them is always the oldest.
THEOREM RequestsInOrder == Spec => InOrder
<1>1. TypeOK /\ Sessions /\ InQueue /\ [Next]_vars => [Order!Next]_Order!vars
  BY ServerOrder, ClientOrder, OthersOrder DEF Next
<1>. QED
  BY <1>1, InitOrder, SessionsCorrect, SessionsInOrder, PTL DEF Spec, InOrder, Order!Spec
=============================================================================
