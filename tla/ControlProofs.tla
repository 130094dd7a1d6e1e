---------------------------- MODULE ControlProofs ---------------------------
(***************************************************************************)
(* The safety properties of the control connections, for every number of   *)
(* peers, every size of the buffers and of the sockets, and every mixture  *)
(* of requests, events, slow readers and hangups.  The inductive invariant *)
(* speaks of one connection at a time: the stream of requests stays cut at *)
(* the right places from the peer's socket to the input buffer, and        *)
(* flushing moves messages without changing their order.                   *)
(***************************************************************************)
EXTENDS ControlPeers, TLAPS

Unit == Operations \X {0, 1, 2}

PeerRecord == [alive : BOOLEAN, ended : {"no", "hangup", "error"},
               req : Seq(Unit), in : Seq(Unit), out : Seq(Nat), sock : Seq(Nat),
               writable : BOOLEAN, hangup : BOOLEAN, heard : Nat, told : Nat]

\* The last unit of its request.
Ends(u) == u[2] = PayloadUnits(u[1])

\* q consists of whole requests: it starts with a header, a unit that does not
\* end its request is followed by the next unit of it, one that does by a
\* header, and nothing is missing at the end.
Framed(q) ==
  /\ Len(q) > 0 => q[1][2] = 0 /\ Ends(q[Len(q)])
  /\ \A i \in 1 .. Len(q) - 1 :
       IF Ends(q[i]) THEN q[i+1][2] = 0 ELSE q[i+1] = <<q[i][1], q[i][2] + 1>>

\* The last VT change among the messages q is told; without one it is heard.
ToldLast(q, told, heard) ==
  \/ \E i \in 1 .. Len(q) : /\ q[i] # REPLY /\ q[i] = told
                            /\ \A j \in i+1 .. Len(q) : q[j] = REPLY
  \/ (\A i \in 1 .. Len(q) : q[i] = REPLY) /\ heard = told

\* What holds of a connection also in the middle of a handler ...
Sound(x) == /\ x \in PeerRecord
            /\ Len(x.sock) <= SocketSize
            /\ Framed(x.in \o x.req)

\* ... and at its end.
Settled(x) == /\ Sound(x)
              /\ x.out # <<>> => x.writable
              /\ ToldLast(x.sock \o x.out, x.told, x.heard)

\* The inductive invariant.
ControlInv == /\ peer \in [Peer -> PeerRecord]
              /\ \A p \in Peer : Settled(peer[p])
              /\ busy \in Peer \cup {"none"}
              /\ busy \in Peer => peer[busy].alive
-----------------------------------------------------------------------------
(***************************************************************************)
(* Requests in the stream.                                                 *)
(***************************************************************************)
\* Payloads have at most two units.
LEMMA PayloadIsSmall == \A op \in Operations : PayloadUnits(op) \in {0, 1, 2}
  BY OperationsAssumption DEF PayloadUnits

\* A request that is written whole leaves the stream framed (Writes).
LEMMA RequestIsFramed ==
  ASSUME NEW q \in Seq(Unit), Framed(q), NEW op \in Operations
  PROVE  /\ Request(op) \in Seq(Unit)
         /\ Framed(q \o Request(op))
<1> DEFINE n == PayloadUnits(op)
           r == Request(op)
           s == q \o r
<1>1. n \in {0, 1, 2}
  BY PayloadIsSmall
<1>2. r \in Seq(Unit) /\ Len(r) = n + 1 /\ \A i \in 1 .. n + 1 : r[i] = <<op, i - 1>>
  BY <1>1 DEF Request, Unit
<1> HIDE DEF r
<1>3. /\ s \in Seq(Unit) /\ Len(s) = Len(q) + n + 1
      /\ \A i \in 1 .. Len(q) : s[i] = q[i]
      /\ \A i \in 1 .. n + 1 : s[Len(q) + i] = <<op, i - 1>>
  BY <1>1, <1>2
<1> HIDE DEF s
<1>4. Len(q) \in Nat
  OBVIOUS
<1>5. s[1][2] = 0
  BY <1>1, <1>3, <1>4 DEF Framed
<1>6. Ends(s[Len(s)])
  <2>1. s[Len(s)] = <<op, n>>
    BY <1>1, <1>3, <1>4
  <2> QED
    BY <2>1 DEF Ends
<1>7. ASSUME NEW i \in 1 .. Len(s) - 1
      PROVE  IF Ends(s[i]) THEN s[i+1][2] = 0 ELSE s[i+1] = <<s[i][1], s[i][2] + 1>>
  <2>1. CASE i < Len(q)
    BY <1>3, <1>4, <2>1 DEF Framed
  <2>2. CASE i = Len(q)
    BY <1>1, <1>3, <1>4, <2>2 DEF Framed
  <2>3. CASE i > Len(q)
    <3>1. PICK k \in 1 .. n : i = Len(q) + k
      BY <1>1, <1>3, <1>4, <2>3
    <3>2. s[i] = <<op, k - 1>> /\ s[i+1] = <<op, k>>
      <4>1. i + 1 = Len(q) + (k + 1) /\ k \in 1 .. n+1 /\ k + 1 \in 1 .. n + 1
        BY <1>1, <1>4, <3>1
      <4> QED
        BY <1>1, <1>3, <3>1, <4>1
    <3> QED
      BY <1>1, <3>1, <3>2 DEF Ends
  <2> QED
    BY <1>3, <1>4, <2>1, <2>2, <2>3
<1> QED
  BY <1>2, <1>5, <1>6, <1>7 DEF Framed, s, r

\* Dropping a whole request from the front leaves the stream framed
\* (connection_get and connection_restore of a request's handler).
LEMMA RestIsFramed ==
  ASSUME NEW q \in Seq(Unit), Framed(q), q # <<>>, Len(q) > PayloadUnits(q[1][1])
  PROVE  Framed(SubSeq(q, PayloadUnits(q[1][1]) + 2, Len(q)))
<1> DEFINE op == q[1][1]
           n == PayloadUnits(op)
           s == SubSeq(q, n + 2, Len(q))
<1>1. Len(q) \in Nat /\ Len(q) > 0 /\ op \in Operations /\ q[1] = <<op, 0>>
  BY DEF Unit, Framed
<1>2. n \in {0, 1, 2} /\ Len(q) >= n + 1
  BY <1>1, PayloadIsSmall
<1> HIDE DEF op
<1>3. n > 0 => q[2] = <<op, 1>>
  BY <1>1, <1>2 DEF Framed, Ends
<1>4. n > 1 => q[3] = <<op, 2>>
  BY <1>1, <1>2, <1>3 DEF Framed, Ends
<1>5. q[n+1] = <<op, n>>
  BY <1>1, <1>2, <1>3, <1>4
<1>6. Len(q) > n + 1 => q[n+2][2] = 0
  BY <1>1, <1>2, <1>5 DEF Framed, Ends
<1> HIDE DEF n
<1>7. /\ Len(s) = Len(q) - n - 1 /\ Len(s) \in Nat
      /\ \A i \in 1 .. Len(s) : s[i] = q[i + n + 1]
  BY <1>1, <1>2
<1> HIDE DEF s
<1>8. Len(s) > 0 => s[1][2] = 0 /\ Ends(s[Len(s)])
  <2> SUFFICES ASSUME Len(s) > 0 PROVE s[1][2] = 0 /\ Ends(s[Len(s)])
    OBVIOUS
  <2>1. s[1] = q[n + 2] /\ s[Len(s)] = q[Len(q)]
    BY <1>1, <1>2, <1>7
  <2> QED
    BY <1>1, <1>2, <1>6, <1>7, <2>1 DEF Framed
<1>9. ASSUME NEW i \in 1 .. Len(s) - 1
      PROVE  IF Ends(s[i]) THEN s[i+1][2] = 0 ELSE s[i+1] = <<s[i][1], s[i][2] + 1>>
  <2>1. PICK k \in 1 .. Len(q) - 1 : k = i + n + 1
    BY <1>1, <1>2, <1>7
  <2>2. s[i] = q[k] /\ s[i+1] = q[k+1]
    BY <1>1, <1>2, <1>7, <2>1
  <2> QED
    BY <2>2 DEF Framed
<1> QED
  BY <1>8, <1>9 DEF Framed, s, n, op
-----------------------------------------------------------------------------
(***************************************************************************)
(* VT changes in the output.                                               *)
(***************************************************************************)
\* A reply after the last VT change does not make it stale.
LEMMA ReplyKeepsTold ==
  ASSUME NEW q \in Seq(Nat), NEW told \in Nat, NEW heard \in Nat, ToldLast(q, told, heard)
  PROVE  ToldLast(Append(q, REPLY), told, heard)
<1> DEFINE s == Append(q, REPLY)
<1>1. /\ Len(s) = Len(q) + 1 /\ Len(q) \in Nat
      /\ s[Len(q) + 1] = REPLY /\ \A i \in 1 .. Len(q) : s[i] = q[i]
  OBVIOUS
<1> HIDE DEF s
<1>2. CASE \E i \in 1 .. Len(q) : /\ q[i] # REPLY /\ q[i] = told
                                  /\ \A j \in i+1 .. Len(q) : q[j] = REPLY
  <2>1. PICK i \in 1 .. Len(q) : /\ q[i] # REPLY /\ q[i] = told
                                 /\ \A j \in i+1 .. Len(q) : q[j] = REPLY
    BY <1>2
  <2>2. \A j \in i+1 .. Len(s) : s[j] = REPLY
    BY <1>1, <2>1
  <2>3. i \in 1 .. Len(s) /\ s[i] = q[i]
    BY <1>1
  <2>4. ToldLast(s, told, heard)
    BY <2>1, <2>2, <2>3 DEF ToldLast
  <2> QED
    BY <2>4 DEF s
<1>3. CASE (\A i \in 1 .. Len(q) : q[i] = REPLY) /\ heard = told
  <2>1. ToldLast(s, told, heard)
    BY <1>1, <1>3 DEF ToldLast
  <2> QED
    BY <2>1 DEF s
<1> QED
  BY <1>2, <1>3 DEF ToldLast

\* A new VT change is the last one.
LEMMA ChangeIsTold ==
  ASSUME NEW q \in Seq(Nat), NEW v \in Nat \ {0}, NEW heard \in Nat
  PROVE  ToldLast(Append(q, v), v, heard)
<1> DEFINE s == Append(q, v)
<1>1. Len(s) = Len(q) + 1 /\ Len(q) \in Nat /\ s[Len(q) + 1] = v
  OBVIOUS
<1> HIDE DEF s
<1>2. Len(s) \in 1 .. Len(s) /\ s[Len(s)] # REPLY /\ s[Len(s)] = v
      /\ \A j \in Len(s)+1 .. Len(s) : s[j] = REPLY
  BY <1>1 DEF REPLY
<1> QED
  BY <1>2 DEF ToldLast, s

\* Reading the first message keeps the account.
LEMMA ReadKeepsTold ==
  ASSUME NEW q \in Seq(Nat), q # <<>>, NEW told \in Nat, NEW heard \in Nat,
         ToldLast(q, told, heard)
  PROVE  ToldLast(Tail(q), told, IF Head(q) = REPLY THEN heard ELSE Head(q))
<1> DEFINE s == Tail(q)
           h == IF Head(q) = REPLY THEN heard ELSE Head(q)
<1>1. /\ Len(q) \in Nat /\ Len(s) = Len(q) - 1 /\ Len(q) > 0 /\ Head(q) = q[1]
      /\ \A i \in 1 .. Len(s) : s[i] = q[i + 1]
  OBVIOUS
<1> HIDE DEF s
<1>2. CASE \E i \in 1 .. Len(q) : /\ q[i] # REPLY /\ q[i] = told
                                  /\ \A j \in i+1 .. Len(q) : q[j] = REPLY
  <2>1. PICK i \in 1 .. Len(q) : /\ q[i] # REPLY /\ q[i] = told
                                 /\ \A j \in i+1 .. Len(q) : q[j] = REPLY
    BY <1>2
  <2>2. CASE i = 1
    <3>1. \A j \in 1 .. Len(s) : s[j] = REPLY
      <4> TAKE j \in 1 .. Len(s)
      <4>1. j + 1 \in i+1 .. Len(q)
        BY <1>1, <2>2
      <4> QED
        BY <1>1, <2>1, <4>1
    <3>2. h = told
      BY <1>1, <2>1, <2>2
    <3> QED
      BY <3>1, <3>2 DEF ToldLast, s
  <2>3. CASE i > 1
    <3>1. PICK k \in 1 .. Len(s) : i = k + 1
      BY <1>1, <2>3
    <3>2. s[k] # REPLY /\ s[k] = told
      BY <1>1, <2>1, <3>1
    <3>3. \A j \in k+1 .. Len(s) : s[j] = REPLY
      <4> TAKE j \in k+1 .. Len(s)
      <4>1. j \in 1 .. Len(s) /\ j + 1 \in i+1 .. Len(q)
        BY <1>1, <3>1
      <4> QED
        BY <1>1, <2>1, <4>1
    <3> QED
      BY <3>2, <3>3 DEF ToldLast, s
  <2> QED
    BY <1>1, <2>2, <2>3
<1>3. CASE (\A i \in 1 .. Len(q) : q[i] = REPLY) /\ heard = told
  <2>1. \A j \in 1 .. Len(s) : s[j] = REPLY
    BY <1>1, <1>3
  <2>2. h = told
    BY <1>1, <1>3
  <2> QED
    BY <2>1, <2>2 DEF ToldLast, s
<1> QED
  BY <1>2, <1>3 DEF ToldLast
-----------------------------------------------------------------------------
(***************************************************************************)
(* The operations on one connection.                                       *)
(***************************************************************************)
\* What concatenation does.
LEMMA ConcatFacts ==
  ASSUME NEW S, NEW a \in Seq(S), NEW b \in Seq(S)
  PROVE  /\ a \o b \in Seq(S)
         /\ Len(a \o b) = Len(a) + Len(b) /\ Len(a) \in Nat /\ Len(b) \in Nat
         /\ \A k \in 1 .. Len(a) + Len(b) :
              (a \o b)[k] = IF k <= Len(a) THEN a[k] ELSE b[k - Len(a)]
  OBVIOUS

\* Two sequences of the same length with the same elements are the same.
LEMMA SameElements ==
  ASSUME NEW S, NEW a \in Seq(S), NEW b \in Seq(S), Len(a) = Len(b),
         \A k \in 1 .. Len(a) : a[k] = b[k]
  PROVE  a = b
  OBVIOUS

\* a with the first n elements of b, and what is left of b.
Longer(a, b, n) == a \o SubSeq(b, 1, n)
Left(b, n) == SubSeq(b, n + 1, Len(b))

\* c and d are a and b after the first n elements of b moved to the end of a.
Moved(S, a, b, n, c, d) ==
  /\ c \in Seq(S) /\ d \in Seq(S) /\ c \o d = a \o b
  /\ Len(c) = Len(a) + n /\ Len(d) = Len(b) - n

\* Moving elements from the front of b to the end of a changes nothing else.
LEMMA MoveKeepsOrder ==
  ASSUME NEW S, NEW a \in Seq(S), NEW b \in Seq(S), NEW n \in 0 .. Len(b)
  PROVE  Moved(S, a, b, n, Longer(a, b, n), Left(b, n))
<1> DEFINE c == SubSeq(b, 1, n)
           d == SubSeq(b, n + 1, Len(b))
           e == a \o c
<1>1. Len(a) \in Nat /\ Len(b) \in Nat
  OBVIOUS
<1>2. c \in Seq(S) /\ Len(c) = n /\ \A k \in 1 .. n : c[k] = b[k]
  BY <1>1
<1>3. d \in Seq(S) /\ Len(d) = Len(b) - n /\ \A k \in 1 .. Len(b) - n : d[k] = b[k + n]
  BY <1>1
<1> HIDE DEF c, d
<1>4. /\ e \in Seq(S) /\ Len(e) = Len(a) + n
      /\ \A k \in 1 .. Len(a) + n : e[k] = IF k <= Len(a) THEN a[k] ELSE c[k - Len(a)]
  BY <1>2, ConcatFacts
<1> HIDE DEF e
<1>5. /\ e \o d \in Seq(S) /\ Len(e \o d) = Len(a) + Len(b)
      /\ \A k \in 1 .. Len(a) + Len(b) :
           (e \o d)[k] = IF k <= Len(a) + n THEN e[k] ELSE d[k - (Len(a) + n)]
  <2>1. /\ e \o d \in Seq(S) /\ Len(e \o d) = Len(e) + Len(d)
        /\ \A k \in 1 .. Len(e) + Len(d) :
             (e \o d)[k] = IF k <= Len(e) THEN e[k] ELSE d[k - Len(e)]
    BY <1>3, <1>4, ConcatFacts
  <2>2. Len(e) + Len(d) = Len(a) + Len(b)
    BY <1>1, <1>3, <1>4
  <2> QED
    BY <1>4, <2>1, <2>2
<1>6. /\ a \o b \in Seq(S) /\ Len(a \o b) = Len(a) + Len(b)
      /\ \A k \in 1 .. Len(a) + Len(b) :
           (a \o b)[k] = IF k <= Len(a) THEN a[k] ELSE b[k - Len(a)]
  BY ConcatFacts
<1>7. ASSUME NEW k \in 1 .. Len(a) + Len(b)
      PROVE  (e \o d)[k] = (a \o b)[k]
  <2>1. CASE k <= Len(a)
    BY <1>1, <1>4, <1>5, <1>6, <2>1
  <2>2. CASE k > Len(a) /\ k <= Len(a) + n
    <3>1. k - Len(a) \in 1 .. n /\ k \in 1 .. Len(a) + n /\ ~(k <= Len(a))
      BY <1>1, <2>2
    <3>2. (e \o d)[k] = e[k] /\ e[k] = c[k - Len(a)] /\ c[k - Len(a)] = b[k - Len(a)]
      BY <1>2, <1>4, <1>5, <2>2, <3>1
    <3> QED
      BY <1>6, <3>1, <3>2
  <2>3. CASE k > Len(a) + n
    <3>1. /\ k - (Len(a) + n) \in 1 .. Len(b) - n
          /\ (k - (Len(a) + n)) + n = k - Len(a)
          /\ ~(k <= Len(a)) /\ ~(k <= Len(a) + n)
      BY <1>1, <2>3
    <3>2. (e \o d)[k] = d[k - (Len(a) + n)] /\ d[k - (Len(a) + n)] = b[k - Len(a)]
      BY <1>3, <1>5, <3>1
    <3> QED
      BY <1>6, <3>1, <3>2
  <2>4. k <= Len(a) \/ (k > Len(a) /\ k <= Len(a) + n) \/ k > Len(a) + n
    BY <1>1
  <2> QED
    BY <2>1, <2>2, <2>3, <2>4
<1>8. e \o d = a \o b
  BY <1>5, <1>6, <1>7, SameElements
<1> QED
  BY <1>2, <1>3, <1>4, <1>8 DEF e, c, d, Longer, Left, Moved

\* Dropping elements of a drops them from a \o b.
LEMMA DropIsSubSeq ==
  ASSUME NEW S, NEW a \in Seq(S), NEW b \in Seq(S), NEW n \in Nat, n < Len(a)
  PROVE  /\ SubSeq(a, n + 2, Len(a)) \in Seq(S)
         /\ SubSeq(a, n + 2, Len(a)) \o b = SubSeq(a \o b, n + 2, Len(a \o b))
<1> DEFINE c == SubSeq(a, n + 2, Len(a))
           d == a \o b
           e == SubSeq(d, n + 2, Len(d))
<1>1. Len(a) \in Nat /\ Len(b) \in Nat
  OBVIOUS
<1>2. c \in Seq(S) /\ Len(c) = Len(a) - n - 1
      /\ \A k \in 1 .. Len(a) - n - 1 : c[k] = a[k + n + 1]
  BY <1>1
<1>3. d \in Seq(S) /\ Len(d) = Len(a) + Len(b)
      /\ \A k \in 1 .. Len(a) + Len(b) : d[k] = IF k <= Len(a) THEN a[k] ELSE b[k - Len(a)]
  BY ConcatFacts
<1> HIDE DEF c, d
<1>4. e \in Seq(S) /\ Len(e) = Len(a) + Len(b) - n - 1
      /\ \A k \in 1 .. Len(a) + Len(b) - n - 1 : e[k] = d[k + n + 1]
  BY <1>1, <1>3
<1> HIDE DEF e
<1>5. /\ c \o b \in Seq(S) /\ Len(c \o b) = Len(c) + Len(b)
      /\ \A k \in 1 .. Len(c) + Len(b) :
           (c \o b)[k] = IF k <= Len(c) THEN c[k] ELSE b[k - Len(c)]
  BY <1>2, ConcatFacts
<1>6. Len(c) + Len(b) = Len(e)
  BY <1>1, <1>2, <1>4
<1>7. ASSUME NEW k \in 1 .. Len(e)
      PROVE  (c \o b)[k] = e[k]
  <2>1. k + n + 1 \in 1 .. Len(a) + Len(b) /\ k \in 1 .. Len(c) + Len(b) /\ e[k] = d[k + n + 1]
    BY <1>1, <1>2, <1>4
  <2>2. CASE k <= Len(c)
    <3>1. k \in 1 .. Len(a) - n - 1 /\ k + n + 1 <= Len(a)
      BY <1>1, <1>2, <2>2
    <3> QED
      BY <1>2, <1>3, <1>5, <2>1, <2>2, <3>1
  <2>3. CASE ~(k <= Len(c))
    <3>1. ~(k + n + 1 <= Len(a)) /\ k + n + 1 - Len(a) = k - Len(c)
      BY <1>1, <1>2, <2>3
    <3>2. (c \o b)[k] = b[k - Len(c)]
      BY <1>5, <2>1, <2>3
    <3>3. d[k + n + 1] = b[k + n + 1 - Len(a)]
      BY <1>3, <2>1, <3>1
    <3> QED
      BY <2>1, <3>1, <3>2, <3>3
  <2> QED
    BY <2>2, <2>3
<1>8. c \o b = e
  BY <1>4, <1>5, <1>6, <1>7, SameElements
<1> QED
  BY <1>2, <1>8 DEF c, d, e

\* The first element of a concatenation, and the others.
LEMMA TailOfConcat ==
  ASSUME NEW S, NEW a \in Seq(S), NEW b \in Seq(S), a # <<>>
  PROVE  /\ Tail(a) \in Seq(S) /\ Head(a) \in S
         /\ a \o b \in Seq(S) /\ a \o b # <<>>
         /\ Head(a \o b) = Head(a) /\ Tail(a \o b) = Tail(a) \o b
  OBVIOUS

\* Concatenation is associative.
LEMMA ConcatAssociates ==
  ASSUME NEW S, NEW a \in Seq(S), NEW b \in Seq(S), NEW c \in Seq(S)
  PROVE  a \o b \in Seq(S) /\ b \o c \in Seq(S) /\ a \o (b \o c) = (a \o b) \o c
  OBVIOUS

\* The smaller of two numbers.
LEMMA LesserFacts ==
  ASSUME NEW a \in Nat, NEW b \in Nat
  PROVE  Lesser(a, b) \in 0 .. a /\ Lesser(a, b) <= b
  BY DEF Lesser

\* A sequence without elements.
LEMMA EmptyIffNone == ASSUME NEW S, NEW q \in Seq(S) PROVE q = <<>> <=> Len(q) = 0
  OBVIOUS

\* Appending to the second of two sequences.
LEMMA AppendLast ==
  ASSUME NEW S, NEW a \in Seq(S), NEW b \in Seq(S), NEW m \in S
  PROVE  a \o Append(b, m) = Append(a \o b, m)
  OBVIOUS

\* A connection that is new, or gone, is settled.
LEMMA FreshIsSettled == \A b \in BOOLEAN : Settled(Fresh(b))
<1> SUFFICES ASSUME NEW b \in BOOLEAN PROVE Settled(Fresh(b))
  OBVIOUS
<1>1. Fresh(b) \in PeerRecord
  BY DEF Fresh, PeerRecord
<1>2. <<>> \o <<>> = <<>> /\ Len(<<>>) = 0
  OBVIOUS
<1> QED
  BY <1>1, <1>2, SizesAssumption DEF Fresh, Settled, Sound, Framed, ToldLast

\* control_client_flush destroys the connection, or moves messages from the
\* buffer to the socket in their order and asks for EVENT_WRITABLE if some are
\* left.
LEMMA FlushFacts ==
  ASSUME NEW x, Sound(x)
  PROVE  LET y == control_client_flush(x)
         IN \/ y = Fresh(FALSE)
            \/ /\ Sound(y)
               /\ y.sock \o y.out = x.sock \o x.out
               /\ y.out # <<>> => y.writable
               /\ y.in = x.in /\ y.req = x.req /\ y.alive = x.alive
               /\ y.told = x.told /\ y.heard = x.heard
<1> DEFINE n == Lesser(Len(x.out), SocketSize - Len(x.sock))
           a == Longer(x.sock, x.out, n)
           b == Left(x.out, n)
           w == n < Len(x.out)
           y == control_client_flush(x)
<1>1. x.out \in Seq(Nat) /\ x.sock \in Seq(Nat) /\ x \in PeerRecord
  BY DEF Sound, PeerRecord
<1>2. Len(x.out) \in Nat /\ Len(x.sock) \in Nat
  BY <1>1
<1>3. n \in 0 .. Len(x.out) /\ Len(x.sock) + n <= SocketSize
  <2>1. Len(x.sock) <= SocketSize
    BY DEF Sound
  <2>2. SocketSize - Len(x.sock) \in Nat
    BY <1>2, <2>1, SizesAssumption
  <2>3. n \in 0 .. Len(x.out) /\ n <= SocketSize - Len(x.sock)
    BY <1>2, <2>2, LesserFacts
  <2> QED
    BY <1>2, <2>3, SizesAssumption
<1>4. y = Fresh(FALSE) \/ y = [x EXCEPT !.sock = a, !.out = b, !.writable = w]
  BY <1>1 DEF control_client_flush, control_client_destroy, PeerRecord, Longer, Left
<1> HIDE DEF n
<1>5. /\ a \in Seq(Nat) /\ b \in Seq(Nat) /\ a \o b = x.sock \o x.out
      /\ Len(a) = Len(x.sock) + n /\ Len(b) = Len(x.out) - n
  <2>1. n \in 0 .. Len(x.out)
    BY <1>3
  <2>2. Moved(Nat, x.sock, x.out, n, a, b)
    BY <1>1, <2>1, MoveKeepsOrder
  <2> QED
    BY <2>2 DEF Moved
<1>6. b # <<>> => w
  BY <1>2, <1>3, <1>5, EmptyIffNone
<1> HIDE DEF a, b, w, y
<1>7. CASE y = [x EXCEPT !.sock = a, !.out = b, !.writable = w]
  <2>1. y \in PeerRecord
    <3>1. w \in BOOLEAN
      BY DEF w
    <3> QED
      BY <1>1, <1>5, <1>7, <3>1 DEF PeerRecord
  <2>2. /\ y.sock = a /\ y.out = b /\ y.writable = w
        /\ y.in = x.in /\ y.req = x.req /\ y.alive = x.alive
        /\ y.told = x.told /\ y.heard = x.heard
    BY <1>1, <1>7 DEF PeerRecord
  <2>3. Sound(y)
    BY <1>3, <1>5, <2>1, <2>2 DEF Sound
  <2> QED
    BY <1>5, <1>6, <2>2, <2>3 DEF y
<1> QED
  BY <1>4, <1>7 DEF y

\* A message m put into a buffer that has room, and flushed.
LEMMA PutIsSettled ==
  ASSUME NEW x, Sound(x), NEW m \in Nat, ToldLast(Append(x.sock \o x.out, m), x.told, x.heard)
  PROVE  Settled(control_client_flush([x EXCEPT !.out = Append(@, m)]))
<1> DEFINE z == [x EXCEPT !.out = Append(@, m)]
<1>1. x \in PeerRecord /\ x.out \in Seq(Nat) /\ x.sock \in Seq(Nat)
  BY DEF Sound, PeerRecord
<1>2. Append(x.out, m) \in Seq(Nat)
  BY <1>1
<1>3. /\ z \in PeerRecord /\ z.sock = x.sock /\ z.out = Append(x.out, m)
      /\ z.in = x.in /\ z.req = x.req /\ z.told = x.told /\ z.heard = x.heard
  BY <1>1, <1>2 DEF PeerRecord
<1> HIDE DEF z
<1>4. Sound(z)
  BY <1>3 DEF Sound
<1>5. z.sock \o z.out = Append(x.sock \o x.out, m)
  <2>1. \A a, b \in Seq(Nat) : a \o Append(b, m) = Append(a \o b, m)
    BY AppendLast
  <2> QED
    BY <1>1, <1>3, <2>1
<1>6. Settled(control_client_flush(z))
  BY <1>3, <1>4, <1>5, FlushFacts, FreshIsSettled DEF Settled
<1> QED
  BY <1>6 DEF z

\* control_send_message sends the message after all others, or destroys the
\* connection: it drops no message of a peer that stays connected.
LEMMA SendIsSettled ==
  ASSUME NEW x, Sound(x), x.alive, NEW m \in Nat,
         ToldLast(Append(x.sock \o x.out, m), x.told, x.heard)
  PROVE  Settled(control_send_message(x, m))
<1> DEFINE y == IF Len(x.out) < OutSize THEN x ELSE control_client_flush(x)
<1>1. \/ y = Fresh(FALSE)
      \/ y.alive /\ Sound(y) /\ ToldLast(Append(y.sock \o y.out, m), y.told, y.heard)
  BY FlushFacts
<1>2. \/ control_send_message(x, m) = y /\ ~y.alive
      \/ control_send_message(x, m) = Fresh(FALSE)
      \/ /\ control_send_message(x, m) = control_client_flush([y EXCEPT !.out = Append(@, m)])
         /\ y.alive
  BY DEF control_send_message, control_client_destroy
<1> HIDE DEF y
<1>3. ~Fresh(FALSE).alive
  BY DEF Fresh
<1>4. y.alive => Settled(control_client_flush([y EXCEPT !.out = Append(@, m)]))
  BY <1>1, <1>3, PutIsSettled
<1> QED
  BY <1>1, <1>2, <1>4, FreshIsSettled

\* The input changes; the rest of the connection does not.
LEMMA InputIsSettled ==
  ASSUME NEW x, Settled(x), NEW i \in Seq(Unit), NEW r \in Seq(Unit), Framed(i \o r)
  PROVE  Settled([x EXCEPT !.in = i, !.req = r])
<1> DEFINE y == [x EXCEPT !.in = i, !.req = r]
<1>1. x \in PeerRecord
  BY DEF Settled, Sound
<1>2. /\ y \in PeerRecord /\ y.in = i /\ y.req = r /\ y.sock = x.sock /\ y.out = x.out
      /\ y.writable = x.writable /\ y.told = x.told /\ y.heard = x.heard
  BY <1>1 DEF PeerRecord
<1> HIDE DEF y
<1>3. Settled(y)
  BY <1>2 DEF Settled, Sound
<1> QED
  BY <1>3 DEF y

\* connection_read moves units from the socket to the buffer, in their order.
LEMMA ReadIsSettled ==
  ASSUME NEW x, Settled(x)
  PROVE  Settled(connection_read(x))
<1> DEFINE n == Lesser(Len(x.req), InSize - Len(x.in))
           i == Longer(x.in, x.req, n)
           r == Left(x.req, n)
<1>1. x \in PeerRecord /\ x.req \in Seq(Unit) /\ x.in \in Seq(Unit)
  BY DEF Settled, Sound, PeerRecord
<1>2. \/ connection_read(x) = Fresh(FALSE)
      \/ Len(x.in) < InSize /\ connection_read(x) = [x EXCEPT !.in = i, !.req = r]
  <2>1. Len(x.in) >= InSize \/ Len(x.in) < InSize
    BY <1>1, SizesAssumption
  <2> HIDE DEF n
  <2>2. [x EXCEPT !.in = @ \o SubSeq(x.req, 1, n), !.req = SubSeq(@, n + 1, Len(@))]
          = [x EXCEPT !.in = i, !.req = r]
    BY <1>1 DEF PeerRecord, Longer, Left
  <2> QED
    BY <2>1, <2>2 DEF connection_read, control_client_destroy, n
<1>3. ASSUME Len(x.in) < InSize
      PROVE  Settled([x EXCEPT !.in = i, !.req = r])
  <2>1. Len(x.req) \in Nat /\ InSize - Len(x.in) \in Nat
    BY <1>1, <1>3, SizesAssumption
  <2>2. n \in 0 .. Len(x.req)
    BY <2>1, LesserFacts
  <2> HIDE DEF n
  <2>3. Moved(Unit, x.in, x.req, n, i, r)
    BY <1>1, <2>2, MoveKeepsOrder
  <2>4. i \in Seq(Unit) /\ r \in Seq(Unit) /\ i \o r = x.in \o x.req
    BY <2>3 DEF Moved
  <2>5. Framed(i \o r)
    BY <2>4 DEF Settled, Sound
  <2> HIDE DEF i, r
  <2> QED
    BY <2>4, <2>5, InputIsSettled
<1> QED
  BY <1>2, <1>3, FreshIsSettled

\* The stream after the first whole request of the buffer b was taken out.
LEMMA TakenIsFramed ==
  ASSUME NEW b \in Seq(Unit), NEW r \in Seq(Unit), Framed(b \o r), Complete(b)
  PROVE  LET c == SubSeq(b, PayloadUnits(b[1][1]) + 2, Len(b))
         IN c \in Seq(Unit) /\ Framed(c \o r)
<1> DEFINE op == b[1][1]
           n == PayloadUnits(op)
           q == b \o r
<1>1. Len(b) \in Nat /\ Len(r) \in Nat /\ Len(b) > 0 /\ op \in Operations
  BY DEF Complete, Unit
<1>2. n \in Nat /\ n < Len(b)
  BY <1>1, PayloadIsSmall DEF Complete
<1> HIDE DEF n
<1>3. q \in Seq(Unit) /\ Len(q) = Len(b) + Len(r) /\ q[1] = b[1]
  <2>1. 1 \in 1 .. Len(b) + Len(r) /\ 1 <= Len(b)
    BY <1>1
  <2> QED
    BY <2>1, ConcatFacts
<1>4. n = PayloadUnits(q[1][1])
  BY <1>3 DEF n
<1> HIDE DEF q, op
<1>5. Len(q) > n /\ q # <<>>
  BY <1>1, <1>2, <1>3, EmptyIffNone
<1>6. Framed(SubSeq(q, n + 2, Len(q)))
  BY <1>3, <1>4, <1>5, RestIsFramed DEF q
<1>7. SubSeq(b, n + 2, Len(b)) \in Seq(Unit)
  BY <1>2, DropIsSubSeq
<1>8. SubSeq(b, n + 2, Len(b)) \o r = SubSeq(q, n + 2, Len(q))
  BY <1>2, DropIsSubSeq DEF q
<1> QED
  BY <1>6, <1>7, <1>8 DEF n, op

\* The handler of a whole request takes exactly that request out of the buffer,
\* whatever it answers.
LEMMA HandledIsSettled ==
  ASSUME NEW x, Settled(x), x.alive, Complete(x.in), NEW ok \in BOOLEAN
  PROVE  LET op == x.in[1][1]
         IN Settled(Answered([x EXCEPT !.in = SubSeq(@, PayloadUnits(op) + 2, Len(@))], op, ok))
<1> DEFINE op == x.in[1][1]
           i == SubSeq(x.in, PayloadUnits(op) + 2, Len(x.in))
           y == [x EXCEPT !.in = i]
<1>1. x \in PeerRecord /\ x.req \in Seq(Unit) /\ x.in \in Seq(Unit)
  BY DEF Settled, Sound, PeerRecord
<1>2. Framed(x.in \o x.req)
  BY DEF Settled, Sound
<1>3. i \in Seq(Unit) /\ Framed(i \o x.req)
  BY <1>1, <1>2, TakenIsFramed
<1> HIDE DEF i
<1>4. y = [x EXCEPT !.in = i, !.req = x.req]
  BY <1>1 DEF PeerRecord
<1>5. Settled(y)
  BY <1>1, <1>3, <1>4, InputIsSettled
<1>6. y.alive
  BY <1>1 DEF PeerRecord
<1> HIDE DEF y
<1>7. Settled(control_send_message(y, REPLY))
  <2>1. /\ y.sock \o y.out \in Seq(Nat) /\ y.told \in Nat /\ y.heard \in Nat
    BY <1>5 DEF Settled, Sound, PeerRecord
  <2>2. ToldLast(Append(y.sock \o y.out, REPLY), y.told, y.heard)
    BY <1>5, <2>1, ReplyKeepsTold DEF Settled
  <2> QED
    BY <1>5, <1>6, <2>2, SendIsSettled DEF Settled, REPLY
<1> QED
  BY <1>5, <1>7 DEF Answered, y, i

\* Flushing on EVENT_WRITABLE.
LEMMA FlushIsSettled == ASSUME NEW x, Settled(x) PROVE Settled(control_client_flush(x))
  BY FlushFacts, FreshIsSettled DEF Settled

\* The peer reads the first message.
LEMMA HeadIsSettled ==
  ASSUME NEW x, Settled(x), x.sock # <<>>
  PROVE  LET m == Head(x.sock)
         IN Settled([x EXCEPT !.sock = Tail(@), !.heard = IF m = REPLY THEN @ ELSE m])
<1> DEFINE h == IF Head(x.sock) = REPLY THEN x.heard ELSE Head(x.sock)
           s == Tail(x.sock)
           y == [x EXCEPT !.sock = s, !.heard = h]
<1>1. /\ x \in PeerRecord /\ x.sock \in Seq(Nat) /\ x.out \in Seq(Nat)
      /\ x.told \in Nat /\ x.heard \in Nat /\ Len(x.sock) <= SocketSize
  BY DEF Settled, Sound, PeerRecord
<1>2. \A a, b \in Seq(Nat) : a # <<>> =>
        /\ Tail(a) \in Seq(Nat) /\ Head(a) \in Nat
        /\ a \o b \in Seq(Nat) /\ a \o b # <<>>
        /\ Head(a \o b) = Head(a) /\ Tail(a \o b) = Tail(a) \o b
  BY TailOfConcat
<1>3. \A a \in Seq(Nat) : a # <<>> /\ Len(a) <= SocketSize => Len(Tail(a)) <= SocketSize
  BY SizesAssumption
<1>4. s \in Seq(Nat) /\ h \in Nat
  BY <1>1, <1>2
<1>5. Len(s) <= SocketSize
  BY <1>1, <1>3
<1>6. ToldLast(s \o x.out, x.told, h)
  <2>1. ToldLast(x.sock \o x.out, x.told, x.heard)
    BY DEF Settled
  <2>2. /\ x.sock \o x.out \in Seq(Nat) /\ x.sock \o x.out # <<>>
        /\ Head(x.sock \o x.out) = Head(x.sock) /\ Tail(x.sock \o x.out) = s \o x.out
    BY <1>1, <1>2
  <2>3. ToldLast(Tail(x.sock \o x.out), x.told,
                 IF Head(x.sock \o x.out) = REPLY THEN x.heard ELSE Head(x.sock \o x.out))
    BY <1>1, <2>1, <2>2, ReadKeepsTold
  <2> QED
    BY <2>2, <2>3
<1> HIDE DEF h, s
<1>7. /\ y \in PeerRecord /\ y.sock = s /\ y.heard = h /\ y.out = x.out /\ y.in = x.in
      /\ y.req = x.req /\ y.writable = x.writable /\ y.told = x.told
  BY <1>1, <1>4 DEF PeerRecord
<1> HIDE DEF y
<1>8. Settled(y)
  BY <1>5, <1>6, <1>7 DEF Settled, Sound
<1> QED
  BY <1>1, <1>8 DEF y, h, s, PeerRecord

\* The peer writes a whole request.
LEMMA WriteIsSettled ==
  ASSUME NEW x, Settled(x), NEW op \in Operations
  PROVE  Settled([x EXCEPT !.req = @ \o Request(op)])
<1> DEFINE r == x.req \o Request(op)
<1>1. x \in PeerRecord /\ x.req \in Seq(Unit) /\ x.in \in Seq(Unit)
  BY DEF Settled, Sound, PeerRecord
<1>2. Framed(x.in \o x.req)
  BY DEF Settled, Sound
<1>3. \A a, b, c \in Seq(Unit) :
        a \o b \in Seq(Unit) /\ b \o c \in Seq(Unit) /\ a \o (b \o c) = (a \o b) \o c
  BY ConcatAssociates
<1>4. Request(op) \in Seq(Unit) /\ Framed((x.in \o x.req) \o Request(op))
  BY <1>1, <1>2, <1>3, RequestIsFramed
<1>5. r \in Seq(Unit) /\ Framed(x.in \o r)
  BY <1>1, <1>3, <1>4
<1>6. [x EXCEPT !.req = @ \o Request(op)] = [x EXCEPT !.in = x.in, !.req = r]
  BY <1>1 DEF PeerRecord
<1> HIDE DEF r
<1> QED
  BY <1>1, <1>5, <1>6, InputIsSettled

\* Fields the other clauses do not mention.
LEMMA FlagsAreSettled ==
  ASSUME NEW x, Settled(x), NEW e \in {"no", "hangup", "error"}, NEW b \in BOOLEAN
  PROVE  /\ Settled([x EXCEPT !.ended = e])
         /\ Settled([x EXCEPT !.hangup = b])
<1>1. x \in PeerRecord
  BY DEF Settled, Sound
<1>2. ASSUME NEW y \in {[x EXCEPT !.ended = e], [x EXCEPT !.hangup = b]} PROVE Settled(y)
  <2>1. /\ y \in PeerRecord /\ y.sock = x.sock /\ y.heard = x.heard /\ y.out = x.out
        /\ y.in = x.in /\ y.req = x.req /\ y.writable = x.writable /\ y.told = x.told
    BY <1>1 DEF PeerRecord
  <2> QED
    BY <2>1 DEF Settled, Sound
<1> QED
  BY <1>2
-----------------------------------------------------------------------------
\* The handler of a readable or writable connection, up to its loop.
LEMMA ConnectionKeepsInv ==
  ASSUME ControlInv, NEW p \in Peer, control_client_handle_connection(p)
  PROVE  ControlInv'
<1> DEFINE x == [peer[p] EXCEPT !.hangup = peer[p].ended # "no"]
           write == x.writable /\ (Len(x.sock) < SocketSize \/ x.hangup)
           read == x.req # <<>> \/ x.hangup
           w == IF write THEN control_client_flush(x) ELSE x
           y == IF x.ended = "error" THEN control_client_destroy(x)
                ELSE IF read /\ w.alive THEN connection_read(w) ELSE w
<1>1. /\ peer' = [peer EXCEPT ![p] = y]
      /\ busy' = IF y.alive /\ read THEN p ELSE "none"
  BY DEF control_client_handle_connection
<1>2. Settled(peer[p])
  BY DEF ControlInv
<1>3. (peer[p].ended # "no") \in BOOLEAN
  OBVIOUS
<1>4. Settled(x)
  BY <1>2, <1>3, FlagsAreSettled
<1> HIDE DEF x
<1>5. Settled(w)
  BY <1>4, FlushIsSettled
<1> HIDE DEF w
<1>6. Settled(y)
  BY <1>4, <1>5, ReadIsSettled, FreshIsSettled DEF control_client_destroy
<1> HIDE DEF y, read
<1> QED
  BY <1>1, <1>6, PeerAssumption DEF ControlInv, Settled, Sound

\* A broadcast reaches every connected peer, or ends its connection.
LEMMA BroadcastKeepsInv ==
  ASSUME ControlInv, NEW v \in VT, seat_handle_vt_event(v)
  PROVE  ControlInv'
<1>1. CASE clients
  <2>1. ASSUME NEW p \in Peer PROVE Settled(control_broadcast_vt_change(v)[p])
    <3> DEFINE x == [peer[p] EXCEPT !.told = v]
    <3>1. Settled(peer[p]) /\ peer[p] \in PeerRecord /\ v \in Nat \ {0}
      BY VTAssumption DEF ControlInv
    <3>2. CASE ~peer[p].alive
      BY <3>1, <3>2 DEF control_broadcast_vt_change
    <3>3. CASE peer[p].alive
      <4>1. /\ x \in PeerRecord /\ x.sock = peer[p].sock /\ x.heard = peer[p].heard
            /\ x.out = peer[p].out /\ x.in = peer[p].in /\ x.req = peer[p].req
            /\ x.told = v /\ x.alive
        BY <3>1, <3>3 DEF PeerRecord
      <4> HIDE DEF x
      <4>2. Sound(x)
        BY <3>1, <4>1 DEF Settled, Sound
      <4>3. x.sock \o x.out \in Seq(Nat) /\ x.heard \in Nat
        BY <4>1 DEF PeerRecord
      <4>4. ToldLast(Append(x.sock \o x.out, v), x.told, x.heard)
        BY <3>1, <4>1, <4>3, ChangeIsTold
      <4>5. Settled(control_send_message(x, v))
        BY <3>1, <4>1, <4>2, <4>4, SendIsSettled
      <4> QED
        BY <3>3, <4>5 DEF control_broadcast_vt_change, VT_CHANGED, x
    <3> QED
      BY <3>2, <3>3
  <2>2. peer' = control_broadcast_vt_change(v) /\ busy' = "none"
    BY <1>1 DEF seat_handle_vt_event
  <2>3. \A p \in Peer : Settled(peer'[p]) /\ peer'[p] \in PeerRecord
    BY <2>1, <2>2 DEF Settled, Sound
  <2>4. peer' = [p \in Peer |-> peer'[p]]
    BY <2>2 DEF control_broadcast_vt_change
  <2> QED
    BY <2>2, <2>3, <2>4, PeerAssumption DEF ControlInv
<1>2. CASE ~clients
  BY <1>2 DEF seat_handle_vt_event, ControlInv
<1> QED
  BY <1>1, <1>2

\* The inductive invariant holds: no cutting of the stream into pieces, failed
\* request, full buffer, slow reader or hangup breaks it.
THEOREM ControlInvHolds == Spec => []ControlInv
<1>1. Init => ControlInv
  BY FreshIsSettled, PeerAssumption DEF Init, ControlInv, Settled, Sound
<1>2. ControlInv /\ [Next]_vars => ControlInv'
  <2> SUFFICES ASSUME ControlInv, [Next]_vars PROVE ControlInv'
    OBVIOUS
  <2>1. ASSUME NEW p \in Peer, NEW y, Settled(y), peer' = [peer EXCEPT ![p] = y],
               \/ busy' = "none"
               \/ busy' = p /\ y.alive
               \/ busy' = busy /\ (peer[p].alive => y.alive)
        PROVE  ControlInv'
    BY <2>1, PeerAssumption DEF ControlInv, Settled, Sound
  <2>2. \A p \in Peer : Settled(peer[p]) /\ peer[p] \in PeerRecord
    BY DEF ControlInv
  <2>3. ASSUME NEW p \in Peer, control_client_handle_connection(p)
        PROVE  ControlInv'
    BY <2>3, ConnectionKeepsInv
  <2>4. ASSUME NEW ok \in BOOLEAN, control_client_handle_opcode(ok)
        PROVE  ControlInv'
    <3> DEFINE x == peer[busy]
               op == x.in[1][1]
               y == Answered([x EXCEPT !.in = SubSeq(@, PayloadUnits(op) + 2, Len(@))], op, ok)
    <3>1. busy \in Peer /\ Complete(x.in) /\ x.alive /\ Settled(x)
      BY <2>4 DEF control_client_handle_opcode, ControlInv
    <3>2. Settled(y)
      BY <3>1, HandledIsSettled
    <3>3. peer' = [peer EXCEPT ![busy] = y] /\ busy' = IF y.alive THEN busy ELSE "none"
      BY <2>4 DEF control_client_handle_opcode
    <3> HIDE DEF y
    <3> QED
      BY <2>1, <3>1, <3>2, <3>3
  <2>5. CASE HandlerReturns
    <3> DEFINE y == IF peer[busy].hangup THEN Fresh(FALSE) ELSE peer[busy]
    <3>1. busy \in Peer /\ busy' = "none"
      BY <2>5 DEF HandlerReturns, ControlInv
    <3>2. Settled(y)
      BY <2>2, <3>1, FreshIsSettled
    <3>3. peer' = [peer EXCEPT ![busy] = y]
      BY <2>5 DEF HandlerReturns, control_client_destroy
    <3> HIDE DEF y
    <3> QED
      BY <2>1, <3>1, <3>2, <3>3
  <2>6. ASSUME NEW p \in Peer, control_handle_connection(p)
        PROVE  ControlInv'
    <3>1. peer' = [peer EXCEPT ![p] = Fresh(TRUE)] /\ busy' = busy /\ Fresh(TRUE).alive
      BY <2>6 DEF control_handle_connection, Fresh
    <3> QED
      BY <2>1, <3>1, FreshIsSettled
  <2>7. ASSUME NEW p \in Peer, Reads(p)
        PROVE  ControlInv'
    <3> DEFINE m == Head(peer[p].sock)
               y == [peer[p] EXCEPT !.sock = Tail(@), !.heard = IF m = REPLY THEN @ ELSE m]
    <3>1. Settled(y)
      BY <2>2, <2>7, HeadIsSettled DEF Reads
    <3>2. peer' = [peer EXCEPT ![p] = y] /\ busy' = busy
      BY <2>2, <2>7 DEF Reads, ControlInv, PeerRecord
    <3>3. y.alive = peer[p].alive
      BY <2>2 DEF PeerRecord
    <3> HIDE DEF y
    <3> QED
      BY <2>1, <3>1, <3>2, <3>3
  <2>8. ASSUME NEW p \in Peer, Closes(p)
        PROVE  ControlInv'
    <3> DEFINE e == IF peer[p].sock = <<>> THEN "hangup" ELSE "error"
               y == [peer[p] EXCEPT !.ended = e]
    <3>1. Settled(y)
      BY <2>2, FlagsAreSettled
    <3>2. peer' = [peer EXCEPT ![p] = y] /\ busy' = busy
      BY <2>8 DEF Closes, ControlInv
    <3>3. y.alive = peer[p].alive
      BY <2>2 DEF PeerRecord
    <3> HIDE DEF y
    <3> QED
      BY <2>1, <3>1, <3>2, <3>3
  <2>9. ASSUME NEW p \in Peer, NEW op \in Operations, Writes(p, op)
        PROVE  ControlInv'
    <3> DEFINE y == [peer[p] EXCEPT !.req = @ \o Request(op)]
    <3>1. Settled(y)
      BY <2>2, WriteIsSettled
    <3>2. peer' = [peer EXCEPT ![p] = y] /\ busy' = busy
      BY <2>9 DEF Writes, ControlInv
    <3>3. y.alive = peer[p].alive
      BY <2>2 DEF PeerRecord
    <3> HIDE DEF y
    <3> QED
      BY <2>1, <3>1, <3>2, <3>3
  <2>10. ASSUME NEW v \in VT, seat_handle_vt_event(v)
         PROVE  ControlInv'
    BY <2>10, BroadcastKeepsInv
  <2>11. CASE ClientsChange \/ UNCHANGED vars
    BY <2>11 DEF ClientsChange, vars, ControlInv
  <2> QED
    BY <2>3, <2>4, <2>5, <2>6, <2>7, <2>8, <2>9, <2>10, <2>11 DEF Next, Handler
<1> QED
  BY <1>1, <1>2, PTL DEF Spec

\* control_client_handle_connection never loses its place in the stream.
THEOREM ParserKeepsItsPlace == Spec => []HeadersAreHeaders
<1>1. ControlInv => HeadersAreHeaders
  <2> SUFFICES ASSUME ControlInv, NEW p \in Peer, peer[p].in # <<>>
               PROVE  peer[p].in[1][2] = 0
    BY DEF HeadersAreHeaders
  <2>1. peer[p].in \in Seq(Unit) /\ peer[p].req \in Seq(Unit)
    BY DEF ControlInv, PeerRecord
  <2>2. Framed(peer[p].in \o peer[p].req)
    BY DEF ControlInv, Settled, Sound
  <2>3. ASSUME NEW a \in Seq(Unit), NEW b \in Seq(Unit), Framed(a \o b), a # <<>>
        PROVE  a[1][2] = 0
    <3>1. Len(a \o b) > 0 /\ (a \o b)[1] = a[1]
      BY <2>3
    <3> QED
      BY <2>3, <3>1 DEF Framed
  <2> QED
    BY <2>1, <2>2, <2>3
<1> QED
  BY <1>1, ControlInvHolds, PTL

\* Output the socket did not take is always waited for (control_client_flush).
THEOREM OutputStaysArmed == Spec => []OutputArmed
<1>1. ControlInv => OutputArmed
  BY DEF ControlInv, Settled, OutputArmed
<1> QED
  BY <1>1, ControlInvHolds, PTL

\* No connected peer misses the last VT change (control_broadcast_vt_change).
THEOREM LastChangeIsNotLost == Spec => []LastChangeArrives
<1>1. ControlInv => LastChangeArrives
  BY DEF ControlInv, Settled, ToldLast, LastChangeArrives, VT_CHANGED
<1> QED
  BY <1>1, ControlInvHolds, PTL
=============================================================================
