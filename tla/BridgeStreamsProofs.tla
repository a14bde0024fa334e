------------------------- MODULE BridgeStreamsProofs -------------------------
(***************************************************************************)
(* The two streams of every session, for every number of sessions and all  *)
(* sizes and capacities: nothing is lost on the way up or down while both  *)
(* ends are there, and the bridge implements Duplex.  A unit is where the  *)
(* invariant says it is because each place on the way holds a span of the  *)
(* stream, and the spans are adjacent.                                     *)
(***************************************************************************)
EXTENDS BridgeStreams, BridgeProofs, SeqFacts

----------------------------------------------------------------------------
(* Spans *)

(* x is units a + 1 to b of the stream of session s. *)
Span(x, s, a, b) ==
  /\ a \in Nat /\ b \in Nat /\ a <= b
  /\ x \in Seq(Unit) /\ Len(x) = b - a
  /\ \A i \in 1..(b - a) : x[i] = <<s, a + i>>

LEMMA UnitsSpan ==
  ASSUME NEW s \in Sessions, NEW a \in Nat, NEW n \in Nat
  PROVE  Span(Units(s, a, n), s, a, a + n)
<1> DEFINE x == Units(s, a, n)
<1>1. x \in Seq(Unit)
  BY UnitsType
<1>2. DOMAIN x = 1..n /\ \A i \in 1..n : x[i] = <<s, a + i>>
  BY DEF Units
<1>3. DOMAIN x = 1..Len(x) /\ Len(x) \in Nat
  BY <1>1, LenProperties
<1> HIDE DEF x
<1>4. Len(x) = n
  BY <1>2, <1>3, SameRange
<1>5. (a + n) - a = n /\ a <= a + n /\ a + n \in Nat
  OBVIOUS
<1> QED
  BY <1>1, <1>2, <1>4, <1>5 DEF Span, x

(* A span is determined by its ends. *)
LEMMA SpanUnits ==
  ASSUME NEW s \in Sessions, NEW x, NEW a, NEW b, Span(x, s, a, b)
  PROVE  x = Units(s, a, b - a)
<1> DEFINE y == Units(s, a, b - a)
<1>1. b - a \in Nat /\ a \in Nat /\ a + (b - a) = b
  BY DEF Span
<1>2. Span(y, s, a, b)
  BY <1>1, UnitsSpan
<1>3. /\ x \in Seq(Unit) /\ y \in Seq(Unit) /\ Len(x) = Len(y)
      /\ \A i \in 1..Len(x) : x[i] = y[i]
  <2> HIDE DEF y
  <2> QED
    BY <1>2 DEF Span
<1> HIDE DEF y
<1>4. x = y
  BY <1>3, SeqEqual
<1> QED
  BY <1>4 DEF y

LEMMA SpanEmpty ==
  ASSUME NEW s \in Sessions, NEW a \in Nat
  PROVE  Span(<<>>, s, a, a)
BY EmptySeq DEF Span

LEMMA EmptySpan ==
  ASSUME NEW s \in Sessions, NEW a, NEW b, Span(<<>>, s, a, b)
  PROVE  a = b
<1>1. Len(<<>>) = 0
  BY EmptySeq
<1> QED
  BY <1>1 DEF Span

(* Adjacent spans make one. *)
LEMMA SpanJoin ==
  ASSUME NEW s \in Sessions, NEW x, NEW y, NEW a, NEW b, NEW c,
         Span(x, s, a, b), Span(y, s, b, c)
  PROVE  Span(x \o y, s, a, c)
<1> DEFINE z == x \o y
<1>1. /\ a \in Nat /\ b \in Nat /\ c \in Nat /\ a <= b /\ b <= c
      /\ x \in Seq(Unit) /\ y \in Seq(Unit) /\ Len(x) = b - a /\ Len(y) = c - b
  BY DEF Span
<1>2. /\ z \in Seq(Unit) /\ Len(z) = Len(x) + Len(y)
      /\ \A i \in 1..(Len(x) + Len(y)) :
           z[i] = IF i <= Len(x) THEN x[i] ELSE y[i - Len(x)]
  BY <1>1, ConcatProperties
<1> HIDE DEF z
<1>3. ASSUME NEW i \in 1..(c - a) PROVE z[i] = <<s, a + i>>
  <2>1. i \in 1..(Len(x) + Len(y))
    BY <1>1
  <2>2. CASE i <= b - a
    <3>1. i \in 1..(b - a)
      BY <1>1, <2>2
    <3>2. x[i] = <<s, a + i>>
      BY <3>1 DEF Span
    <3> QED
      BY <1>1, <1>2, <2>1, <2>2, <3>2
  <2>3. CASE ~(i <= b - a)
    <3>1. i - (b - a) \in 1..(c - b) /\ b + (i - (b - a)) = a + i
      BY <1>1, <2>3
    <3>2. y[i - (b - a)] = <<s, b + (i - (b - a))>>
      BY <3>1 DEF Span
    <3>3. z[i] = y[i - (b - a)]
      BY <1>1, <1>2, <2>1, <2>3
    <3> QED
      BY <3>1, <3>2, <3>3
  <2> QED
    BY <2>2, <2>3
<1>4. Len(z) = c - a /\ a <= c
  BY <1>1, <1>2
<1>5. Span(z, s, a, c)
  BY <1>1, <1>2, <1>3, <1>4 DEF Span
<1> QED
  BY <1>5 DEF z

(* One span in two parts is two adjacent ones. *)
LEMMA SpanSplit ==
  ASSUME NEW s \in Sessions, NEW x \in Seq(Unit), NEW y \in Seq(Unit), NEW a, NEW c,
         Span(x \o y, s, a, c)
  PROVE  Span(x, s, a, a + Len(x)) /\ Span(y, s, a + Len(x), c)
<1> DEFINE z == x \o y
           k == Len(x)
           m == Len(y)
<1>1. k \in Nat /\ m \in Nat
  BY LenProperties
<1>2. /\ Len(z) = k + m
      /\ \A i \in 1..(k + m) : z[i] = IF i <= k THEN x[i] ELSE y[i - k]
  BY ConcatProperties
<1>3. /\ a \in Nat /\ c \in Nat /\ a <= c /\ Len(z) = c - a
      /\ \A i \in 1..(c - a) : z[i] = <<s, a + i>>
  BY DEF Span
<1>4. k + m = c - a /\ (a + k) - a = k /\ c - (a + k) = m /\ a <= a + k
      /\ a + k <= c /\ a + k \in Nat
  <2> HIDE DEF z, k, m
  <2>1. k + m = c - a
    BY <1>2, <1>3
  <2> QED
    BY <1>1, <1>3, <2>1
<1>5. ASSUME NEW i \in 1..k PROVE x[i] = <<s, a + i>>
  <2>1. i \in 1..(k + m) /\ i <= k
    BY <1>1
  <2> HIDE DEF z, k, m
  <2> QED
    BY <1>2, <1>3, <1>4, <2>1
<1>6. ASSUME NEW i \in 1..m PROVE y[i] = <<s, (a + k) + i>>
  <2>1. i + k \in 1..(k + m) /\ ~(i + k <= k) /\ (i + k) - k = i /\ a + (i + k) = (a + k) + i
    BY <1>1, <1>3
  <2>2. z[i + k] = y[i] /\ z[i + k] = <<s, a + (i + k)>>
    <3> HIDE DEF z, k, m
    <3> QED
      BY <1>2, <1>3, <1>4, <2>1
  <2> HIDE DEF z, k, m
  <2> QED
    BY <2>1, <2>2
<1> QED
  BY <1>3, <1>4, <1>5, <1>6 DEF Span

(* What a read() or a partial write() takes from a span, and leaves. *)
LEMMA SpanCut ==
  ASSUME NEW s \in Sessions, NEW x, NEW a, NEW b, Span(x, s, a, b),
         NEW n \in 0..Len(x)
  PROVE  /\ Span(SubSeq(x, 1, n), s, a, a + n)
         /\ Span(SubSeq(x, n + 1, Len(x)), s, a + n, b)
<1>1. x \in Seq(Unit) /\ Len(x) \in Nat /\ Len(x) = b - a /\ a \in Nat /\ b \in Nat
  BY DEF Span
<1> DEFINE u == SubSeq(x, 1, n)
           v == SubSeq(x, n + 1, Len(x))
<1>2. u \in Seq(Unit) /\ v \in Seq(Unit) /\ Len(u) = n
  <2>1. \A i \in 1..n : x[i] \in Unit
    BY <1>1, ElementOfSeq
  <2>2. \A i \in (n + 1)..Len(x) : x[i] \in Unit
    BY <1>1, ElementOfSeq
  <2>3. u \in Seq(Unit) /\ Len(u) = IF 1 <= n THEN (n - 1) + 1 ELSE 0
    BY <1>1, <2>1, SubSeqProperties
  <2>4. v \in Seq(Unit)
    BY <1>1, <2>2, SubSeqProperties
  <2>5. Len(u) = n
    <3> HIDE DEF u
    <3> QED
      BY <1>1, <2>3
  <2> QED
    BY <2>3, <2>4, <2>5
<1>3. u \o v = x
  <2>1. 1 \in 1..(Len(x) + 1) /\ n \in (1 - 1)..Len(x) /\ Len(x) \in n..Len(x)
    BY <1>1
  <2>2. u \o v = SubSeq(x, 1, Len(x))
    BY <1>1, <2>1, ConcatAdjacentSubSeq
  <2> QED
    BY <1>1, <2>2, SubSeqFull
<1> HIDE DEF u, v
<1>4. Span(u, s, a, a + n) /\ Span(v, s, a + n, b)
  BY <1>2, <1>3, SpanSplit
<1> QED
  BY <1>4 DEF u, v

(* The next unit, and the first one. *)
LEMMA SpanNext ==
  ASSUME NEW s \in Sessions, NEW x, NEW a, NEW b, Span(x, s, a, b)
  PROVE  Span(Append(x, <<s, b + 1>>), s, a, b + 1)
<1> DEFINE u == <<s, b + 1>>
           z == Append(x, u)
<1>1. /\ a \in Nat /\ b \in Nat /\ a <= b /\ x \in Seq(Unit) /\ Len(x) = b - a
      /\ u \in Unit
  BY DEF Span, Unit
<1>2. /\ z \in Seq(Unit) /\ Len(z) = Len(x) + 1 /\ z[Len(x) + 1] = u
      /\ \A i \in 1..Len(x) : z[i] = x[i]
  <2> HIDE DEF u
  <2> QED
    BY <1>1, AppendProperties
<1> HIDE DEF z
<1>3. ASSUME NEW i \in 1..((b + 1) - a) PROVE z[i] = <<s, a + i>>
  <2>1. CASE i = (b + 1) - a
    <3>1. i = Len(x) + 1 /\ a + i = b + 1
      BY <1>1, <2>1
    <3> QED
      BY <1>2, <3>1
  <2>2. CASE i # (b + 1) - a
    <3>1. i \in 1..(b - a) /\ i \in 1..Len(x)
      BY <1>1, <2>2
    <3>2. x[i] = <<s, a + i>>
      BY <3>1 DEF Span
    <3> QED
      BY <1>2, <3>1, <3>2
  <2> QED
    BY <2>1, <2>2
<1>4. Len(z) = (b + 1) - a /\ b + 1 \in Nat /\ a <= b + 1
  BY <1>1, <1>2
<1>5. Span(z, s, a, b + 1)
  BY <1>1, <1>2, <1>3, <1>4 DEF Span
<1> QED
  BY <1>5 DEF z

LEMMA SpanFirst ==
  ASSUME NEW s \in Sessions, NEW x, NEW a, NEW b, Span(x, s, a, b), x # <<>>
  PROVE  a < b /\ Head(x) = <<s, a + 1>> /\ Span(Tail(x), s, a + 1, b)
<1>1. /\ a \in Nat /\ b \in Nat /\ x \in Seq(Unit) /\ Len(x) = b - a
  BY DEF Span
<1>2. Len(x) \in Nat \ {0}
  BY <1>1, EmptySeq
<1>3. a < b /\ 1 \in 1..(b - a) /\ a + 1 <= b /\ a + 1 \in Nat
  BY <1>1, <1>2
<1>4. x[1] = <<s, a + 1>>
  BY <1>3 DEF Span
<1> DEFINE t == Tail(x)
<1>5. /\ t \in Seq(Unit) /\ Len(t) = Len(x) - 1
      /\ \A i \in 1..Len(t) : t[i] = x[i + 1]
  BY <1>1, HeadTailProperties
<1> HIDE DEF t
<1>6. Len(t) = b - (a + 1)
  BY <1>1, <1>5
<1>7. ASSUME NEW i \in 1..(b - (a + 1)) PROVE t[i] = <<s, (a + 1) + i>>
  <2>1. i + 1 \in 1..(b - a) /\ a + (i + 1) = (a + 1) + i /\ i \in 1..Len(t)
    BY <1>1, <1>6
  <2>2. x[i + 1] = <<s, a + (i + 1)>>
    BY <2>1 DEF Span
  <2> QED
    BY <1>5, <2>1, <2>2
<1>8. Span(t, s, a + 1, b)
  BY <1>1, <1>3, <1>5, <1>6, <1>7 DEF Span
<1> QED
  BY <1>3, <1>4, <1>8 DEF t

----------------------------------------------------------------------------
(* The payload of a queue *)

Data == [msg \in Msg |-> msg.data]

LEMMA PayloadIs ==
  ASSUME NEW q \in Seq(Msg)
  PROVE  Payload(q) = Gather(Data, q)
<1>1. \A i \in 1..Len(q) : q[i].data = Data[q[i]]
  BY ElementOfSeq DEF Data
<1>2. [i \in 1..Len(q) |-> q[i].data] = [i \in 1..Len(q) |-> Data[q[i]]]
  BY <1>1
<1> QED
  BY <1>2 DEF Payload, Gather, Mapped

LEMMA DataType == Data \in [Msg -> Seq(Unit)] /\ \A msg \in Msg : Data[msg] = msg.data
BY DEF Data, Msg

LEMMA PayloadFacts ==
  ASSUME NEW q \in Seq(Msg)
  PROVE  /\ Payload(q) \in Seq(Unit)
         /\ \A msg \in Msg : Payload(Append(q, msg)) = Payload(q) \o msg.data
         /\ q # <<>> => Payload(q) = Head(q).data \o Payload(Tail(q))
<1>1. Payload(q) \in Seq(Unit)
  BY PayloadIs, DataType, GatherType
<1>2. ASSUME NEW msg \in Msg PROVE Payload(Append(q, msg)) = Payload(q) \o msg.data
  <2>1. Append(q, msg) \in Seq(Msg)
    BY AppendProperties
  <2>2. Gather(Data, Append(q, msg)) = Gather(Data, q) \o Data[msg]
    BY DataType, GatherAppend
  <2>3. Payload(Append(q, msg)) = Gather(Data, Append(q, msg))
    BY <2>1, PayloadIs
  <2> QED
    BY <2>2, <2>3, PayloadIs, DataType
<1>3. ASSUME q # <<>> PROVE Payload(q) = Head(q).data \o Payload(Tail(q))
  <2>1. Head(q) \in Msg /\ Tail(q) \in Seq(Msg)
    BY <1>3, HeadTailProperties
  <2>2. Gather(Data, q) = Data[Head(q)] \o Gather(Data, Tail(q))
    BY <1>3, DataType, GatherTail
  <2>3. Payload(Tail(q)) = Gather(Data, Tail(q))
    BY <2>1, PayloadIs
  <2> QED
    BY <2>1, <2>2, <2>3, PayloadIs, DataType
<1> QED
  BY <1>1, <1>2, <1>3

LEMMA PayloadEmpty == Payload(<<>>) = <<>>
<1>1. <<>> \in Seq(Msg)
  BY EmptySeq
<1> QED
  BY <1>1, PayloadIs, GatherEmpty

----------------------------------------------------------------------------
(* What a browser can tell from the frames it gets *)

Kept == [u \in Unit \cup {Stray} |-> Keep(u)]
Byte == Unit \cup {Stray}

LEMMA KeptType == Kept \in [Byte -> Seq(Unit)]
<1>1. ASSUME NEW u \in Byte PROVE Keep(u) \in Seq(Unit)
  <2>1. CASE u = Stray
    BY <2>1, EmptySeq DEF Keep
  <2>2. CASE u # Stray
    <3>1. u \in Unit
      BY <2>2 DEF Byte
    <3> QED
      BY <2>2, <3>1 DEF Keep
  <2> QED
    BY <2>1, <2>2
<1> QED
  BY <1>1 DEF Kept, Byte

LEMMA UnframedIs ==
  ASSUME NEW f \in Seq(Byte)
  PROVE  Unframed(f) = Gather(Kept, f) /\ Unframed(f) \in Seq(Unit)
<1>1. \A i \in 1..Len(f) : Keep(f[i]) = Kept[f[i]]
  BY ElementOfSeq DEF Kept, Byte
<1>2. [i \in 1..Len(f) |-> Keep(f[i])] = [i \in 1..Len(f) |-> Kept[f[i]]]
  BY <1>1
<1>3. Unframed(f) = Gather(Kept, f)
  BY <1>2 DEF Unframed, Gather, Mapped
<1> QED
  BY <1>3, KeptType, GatherType

Bare == [f \in Seq(Byte) |-> Unframed(f)]

LEMMA BareType ==
  Bare \in [Seq(Byte) -> Seq(Unit)] /\ \A f \in Seq(Byte) : Bare[f] = Unframed(f)
BY UnframedIs DEF Bare

LEMMA CleanIs ==
  ASSUME NEW frames \in Seq(Seq(Byte))
  PROVE  Clean(frames) = Gather(Bare, frames)
<1>1. \A i \in 1..Len(frames) : Unframed(frames[i]) = Bare[frames[i]]
  BY ElementOfSeq DEF Bare
<1>2. [i \in 1..Len(frames) |-> Unframed(frames[i])] = [i \in 1..Len(frames) |-> Bare[frames[i]]]
  BY <1>1
<1> QED
  BY <1>2 DEF Clean, Gather, Mapped

LEMMA CleanFacts ==
  ASSUME NEW frames \in Seq(Seq(Byte))
  PROVE  /\ Clean(frames) \in Seq(Unit)
         /\ \A f \in Seq(Byte) : Clean(Append(frames, f)) = Clean(frames) \o Unframed(f)
         /\ frames # <<>> =>
              Clean(frames) = Unframed(Head(frames)) \o Clean(Tail(frames))
<1>1. Clean(frames) \in Seq(Unit)
  BY CleanIs, BareType, GatherType
<1>2. ASSUME NEW f \in Seq(Byte)
      PROVE  Clean(Append(frames, f)) = Clean(frames) \o Unframed(f)
  <2>1. Append(frames, f) \in Seq(Seq(Byte))
    BY AppendProperties
  <2>2. Gather(Bare, Append(frames, f)) = Gather(Bare, frames) \o Bare[f]
    BY BareType, GatherAppend
  <2>3. Clean(Append(frames, f)) = Gather(Bare, Append(frames, f))
    BY <2>1, CleanIs
  <2> QED
    BY <2>2, <2>3, CleanIs, BareType
<1>3. ASSUME frames # <<>>
      PROVE  Clean(frames) = Unframed(Head(frames)) \o Clean(Tail(frames))
  <2>1. Head(frames) \in Seq(Byte) /\ Tail(frames) \in Seq(Seq(Byte))
    BY <1>3, HeadTailProperties
  <2>2. Gather(Bare, frames) = Bare[Head(frames)] \o Gather(Bare, Tail(frames))
    BY <1>3, BareType, GatherTail
  <2>3. Clean(Tail(frames)) = Gather(Bare, Tail(frames))
    BY <2>1, CleanIs
  <2> QED
    BY <2>1, <2>2, <2>3, CleanIs, BareType
<1> QED
  BY <1>1, <1>2, <1>3

LEMMA CleanEmpty == Clean(<<>>) = <<>>
<1>1. <<>> \in Seq(Seq(Byte))
  BY EmptySeq
<1> QED
  BY <1>1, CleanIs, GatherEmpty

(* The padding that lws_write sends after a message is all it adds to it. *)
LEMMA FrameBytes ==
  ASSUME NEW msg \in Msg
  PROVE  /\ Frame(msg) \in Seq(Byte) /\ Len(msg.data) <= Len(Frame(msg))
         /\ \A i \in 1..Len(Frame(msg)) :
              Frame(msg)[i] = IF i <= Len(msg.data) THEN msg.data[i] ELSE Stray
<1> DEFINE d == msg.data
           k == msg.size - Len(d)
           pad == [i \in 1..k |-> Stray]
           f == Frame(msg)
<1>1. d \in Seq(Unit) /\ d \in Seq(Byte) /\ Len(d) \in Nat /\ msg.size \in Nat
  <2>1. d \in Seq(Unit) /\ msg.size \in Nat
    BY DEF Msg
  <2> QED
    BY <2>1, LenProperties, SeqMonotonic DEF Byte
<1>2. PICK m \in Nat : 1..k = 1..m
  <2>1. k \in Int
    BY <1>1
  <2> HIDE DEF k
  <2>2. CASE k >= 0
    BY <2>1, <2>2
  <2>3. CASE k < 0
    BY <2>1, <2>3, 1..k = 1..0
  <2> QED
    BY <2>1, <2>2, <2>3
<1>3. pad \in Seq(Byte) /\ Len(pad) = m /\ \A i \in 1..m : pad[i] = Stray
  <2>1. pad \in [1..m -> Byte]
    BY <1>2 DEF Byte
  <2>2. pad \in Seq(Byte)
    <3> HIDE DEF pad
    <3> QED
      BY <2>1, SeqDef
  <2>3. DOMAIN pad = 1..Len(pad) /\ Len(pad) \in Nat
    BY <2>2, LenProperties
  <2>4. Len(pad) = m
    BY <2>1, <2>3, SameRange
  <2> QED
    BY <1>2, <2>2, <2>4
<1>4. f = d \o pad
  BY DEF Frame
<1> HIDE DEF d, pad, f, k
<1>5. /\ f \in Seq(Byte) /\ Len(f) = Len(d) + m
      /\ \A i \in 1..(Len(d) + m) : f[i] = IF i <= Len(d) THEN d[i] ELSE pad[i - Len(d)]
  BY <1>1, <1>3, <1>4, ConcatProperties
<1>6. ASSUME NEW i \in 1..Len(f) PROVE f[i] = IF i <= Len(d) THEN d[i] ELSE Stray
  <2>1. CASE i <= Len(d)
    BY <1>5, <2>1
  <2>2. CASE ~(i <= Len(d))
    <3>1. i - Len(d) \in 1..m
      BY <1>1, <1>5, <2>2
    <3> QED
      BY <1>3, <1>5, <2>2, <3>1
  <2> QED
    BY <2>1, <2>2
<1>7. Len(d) <= Len(f)
  BY <1>1, <1>5
<1> QED
  BY <1>5, <1>6, <1>7 DEF d, f

LEMMA FrameKeepsData ==
  ASSUME NEW msg \in Msg
  PROVE  Unframed(Frame(msg)) = msg.data
<1> DEFINE d == msg.data
           n == Len(d)
           f == Frame(msg)
           ss == Mapped(Kept, f)
           F == [i \in 0..Len(ss) |-> SubSeq(d, 1, Lesser(i, n))]
<1>1. d \in Seq(Unit) /\ n \in Nat
  <2>1. d \in Seq(Unit)
    BY DEF Msg
  <2> QED
    BY <2>1, LenProperties
<1>2. f \in Seq(Byte) /\ n <= Len(f) /\ Len(f) \in Nat
  <2>1. f \in Seq(Byte) /\ n <= Len(f)
    BY FrameBytes
  <2> QED
    BY <2>1, LenProperties
<1>3. \A i \in 1..Len(f) : f[i] = IF i <= n THEN d[i] ELSE Stray
  BY FrameBytes
<1> HIDE DEF d, f
<1>4. ss \in Seq(Seq(Unit)) /\ Len(ss) = Len(f) /\ Maps(ss, Kept, f)
  BY <1>2, KeptType, MappedType
<1> HIDE DEF ss
<1>5. ASSUME NEW i \in 0..Len(ss)
      PROVE  SubSeq(d, 1, Lesser(i, n)) \in Seq(Unit)
  <2>1. Lesser(i, n) \in Nat /\ Lesser(i, n) <= n
    BY <1>1, <1>2, <1>4 DEF Lesser
  <2>2. \A j \in 1..Lesser(i, n) : d[j] \in Unit
    BY <1>1, <2>1, ElementOfSeq
  <2> QED
    BY <2>1, <2>2, SubSeqProperties
<1>6. F \in [0..Len(ss) -> Seq(Unit)]
  BY <1>5
<1>7. F[0] = <<>>
  <2>1. 0 \in 0..Len(ss) /\ Lesser(0, n) = 0
    BY <1>1, <1>2, <1>4 DEF Lesser
  <2>2. SubSeq(d, 1, 0) = <<>>
    BY SubSeqEmpty
  <2> QED
    BY <2>1, <2>2
<1>8. ASSUME NEW i \in 0..(Len(ss) - 1) PROVE F[i + 1] = F[i] \o ss[i + 1]
  <2>1. i \in 0..Len(ss) /\ i + 1 \in 0..Len(ss) /\ i + 1 \in 1..Len(f)
    BY <1>2, <1>4
  <2>2. ss[i + 1] = Kept[f[i + 1]] /\ f[i + 1] \in Byte
    BY <1>2, <1>4, <2>1, ElementOfSeq DEF Maps
  <2>3. ss[i + 1] = Keep(f[i + 1])
    BY <2>2 DEF Kept, Byte
  <2>4. F[i] = SubSeq(d, 1, Lesser(i, n)) /\ F[i + 1] = SubSeq(d, 1, Lesser(i + 1, n))
    BY <2>1
  <2>5. CASE i < n
    <3>1. Lesser(i, n) = i /\ Lesser(i + 1, n) = i + 1 /\ i + 1 <= n /\ i + 1 \in 1..n
          /\ (i + 1) - 1 = i /\ 1 \in 1..n /\ i + 1 \in 1..(i + 1)
      BY <1>1, <1>2, <1>4, <2>5 DEF Lesser
    <3>2. f[i + 1] = d[i + 1] /\ d[i + 1] \in Unit
      BY <1>1, <1>3, <2>1, <3>1, ElementOfSeq
    <3>3. d[i + 1] # Stray
      BY <3>2, BridgeAssumption DEF Unit
    <3>4. ss[i + 1] = <<d[i + 1]>>
      BY <2>3, <3>2, <3>3 DEF Keep
    <3>5. SubSeq(d, 1, i + 1) = SubSeq(d, 1, (i + 1) - 1) \o <<d[i + 1]>>
      <4>1. i + 1 \in 1..Len(d) /\ 1 \in 1..Len(d) /\ i + 1 \in 1..Len(d)
        BY <3>1
      <4> QED
        BY <1>1, <3>1, <4>1, SubSeqRecursiveSecond
    <3> HIDE DEF F
    <3> QED
      BY <2>4, <3>1, <3>4, <3>5
  <2>6. CASE ~(i < n)
    <3>1. Lesser(i, n) = n /\ Lesser(i + 1, n) = n /\ ~(i + 1 <= n)
      BY <1>1, <1>2, <1>4, <2>6 DEF Lesser
    <3>2. f[i + 1] = Stray
      BY <1>3, <2>1, <3>1
    <3>3. ss[i + 1] = <<>>
      BY <2>3, <3>2 DEF Keep
    <3>4. SubSeq(d, 1, n) = d
      BY <1>1, SubSeqFull
    <3>5. F[i] = d /\ F[i + 1] = d
      BY <2>4, <3>1, <3>4
    <3> HIDE DEF F
    <3> QED
      BY <1>1, <3>3, <3>5, ConcatEmptySeq
  <2> QED
    BY <2>5, <2>6
<1>9. F[Len(ss)] = d
  <2>1. Len(ss) \in 0..Len(ss) /\ Lesser(Len(ss), n) = n
    BY <1>1, <1>2, <1>4 DEF Lesser
  <2>2. SubSeq(d, 1, n) = d
    BY <1>1, SubSeqFull
  <2> QED
    BY <2>1, <2>2
<1> HIDE DEF F
<1>10. Flattens(F, ss, Unit)
  BY <1>6, <1>7, <1>8 DEF Flattens
<1>11. FlattenSeq(ss) = d
  BY <1>4, <1>9, <1>10, FlattenIs
<1>12. Unframed(f) = Gather(Kept, f)
  BY <1>2, UnframedIs
<1> QED
  BY <1>11, <1>12 DEF Gather, ss, d, f

----------------------------------------------------------------------------
(* Where the units are *)

Dead == {"hup", "refused"}

(* Of what a browser has sent: read, in the socket, in write(), queued. *)
UpSpans(s, read, socket, writing, queued, n, d) ==
  \E a, b, c \in Nat :
    /\ Span(read, s, 0, a) /\ Span(socket, s, a, b) /\ b <= n
    /\ d \notin Dead => Span(writing, s, b, c) /\ Span(queued, s, c, n)

UpInv ==
  \A s \in Sessions :
    UpSpans(s, dgot[s], toDaemon[s], Writing(s), Payload(mqlocal[s]),
            websent[s], dsock[s])

(* Of what a daemon has sent: got, in flight, queued, in the socket. *)
DownSpans(s, drained, flying, queued, socket, n, l) ==
  \E a, b, c \in Nat :
    /\ Span(drained, s, 0, a) /\ Span(flying, s, a, b) /\ b <= n
    /\ l = "up" => Span(queued, s, b, c) /\ Span(socket, s, c, n)

DownInv ==
  \A s \in Sessions :
    DownSpans(s, Clean(wgot[s]), Clean(pipe[s]), Payload(mqweb[s]),
              fromDaemon[s], dsent[s], link[s])

(* Nothing is half written outside the callback that writes it. *)
NothingOut == (\A s \in Sessions : busy # <<"cli", s>>) => out = <<>>

(* The one read() made with a hang-up was enough. *)
LastRead ==
  loop = "run" =>
    \A s \in Sessions :
      ws[s] = "open" /\ link[s] = "up" /\ lwsi[s] = "freed" /\ dsent[s] <= BufSize
        => fromDaemon[s] = <<>>

StreamInv == UpInv /\ DownInv /\ NothingOut /\ LastRead

LEMMA OwnPeer ==
  ASSUME IInv, NEW s \in Sessions, lwsi[s] = "live"
  PROVE  Peer(s) = s
BY DEF IInv, FdOwnership, Peer

(* A step that moves nothing on the way up. *)
LEMMA UpFrame ==
  ASSUME UpInv, UNCHANGED <<toDaemon, mqlocal, websent, dgot>>,
         \A t \in Sessions : /\ Writing(t)' = Writing(t)
                             /\ dsock[t] \in Dead => dsock'[t] \in Dead
  PROVE  UpInv'
<1> SUFFICES ASSUME NEW t \in Sessions
             PROVE  UpSpans(t, dgot'[t], toDaemon'[t], Writing(t)',
                            Payload(mqlocal'[t]), websent'[t], dsock'[t])
  BY DEF UpInv
<1>1. UpSpans(t, dgot[t], toDaemon[t], Writing(t), Payload(mqlocal[t]), websent[t], dsock[t])
  BY DEF UpInv
<1>2. UpSpans(t, dgot[t], toDaemon[t], Writing(t), Payload(mqlocal[t]), websent[t], dsock'[t])
  BY <1>1 DEF UpSpans
<1> QED
  BY <1>2

(* Writing when the callback and its rest are as before, and otherwise. *)
LEMMA WritingSame ==
  ASSUME NothingOut, UNCHANGED out, NEW t \in Sessions,
         \/ UNCHANGED busy
         \/ \A u \in Sessions : busy # <<"cli", u>> /\ busy' # <<"cli", u>>
         \/ out = <<>>
  PROVE  Writing(t)' = Writing(t)
BY DEF NothingOut, Writing

(* A fragment from a browser. *)
LEMMA UpReceive ==
  ASSUME IInv, UpInv, NothingOut, ~AllocFails, NEW s \in Sessions, WsReceive(s)
  PROVE  UpInv'
<1> USE DEF IInv, TypeOK
<1>0. /\ mqlocal \in [Sessions -> Seq(Msg)] /\ websent \in [Sessions -> Nat]
      /\ mqlocal[s] \in Seq(Msg) /\ websent[s] \in Nat
  BY DEF BridgeTypeOK, EnvTypeOK
<1>1. PICK n \in 0..Lesser(RxSize, MaxUp - websent[s]) :
        /\ websent' = [websent EXCEPT ![s] = @ + n]
        /\ \E q \in IF n = 0 THEN {mqlocal[s]}
                    ELSE Enqueued(mqlocal[s], MsgNew(Units(s, websent[s], n), n)) :
             mqlocal' = [mqlocal EXCEPT ![s] = q]
  BY DEF WsReceive
<1>2. UNCHANGED <<toDaemon, dgot, dsock, out, busy>>
  BY DEF WsReceive
<1>3. n \in Nat
  BY <1>0, <1>1, BridgeAssumption DEF Lesser
<1> DEFINE m == MsgNew(Units(s, websent[s], n), n)
<1>4. Payload(mqlocal'[s]) = Payload(mqlocal[s]) \o Units(s, websent[s], n)
  <2>1. CASE n = 0
    <3>1. mqlocal'[s] = mqlocal[s]
      BY <1>0, <1>1, <2>1
    <3>2. Units(s, websent[s], n) = <<>>
      <4>1. Span(Units(s, websent[s], n), s, websent[s], websent[s] + n)
        BY <1>0, <1>3, UnitsSpan
      <4>2. Units(s, websent[s], n) \in Seq(Unit) /\ Len(Units(s, websent[s], n)) = 0
        BY <1>0, <2>1, <4>1 DEF Span
      <4> QED
        BY <4>2, EmptySeq
    <3> QED
      BY <1>0, <3>1, <3>2, PayloadFacts, ConcatEmptySeq
  <2>2. CASE n # 0
    <3>1. mqlocal'[s] = Append(mqlocal[s], m)
      BY <1>0, <1>1, <2>2 DEF Enqueued
    <3>2. m \in Msg /\ m.data = Units(s, websent[s], n)
      <4>1. Units(s, websent[s], n) \in Seq(Unit)
        BY <1>0, <1>3, UnitsType
      <4> QED
        BY <1>3, <4>1 DEF MsgNew, Msg
    <3> HIDE DEF m
    <3> QED
      BY <1>0, <3>1, <3>2, PayloadFacts
  <2> QED
    BY <2>1, <2>2
<1> SUFFICES ASSUME NEW t \in Sessions
             PROVE  UpSpans(t, dgot'[t], toDaemon'[t], Writing(t)',
                            Payload(mqlocal'[t]), websent'[t], dsock'[t])
  BY DEF UpInv
<1>5. UpSpans(t, dgot[t], toDaemon[t], Writing(t), Payload(mqlocal[t]), websent[t], dsock[t])
  BY DEF UpInv
<1>6. Writing(t)' = Writing(t)
  BY <1>2, WritingSame
<1>7. CASE t # s
  <2>1. mqlocal'[t] = mqlocal[t] /\ websent'[t] = websent[t]
    BY <1>0, <1>1, <1>7
  <2> QED
    BY <1>2, <1>5, <1>6, <2>1
<1>8. CASE t = s
  <2>1. PICK a \in Nat, b \in Nat, c \in Nat :
          /\ Span(dgot[s], s, 0, a) /\ Span(toDaemon[s], s, a, b) /\ b <= websent[s]
          /\ dsock[s] \notin Dead =>
               Span(Writing(s), s, b, c) /\ Span(Payload(mqlocal[s]), s, c, websent[s])
    BY <1>5, <1>8 DEF UpSpans
  <2>2. websent'[s] = websent[s] + n /\ b <= websent'[s]
    BY <1>0, <1>1, <1>3, <2>1
  <2>3. dsock[s] \notin Dead => Span(Payload(mqlocal'[s]), s, c, websent'[s])
    <3>1. Span(Units(s, websent[s], n), s, websent[s], websent[s] + n)
      BY <1>0, <1>3, UnitsSpan
    <3> QED
      BY <1>4, <2>1, <2>2, <3>1, SpanJoin
  <2> QED
    BY <1>2, <1>6, <1>8, <2>1, <2>2, <2>3 DEF UpSpans
<1> QED
  BY <1>7, <1>8

(* The first message leaves the queue for write(). *)
LEMMA UpPop ==
  ASSUME IInv, UpInv, NEW s \in Sessions, CliPop(s)
  PROVE  UpInv'
<1> USE DEF IInv, TypeOK
<1>0. mqlocal \in [Sessions -> Seq(Msg)] /\ mqlocal[s] \in Seq(Msg) /\ mqlocal[s] # <<>>
  BY DEF BridgeTypeOK, CliPop
<1>1. /\ busy = <<"cli", s>> /\ out = <<>> /\ out' = Head(mqlocal[s]).data
      /\ mqlocal'[s] = Tail(mqlocal[s])
      /\ UNCHANGED <<toDaemon, websent, dgot, dsock, busy>>
  BY <1>0 DEF CliPop, envVars
<1>2. /\ Head(mqlocal[s]) \in Msg /\ Tail(mqlocal[s]) \in Seq(Msg)
      /\ out' \in Seq(Unit)
  <2>1. Head(mqlocal[s]) \in Msg /\ Tail(mqlocal[s]) \in Seq(Msg)
    BY <1>0, HeadTailProperties
  <2> QED
    BY <1>1, <2>1 DEF Msg
<1>3. Payload(mqlocal[s]) = out' \o Payload(mqlocal'[s]) /\ Payload(mqlocal'[s]) \in Seq(Unit)
  BY <1>0, <1>1, <1>2, PayloadFacts
<1> SUFFICES ASSUME NEW t \in Sessions
             PROVE  UpSpans(t, dgot'[t], toDaemon'[t], Writing(t)',
                            Payload(mqlocal'[t]), websent'[t], dsock'[t])
  BY DEF UpInv
<1>5. UpSpans(t, dgot[t], toDaemon[t], Writing(t), Payload(mqlocal[t]), websent[t], dsock[t])
  BY DEF UpInv
<1>7. CASE t # s
  <2>1. mqlocal'[t] = mqlocal[t]
    BY <1>0, <1>7 DEF CliPop
  <2>2. Writing(t)' = Writing(t)
    BY <1>1, <1>7 DEF Writing
  <2> QED
    BY <1>1, <1>5, <2>1, <2>2
<1>8. CASE t = s
  <2>1. PICK a \in Nat, b \in Nat, c \in Nat :
          /\ Span(dgot[s], s, 0, a) /\ Span(toDaemon[s], s, a, b) /\ b <= websent[s]
          /\ dsock[s] \notin Dead =>
               Span(Writing(s), s, b, c) /\ Span(Payload(mqlocal[s]), s, c, websent[s])
    BY <1>5, <1>8 DEF UpSpans
  <2>2. Writing(s) = <<>> /\ Writing(s)' = out'
    BY <1>1 DEF Writing
  <2>3. CASE dsock[s] \in Dead
    BY <1>1, <1>8, <2>1, <2>3 DEF UpSpans
  <2>4. CASE dsock[s] \notin Dead
    <3>1. b = c
      BY <2>1, <2>2, <2>4, EmptySpan
    <3> DEFINE k == b + Len(out')
    <3>2. Span(out', s, b, k) /\ Span(Payload(mqlocal'[s]), s, k, websent[s])
      BY <1>2, <1>3, <2>1, <2>4, <3>1, SpanSplit
    <3>3. k \in Nat
      BY <3>2 DEF Span
    <3> HIDE DEF k
    <3> QED
      BY <1>1, <1>8, <2>1, <2>2, <3>2, <3>3 DEF UpSpans
  <2> QED
    BY <2>3, <2>4
<1> QED
  BY <1>7, <1>8

(* A blocking write() moves what fits. *)
LEMMA UpWrite ==
  ASSUME IInv, UpInv, ~Nonblocking, NEW s \in Sessions, CliWrite(s)
  PROVE  UpInv'
<1> USE DEF IInv, TypeOK
<1>0. /\ toDaemon \in [Sessions -> Seq(Unit)] /\ toDaemon[s] \in Seq(Unit)
      /\ out \in Seq(Unit) /\ Len(out) \in Nat /\ Len(toDaemon[s]) \in Nat
  BY LenProperties DEF BridgeTypeOK, EnvTypeOK
<1>1. busy = <<"cli", s>> /\ UNCHANGED <<mqlocal, websent, dgot, dsock, busy>>
  BY DEF CliWrite
<1>2. lwsi[s] = "live" /\ Peer(s) = s /\ s # Nobody
  BY <1>1, OwnPeer, ConnAssumption DEF BusyInv
<1> DEFINE room == SockCap - Len(toDaemon[s])
           n == Lesser(room, Len(out))
<1> SUFFICES ASSUME NEW t \in Sessions
             PROVE  UpSpans(t, dgot'[t], toDaemon'[t], Writing(t)',
                            Payload(mqlocal'[t]), websent'[t], dsock'[t])
  BY DEF UpInv
<1>5. UpSpans(t, dgot[t], toDaemon[t], Writing(t), Payload(mqlocal[t]), websent[t], dsock[t])
  BY DEF UpInv
<1>6. CASE dsock[s] \in Dead
  <2>1. UNCHANGED toDaemon
    BY <1>2, <1>6 DEF CliWrite, HungUp, Dead
  <2>2. CASE t # s
    <3>1. Writing(t)' = Writing(t)
      BY <1>1, <2>2 DEF Writing
    <3> QED
      BY <1>1, <1>5, <2>1, <3>1
  <2>3. CASE t = s
    BY <1>1, <1>5, <1>6, <2>1, <2>3 DEF UpSpans
  <2> QED
    BY <2>2, <2>3
<1>7. CASE dsock[s] \notin Dead
  <2>1. /\ room > 0
        /\ toDaemon' = [toDaemon EXCEPT ![s] = @ \o SubSeq(out, 1, n)]
        /\ out' = SubSeq(out, n + 1, Len(out))
    BY <1>2, <1>7 DEF CliWrite, HungUp, Dead
  <2>2. n \in 0..Len(out)
    BY <1>0, <2>1, BridgeAssumption DEF Lesser
  <2> HIDE DEF room, n
  <2>3. CASE t # s
    <3>1. Writing(t)' = Writing(t) /\ toDaemon'[t] = toDaemon[t]
      BY <1>0, <1>1, <2>1, <2>3 DEF Writing
    <3> QED
      BY <1>1, <1>5, <3>1
  <2>4. CASE t = s
    <3>1. PICK a \in Nat, b \in Nat, c \in Nat :
            /\ Span(dgot[s], s, 0, a) /\ Span(toDaemon[s], s, a, b) /\ b <= websent[s]
            /\ Span(Writing(s), s, b, c) /\ Span(Payload(mqlocal[s]), s, c, websent[s])
      BY <1>5, <1>7, <2>4 DEF UpSpans
    <3>2. Writing(s) = out /\ Writing(s)' = out'
      BY <1>1 DEF Writing
    <3>3. Span(SubSeq(out, 1, n), s, b, b + n) /\ Span(out', s, b + n, c)
      BY <2>1, <2>2, <3>1, <3>2, SpanCut
    <3>4. toDaemon'[s] = toDaemon[s] \o SubSeq(out, 1, n)
      BY <1>0, <2>1
    <3>5. Span(toDaemon'[s], s, a, b + n)
      BY <3>1, <3>3, <3>4, SpanJoin
    <3>6. b + n \in Nat /\ b + n <= c /\ c <= websent[s]
      BY <3>1, <3>3 DEF Span
    <3>7. b + n <= websent[s]
      <4>1. websent[s] \in Nat
        BY DEF EnvTypeOK
      <4> QED
        BY <3>6, <4>1
    <3> QED
      BY <1>1, <2>4, <3>1, <3>2, <3>3, <3>5, <3>6, <3>7 DEF UpSpans
  <2> QED
    BY <2>3, <2>4
<1> QED
  BY <1>6, <1>7

(* A daemon reads one unit, or hangs up. *)
LEMMA UpDaemon ==
  ASSUME IInv, UpInv, NothingOut, NEW s \in Sessions, DaemonRead(s) \/ DaemonHup(s)
  PROVE  UpInv'
<1> USE DEF IInv, TypeOK
<1>0. /\ dgot \in [Sessions -> Seq(Unit)] /\ toDaemon \in [Sessions -> Seq(Unit)]
      /\ dsock \in [Sessions -> DaemonStates]
  BY DEF EnvTypeOK, DaemonStates
<1>1. UNCHANGED <<mqlocal, websent, out, busy>>
  BY DEF DaemonRead, DaemonHup, bridgeVars
<1> SUFFICES ASSUME NEW t \in Sessions
             PROVE  UpSpans(t, dgot'[t], toDaemon'[t], Writing(t)',
                            Payload(mqlocal'[t]), websent'[t], dsock'[t])
  BY DEF UpInv
<1>2. PICK a \in Nat, b \in Nat, c \in Nat :
        /\ Span(dgot[t], t, 0, a) /\ Span(toDaemon[t], t, a, b) /\ b <= websent[t]
        /\ dsock[t] \notin Dead =>
             Span(Writing(t), t, b, c) /\ Span(Payload(mqlocal[t]), t, c, websent[t])
  BY DEF UpInv, UpSpans
<1>3. Writing(t)' = Writing(t)
  BY <1>1, WritingSame
<1>4. CASE t # s
  <2>1. dgot'[t] = dgot[t] /\ toDaemon'[t] = toDaemon[t] /\ dsock'[t] = dsock[t]
    BY <1>0, <1>4 DEF DaemonRead, DaemonHup
  <2> QED
    BY <1>1, <1>2, <1>3, <2>1 DEF UpSpans
<1>5. CASE t = s /\ DaemonRead(s)
  <2>1. /\ toDaemon[s] # <<>> /\ dsock'[s] = dsock[s]
        /\ dgot'[s] = Append(dgot[s], Head(toDaemon[s])) /\ toDaemon'[s] = Tail(toDaemon[s])
    BY <1>0, <1>5 DEF DaemonRead
  <2>2. Head(toDaemon[s]) = <<s, a + 1>> /\ Span(toDaemon'[s], s, a + 1, b)
    <3>1. Span(toDaemon[s], s, a, b)
      BY <1>2, <1>5
    <3>2. Head(toDaemon[s]) = <<s, a + 1>> /\ Span(Tail(toDaemon[s]), s, a + 1, b)
      BY <2>1, <3>1, SpanFirst
    <3> QED
      BY <2>1, <3>2
  <2>3. Span(dgot'[s], s, 0, a + 1)
    BY <1>2, <1>5, <2>1, <2>2, SpanNext
  <2>4. a + 1 \in Nat
    OBVIOUS
  <2> QED
    BY <1>1, <1>2, <1>3, <1>5, <2>1, <2>2, <2>3, <2>4 DEF UpSpans
<1>6. CASE t = s /\ DaemonHup(s)
  <2>1. dsock'[s] \in Dead /\ dgot'[s] = dgot[s] /\ toDaemon'[s] = <<>>
    BY <1>0, <1>6 DEF DaemonHup, Dead
  <2>2. Span(<<>>, s, a, a) /\ a <= b
    BY <1>2, <1>6, SpanEmpty DEF Span
  <2>3. a <= websent[s]
    <3>1. websent[s] \in Nat
      BY DEF EnvTypeOK
    <3> QED
      BY <1>2, <1>6, <2>2, <3>1
  <2> QED
    BY <1>1, <1>2, <1>6, <2>1, <2>2, <2>3 DEF UpSpans
<1> QED
  BY <1>4, <1>5, <1>6

----------------------------------------------------------------------------
(* A step that moves nothing on the way down. *)
LEMMA DownFrame ==
  ASSUME DownInv, UNCHANGED <<fromDaemon, mqweb, pipe, wgot, dsent, link>>
  PROVE  DownInv'
BY DEF DownInv

(* What a read() for a raw wsi does, if there was something to read. *)
LEMMA ReadLocalIs ==
  ASSUME IInv, ~AllocFails, NEW s \in Sessions, lwsi[s] = "live", ReadLocal(s)
  PROVE  LET n == Lesser(BufSize, Len(fromDaemon[s]))
         IN  /\ n \in 0..Len(fromDaemon[s])
             /\ fromDaemon'[s] = SubSeq(fromDaemon[s], n + 1, Len(fromDaemon[s]))
             /\ Payload(mqweb'[s]) = Payload(mqweb[s]) \o SubSeq(fromDaemon[s], 1, n)
             /\ \A t \in Sessions \ {s} :
                  fromDaemon'[t] = fromDaemon[t] /\ mqweb'[t] = mqweb[t]
<1> USE DEF IInv, TypeOK
<1> DEFINE f == fromDaemon[s]
           n == Lesser(BufSize, Len(f))
           d == SubSeq(f, 1, n)
<1>0. /\ mqweb \in [Sessions -> Seq(Msg)] /\ mqweb[s] \in Seq(Msg)
      /\ fromDaemon \in [Sessions -> Seq(Unit)] /\ f \in Seq(Unit)
  BY DEF BridgeTypeOK, EnvTypeOK
<1>1. Len(f) \in Nat
  BY <1>0, LenProperties
<1>2. Peer(s) = s
  BY OwnPeer
<1>3. n \in 0..Len(f) /\ n <= BufSize
  <2> HIDE DEF f
  <2> QED
    BY <1>1, BridgeAssumption DEF Lesser
<1>4. d \in Seq(Unit)
  <2>1. BufSize \in Int
    BY BridgeAssumption
  <2> HIDE DEF f
  <2> QED
    BY <1>0, <2>1, CutType
<1>5. CASE n = 0
  <2>1. UNCHANGED <<fromDaemon, mqweb>>
    BY <1>2, <1>5 DEF ReadLocal
  <2>2. d = <<>> /\ SubSeq(f, n + 1, Len(f)) = f
    <3> HIDE DEF f
    <3>1. SubSeq(f, 1, 0) = <<>> /\ SubSeq(f, 1, Len(f)) = f
      BY <1>0, SubSeqEmpty, SubSeqFull
    <3> QED
      BY <1>5, <3>1
  <2>3. Payload(mqweb[s]) \o <<>> = Payload(mqweb[s])
    BY <1>0, PayloadFacts, ConcatEmptySeq
  <2> HIDE DEF f, n, d
  <2>4. Payload(mqweb'[s]) = Payload(mqweb[s]) \o d
    BY <2>1, <2>2, <2>3
  <2> QED
    BY <1>3, <2>1, <2>2, <2>4 DEF f, n, d
<1>6. CASE n # 0
  <2>1. fromDaemon' = [fromDaemon EXCEPT ![s] = SubSeq(f, n + 1, Len(f))]
    BY <1>2, <1>6 DEF ReadLocal
  <2>2. mqweb' = [mqweb EXCEPT ![s] = Append(mqweb[s], CreateMsg(d))]
    BY <1>2, <1>6 DEF ReadLocal, Enqueued
  <2>3. CreateMsg(d) \in Msg /\ CreateMsg(d).data = d
    <3> HIDE DEF d
    <3> QED
      BY <1>4, MsgType DEF CreateMsg, MsgNew
  <2> HIDE DEF f, n, d
  <2>4. mqweb'[s] = Append(mqweb[s], CreateMsg(d)) /\ fromDaemon'[s] = SubSeq(f, n + 1, Len(f))
    BY <1>0, <2>1, <2>2
  <2>5. Payload(mqweb'[s]) = Payload(mqweb[s]) \o d
    BY <1>0, <2>3, <2>4, PayloadFacts
  <2>6. \A t \in Sessions \ {s} :
          fromDaemon'[t] = fromDaemon[t] /\ mqweb'[t] = mqweb[t]
    BY <1>0, <2>1, <2>2
  <2> QED
    BY <1>3, <2>4, <2>5, <2>6 DEF f, n, d
<1> QED
  BY <1>5, <1>6

(* A read(): from the socket to the queue for the websocket. *)
LEMMA DownRead ==
  ASSUME IInv, DownInv, ~AllocFails, NEW s \in Sessions, lwsi[s] = "live",
         ReadLocal(s) \/ UNCHANGED <<fromDaemon, mqweb>>,
         UNCHANGED <<pipe, wgot, dsent, link>>
  PROVE  DownInv'
<1>1. CASE UNCHANGED <<fromDaemon, mqweb>>
  BY <1>1, DownFrame
<1>2. CASE ReadLocal(s)
  <2> DEFINE n == Lesser(BufSize, Len(fromDaemon[s]))
  <2>1. /\ n \in 0..Len(fromDaemon[s])
        /\ fromDaemon'[s] = SubSeq(fromDaemon[s], n + 1, Len(fromDaemon[s]))
        /\ Payload(mqweb'[s]) = Payload(mqweb[s]) \o SubSeq(fromDaemon[s], 1, n)
        /\ \A t \in Sessions \ {s} :
             fromDaemon'[t] = fromDaemon[t] /\ mqweb'[t] = mqweb[t]
    BY <1>2, ReadLocalIs
  <2> HIDE DEF n
  <2> SUFFICES ASSUME NEW t \in Sessions
               PROVE  DownSpans(t, Clean(wgot'[t]), Clean(pipe'[t]), Payload(mqweb'[t]),
                                fromDaemon'[t], dsent'[t], link'[t])
    BY DEF DownInv
  <2>2. PICK a \in Nat, b \in Nat, c \in Nat :
          /\ Span(Clean(wgot[t]), t, 0, a) /\ Span(Clean(pipe[t]), t, a, b)
          /\ b <= dsent[t]
          /\ link[t] = "up" =>
               Span(Payload(mqweb[t]), t, b, c) /\ Span(fromDaemon[t], t, c, dsent[t])
    BY DEF DownInv, DownSpans
  <2>3. CASE t # s
    <3>1. fromDaemon'[t] = fromDaemon[t] /\ mqweb'[t] = mqweb[t]
      BY <2>1, <2>3
    <3> QED
      BY <2>2, <3>1 DEF DownSpans
  <2>4. CASE t = s /\ link[s] = "up"
    <3>1. /\ Span(SubSeq(fromDaemon[s], 1, n), s, c, c + n)
          /\ Span(fromDaemon'[s], s, c + n, dsent[s])
      BY <2>1, <2>2, <2>4, SpanCut
    <3>2. Span(Payload(mqweb'[s]), s, b, c + n)
      BY <2>1, <2>2, <2>4, <3>1, SpanJoin
    <3>3. c + n \in Nat
      BY <3>1 DEF Span
    <3> QED
      BY <2>2, <2>4, <3>1, <3>2, <3>3 DEF DownSpans
  <2>5. CASE t = s /\ link[s] # "up"
    BY <2>2, <2>5 DEF DownSpans
  <2> QED
    BY <2>3, <2>4, <2>5
<1> QED
  BY <1>1, <1>2

(* lws_write: from the queue to the browser's end, if it is there. *)
LEMMA DownWrite ==
  ASSUME IInv, DownInv, NEW s \in Sessions, WsWrite(s)
  PROVE  DownInv'
<1> USE DEF IInv, TypeOK
<1> DEFINE q == mqweb[s]
           p == pipe[s]
           msg == Head(q)
<1>0. /\ mqweb \in [Sessions -> Seq(Msg)] /\ q \in Seq(Msg) /\ q # <<>>
      /\ pipe \in [Sessions -> Seq(Seq(Byte))] /\ p \in Seq(Seq(Byte))
      /\ link \in [Sessions -> {"up", "down"}]
  BY DEF BridgeTypeOK, EnvTypeOK, WsWrite, Byte
<1>1. msg \in Msg /\ Tail(q) \in Seq(Msg)
  <2> HIDE DEF q
  <2> QED
    BY <1>0, HeadTailProperties
<1>2. /\ mqweb' = [mqweb EXCEPT ![s] = Tail(q)]
      /\ UNCHANGED <<fromDaemon, wgot, dsent, link>>
  BY DEF WsWrite
<1>3. link[s] = "up" => pipe' = [pipe EXCEPT ![s] = Append(p, Frame(msg))]
  <2> SUFFICES ASSUME link[s] = "up" PROVE pipe' = [pipe EXCEPT ![s] = Append(p, Frame(msg))]
    OBVIOUS
  <2>1. msg.size \in Nat
    BY <1>1 DEF Msg
  <2>2. msg.size >= 0
    BY <2>1
  <2> QED
    BY <2>2 DEF WsWrite
<1>4. link[s] # "up" => pipe' = pipe
  BY DEF WsWrite
<1>5. Frame(msg) \in Seq(Byte) /\ Unframed(Frame(msg)) = msg.data /\ msg.data \in Seq(Unit)
  <2>1. msg.data \in Seq(Unit)
    BY <1>1 DEF Msg
  <2> HIDE DEF msg
  <2> QED
    BY <1>1, <2>1, FrameBytes, FrameKeepsData
<1> HIDE DEF q, p
<1>6. Payload(q) = msg.data \o Payload(Tail(q)) /\ Payload(Tail(q)) \in Seq(Unit)
  BY <1>0, <1>1, PayloadFacts
<1> HIDE DEF msg
<1>7. Clean(Append(p, Frame(msg))) = Clean(p) \o msg.data
  BY <1>0, <1>5, CleanFacts
<1> SUFFICES ASSUME NEW t \in Sessions
             PROVE  DownSpans(t, Clean(wgot'[t]), Clean(pipe'[t]), Payload(mqweb'[t]),
                              fromDaemon'[t], dsent'[t], link'[t])
  BY DEF DownInv
<1>8. PICK a \in Nat, b \in Nat, c \in Nat :
        /\ Span(Clean(wgot[t]), t, 0, a) /\ Span(Clean(pipe[t]), t, a, b)
        /\ b <= dsent[t]
        /\ link[t] = "up" =>
             Span(Payload(mqweb[t]), t, b, c) /\ Span(fromDaemon[t], t, c, dsent[t])
  BY DEF DownInv, DownSpans
<1>9. CASE t # s
  <2>1. mqweb'[t] = mqweb[t] /\ pipe'[t] = pipe[t]
    BY <1>0, <1>2, <1>3, <1>4, <1>9
  <2> QED
    BY <1>2, <1>8, <2>1 DEF DownSpans
<1>10. CASE t = s /\ link[s] = "up"
  <2>1. mqweb'[s] = Tail(q) /\ pipe'[s] = Append(p, Frame(msg)) /\ mqweb[s] = q /\ pipe[s] = p
    BY <1>0, <1>2, <1>3, <1>10 DEF q, p
  <2> DEFINE k == b + Len(msg.data)
  <2>2. Span(msg.data, s, b, k) /\ Span(Payload(Tail(q)), s, k, c)
    <3>1. Span(msg.data \o Payload(Tail(q)), s, b, c)
      BY <1>6, <1>8, <1>10, <2>1
    <3> QED
      BY <1>5, <1>6, <3>1, SpanSplit
  <2>3. Span(Clean(pipe'[s]), s, a, k)
    <3> HIDE DEF k
    <3> QED
      BY <1>7, <1>8, <1>10, <2>1, <2>2, SpanJoin
  <2>4. k \in Nat /\ k <= c /\ c <= dsent[s] /\ c \in Nat
    BY <1>8, <1>10, <2>2 DEF Span
  <2> HIDE DEF k
  <2>5. k <= dsent[s]
    <3>1. dsent[s] \in Nat
      BY DEF EnvTypeOK
    <3> QED
      BY <2>4, <3>1
  <2> QED
    BY <1>2, <1>8, <1>10, <2>1, <2>2, <2>3, <2>4, <2>5 DEF DownSpans
<1>11. CASE t = s /\ link[s] # "up"
  BY <1>2, <1>4, <1>8, <1>11 DEF DownSpans
<1> QED
  BY <1>9, <1>10, <1>11

(* The browser takes a frame, or goes; the daemon sends a unit. *)
LEMMA DownDrain ==
  ASSUME IInv, DownInv, NEW s \in Sessions, BrowserDrain(s)
  PROVE  /\ DownInv'
         /\ \A t \in Sessions \ {s} : wgot'[t] = wgot[t]
         /\ Unframed(Head(pipe[s])) \in Seq(Unit)
         /\ Clean(wgot'[s]) = Clean(wgot[s]) \o Unframed(Head(pipe[s]))
         /\ \E a, b \in Nat : /\ Span(Clean(wgot[s]), s, 0, a)
                              /\ Span(Unframed(Head(pipe[s])), s, a, b)
                              /\ b <= dsent[s]
<1> USE DEF IInv, TypeOK
<1> DEFINE p == pipe[s]
           w == wgot[s]
           f == Head(p)
<1>0. /\ pipe \in [Sessions -> Seq(Seq(Byte))] /\ p \in Seq(Seq(Byte)) /\ p # <<>>
      /\ wgot \in [Sessions -> Seq(Seq(Byte))] /\ w \in Seq(Seq(Byte))
      /\ dsent[s] \in Nat
  BY DEF EnvTypeOK, BrowserDrain, Byte
<1>1. /\ wgot' = [wgot EXCEPT ![s] = Append(w, f)] /\ pipe' = [pipe EXCEPT ![s] = Tail(p)]
      /\ UNCHANGED <<mqweb, fromDaemon, dsent, link>>
  BY DEF BrowserDrain, bridgeVars
<1> HIDE DEF p, w
<1>2. f \in Seq(Byte) /\ Tail(p) \in Seq(Seq(Byte))
  BY <1>0, HeadTailProperties
<1>3. /\ Clean(p) = Unframed(f) \o Clean(Tail(p)) /\ Clean(Tail(p)) \in Seq(Unit)
      /\ Unframed(f) \in Seq(Unit)
  BY <1>0, <1>2, CleanFacts, UnframedIs
<1> HIDE DEF f
<1>4. Clean(Append(w, f)) = Clean(w) \o Unframed(f)
  BY <1>0, <1>2, CleanFacts
<1>5. wgot'[s] = Append(w, f) /\ pipe'[s] = Tail(p) /\ wgot[s] = w /\ pipe[s] = p
  BY <1>0, <1>1 DEF w, p
<1>6. PICK a \in Nat, b \in Nat, c \in Nat :
        /\ Span(Clean(w), s, 0, a) /\ Span(Clean(p), s, a, b) /\ b <= dsent[s]
        /\ link[s] = "up" =>
             Span(Payload(mqweb[s]), s, b, c) /\ Span(fromDaemon[s], s, c, dsent[s])
  BY <1>5 DEF DownInv, DownSpans
<1> DEFINE k == a + Len(Unframed(f))
<1>7. Span(Unframed(f), s, a, k) /\ Span(Clean(Tail(p)), s, k, b)
  <2>1. Span(Unframed(f) \o Clean(Tail(p)), s, a, b)
    BY <1>3, <1>6
  <2> QED
    BY <1>3, <2>1, SpanSplit
<1>8. k \in Nat /\ k <= b
  BY <1>7 DEF Span
<1> HIDE DEF k
<1>9. Span(Clean(Append(w, f)), s, 0, k)
  BY <1>4, <1>6, <1>7, SpanJoin
<1>10. k <= dsent[s]
  BY <1>0, <1>6, <1>8
<1>11. \A t \in Sessions \ {s} : wgot'[t] = wgot[t] /\ pipe'[t] = pipe[t]
  BY <1>0, <1>1
<1>12. DownInv'
  <2> SUFFICES ASSUME NEW t \in Sessions
               PROVE  DownSpans(t, Clean(wgot'[t]), Clean(pipe'[t]), Payload(mqweb'[t]),
                                fromDaemon'[t], dsent'[t], link'[t])
    BY DEF DownInv
  <2>1. CASE t # s
    <3>1. DownSpans(t, Clean(wgot[t]), Clean(pipe[t]), Payload(mqweb[t]),
                    fromDaemon[t], dsent[t], link[t])
      BY DEF DownInv
    <3> QED
      BY <1>1, <1>11, <2>1, <3>1
  <2>2. CASE t = s
    <3>1. DownSpans(s, Clean(Append(w, f)), Clean(Tail(p)), Payload(mqweb[s]),
                    fromDaemon[s], dsent[s], link[s])
      BY <1>6, <1>7, <1>8, <1>9 DEF DownSpans
    <3> QED
      BY <1>1, <1>5, <2>2, <3>1
  <2> QED
    BY <2>1, <2>2
<1> QED
  BY <1>3, <1>4, <1>5, <1>6, <1>7, <1>8, <1>10, <1>11, <1>12 DEF f, p

LEMMA DownGone ==
  ASSUME IInv, DownInv, NEW s \in Sessions, BrowserGone(s)
  PROVE  DownInv'
<1> USE DEF IInv, TypeOK
<1>1. /\ link \in [Sessions -> {"up", "down"}] /\ dsent[s] \in Nat
      /\ pipe \in [Sessions -> Seq(Seq(Unit \cup {Stray}))]
  BY DEF EnvTypeOK
<1>2. /\ link' = [link EXCEPT ![s] = "down"] /\ pipe' = [pipe EXCEPT ![s] = <<>>]
      /\ UNCHANGED <<mqweb, fromDaemon, dsent, wgot>>
  BY DEF BrowserGone, bridgeVars
<1> SUFFICES ASSUME NEW t \in Sessions
             PROVE  DownSpans(t, Clean(wgot'[t]), Clean(pipe'[t]), Payload(mqweb'[t]),
                              fromDaemon'[t], dsent'[t], link'[t])
  BY DEF DownInv
<1>3. PICK a \in Nat, b \in Nat, c \in Nat :
        /\ Span(Clean(wgot[t]), t, 0, a) /\ Span(Clean(pipe[t]), t, a, b)
        /\ b <= dsent[t]
        /\ link[t] = "up" =>
             Span(Payload(mqweb[t]), t, b, c) /\ Span(fromDaemon[t], t, c, dsent[t])
  BY DEF DownInv, DownSpans
<1>4. CASE t # s
  <2>1. link'[t] = link[t] /\ pipe'[t] = pipe[t]
    BY <1>1, <1>2, <1>4
  <2> QED
    BY <1>2, <1>3, <2>1 DEF DownSpans
<1>5. CASE t = s
  <2>1. link'[s] # "up" /\ pipe'[s] = <<>>
    BY <1>1, <1>2
  <2>2. Clean(pipe'[s]) = <<>>
    BY <2>1, CleanEmpty
  <2>3. Span(Clean(pipe'[s]), s, a, a)
    BY <2>2, SpanEmpty
  <2>4. a <= dsent[s]
    <3>1. a <= b
      BY <1>3 DEF Span
    <3> QED
      BY <1>1, <1>3, <1>5, <3>1
  <2> QED
    BY <1>2, <1>3, <1>5, <2>1, <2>3, <2>4 DEF DownSpans
<1> QED
  BY <1>4, <1>5

LEMMA DownSend ==
  ASSUME IInv, DownInv, NEW s \in Sessions, DaemonWrite(s)
  PROVE  DownInv'
<1> USE DEF IInv, TypeOK
<1>1. /\ fromDaemon \in [Sessions -> Seq(Unit)] /\ dsent \in [Sessions -> Nat]
      /\ dsent[s] \in Nat
  BY DEF EnvTypeOK
<1>2. /\ dsent' = [dsent EXCEPT ![s] = @ + 1]
      /\ fromDaemon' = [fromDaemon EXCEPT ![s] = Append(@, <<s, dsent[s] + 1>>)]
      /\ UNCHANGED <<mqweb, pipe, wgot, link>>
  BY DEF DaemonWrite, bridgeVars
<1> SUFFICES ASSUME NEW t \in Sessions
             PROVE  DownSpans(t, Clean(wgot'[t]), Clean(pipe'[t]), Payload(mqweb'[t]),
                              fromDaemon'[t], dsent'[t], link'[t])
  BY DEF DownInv
<1>3. PICK a \in Nat, b \in Nat, c \in Nat :
        /\ Span(Clean(wgot[t]), t, 0, a) /\ Span(Clean(pipe[t]), t, a, b)
        /\ b <= dsent[t]
        /\ link[t] = "up" =>
             Span(Payload(mqweb[t]), t, b, c) /\ Span(fromDaemon[t], t, c, dsent[t])
  BY DEF DownInv, DownSpans
<1>4. CASE t # s
  <2>1. dsent'[t] = dsent[t] /\ fromDaemon'[t] = fromDaemon[t]
    BY <1>1, <1>2, <1>4
  <2> QED
    BY <1>2, <1>3, <2>1 DEF DownSpans
<1>5. CASE t = s
  <2>1. dsent'[s] = dsent[s] + 1 /\ fromDaemon'[s] = Append(fromDaemon[s], <<s, dsent[s] + 1>>)
    BY <1>1, <1>2
  <2>2. link[s] = "up" => Span(fromDaemon'[s], s, c, dsent'[s])
    BY <1>3, <1>5, <2>1, SpanNext
  <2>3. b <= dsent'[s]
    BY <1>1, <1>3, <1>5, <2>1
  <2> QED
    BY <1>2, <1>3, <1>5, <2>1, <2>2, <2>3 DEF DownSpans
<1> QED
  BY <1>4, <1>5

(* What is in a socket was sent. *)
LEMMA SocketBounded ==
  ASSUME IInv, DownInv, NEW s \in Sessions, link[s] = "up"
  PROVE  Len(fromDaemon[s]) \in Nat /\ Len(fromDaemon[s]) <= dsent[s]
<1>1. PICK c \in Nat : Span(fromDaemon[s], s, c, dsent[s])
  BY DEF DownInv, DownSpans
<1> QED
  BY <1>1 DEF Span

----------------------------------------------------------------------------
(* Every step keeps the spans. *)

LEMMA StillUp ==
  ASSUME UpInv, NothingOut, UNCHANGED <<out, toDaemon, mqlocal, websent, dgot>>,
         \A t \in Sessions : dsock[t] \in Dead => dsock'[t] \in Dead,
         \/ UNCHANGED busy
         \/ \A u \in Sessions : busy # <<"cli", u>> /\ busy' # <<"cli", u>>
         \/ out = <<>>
  PROVE  UpInv' /\ NothingOut'
<1>1. NothingOut'
  BY DEF NothingOut
<1>2. \A t \in Sessions : Writing(t)' = Writing(t)
  BY WritingSame
<1> QED
  BY <1>1, <1>2, UpFrame

LEMMA StillRead ==
  ASSUME LastRead, UNCHANGED <<fromDaemon, dsent>>, loop' = "run" => loop = "run",
         \A t \in Sessions :
           ws'[t] = "open" /\ link'[t] = "up" /\ lwsi'[t] = "freed" =>
             ws[t] = "open" /\ link[t] = "up" /\ lwsi[t] = "freed"
  PROVE  LastRead'
BY DEF LastRead

(* The read() made with a hang-up empties the socket, if it can. *)
LEMMA HangupReads ==
  ASSUME IInv, DownInv, LastRead, ~AllocFails, NEW s \in Sessions, CliHangup(s)
  PROVE  LastRead'
<1> USE DEF IInv, TypeOK
<1>1. /\ lwsi \in [Sessions -> {"none", "live", "null", "freed"}] /\ lwsi[s] = "live"
      /\ lwsi' = [lwsi EXCEPT ![s] = "freed"] /\ UNCHANGED <<loop, ws, link, dsent>>
      /\ fromDaemon[s] \in Seq(Unit) /\ dsent[s] \in Nat
  BY DEF BridgeTypeOK, EnvTypeOK, CliHangup, CloseClient
<1>2. Peer(s) = s
  BY <1>1, OwnPeer
<1>3. CASE ~Readable(s)
  <2>1. UNCHANGED fromDaemon
    BY <1>3 DEF CliHangup
  <2>2. fromDaemon[s] = <<>>
    BY <1>2, <1>3, ConnAssumption DEF Readable
  <2> QED
    BY <1>1, <2>1, <2>2 DEF LastRead
<1>4. CASE Readable(s)
  <2> DEFINE n == Lesser(BufSize, Len(fromDaemon[s]))
  <2>1. /\ n \in 0..Len(fromDaemon[s])
        /\ fromDaemon'[s] = SubSeq(fromDaemon[s], n + 1, Len(fromDaemon[s]))
        /\ \A t \in Sessions \ {s} : fromDaemon'[t] = fromDaemon[t]
    BY <1>1, <1>4, ReadLocalIs DEF CliHangup
  <2>2. ASSUME link[s] = "up", dsent[s] <= BufSize PROVE fromDaemon'[s] = <<>>
    <3>1. Len(fromDaemon[s]) \in Nat /\ Len(fromDaemon[s]) <= dsent[s]
      BY <2>2, SocketBounded
    <3>2. BufSize \in Nat
      BY BridgeAssumption
    <3>3. Len(fromDaemon[s]) <= BufSize
      BY <1>1, <2>2, <3>1, <3>2
    <3>4. n = Len(fromDaemon[s])
      BY <3>1, <3>2, <3>3 DEF Lesser
    <3>5. SubSeq(fromDaemon[s], Len(fromDaemon[s]) + 1, Len(fromDaemon[s])) = <<>>
      BY <3>1, SubSeqEmpty
    <3> HIDE DEF n
    <3> QED
      BY <2>1, <3>4, <3>5
  <2> HIDE DEF n
  <2> SUFFICES ASSUME loop = "run", NEW t \in Sessions, ws[t] = "open", link[t] = "up",
                      lwsi'[t] = "freed", dsent[t] <= BufSize
               PROVE  fromDaemon'[t] = <<>>
    BY <1>1 DEF LastRead
  <2>3. CASE t = s
    BY <2>2, <2>3
  <2>4. CASE t # s
    <3>1. lwsi[t] = "freed" /\ fromDaemon'[t] = fromDaemon[t]
      BY <1>1, <2>1, <2>4
    <3> QED
      BY <3>1 DEF LastRead
  <2> QED
    BY <2>3, <2>4
<1> QED
  BY <1>3, <1>4

LEMMA StreamStep ==
  ASSUME ~AllocFails, ~Nonblocking, IInv, FailInv, StreamInv, [Next]_vars
  PROVE  StreamInv'
<1> USE DEF StreamInv
<1>t. /\ dsock \in [Sessions -> DaemonStates] /\ link \in [Sessions -> {"up", "down"}]
      /\ ws \in [Sessions -> {"none", "open", "closed"}]
      /\ lwsi \in [Sessions -> {"none", "live", "null", "freed"}]
      /\ fromDaemon \in [Sessions -> Seq(Unit)] /\ dsent \in [Sessions -> Nat]
  BY DEF IInv, TypeOK, BridgeTypeOK, EnvTypeOK, DaemonStates
<1>q. \A u \in Sessions : NoCallback # <<"cli", u>>
  BY DEF NoCallback
<1>1. ASSUME NEW s \in Sessions, EstablishFails(s) PROVE StreamInv'
  <2>1. UpInv' /\ NothingOut'
    BY <1>1, <1>t, <1>q, StillUp DEF EstablishFails, envVars, CanCall
  <2>2. DownInv'
    BY <1>1, DownFrame DEF EstablishFails, envVars
  <2>3. LastRead'
    BY <1>1, <1>t, StillRead DEF EstablishFails, envVars, CanCall
  <2> QED
    BY <2>1, <2>2, <2>3
<1>2. ASSUME NEW s \in Sessions, Establish(s) PROVE StreamInv'
  <2>1. UpInv' /\ NothingOut'
    <3>1. dsock[s] = "none"
      BY <1>2 DEF Establish, IInv, LifeCycle, FailInv, HeapAccount
    <3> QED
      BY <1>2, <3>1, <1>t, <1>q, StillUp DEF Establish, CanCall, Dead
  <2>2. DownInv'
    BY <1>2, DownFrame DEF Establish
  <2>3. LastRead'
    <3>1. lwsi[s] = "none"
      BY <1>2 DEF Establish, IInv, LifeCycle
    <3> QED
      BY <1>2, <3>1, <1>t, StillRead DEF Establish, CanCall
  <2> QED
    BY <2>1, <2>2, <2>3
<1>3. ASSUME NEW s \in Sessions, Adopt(s) PROVE StreamInv'
  <2>1. UpInv' /\ NothingOut'
    BY <1>3, <1>t, <1>q, StillUp DEF Adopt, envVars
  <2>2. DownInv'
    BY <1>3, DownFrame DEF Adopt, envVars
  <2>3. LastRead'
    BY <1>3, <1>t, StillRead DEF Adopt, envVars
  <2> QED
    BY <2>1, <2>2, <2>3
<1>4. ASSUME NEW s \in Sessions, WsReceive(s) PROVE StreamInv'
  <2>1. UpInv' /\ NothingOut'
    BY <1>4, UpReceive DEF WsReceive, NothingOut
  <2>2. DownInv'
    BY <1>4, DownFrame DEF WsReceive
  <2>3. LastRead'
    BY <1>4, <1>t, StillRead DEF WsReceive, WantWriteable, CanCall
  <2> QED
    BY <2>1, <2>2, <2>3
<1>5. ASSUME NEW s \in Sessions, WsWriteable(s) PROVE StreamInv'
  <2>1. UpInv' /\ NothingOut'
    BY <1>5, <1>t, <1>q, StillUp DEF WsWriteable, envVars, CanCall
  <2>2. DownInv'
    BY <1>5, DownFrame DEF WsWriteable, envVars
  <2>3. LastRead'
    BY <1>5, <1>t, StillRead DEF WsWriteable, envVars, CanCall
  <2> QED
    BY <2>1, <2>2, <2>3
<1>6. ASSUME NEW s \in Sessions, WsChoke(s) PROVE StreamInv'
  <2>1. UpInv' /\ NothingOut'
    <3>1. \A t \in Sessions : dsock[t] \in Dead => dsock'[t] \in Dead
      <4>1. SocketsFollow \/ UNCHANGED dsock
        BY <1>6 DEF WsChoke, WsResult, CloseSession, CloseChild, CloseClient
      <4> QED
        BY <4>1, <1>t DEF SocketsFollow, Dead
    <3>2. /\ \A u \in Sessions : busy # <<"cli", u>> /\ busy' # <<"cli", u>>
          /\ UNCHANGED <<out, toDaemon, mqlocal, websent, dgot>>
      BY <1>6, <1>q DEF WsChoke
    <3> QED
      BY <3>1, <3>2, StillUp
  <2>2. DownInv'
    BY <1>6, DownFrame DEF WsChoke
  <2>3. LastRead'
    BY <1>6, <1>t, StillRead DEF WsChoke, WsResult, CloseSession, CloseChild,
                                 CloseClient, SocketsFollow, Dead
  <2> QED
    BY <2>1, <2>2, <2>3
<1>7. ASSUME NEW s \in Sessions, WsWrite(s) PROVE StreamInv'
  <2>1. UpInv' /\ NothingOut'
    BY <1>7, <1>t, <1>q, StillUp DEF WsWrite
  <2>2. DownInv'
    BY <1>7, DownWrite
  <2>3. LastRead'
    BY <1>7, <1>t, StillRead DEF WsWrite
  <2> QED
    BY <2>1, <2>2, <2>3
<1>8. ASSUME NEW s \in Sessions, WsReturn(s) PROVE StreamInv'
  <2>1. UpInv' /\ NothingOut'
    <3>1. \A t \in Sessions : dsock[t] \in Dead => dsock'[t] \in Dead
      <4>1. SocketsFollow \/ UNCHANGED dsock
        BY <1>8 DEF WsReturn, WsResult, CloseSession, CloseChild, CloseClient
      <4> QED
        BY <4>1, <1>t DEF SocketsFollow, Dead
    <3>2. /\ \A u \in Sessions : busy # <<"cli", u>> /\ busy' # <<"cli", u>>
          /\ UNCHANGED <<out, toDaemon, mqlocal, websent, dgot>>
      BY <1>8, <1>q DEF WsReturn
    <3> QED
      BY <3>1, <3>2, StillUp
  <2>2. DownInv'
    BY <1>8, DownFrame DEF WsReturn
  <2>3. LastRead'
    BY <1>8, <1>t, StillRead DEF WsReturn, WsResult, CloseSession, CloseChild,
                                 CloseClient, SocketsFollow, Dead
  <2> QED
    BY <2>1, <2>2, <2>3
<1>9. ASSUME NEW s \in Sessions, WsClose(s) PROVE StreamInv'
  <2>1. UpInv' /\ NothingOut'
    BY <1>9, <1>t, <1>q, StillUp DEF WsClose, CloseSession, CloseChild, CloseClient, SocketsFollow, Dead
  <2>2. DownInv'
    BY <1>9, DownFrame DEF WsClose
  <2>3. LastRead'
    BY <1>9, <1>t, StillRead DEF WsClose, CloseSession, CloseChild, CloseClient, SocketsFollow, Dead
  <2> QED
    BY <2>1, <2>2, <2>3
<1>10. ASSUME NEW s \in Sessions, CliReceive(s) PROVE StreamInv'
  <2>1. UpInv' /\ NothingOut'
    BY <1>10, <1>t, <1>q, StillUp DEF CliReceive, CanCall
  <2>2. DownInv'
    BY <1>10, DownRead DEF CliReceive
  <2>3. LastRead'
    <3>1. /\ Peer(s) = s /\ lwsi[s] = "live" /\ UNCHANGED <<loop, ws, link, lwsi, dsent>>
          /\ ReadLocal(s)
      BY <1>10, OwnPeer DEF CliReceive
    <3>2. \A t \in Sessions \ {s} : fromDaemon'[t] = fromDaemon[t]
      BY <3>1, ReadLocalIs
    <3> QED
      BY <3>1, <3>2 DEF LastRead
  <2> QED
    BY <2>1, <2>2, <2>3
<1>11. ASSUME NEW s \in Sessions, CliHangup(s) PROVE StreamInv'
  <2>1. UpInv' /\ NothingOut'
    BY <1>11, <1>t, <1>q, StillUp DEF CliHangup, CanCall, SocketsFollow, CloseClient, Dead
  <2>2. DownInv'
    BY <1>11, DownRead DEF CliHangup
  <2>3. LastRead'
    BY <1>11, HangupReads
  <2> QED
    BY <2>1, <2>2, <2>3
<1>12. ASSUME NEW s \in Sessions, CliWriteable(s) PROVE StreamInv'
  <2>1. UpInv' /\ NothingOut'
    <3>1. out = <<>>
      BY <1>12, <1>q DEF CliWriteable, CanCall, NothingOut
    <3> QED
      BY <1>12, <3>1, StillUp DEF CliWriteable, envVars
  <2>2. DownInv'
    BY <1>12, DownFrame DEF CliWriteable, envVars
  <2>3. LastRead'
    BY <1>12, <1>t, StillRead DEF CliWriteable, envVars, CanCall
  <2> QED
    BY <2>1, <2>2, <2>3
<1>13. ASSUME NEW s \in Sessions, CliPop(s) PROVE StreamInv'
  <2>1. UpInv' /\ NothingOut'
    BY <1>13, UpPop DEF CliPop, NothingOut
  <2>2. DownInv'
    BY <1>13, DownFrame DEF CliPop, envVars
  <2>3. LastRead'
    BY <1>13, <1>t, StillRead DEF CliPop, envVars
  <2> QED
    BY <2>1, <2>2, <2>3
<1>14. ASSUME NEW s \in Sessions, CliWrite(s) PROVE StreamInv'
  <2>1. UpInv' /\ NothingOut'
    BY <1>14, UpWrite DEF CliWrite, NothingOut
  <2>2. DownInv'
    BY <1>14, DownFrame DEF CliWrite
  <2>3. LastRead'
    BY <1>14, <1>t, StillRead DEF CliWrite
  <2> QED
    BY <2>1, <2>2, <2>3
<1>15. ASSUME NEW s \in Sessions, CliReturn(s) PROVE StreamInv'
  <2>1. UpInv' /\ NothingOut'
    BY <1>15, <1>t, <1>q, StillUp DEF CliReturn, envVars
  <2>2. DownInv'
    BY <1>15, DownFrame DEF CliReturn, envVars
  <2>3. LastRead'
    BY <1>15, <1>t, StillRead DEF CliReturn, envVars
  <2> QED
    BY <2>1, <2>2, <2>3
<1>16. ASSUME NEW s \in Sessions, DestroyClient(s) PROVE StreamInv'
  <2>1. UpInv' /\ NothingOut'
    BY <1>16, <1>t, <1>q, StillUp DEF DestroyClient, SocketsFollow, CloseClient, Dead
  <2>2. DownInv'
    BY <1>16, DownFrame DEF DestroyClient
  <2>3. LastRead'
    BY <1>16 DEF DestroyClient, LastRead
  <2> QED
    BY <2>1, <2>2, <2>3
<1>17. ASSUME NEW s \in Sessions, DaemonAccepts(s) PROVE StreamInv'
  <2>1. UpInv' /\ NothingOut'
    BY <1>17, <1>t, <1>q, StillUp DEF DaemonAccepts, bridgeVars, Dead
  <2>2. DownInv'
    BY <1>17, DownFrame DEF DaemonAccepts, bridgeVars
  <2>3. LastRead'
    BY <1>17, <1>t, StillRead DEF DaemonAccepts, bridgeVars, Dead
  <2> QED
    BY <2>1, <2>2, <2>3
<1>18. ASSUME NEW s \in Sessions, DaemonRefuses(s) PROVE StreamInv'
  <2>1. UpInv' /\ NothingOut'
    BY <1>18, <1>t, <1>q, StillUp DEF DaemonRefuses, bridgeVars, Dead
  <2>2. DownInv'
    BY <1>18, DownFrame DEF DaemonRefuses, bridgeVars
  <2>3. LastRead'
    BY <1>18, <1>t, StillRead DEF DaemonRefuses, bridgeVars, Dead
  <2> QED
    BY <2>1, <2>2, <2>3
<1>19. ASSUME NEW s \in Sessions, DaemonWrite(s) PROVE StreamInv'
  <2>1. UpInv' /\ NothingOut'
    BY <1>19, <1>t, <1>q, StillUp DEF DaemonWrite, bridgeVars
  <2>2. DownInv'
    BY <1>19, DownSend
  <2>3. LastRead'
    <3>1. ~(loop = "run" /\ ws[s] = "open" /\ lwsi[s] = "freed")
      BY <1>19 DEF DaemonWrite, FailInv, OrphanInv
    <3>2. /\ UNCHANGED <<loop, ws, link, lwsi>>
          /\ \A t \in Sessions \ {s} :
               fromDaemon'[t] = fromDaemon[t] /\ dsent'[t] = dsent[t]
      BY <1>19, <1>t DEF DaemonWrite, bridgeVars
    <3> QED
      BY <3>1, <3>2 DEF LastRead
  <2> QED
    BY <2>1, <2>2, <2>3
<1>20. ASSUME NEW s \in Sessions, DaemonRead(s) PROVE StreamInv'
  <2>1. UpInv' /\ NothingOut'
    BY <1>20, UpDaemon DEF DaemonRead, bridgeVars, NothingOut
  <2>2. DownInv'
    BY <1>20, DownFrame DEF DaemonRead, bridgeVars
  <2>3. LastRead'
    BY <1>20, <1>t, StillRead DEF DaemonRead, bridgeVars
  <2> QED
    BY <2>1, <2>2, <2>3
<1>21. ASSUME NEW s \in Sessions, DaemonShutWr(s) PROVE StreamInv'
  <2>1. UpInv' /\ NothingOut'
    BY <1>21, <1>t, <1>q, StillUp DEF DaemonShutWr, bridgeVars, Dead
  <2>2. DownInv'
    BY <1>21, DownFrame DEF DaemonShutWr, bridgeVars
  <2>3. LastRead'
    BY <1>21, <1>t, StillRead DEF DaemonShutWr, bridgeVars, Dead
  <2> QED
    BY <2>1, <2>2, <2>3
<1>22. ASSUME NEW s \in Sessions, DaemonHup(s) PROVE StreamInv'
  <2>1. UpInv' /\ NothingOut'
    BY <1>22, UpDaemon DEF DaemonHup, bridgeVars, NothingOut
  <2>2. DownInv'
    BY <1>22, DownFrame DEF DaemonHup, bridgeVars
  <2>3. LastRead'
    BY <1>22, <1>t, StillRead DEF DaemonHup, bridgeVars
  <2> QED
    BY <2>1, <2>2, <2>3
<1>23. ASSUME NEW s \in Sessions, BrowserDrain(s) PROVE StreamInv'
  <2>1. UpInv' /\ NothingOut'
    BY <1>23, <1>t, <1>q, StillUp DEF BrowserDrain, bridgeVars
  <2>2. DownInv'
    BY <1>23, DownDrain
  <2>3. LastRead'
    BY <1>23, <1>t, StillRead DEF BrowserDrain, bridgeVars
  <2> QED
    BY <2>1, <2>2, <2>3
<1>24. ASSUME NEW s \in Sessions, BrowserGone(s) PROVE StreamInv'
  <2>1. UpInv' /\ NothingOut'
    BY <1>24, <1>t, <1>q, StillUp DEF BrowserGone, bridgeVars
  <2>2. DownInv'
    BY <1>24, DownGone
  <2>3. LastRead'
    BY <1>24, <1>t, StillRead DEF BrowserGone, bridgeVars
  <2> QED
    BY <2>1, <2>2, <2>3
<1>25. ASSUME LoopEnd PROVE StreamInv'
  <2>1. UpInv' /\ NothingOut'
    BY <1>25, <1>t, <1>q, StillUp DEF LoopEnd, envVars, CanCall
  <2>2. DownInv'
    BY <1>25, DownFrame DEF LoopEnd, envVars
  <2>3. LastRead'
    BY <1>25, <1>t, StillRead DEF LoopEnd, envVars, CanCall
  <2> QED
    BY <2>1, <2>2, <2>3
<1>26. ASSUME ServiceFails PROVE StreamInv'
  <2>1. UpInv' /\ NothingOut'
    BY <1>26, <1>t, <1>q, StillUp DEF ServiceFails, envVars, CanCall
  <2>2. DownInv'
    BY <1>26, DownFrame DEF ServiceFails, envVars
  <2>3. LastRead'
    BY <1>26, <1>t, StillRead DEF ServiceFails, envVars, CanCall
  <2> QED
    BY <2>1, <2>2, <2>3
<1>27. ASSUME BackendExit PROVE StreamInv'
  <2>1. UpInv' /\ NothingOut'
    BY <1>27, <1>t, <1>q, StillUp DEF BackendExit, SocketsFollow, Dead, CloseAll, DictDeinit
  <2>2. DownInv'
    BY <1>27, DownFrame DEF BackendExit
  <2>3. LastRead'
    BY <1>27, <1>t, StillRead DEF BackendExit, SocketsFollow, Dead, CloseAll, DictDeinit
  <2> QED
    BY <2>1, <2>2, <2>3
<1>28. ASSUME Sigint PROVE StreamInv'
  <2>1. UpInv' /\ NothingOut'
    BY <1>28, <1>t, <1>q, StillUp DEF Sigint, envVars
  <2>2. DownInv'
    BY <1>28, DownFrame DEF Sigint, envVars
  <2>3. LastRead'
    BY <1>28, <1>t, StillRead DEF Sigint, envVars
  <2> QED
    BY <2>1, <2>2, <2>3
<1>29. CASE UNCHANGED vars
  <2>1. UpInv' /\ NothingOut'
    BY <1>29, StillUp DEF vars, bridgeVars, envVars
  <2>2. DownInv'
    BY <1>29, DownFrame DEF vars, bridgeVars, envVars
  <2>3. LastRead'
    BY <1>29, StillRead DEF vars, bridgeVars, envVars
  <2> QED
    BY <2>1, <2>2, <2>3
<1> QED
  BY <1>1, <1>2, <1>3, <1>4, <1>5, <1>6, <1>7, <1>8,
     <1>9, <1>10, <1>11, <1>12, <1>13, <1>14, <1>15, <1>16,
     <1>17, <1>18, <1>19, <1>20, <1>21, <1>22, <1>23, <1>24,
     <1>25, <1>26, <1>27, <1>28, <1>29
     DEF Next, Callback, Backend, Environment

LEMMA StreamInit ==
  ASSUME Init
  PROVE  StreamInv
<1>1. UpInv
  <2> SUFFICES ASSUME NEW t \in Sessions
               PROVE  UpSpans(t, dgot[t], toDaemon[t], Writing(t), Payload(mqlocal[t]),
                              websent[t], dsock[t])
    BY DEF UpInv
  <2>1. /\ dgot[t] = <<>> /\ toDaemon[t] = <<>> /\ Payload(mqlocal[t]) = <<>>
        /\ Writing(t) = <<>> /\ websent[t] = 0
    BY PayloadEmpty DEF Init, Writing
  <2>2. Span(<<>>, t, 0, 0)
    BY SpanEmpty
  <2> QED
    BY <2>1, <2>2 DEF UpSpans
<1>2. DownInv
  <2> SUFFICES ASSUME NEW t \in Sessions
               PROVE  DownSpans(t, Clean(wgot[t]), Clean(pipe[t]), Payload(mqweb[t]),
                                fromDaemon[t], dsent[t], link[t])
    BY DEF DownInv
  <2>1. /\ Clean(wgot[t]) = <<>> /\ Clean(pipe[t]) = <<>> /\ Payload(mqweb[t]) = <<>>
        /\ fromDaemon[t] = <<>> /\ dsent[t] = 0
    BY PayloadEmpty, CleanEmpty DEF Init
  <2>2. Span(<<>>, t, 0, 0)
    BY SpanEmpty
  <2> QED
    BY <2>1, <2>2 DEF DownSpans
<1> QED
  BY <1>1, <1>2 DEF Init, StreamInv, NothingOut, LastRead

(***************************************************************************)
(* The spans are adjacent in every reachable state, when write() blocks    *)
(* and malloc succeeds.                                                    *)
(***************************************************************************)
THEOREM StreamInvariance ==
  ASSUME ~AllocFails, ~Nonblocking
  PROVE  Spec => []StreamInv
<1>1. Init => StreamInv
  BY StreamInit
<1>2. IInv /\ FailInv /\ StreamInv /\ [Next]_vars => StreamInv'
  BY StreamStep
<1> QED
  BY <1>1, <1>2, Invariance, FailInvariance, PTL DEF Spec

(***************************************************************************)
(* Up: whatever a browser has sent to a daemon that is connected has been  *)
(* read, or is in the socket, in the write() or on mqlocal, in order.      *)
(***************************************************************************)
THEOREM UpstreamKept ==
  ASSUME ~AllocFails, ~Nonblocking
  PROVE  Spec => []UpLossless
<1>1. StreamInv => UpLossless
  <2> SUFFICES ASSUME StreamInv, NEW s \in Sessions, dsock[s] \in {"open", "half"}
               PROVE  dgot[s] \o toDaemon[s] \o Writing(s) \o Payload(mqlocal[s])
                        = Units(s, 0, websent[s])
    BY DEF UpLossless
  <2>1. PICK a \in Nat, b \in Nat, c \in Nat :
          /\ Span(dgot[s], s, 0, a) /\ Span(toDaemon[s], s, a, b)
          /\ Span(Writing(s), s, b, c) /\ Span(Payload(mqlocal[s]), s, c, websent[s])
    BY DEF StreamInv, UpInv, UpSpans, Dead
  <2>2. Span(dgot[s] \o toDaemon[s], s, 0, b)
    BY <2>1, SpanJoin
  <2>3. Span((dgot[s] \o toDaemon[s]) \o Writing(s), s, 0, c)
    BY <2>1, <2>2, SpanJoin
  <2>4. Span(((dgot[s] \o toDaemon[s]) \o Writing(s)) \o Payload(mqlocal[s]), s, 0, websent[s])
    BY <2>1, <2>3, SpanJoin
  <2>5. websent[s] - 0 = websent[s]
    BY <2>4 DEF Span
  <2> DEFINE x == dgot[s] \o toDaemon[s] \o Writing(s) \o Payload(mqlocal[s])
  <2>6. x = Units(s, 0, websent[s] - 0)
    <3>1. Span(x, s, 0, websent[s])
      BY <2>4
    <3> HIDE DEF x
    <3> QED
      BY <3>1, SpanUnits
  <2> QED
    BY <2>5, <2>6
<1> QED
  BY <1>1, StreamInvariance, PTL

(***************************************************************************)
(* Down: whatever a daemon has sent to a browser that is there has been    *)
(* got, or is in flight, on mqweb or in the socket, in order; and a hang-  *)
(* up leaves nothing in the socket that one read() could take.             *)
(***************************************************************************)
THEOREM DownstreamKept ==
  ASSUME ~AllocFails, ~Nonblocking
  PROVE  Spec => []DownLossless
<1>1. StreamInv => DownLossless
  <2> SUFFICES ASSUME StreamInv, NEW s \in Sessions, ws[s] = "open", link[s] = "up"
               PROVE  Clean(wgot[s]) \o Clean(pipe[s]) \o Payload(mqweb[s]) \o fromDaemon[s]
                        = Units(s, 0, dsent[s])
    BY DEF DownLossless, StreamInv, LastRead
  <2>1. PICK a \in Nat, b \in Nat, c \in Nat :
          /\ Span(Clean(wgot[s]), s, 0, a) /\ Span(Clean(pipe[s]), s, a, b)
          /\ Span(Payload(mqweb[s]), s, b, c) /\ Span(fromDaemon[s], s, c, dsent[s])
    BY DEF StreamInv, DownInv, DownSpans
  <2>2. Span(Clean(wgot[s]) \o Clean(pipe[s]), s, 0, b)
    BY <2>1, SpanJoin
  <2>3. Span((Clean(wgot[s]) \o Clean(pipe[s])) \o Payload(mqweb[s]), s, 0, c)
    BY <2>1, <2>2, SpanJoin
  <2>4. Span(((Clean(wgot[s]) \o Clean(pipe[s])) \o Payload(mqweb[s])) \o fromDaemon[s],
             s, 0, dsent[s])
    BY <2>1, <2>3, SpanJoin
  <2>5. dsent[s] - 0 = dsent[s]
    BY <2>4 DEF Span
  <2> DEFINE x == Clean(wgot[s]) \o Clean(pipe[s]) \o Payload(mqweb[s]) \o fromDaemon[s]
  <2>6. x = Units(s, 0, dsent[s] - 0)
    <3>1. Span(x, s, 0, dsent[s])
      BY <2>4
    <3> HIDE DEF x
    <3> QED
      BY <3>1, SpanUnits
  <2> QED
    BY <2>5, <2>6
<1> QED
  BY <1>1, StreamInvariance, PTL

----------------------------------------------------------------------------
(* The bridge implements Duplex. *)

Streams == {"up", "down"} \X Sessions
SentBy == [c \in Streams |-> IF c[1] = "up" THEN websent[c[2]] ELSE dsent[c[2]]]
GotBy == [c \in Streams |-> IF c[1] = "up" THEN dgot[c[2]] ELSE Clean(wgot[c[2]])]

LEMMA StreamPair ==
  ASSUME NEW s \in Sessions, NEW w \in {"up", "down"}
  PROVE  /\ <<w, s>> \in Streams
         /\ \A c \in Streams : /\ c[1] \in {"up", "down"} /\ c[2] \in Sessions
                               /\ c # <<w, s>> => c[1] # w \/ c[2] # s
BY DEF Streams

(* One more unit, or several, in one direction of one session. *)
LEMMA SendIs ==
  ASSUME NEW s \in Sessions, NEW w \in {"up", "down"},
         SentBy'[<<w, s>>] > SentBy[<<w, s>>], UNCHANGED GotBy,
         \A t \in Sessions : w # "up" \/ t # s => websent'[t] = websent[t],
         \A t \in Sessions : w # "down" \/ t # s => dsent'[t] = dsent[t]
  PROVE  Bridged!Send(<<w, s>>)
<1>1. ASSUME NEW c \in Streams, c # <<w, s>> PROVE SentBy'[c] = SentBy[c]
  <2>1. c[1] \in {"up", "down"} /\ c[2] \in Sessions /\ (c[1] # w \/ c[2] # s)
    BY <1>1, StreamPair
  <2>2. CASE c[1] = "up"
    <3>1. websent'[c[2]] = websent[c[2]]
      BY <2>1, <2>2
    <3> QED
      BY <2>2, <3>1 DEF SentBy
  <2>3. CASE c[1] = "down"
    <3>1. dsent'[c[2]] = dsent[c[2]]
      BY <2>1, <2>3
    <3> QED
      BY <2>3, <3>1 DEF SentBy
  <2> QED
    BY <2>1, <2>2, <2>3
<1>2. SentBy' = [SentBy EXCEPT ![<<w, s>>] = SentBy'[<<w, s>>]]
  <2>1. SentBy = [c \in Streams |-> SentBy[c]] /\ SentBy' = [c \in Streams |-> SentBy'[c]]
    BY DEF SentBy
  <2> QED
    BY <1>1, <2>1
<1> QED
  BY <1>2 DEF Bridged!Send, SentBy, GotBy, Streams

(* Units come out of one direction of one session. *)
LEMMA DeliverIs ==
  ASSUME NEW s \in Sessions, NEW w \in {"up", "down"}, NEW y, NEW a, NEW b,
         Span(GotBy[<<w, s>>], s, 0, a), Span(y, s, a, b), b <= SentBy[<<w, s>>],
         SentBy[<<w, s>>] \in Nat, y # <<>>,
         GotBy'[<<w, s>>] = GotBy[<<w, s>>] \o y, UNCHANGED SentBy,
         \A t \in Sessions : w # "up" \/ t # s => dgot'[t] = dgot[t],
         \A t \in Sessions : w # "down" \/ t # s => wgot'[t] = wgot[t]
  PROVE  Bridged!Deliver(<<w, s>>)
<1>1. ASSUME NEW c \in Streams, c # <<w, s>> PROVE GotBy'[c] = GotBy[c]
  <2>1. c[1] \in {"up", "down"} /\ c[2] \in Sessions /\ (c[1] # w \/ c[2] # s)
    BY <1>1, StreamPair
  <2>2. CASE c[1] = "up"
    <3>1. dgot'[c[2]] = dgot[c[2]]
      BY <2>1, <2>2
    <3> QED
      BY <2>2, <3>1 DEF GotBy
  <2>3. CASE c[1] = "down"
    <3>1. wgot'[c[2]] = wgot[c[2]]
      BY <2>1, <2>3
    <3> QED
      BY <2>3, <3>1 DEF GotBy
  <2> QED
    BY <2>1, <2>2, <2>3
<1>2. GotBy' = [GotBy EXCEPT ![<<w, s>>] = @ \o y]
  <2>1. GotBy = [c \in Streams |-> GotBy[c]] /\ GotBy' = [c \in Streams |-> GotBy'[c]]
    BY DEF GotBy
  <2> QED
    BY <1>1, <2>1
<1> DEFINE k == b - a
<1>3. Len(GotBy[<<w, s>>]) = a /\ a \in Nat /\ b \in Nat /\ a <= b
  BY DEF Span
<1>4. k \in 1..(SentBy[<<w, s>>] - Len(GotBy[<<w, s>>]))
  <2>1. a # b
    <3>1. y \in Seq(Unit) /\ Len(y) = b - a
      BY DEF Span
    <3> QED
      BY <1>3, <3>1, EmptySeq
  <2> DEFINE z == SentBy[<<w, s>>]
  <2>2. z \in Nat /\ b <= z
    OBVIOUS
  <2> HIDE DEF z
  <2>3. k \in 1..(z - a)
    BY <1>3, <2>1, <2>2
  <2> QED
    BY <1>3, <2>3 DEF z
<1>5. y = Units(s, a, k)
  BY SpanUnits
<1>6. Bridged!NextUnits(<<w, s>>, k) = y
  BY <1>3, <1>5 DEF Bridged!NextUnits, Units, GotBy, Streams
<1> HIDE DEF k
<1> QED
  BY <1>2, <1>4, <1>6 DEF Bridged!Deliver, SentBy, GotBy, Streams

LEMMA ViewOf ==
  ASSUME NEW s \in Sessions
  PROVE  /\ SentBy[<<"up", s>>] = websent[s] /\ SentBy[<<"down", s>>] = dsent[s]
         /\ GotBy[<<"up", s>>] = dgot[s] /\ GotBy[<<"down", s>>] = Clean(wgot[s])
BY DEF SentBy, GotBy, Streams

(* A step that no peer sees. *)
LEMMA Unseen ==
  ASSUME UNCHANGED <<websent, dsent, dgot, wgot>>
  PROVE  UNCHANGED <<SentBy, GotBy>>
BY DEF SentBy, GotBy

LEMMA ReceiveIsSend ==
  ASSUME IInv, NEW s \in Sessions, WsReceive(s)
  PROVE  [Bridged!Next]_<<SentBy, GotBy>>
<1>1. websent \in [Sessions -> Nat] /\ websent[s] \in Nat
  BY DEF IInv, TypeOK, EnvTypeOK
<1>2. UNCHANGED <<dsent, dgot, wgot>>
  BY DEF WsReceive
<1>3. PICK n \in 0..Lesser(RxSize, MaxUp - websent[s]) :
        websent' = [websent EXCEPT ![s] = @ + n]
  BY DEF WsReceive
<1>4. n \in Nat
  BY <1>1, <1>3, BridgeAssumption DEF Lesser
<1>5. UNCHANGED GotBy
  BY <1>2 DEF GotBy
<1>6. CASE n = 0
  <2>1. UNCHANGED websent
    BY <1>1, <1>3, <1>6
  <2> QED
    BY <1>2, <2>1, Unseen
<1>7. CASE n # 0
  <2>1. SentBy'[<<"up", s>>] = websent'[s] /\ SentBy[<<"up", s>>] = websent[s]
    BY ViewOf DEF SentBy, Streams
  <2>2. websent'[s] > websent[s]
    BY <1>1, <1>3, <1>4, <1>7
  <2>3. \A t \in Sessions : t # s => websent'[t] = websent[t]
    BY <1>1, <1>3
  <2>4. Bridged!Send(<<"up", s>>)
    BY <1>2, <1>5, <2>1, <2>2, <2>3, SendIs
  <2> QED
    BY <2>4 DEF Bridged!Next, Bridged!Streams, Bridged!Directions
<1> QED
  BY <1>6, <1>7

LEMMA DaemonWriteIsSend ==
  ASSUME IInv, NEW s \in Sessions, DaemonWrite(s)
  PROVE  [Bridged!Next]_<<SentBy, GotBy>>
<1>1. dsent \in [Sessions -> Nat] /\ dsent[s] \in Nat
  BY DEF IInv, TypeOK, EnvTypeOK
<1>2. UNCHANGED <<websent, dgot, wgot>> /\ dsent' = [dsent EXCEPT ![s] = @ + 1]
  BY DEF DaemonWrite
<1>3. UNCHANGED GotBy
  BY <1>2 DEF GotBy
<1>4. SentBy'[<<"down", s>>] = dsent'[s] /\ SentBy[<<"down", s>>] = dsent[s]
  BY ViewOf DEF SentBy, Streams
<1>5. dsent'[s] > dsent[s]
  BY <1>1, <1>2
<1>6. \A t \in Sessions : t # s => dsent'[t] = dsent[t]
  BY <1>1, <1>2
<1>7. Bridged!Send(<<"down", s>>)
  BY <1>2, <1>3, <1>4, <1>5, <1>6, SendIs
<1> QED
  BY <1>7 DEF Bridged!Next, Bridged!Streams, Bridged!Directions

LEMMA DaemonReadIsDeliver ==
  ASSUME IInv, StreamInv, NEW s \in Sessions, DaemonRead(s)
  PROVE  [Bridged!Next]_<<SentBy, GotBy>>
<1>1. /\ dgot \in [Sessions -> Seq(Unit)] /\ dgot[s] \in Seq(Unit) /\ websent[s] \in Nat
      /\ toDaemon[s] \in Seq(Unit) /\ toDaemon[s] # <<>>
  BY DEF IInv, TypeOK, EnvTypeOK, DaemonRead
<1> DEFINE u == Head(toDaemon[s])
<1>2. /\ dgot' = [dgot EXCEPT ![s] = Append(@, u)]
      /\ UNCHANGED <<websent, dsent, wgot>>
  BY DEF DaemonRead
<1>3. PICK a \in Nat, b \in Nat :
        Span(dgot[s], s, 0, a) /\ Span(toDaemon[s], s, a, b) /\ b <= websent[s]
  BY DEF StreamInv, UpInv, UpSpans
<1>4. u = <<s, a + 1>> /\ a < b
  BY <1>1, <1>3, SpanFirst
<1> HIDE DEF u
<1>5. Span(<<u>>, s, a, a + 1) /\ u \in Unit
  <2>1. Span(<<>>, s, a, a)
    BY SpanEmpty
  <2>2. Span(Append(<<>>, u), s, a, a + 1)
    BY <1>4, <2>1, SpanNext
  <2>3. Append(<<>>, u) = <<u>>
    OBVIOUS
  <2> QED
    BY <1>4, <2>2, <2>3 DEF Unit
<1>6. a + 1 <= websent[s] /\ <<u>> # <<>>
  BY <1>1, <1>3, <1>4
<1>7. dgot'[s] = dgot[s] \o <<u>>
  <2>1. dgot'[s] = Append(dgot[s], u)
    BY <1>1, <1>2
  <2>2. Append(dgot[s], u) = dgot[s] \o <<u>>
    BY <1>1, <1>5, AppendIsConcat
  <2> QED
    BY <2>1, <2>2
<1>8. /\ GotBy[<<"up", s>>] = dgot[s] /\ GotBy'[<<"up", s>>] = dgot'[s]
      /\ SentBy[<<"up", s>>] = websent[s] /\ UNCHANGED SentBy
  BY <1>2 DEF SentBy, GotBy, Streams
<1>9. \A t \in Sessions : t # s => dgot'[t] = dgot[t]
  BY <1>1, <1>2
<1>10. Bridged!Deliver(<<"up", s>>)
  BY <1>1, <1>2, <1>3, <1>5, <1>6, <1>7, <1>8, <1>9, DeliverIs
<1> QED
  BY <1>10 DEF Bridged!Next, Bridged!Streams, Bridged!Directions

LEMMA BrowserDrainIsDeliver ==
  ASSUME IInv, StreamInv, NEW s \in Sessions, BrowserDrain(s)
  PROVE  [Bridged!Next]_<<SentBy, GotBy>>
<1> DEFINE y == Unframed(Head(pipe[s]))
<1>1. dsent[s] \in Nat
  BY DEF IInv, TypeOK, EnvTypeOK
<1>2. UNCHANGED <<websent, dsent, dgot>>
  BY DEF BrowserDrain
<1>3. /\ \A t \in Sessions \ {s} : wgot'[t] = wgot[t]
      /\ y \in Seq(Unit) /\ Clean(wgot'[s]) = Clean(wgot[s]) \o y
      /\ \E a, b \in Nat : /\ Span(Clean(wgot[s]), s, 0, a) /\ Span(y, s, a, b)
                           /\ b <= dsent[s]
  BY DownDrain DEF StreamInv
<1> HIDE DEF y
<1>4. PICK a \in Nat, b \in Nat :
        Span(Clean(wgot[s]), s, 0, a) /\ Span(y, s, a, b) /\ b <= dsent[s]
  BY <1>3
<1>5. /\ GotBy[<<"down", s>>] = Clean(wgot[s]) /\ GotBy'[<<"down", s>>] = Clean(wgot'[s])
      /\ SentBy[<<"down", s>>] = dsent[s] /\ UNCHANGED SentBy
  BY <1>2 DEF SentBy, GotBy, Streams
<1>6. CASE y = <<>>
  <2>1. Clean(wgot[s]) \in Seq(Unit)
    BY <1>4 DEF Span
  <2>2. Clean(wgot'[s]) = Clean(wgot[s])
    BY <1>3, <1>6, <2>1, ConcatEmptySeq
  <2>3. \A t \in Sessions : Clean(wgot'[t]) = Clean(wgot[t])
    BY <1>3, <2>2
  <2>4. UNCHANGED GotBy
    BY <1>2, <2>3 DEF GotBy, Streams
  <2> QED
    BY <1>5, <2>4
<1>7. CASE y # <<>>
  <2>1. \A t \in Sessions : t # s => wgot'[t] = wgot[t]
    BY <1>3
  <2>2. Bridged!Deliver(<<"down", s>>)
    BY <1>1, <1>2, <1>3, <1>4, <1>5, <1>7, <2>1, DeliverIs
  <2> QED
    BY <2>2 DEF Bridged!Next, Bridged!Streams, Bridged!Directions
<1> QED
  BY <1>6, <1>7

LEMMA DuplexStep ==
  ASSUME IInv, StreamInv, [Next]_vars
  PROVE  [Bridged!Next]_<<SentBy, GotBy>>
<1>1. ASSUME NEW s \in Sessions, WsReceive(s)
      PROVE  [Bridged!Next]_<<SentBy, GotBy>>
  BY <1>1, ReceiveIsSend
<1>2. ASSUME NEW s \in Sessions, DaemonWrite(s)
      PROVE  [Bridged!Next]_<<SentBy, GotBy>>
  BY <1>2, DaemonWriteIsSend
<1>3. ASSUME NEW s \in Sessions, DaemonRead(s)
      PROVE  [Bridged!Next]_<<SentBy, GotBy>>
  BY <1>3, DaemonReadIsDeliver
<1>4. ASSUME NEW s \in Sessions, BrowserDrain(s)
      PROVE  [Bridged!Next]_<<SentBy, GotBy>>
  BY <1>4, BrowserDrainIsDeliver
<1>5. ASSUME UNCHANGED <<websent, dsent, dgot, wgot>>
      PROVE  [Bridged!Next]_<<SentBy, GotBy>>
  BY <1>5, Unseen
<1>6. ASSUME NEW s \in Sessions,
             \/ EstablishFails(s) \/ Establish(s) \/ Adopt(s) \/ WsWriteable(s)
             \/ WsChoke(s) \/ WsWrite(s)
      PROVE  UNCHANGED <<websent, dsent, dgot, wgot>>
  BY <1>6 DEF EstablishFails, Establish, Adopt, WsWriteable, WsChoke, WsWrite, envVars
<1>7. ASSUME NEW s \in Sessions,
             \/ WsReturn(s) \/ WsClose(s) \/ CliReceive(s) \/ CliHangup(s)
             \/ DestroyClient(s)
      PROVE  UNCHANGED <<websent, dsent, dgot, wgot>>
  BY <1>7 DEF WsReturn, WsClose, CliReceive, CliHangup, DestroyClient
<1>8. ASSUME NEW s \in Sessions,
             CliWriteable(s) \/ CliPop(s) \/ CliWrite(s) \/ CliReturn(s)
      PROVE  UNCHANGED <<websent, dsent, dgot, wgot>>
  BY <1>8 DEF CliWriteable, CliPop, CliWrite, CliReturn, envVars
<1>9. ASSUME NEW s \in Sessions,
             \/ DaemonAccepts(s) \/ DaemonRefuses(s) \/ DaemonShutWr(s)
             \/ DaemonHup(s) \/ BrowserGone(s)
      PROVE  UNCHANGED <<websent, dsent, dgot, wgot>>
  BY <1>9 DEF DaemonAccepts, DaemonRefuses, DaemonShutWr, DaemonHup, BrowserGone
<1>10. ASSUME Backend \/ Sigint \/ UNCHANGED vars
       PROVE  UNCHANGED <<websent, dsent, dgot, wgot>>
  BY <1>10 DEF Backend, LoopEnd, ServiceFails, BackendExit, Sigint, vars, envVars
<1> QED
  BY <1>1, <1>2, <1>3, <1>4, <1>5, <1>6, <1>7, <1>8, <1>9, <1>10
     DEF Next, Callback, Environment

LEMMA DuplexInit ==
  ASSUME Init
  PROVE  Bridged!Init
BY CleanEmpty DEF Init, Bridged!Init, Bridged!Streams, Bridged!Directions

(***************************************************************************)
(* Neither direction of any session ever delivers out of order, twice,     *)
(* with a gap, or to the wrong peer, for every number of sessions and all  *)
(* sizes: the bridge implements Duplex.                                    *)
(***************************************************************************)
THEOREM BridgeIsDuplex ==
  ASSUME ~AllocFails, ~Nonblocking
  PROVE  Spec => ImplementsDuplex
<1>1. Init => Bridged!Init
  BY DuplexInit
<1>2. IInv /\ StreamInv /\ [Next]_vars => [Bridged!Next]_<<SentBy, GotBy>>
  BY DuplexStep
<1> QED
  BY <1>1, <1>2, Invariance, StreamInvariance, PTL
     DEF Spec, ImplementsDuplex, Bridged!Spec, SentBy, GotBy, Streams

----------------------------------------------------------------------------
(***************************************************************************)
(* What no failure can do to the two streams of a session: where malloc    *)
(* fails or write() is cut short units are lost, but the places they pass  *)
(* still hold rising numbers of the one session, each place below the next *)
(* on the way back to the source.                                          *)
(***************************************************************************)

----------------------------------------------------------------------------
(* What has gaps still rises *)

(* The units in x are of session s, between a and b, and go upwards. *)
Rise(x, s, a, b) ==
  /\ a \in Nat /\ b \in Nat /\ a <= b
  /\ x \in Seq(Unit)
  /\ \A i \in 1..Len(x) : x[i][1] = s /\ a < x[i][2] /\ x[i][2] <= b
  /\ \A i, j \in 1..Len(x) : i < j => x[i][2] < x[j][2]

LEMMA SpanRises ==
  ASSUME NEW s \in Sessions, NEW x, NEW a, NEW b, Span(x, s, a, b)
  PROVE  Rise(x, s, a, b)
<1>1. /\ a \in Nat /\ b \in Nat /\ a <= b /\ x \in Seq(Unit) /\ Len(x) = b - a
      /\ \A i \in 1..(b - a) : x[i] = <<s, a + i>>
  BY DEF Span
<1>2. \A i \in 1..(b - a) : x[i][1] = s /\ x[i][2] = a + i
  BY <1>1
<1> QED
  BY <1>1, <1>2 DEF Rise

LEMMA RiseEmpty ==
  ASSUME NEW s \in Sessions, NEW a \in Nat, NEW b \in Nat, a <= b
  PROVE  Rise(<<>>, s, a, b)
BY EmptySeq DEF Rise

LEMMA RiseWider ==
  ASSUME NEW s \in Sessions, NEW x, NEW a, NEW b, Rise(x, s, a, b),
         NEW c \in Nat, b <= c
  PROVE  Rise(x, s, a, c)
<1>1. ASSUME NEW i \in 1..Len(x) PROVE x[i][1] = s /\ a < x[i][2] /\ x[i][2] <= c
  <2>1. x[i] \in Unit
    BY ElementOfSeq DEF Rise
  <2>2. x[i][2] \in Nat
    BY <2>1 DEF Unit
  <2> QED
    BY <2>2 DEF Rise
<1> QED
  BY <1>1 DEF Rise

LEMMA RiseJoin ==
  ASSUME NEW s \in Sessions, NEW x, NEW y, NEW a, NEW b, NEW c,
         Rise(x, s, a, b), Rise(y, s, b, c)
  PROVE  Rise(x \o y, s, a, c)
<1> DEFINE z == x \o y
           k == Len(x)
           m == Len(y)
<1>1. /\ a \in Nat /\ b \in Nat /\ c \in Nat /\ a <= b /\ b <= c
      /\ x \in Seq(Unit) /\ y \in Seq(Unit) /\ k \in Nat /\ m \in Nat
  BY LenProperties DEF Rise
<1>2. /\ z \in Seq(Unit) /\ Len(z) = k + m
      /\ \A i \in 1..(k + m) : z[i] = IF i <= k THEN x[i] ELSE y[i - k]
  BY <1>1, ConcatProperties
<1>3. /\ \A i \in 1..k : x[i] \in Unit /\ x[i][2] \in Nat
      /\ \A i \in 1..m : y[i] \in Unit /\ y[i][2] \in Nat
  BY <1>1, ElementOfSeq DEF Unit
<1>4. /\ \A i \in 1..k : x[i][1] = s /\ a < x[i][2] /\ x[i][2] <= b
      /\ \A i, j \in 1..k : i < j => x[i][2] < x[j][2]
      /\ \A i \in 1..m : y[i][1] = s /\ b < y[i][2] /\ y[i][2] <= c
      /\ \A i, j \in 1..m : i < j => y[i][2] < y[j][2]
  BY DEF Rise
<1> HIDE DEF z, k, m
<1>5. ASSUME NEW i \in 1..(k + m)
      PROVE  \/ i \in 1..k /\ z[i] = x[i]
             \/ i - k \in 1..m /\ z[i] = y[i - k]
  BY <1>1, <1>2
<1>6. ASSUME NEW i \in 1..(k + m) PROVE z[i][1] = s /\ a < z[i][2] /\ z[i][2] <= c
  <2>1. CASE i \in 1..k /\ z[i] = x[i]
    BY <1>1, <1>3, <1>4, <2>1
  <2>2. CASE i - k \in 1..m /\ z[i] = y[i - k]
    BY <1>1, <1>3, <1>4, <2>2
  <2> QED
    BY <1>5, <2>1, <2>2
<1>7. ASSUME NEW i \in 1..(k + m), NEW j \in 1..(k + m), i < j PROVE z[i][2] < z[j][2]
  <2>1. CASE i \in 1..k /\ z[i] = x[i] /\ j \in 1..k /\ z[j] = x[j]
    BY <1>4, <1>7, <2>1
  <2>2. CASE i \in 1..k /\ z[i] = x[i] /\ j - k \in 1..m /\ z[j] = y[j - k]
    <3>1. x[i][2] \in Nat /\ x[i][2] <= b /\ y[j - k][2] \in Nat /\ b < y[j - k][2]
      BY <1>3, <1>4, <2>2
    <3> QED
      BY <1>1, <2>2, <3>1
  <2>3. CASE i - k \in 1..m /\ z[i] = y[i - k] /\ j - k \in 1..m /\ z[j] = y[j - k]
    <3>1. i - k < j - k
      BY <1>1, <1>7
    <3> QED
      BY <1>4, <2>3, <3>1
  <2>4. CASE i - k \in 1..m /\ j \in 1..k
    BY <1>1, <1>7, <2>4
  <2> QED
    BY <1>5, <2>1, <2>2, <2>3, <2>4
<1>8. Rise(z, s, a, c)
  BY <1>1, <1>2, <1>6, <1>7 DEF Rise
<1> QED
  BY <1>8 DEF z

(* What is taken from the front leaves the rest above it. *)
LEMMA RiseSplit ==
  ASSUME NEW s \in Sessions, NEW x \in Seq(Unit), NEW y \in Seq(Unit), NEW a, NEW c,
         Rise(x \o y, s, a, c)
  PROVE  \E b \in Nat : Rise(x, s, a, b) /\ Rise(y, s, b, c)
<1> DEFINE z == x \o y
           k == Len(x)
           m == Len(y)
<1>1. k \in Nat /\ m \in Nat
  BY LenProperties
<1>2. /\ z \in Seq(Unit) /\ Len(z) = k + m
      /\ \A i \in 1..(k + m) : z[i] = IF i <= k THEN x[i] ELSE y[i - k]
  BY ConcatProperties
<1>3. /\ a \in Nat /\ c \in Nat /\ a <= c
      /\ \A i \in 1..Len(z) : z[i][1] = s /\ a < z[i][2] /\ z[i][2] <= c
      /\ \A i, j \in 1..Len(z) : i < j => z[i][2] < z[j][2]
  BY DEF Rise
<1>4. \A i \in 1..(k + m) : z[i] \in Unit /\ z[i][2] \in Nat
  BY <1>2, ElementOfSeq DEF Unit
<1> HIDE DEF z, k, m
<1>5. \A i \in 1..k : i \in 1..(k + m) /\ z[i] = x[i]
  BY <1>1, <1>2
<1>6. \A i \in 1..m : i + k \in 1..(k + m) /\ z[i + k] = y[i]
  <2> SUFFICES ASSUME NEW i \in 1..m PROVE i + k \in 1..(k + m) /\ z[i + k] = y[i]
    OBVIOUS
  <2>1. i + k \in 1..(k + m) /\ ~(i + k <= k) /\ (i + k) - k = i
    BY <1>1
  <2> QED
    BY <1>2, <2>1
<1>7. \A i, j \in 1..k : i < j => x[i][2] < x[j][2]
  BY <1>2, <1>3, <1>5
<1>8. \A i, j \in 1..m : i < j => y[i][2] < y[j][2]
  <2> SUFFICES ASSUME NEW i \in 1..m, NEW j \in 1..m, i < j PROVE y[i][2] < y[j][2]
    OBVIOUS
  <2>1. i + k < j + k
    BY <1>1
  <2> QED
    BY <1>2, <1>3, <1>6, <2>1
<1>9. CASE k = 0
  <2>1. Rise(x, s, a, a)
    BY <1>3, <1>9 DEF Rise, k
  <2>2. \A i \in 1..m : y[i][1] = s /\ a < y[i][2] /\ y[i][2] <= c
    BY <1>2, <1>3, <1>6
  <2>3. Rise(y, s, a, c)
    BY <1>3, <1>8, <2>2 DEF Rise, m
  <2> QED
    BY <1>3, <2>1, <2>3
<1>10. CASE k # 0
  <2> DEFINE b == x[k][2]
  <2>1. k \in 1..k /\ k \in 1..Len(z)
    BY <1>1, <1>2, <1>10
  <2>2. b \in Nat /\ a < b /\ b <= c
    BY <1>2, <1>3, <1>4, <1>5, <2>1
  <2>3. ASSUME NEW i \in 1..k PROVE x[i][1] = s /\ a < x[i][2] /\ x[i][2] <= b
    <3>1. x[i][1] = s /\ a < x[i][2] /\ x[i][2] \in Nat
      BY <1>2, <1>3, <1>4, <1>5
    <3>2. x[i][2] <= b
      <4>1. CASE i = k
        BY <2>2, <4>1
      <4>2. CASE i < k
        <5>1. x[i][2] < b
          BY <1>7, <2>1, <4>2
        <5> HIDE DEF b
        <5> QED
          BY <2>2, <3>1, <5>1
      <4> QED
        BY <1>1, <4>1, <4>2
    <3> QED
      BY <3>1, <3>2
  <2>4. ASSUME NEW i \in 1..m PROVE y[i][1] = s /\ b < y[i][2] /\ y[i][2] <= c
    <3>1. k < i + k
      BY <1>1
    <3> QED
      BY <1>2, <1>3, <1>5, <1>6, <2>1, <3>1
  <2> HIDE DEF b
  <2>5. a <= b
    BY <1>3, <2>2
  <2>6. Rise(x, s, a, b)
    BY <1>3, <1>7, <2>2, <2>3, <2>5 DEF Rise, k
  <2>7. Rise(y, s, b, c)
    BY <1>3, <1>8, <2>2, <2>4 DEF Rise, m
  <2> QED
    BY <2>2, <2>6, <2>7
<1> QED
  BY <1>9, <1>10

(* What is taken from the front may as well be lost. *)
LEMMA RiseRest ==
  ASSUME NEW s \in Sessions, NEW x \in Seq(Unit), NEW y \in Seq(Unit), NEW a, NEW c,
         Rise(x \o y, s, a, c)
  PROVE  Rise(y, s, a, c)
<1>1. PICK b \in Nat : Rise(x, s, a, b) /\ Rise(y, s, b, c)
  BY RiseSplit
<1>2. a \in Nat /\ a <= b
  BY <1>1 DEF Rise
<1>3. Rise(<<>>, s, a, b) /\ y \in Seq(Unit)
  BY <1>2, RiseEmpty
<1>4. Rise(<<>> \o y, s, a, c)
  BY <1>1, <1>3, RiseJoin
<1> QED
  BY <1>3, <1>4, ConcatEmptySeq

LEMMA RiseRising ==
  ASSUME NEW s \in Sessions, NEW x, NEW a, NEW b, Rise(x, s, a, b)
  PROVE  Rising(x, s)
<1> SUFFICES ASSUME NEW i \in 1..Len(x)
             PROVE  x[i][1] = s /\ (i > 1 => x[i - 1][2] < x[i][2])
  BY DEF Rising
<1>1. Len(x) \in Nat
  BY LenProperties DEF Rise
<1>2. i > 1 => i - 1 \in 1..Len(x) /\ i - 1 < i
  BY <1>1
<1> QED
  BY <1>2 DEF Rise

----------------------------------------------------------------------------
(* The four places on the way of a stream, from its end back to its source *)

Chain(s, w, x, y, z, n) ==
  \E a, b, c \in Nat :
    Rise(w, s, 0, a) /\ Rise(x, s, a, b) /\ Rise(y, s, b, c) /\ Rise(z, s, c, n)

(* New units are sent, and go on the way or get lost at once. *)
LEMMA ChainSend ==
  ASSUME NEW s \in Sessions, NEW w, NEW x, NEW y, NEW z, NEW n, NEW m, NEW u,
         Chain(s, w, x, y, z, n), Span(u, s, n, m)
  PROVE  Chain(s, w, x, y, z \o u, m) /\ Chain(s, w, x, y, z, m)
<1>1. PICK a, b, c \in Nat :
        Rise(w, s, 0, a) /\ Rise(x, s, a, b) /\ Rise(y, s, b, c) /\ Rise(z, s, c, n)
  BY DEF Chain
<1>2. Rise(z \o u, s, c, m)
  BY <1>1, SpanRises, RiseJoin
<1>3. Rise(z, s, c, m)
  <2>1. n <= m /\ m \in Nat
    BY DEF Span
  <2> QED
    BY <1>1, <2>1, RiseWider
<1> QED
  BY <1>1, <1>2, <1>3 DEF Chain

(* The front of one place is taken to the end of the next, or lost. *)
LEMMA ChainLast ==
  ASSUME NEW s \in Sessions, NEW w, NEW x, NEW y, NEW z, NEW n,
         NEW u \in Seq(Unit), NEW v \in Seq(Unit), z = u \o v, Chain(s, w, x, y, z, n)
  PROVE  Chain(s, w, x, y \o u, v, n) /\ Chain(s, w, x, y, v, n)
<1>1. PICK a, b, c \in Nat :
        Rise(w, s, 0, a) /\ Rise(x, s, a, b) /\ Rise(y, s, b, c) /\ Rise(u \o v, s, c, n)
  BY DEF Chain
<1>2. PICK d \in Nat : Rise(u, s, c, d) /\ Rise(v, s, d, n)
  BY <1>1, RiseSplit
<1>3. Rise(y \o u, s, b, d) /\ Rise(v, s, c, n)
  BY <1>1, <1>2, RiseJoin, RiseRest
<1> QED
  BY <1>1, <1>2, <1>3 DEF Chain

LEMMA ChainThird ==
  ASSUME NEW s \in Sessions, NEW w, NEW x, NEW y, NEW z, NEW n,
         NEW u \in Seq(Unit), NEW v \in Seq(Unit), y = u \o v, Chain(s, w, x, y, z, n)
  PROVE  Chain(s, w, x \o u, v, z, n) /\ Chain(s, w, x, v, z, n)
<1>1. PICK a, b, c \in Nat :
        Rise(w, s, 0, a) /\ Rise(x, s, a, b) /\ Rise(u \o v, s, b, c) /\ Rise(z, s, c, n)
  BY DEF Chain
<1>2. PICK d \in Nat : Rise(u, s, b, d) /\ Rise(v, s, d, c)
  BY <1>1, RiseSplit
<1>3. Rise(x \o u, s, a, d) /\ Rise(v, s, b, c)
  BY <1>1, <1>2, RiseJoin, RiseRest
<1> QED
  BY <1>1, <1>2, <1>3 DEF Chain

LEMMA ChainSecond ==
  ASSUME NEW s \in Sessions, NEW w, NEW x, NEW y, NEW z, NEW n,
         NEW u \in Seq(Unit), NEW v \in Seq(Unit), x = u \o v, Chain(s, w, x, y, z, n)
  PROVE  Chain(s, w \o u, v, y, z, n) /\ Chain(s, w, v, y, z, n)
<1>1. PICK a, b, c \in Nat :
        Rise(w, s, 0, a) /\ Rise(u \o v, s, a, b) /\ Rise(y, s, b, c) /\ Rise(z, s, c, n)
  BY DEF Chain
<1>2. PICK d \in Nat : Rise(u, s, a, d) /\ Rise(v, s, d, b)
  BY <1>1, RiseSplit
<1>3. Rise(w \o u, s, 0, d) /\ Rise(v, s, a, b)
  BY <1>1, <1>2, RiseJoin, RiseRest
<1> QED
  BY <1>1, <1>2, <1>3 DEF Chain

(* A place is emptied. *)
LEMMA ChainLoss ==
  ASSUME NEW s \in Sessions, NEW w, NEW x, NEW y, NEW z, NEW n, Chain(s, w, x, y, z, n)
  PROVE  Chain(s, w, <<>>, y, z, n) /\ Chain(s, w, x, <<>>, z, n)
<1>1. PICK a, b, c \in Nat :
        Rise(w, s, 0, a) /\ Rise(x, s, a, b) /\ Rise(y, s, b, c) /\ Rise(z, s, c, n)
  BY DEF Chain
<1>2. a <= b /\ b <= c
  BY <1>1 DEF Rise
<1>3. Rise(<<>>, s, a, b) /\ Rise(<<>>, s, b, c)
  BY <1>2, RiseEmpty
<1> QED
  BY <1>1, <1>3 DEF Chain

LEMMA ChainStart ==
  ASSUME NEW s \in Sessions
  PROVE  Chain(s, <<>>, <<>>, <<>>, <<>>, 0)
<1>1. Rise(<<>>, s, 0, 0)
  BY RiseEmpty
<1> QED
  BY <1>1 DEF Chain

UpChain(s) == Chain(s, dgot[s], toDaemon[s], Writing(s), Payload(mqlocal[s]), websent[s])
DownChain(s) ==
  Chain(s, Clean(wgot[s]), Clean(pipe[s]), Payload(mqweb[s]), fromDaemon[s], dsent[s])

UpOrder == \A s \in Sessions : UpChain(s)
DownOrder == \A s \in Sessions : DownChain(s)
OrderInv == UpOrder /\ DownOrder /\ NothingOut

(* A queue of which an append may have failed. *)
LEMMA EnqueuedIs ==
  ASSUME NEW q \in Seq(Msg), NEW msg \in Msg, NEW r \in Enqueued(q, msg)
  PROVE  \/ Payload(r) = Payload(q) \o msg.data
         \/ Payload(r) = Payload(q)
<1>1. r = Append(q, msg) \/ r = q
  BY DEF Enqueued
<1> QED
  BY <1>1, PayloadFacts

(* The next unit, and what follows it. *)
LEMMA HeadThenTail ==
  ASSUME NEW x \in Seq(Unit), x # <<>>
  PROVE  x = <<Head(x)>> \o Tail(x)
<1>1. Len(x) \in Nat \ {0} /\ x[1] = Head(x) /\ Tail(x) = SubSeq(x, 2, Len(x))
  BY EmptySeq, LenProperties, TailIsSubSeq, HeadTailProperties
<1>2. 1 \in 1..Len(x) /\ Len(x) \in 1..Len(x) /\ 1 + 1 = 2
  BY <1>1
<1>3. SubSeq(x, 1, Len(x)) = <<x[1]>> \o SubSeq(x, 1 + 1, Len(x))
  BY <1>2, SubSeqRecursiveFirst
<1> QED
  BY <1>1, <1>2, <1>3, SubSeqFull

(* What a read() or a partial write() cuts in two. *)
LEMMA CutWhole ==
  ASSUME NEW x \in Seq(Unit), NEW n \in 0..Len(x)
  PROVE  /\ SubSeq(x, 1, n) \in Seq(Unit) /\ SubSeq(x, n + 1, Len(x)) \in Seq(Unit)
         /\ x = SubSeq(x, 1, n) \o SubSeq(x, n + 1, Len(x))
<1>1. Len(x) \in Nat
  BY LenProperties
<1>2. \A i \in 1..n : x[i] \in Unit
  BY <1>1, ElementOfSeq
<1>3. \A i \in (n + 1)..Len(x) : x[i] \in Unit
  BY <1>1, ElementOfSeq
<1>4. SubSeq(x, 1, n) \in Seq(Unit) /\ SubSeq(x, n + 1, Len(x)) \in Seq(Unit)
  BY <1>1, <1>2, <1>3, SubSeqProperties
<1>5. 1 \in 1..(Len(x) + 1) /\ n \in (1 - 1)..Len(x) /\ Len(x) \in n..Len(x)
  BY <1>1
<1>6. SubSeq(x, 1, n) \o SubSeq(x, n + 1, Len(x)) = SubSeq(x, 1, Len(x))
  BY <1>1, <1>5, ConcatAdjacentSubSeq
<1> QED
  BY <1>1, <1>4, <1>6, SubSeqFull

LEMMA OrderReceive ==
  ASSUME IInv, UpOrder, NothingOut, NEW s \in Sessions, WsReceive(s)
  PROVE  UpOrder'
<1> USE DEF IInv, TypeOK
<1>0. /\ mqlocal \in [Sessions -> Seq(Msg)] /\ websent \in [Sessions -> Nat]
      /\ mqlocal[s] \in Seq(Msg) /\ websent[s] \in Nat
  BY DEF BridgeTypeOK, EnvTypeOK
<1>1. PICK n \in 0..Lesser(RxSize, MaxUp - websent[s]) :
        /\ websent' = [websent EXCEPT ![s] = @ + n]
        /\ \E q \in IF n = 0 THEN {mqlocal[s]}
                    ELSE Enqueued(mqlocal[s], MsgNew(Units(s, websent[s], n), n)) :
             mqlocal' = [mqlocal EXCEPT ![s] = q]
  BY DEF WsReceive
<1>2. UNCHANGED <<toDaemon, dgot, out, busy>>
  BY DEF WsReceive
<1>3. n \in Nat
  BY <1>0, <1>1, BridgeAssumption DEF Lesser
<1> DEFINE u == Units(s, websent[s], n)
           m == MsgNew(u, n)
<1>4. m \in Msg /\ m.data = u
  <2>1. u \in Seq(Unit)
    BY <1>0, <1>3, UnitsType
  <2> QED
    BY <1>3, <2>1 DEF MsgNew, Msg
<1>5. Span(u, s, websent[s], websent'[s])
  BY <1>0, <1>1, <1>3, UnitsSpan
<1>6. \/ Payload(mqlocal'[s]) = Payload(mqlocal[s]) \o u
      \/ Payload(mqlocal'[s]) = Payload(mqlocal[s])
  <2>1. CASE n = 0
    BY <1>0, <1>1, <2>1
  <2>2. CASE n # 0
    <3>1. mqlocal'[s] \in Enqueued(mqlocal[s], m)
      BY <1>0, <1>1, <2>2
    <3> HIDE DEF m
    <3> QED
      BY <1>0, <1>4, <3>1, EnqueuedIs
  <2> QED
    BY <2>1, <2>2
<1> HIDE DEF u, m
<1> SUFFICES ASSUME NEW t \in Sessions PROVE UpChain(t)'
  BY DEF UpOrder
<1>7. UpChain(t) /\ Writing(t)' = Writing(t)
  BY <1>2, WritingSame DEF UpOrder
<1>8. CASE t # s
  <2>1. mqlocal'[t] = mqlocal[t] /\ websent'[t] = websent[t]
    BY <1>0, <1>1, <1>8
  <2> QED
    BY <1>2, <1>7, <2>1 DEF UpChain
<1>9. CASE t = s
  <2>1. Chain(s, dgot[s], toDaemon[s], Writing(s), Payload(mqlocal[s]), websent[s])
    BY <1>7, <1>9 DEF UpChain
  <2>2. /\ Chain(s, dgot[s], toDaemon[s], Writing(s), Payload(mqlocal[s]) \o u, websent'[s])
        /\ Chain(s, dgot[s], toDaemon[s], Writing(s), Payload(mqlocal[s]), websent'[s])
    BY <1>5, <2>1, ChainSend
  <2> QED
    BY <1>2, <1>6, <1>7, <1>9, <2>2 DEF UpChain
<1> QED
  BY <1>8, <1>9

LEMMA OrderPop ==
  ASSUME IInv, UpOrder, NEW s \in Sessions, CliPop(s)
  PROVE  UpOrder'
<1> USE DEF IInv, TypeOK
<1>0. mqlocal \in [Sessions -> Seq(Msg)] /\ mqlocal[s] \in Seq(Msg) /\ mqlocal[s] # <<>>
  BY DEF BridgeTypeOK, CliPop
<1>1. /\ busy = <<"cli", s>> /\ out = <<>> /\ out' = Head(mqlocal[s]).data
      /\ mqlocal'[s] = Tail(mqlocal[s])
      /\ \A t \in Sessions \ {s} : mqlocal'[t] = mqlocal[t]
      /\ UNCHANGED <<toDaemon, websent, dgot, busy>>
  BY <1>0 DEF CliPop, envVars
<1>2. /\ Tail(mqlocal[s]) \in Seq(Msg) /\ out' \in Seq(Unit)
  <2>1. Head(mqlocal[s]) \in Msg /\ Tail(mqlocal[s]) \in Seq(Msg)
    BY <1>0, HeadTailProperties
  <2> QED
    BY <1>1, <2>1 DEF Msg
<1>3. Payload(mqlocal[s]) = out' \o Payload(mqlocal'[s]) /\ Payload(mqlocal'[s]) \in Seq(Unit)
  BY <1>0, <1>1, <1>2, PayloadFacts
<1> SUFFICES ASSUME NEW t \in Sessions PROVE UpChain(t)'
  BY DEF UpOrder
<1>4. UpChain(t)
  BY DEF UpOrder
<1>5. CASE t # s
  <2>1. Writing(t)' = Writing(t)
    BY <1>1, <1>5 DEF Writing
  <2> QED
    BY <1>1, <1>4, <1>5, <2>1 DEF UpChain
<1>6. CASE t = s
  <2>1. Writing(s) = <<>> /\ Writing(s)' = out' /\ <<>> \o out' = out'
    BY <1>1, <1>2, ConcatEmptySeq DEF Writing
  <2>2. Chain(s, dgot[s], toDaemon[s], <<>>, Payload(mqlocal[s]), websent[s])
    BY <1>4, <1>6, <2>1 DEF UpChain
  <2>3. Chain(s, dgot[s], toDaemon[s], <<>> \o out', Payload(mqlocal'[s]), websent[s])
    BY <1>2, <1>3, <2>2, ChainLast
  <2> QED
    BY <1>1, <1>6, <2>1, <2>3 DEF UpChain
<1> QED
  BY <1>5, <1>6

(* write() moves what it can; the rest stays, or is forgotten. *)
LEMMA OrderWrite ==
  ASSUME IInv, UpOrder, NEW s \in Sessions, CliWrite(s)
  PROVE  UpOrder'
<1> USE DEF IInv, TypeOK
<1>0. /\ toDaemon \in [Sessions -> Seq(Unit)] /\ toDaemon[s] \in Seq(Unit)
      /\ out \in Seq(Unit) /\ Len(out) \in Nat /\ Len(toDaemon[s]) \in Nat
  BY LenProperties DEF BridgeTypeOK, EnvTypeOK
<1>1. busy = <<"cli", s>> /\ UNCHANGED <<mqlocal, websent, dgot, busy>>
  BY DEF CliWrite
<1>2. lwsi[s] = "live" /\ Peer(s) = s /\ s # Nobody
  BY <1>1, OwnPeer, ConnAssumption DEF BusyInv
<1> DEFINE n == Lesser(SockCap - Len(toDaemon[s]), Len(out))
           u == SubSeq(out, 1, n)
           v == SubSeq(out, n + 1, Len(out))
<1>3. Writing(s) = out /\ Writing(s)' = out' /\ \A t \in Sessions \ {s} : Writing(t)' = Writing(t)
  BY <1>1 DEF Writing
<1>4. UpChain(s)
  BY DEF UpOrder
<1>5. /\ \A t \in Sessions \ {s} : toDaemon'[t] = toDaemon[t]
      /\ UpChain(s)'
  <2>1. CASE HungUp(s)
    <3>1. UNCHANGED toDaemon /\ out' = <<>>
      BY <1>2, <2>1 DEF CliWrite
    <3>2. Chain(s, dgot[s], toDaemon[s], <<>>, Payload(mqlocal[s]), websent[s])
      BY <1>4, ChainLoss DEF UpChain
    <3> QED
      BY <1>1, <1>3, <3>1, <3>2 DEF UpChain
  <2>2. CASE ~HungUp(s)
    <3>1. /\ Nonblocking \/ SockCap - Len(toDaemon[s]) > 0
          /\ toDaemon' = [toDaemon EXCEPT ![s] = @ \o u]
          /\ out' = IF Nonblocking THEN <<>> ELSE v
      BY <1>2, <2>2 DEF CliWrite
    <3>2. u \in Seq(Unit)
      <4>1. SockCap - Len(toDaemon[s]) \in Int
        BY <1>0, BridgeAssumption
      <4> QED
        BY <1>0, <4>1, CutType
    <3> HIDE DEF u, v, n
    <3>3. toDaemon'[s] = toDaemon[s] \o u /\ \A t \in Sessions \ {s} : toDaemon'[t] = toDaemon[t]
      BY <1>0, <3>1
    <3>5. Chain(s, dgot[s], toDaemon[s] \o u, out', Payload(mqlocal[s]), websent[s])
      <4>0. Chain(s, dgot[s], toDaemon[s], out, Payload(mqlocal[s]), websent[s])
        BY <1>3, <1>4 DEF UpChain
      <4>1. CASE n >= 0
        <5>1. out = u \o v /\ v \in Seq(Unit)
          <6>1. n \in 0..Len(out)
            BY <1>0, <4>1, BridgeAssumption DEF n, Lesser
          <6> QED
            BY <1>0, <6>1, CutWhole DEF u, v
        <5>2. Chain(s, dgot[s], toDaemon[s] \o u, v, Payload(mqlocal[s]), websent[s])
          BY <3>2, <4>0, <5>1, ChainThird
        <5> QED
          BY <3>1, <5>2, ChainLoss
      <4>2. CASE ~(n >= 0)
        <5>1. n \in Int /\ n < 1
          BY <1>0, <4>2, BridgeAssumption DEF n, Lesser
        <5>2. u = <<>>
          BY <1>0, <5>1, SubSeqEmpty DEF u
        <5>3. Nonblocking /\ toDaemon[s] \o u = toDaemon[s]
          BY <1>0, <3>1, <4>2, <5>2, ConcatEmptySeq, BridgeAssumption DEF n, Lesser
        <5> QED
          BY <3>1, <4>0, <5>3, ChainLoss
      <4> QED
        BY <4>1, <4>2
    <3> QED
      BY <1>1, <1>3, <3>3, <3>5 DEF UpChain
  <2> QED
    BY <2>1, <2>2
<1> SUFFICES ASSUME NEW t \in Sessions, t # s PROVE UpChain(t)'
  BY <1>5 DEF UpOrder
<1>6. UpChain(t)
  BY DEF UpOrder
<1> QED
  BY <1>1, <1>3, <1>5, <1>6 DEF UpChain

LEMMA OrderDaemon ==
  ASSUME IInv, UpOrder, NothingOut, NEW s \in Sessions, DaemonRead(s) \/ DaemonHup(s)
  PROVE  UpOrder'
<1> USE DEF IInv, TypeOK
<1>0. /\ dgot \in [Sessions -> Seq(Unit)] /\ toDaemon \in [Sessions -> Seq(Unit)]
      /\ dgot[s] \in Seq(Unit) /\ toDaemon[s] \in Seq(Unit)
  BY DEF EnvTypeOK
<1>1. UNCHANGED <<mqlocal, websent, out, busy>>
  BY DEF DaemonRead, DaemonHup, bridgeVars
<1> SUFFICES ASSUME NEW t \in Sessions PROVE UpChain(t)'
  BY DEF UpOrder
<1>2. UpChain(t) /\ Writing(t)' = Writing(t)
  BY <1>1, WritingSame DEF UpOrder
<1>3. CASE t # s
  <2>1. dgot'[t] = dgot[t] /\ toDaemon'[t] = toDaemon[t]
    BY <1>0, <1>3 DEF DaemonRead, DaemonHup
  <2> QED
    BY <1>1, <1>2, <2>1 DEF UpChain
<1>4. CASE t = s /\ DaemonRead(s)
  <2> DEFINE h == Head(toDaemon[s])
             r == Tail(toDaemon[s])
  <2>1. toDaemon[s] # <<>> /\ dgot'[s] = Append(dgot[s], h) /\ toDaemon'[s] = r
    BY <1>0, <1>4 DEF DaemonRead
  <2>2. h \in Unit /\ r \in Seq(Unit) /\ toDaemon[s] = <<h>> \o r
    BY <1>0, <2>1, HeadTailProperties, HeadThenTail
  <2> HIDE DEF h, r
  <2>3. <<h>> \in Seq(Unit) /\ Append(dgot[s], h) = dgot[s] \o <<h>>
    BY <1>0, <2>2, AppendIsConcat
  <2>4. Chain(s, dgot[s] \o <<h>>, r, Writing(s), Payload(mqlocal[s]), websent[s])
    BY <1>2, <1>4, <2>2, <2>3, ChainSecond DEF UpChain
  <2> QED
    BY <1>1, <1>2, <1>4, <2>1, <2>3, <2>4 DEF UpChain
<1>5. CASE t = s /\ DaemonHup(s)
  <2>1. dgot'[s] = dgot[s] /\ toDaemon'[s] = <<>>
    BY <1>0, <1>5 DEF DaemonHup
  <2>2. Chain(s, dgot[s], <<>>, Writing(s), Payload(mqlocal[s]), websent[s])
    BY <1>2, <1>5, ChainLoss DEF UpChain
  <2> QED
    BY <1>1, <1>2, <1>5, <2>1, <2>2 DEF UpChain
<1> QED
  BY <1>3, <1>4, <1>5

(* A read() whose message may not have been made. *)
LEMMA OrderRead ==
  ASSUME IInv, DownOrder, NEW s \in Sessions, lwsi[s] = "live",
         ReadLocal(s) \/ UNCHANGED <<fromDaemon, mqweb>>,
         UNCHANGED <<pipe, wgot, dsent>>
  PROVE  DownOrder'
<1> USE DEF IInv, TypeOK
<1> DEFINE f == fromDaemon[s]
           n == Lesser(BufSize, Len(f))
           d == SubSeq(f, 1, n)
           r == SubSeq(f, n + 1, Len(f))
<1>0. /\ mqweb \in [Sessions -> Seq(Msg)] /\ mqweb[s] \in Seq(Msg)
      /\ fromDaemon \in [Sessions -> Seq(Unit)] /\ f \in Seq(Unit) /\ Len(f) \in Nat
      /\ Peer(s) = s
  BY LenProperties, OwnPeer DEF BridgeTypeOK, EnvTypeOK
<1>1. n \in 0..Len(f)
  <2> HIDE DEF f
  <2> QED
    BY <1>0, BridgeAssumption DEF Lesser
<1>2. d \in Seq(Unit) /\ r \in Seq(Unit) /\ f = d \o r
  <2> HIDE DEF f, n
  <2> QED
    BY <1>0, <1>1, CutWhole
<1> SUFFICES ASSUME NEW t \in Sessions PROVE DownChain(t)'
  BY DEF DownOrder
<1>3. DownChain(t)
  BY DEF DownOrder
<1>4. CASE UNCHANGED <<fromDaemon, mqweb>>
  BY <1>3, <1>4 DEF DownChain
<1>5. CASE ReadLocal(s) /\ n # 0
  <2>1. /\ fromDaemon' = [fromDaemon EXCEPT ![s] = r]
        /\ \E q \in Enqueued(mqweb[s], CreateMsg(d)) : mqweb' = [mqweb EXCEPT ![s] = q]
    BY <1>0, <1>5 DEF ReadLocal
  <2> HIDE DEF f, n, d, r
  <2>2. CreateMsg(d) \in Msg /\ CreateMsg(d).data = d
    BY <1>2, MsgType DEF CreateMsg, MsgNew
  <2>3. CASE t # s
    <3>1. fromDaemon'[t] = fromDaemon[t] /\ mqweb'[t] = mqweb[t]
      BY <1>0, <2>1, <2>3
    <3> QED
      BY <1>3, <3>1 DEF DownChain
  <2>4. CASE t = s
    <3>1. fromDaemon'[s] = r /\ mqweb'[s] \in Enqueued(mqweb[s], CreateMsg(d))
      BY <1>0, <2>1
    <3>2. \/ Payload(mqweb'[s]) = Payload(mqweb[s]) \o d
          \/ Payload(mqweb'[s]) = Payload(mqweb[s])
      BY <1>0, <2>2, <3>1, EnqueuedIs
    <3>3. Chain(s, Clean(wgot[s]), Clean(pipe[s]), Payload(mqweb[s]), f, dsent[s])
      BY <1>3, <2>4 DEF DownChain, f
    <3>4. /\ Chain(s, Clean(wgot[s]), Clean(pipe[s]), Payload(mqweb[s]) \o d, r, dsent[s])
          /\ Chain(s, Clean(wgot[s]), Clean(pipe[s]), Payload(mqweb[s]), r, dsent[s])
      BY <1>2, <3>3, ChainLast
    <3> QED
      BY <2>4, <3>1, <3>2, <3>4 DEF DownChain
  <2> QED
    BY <2>3, <2>4
<1>6. CASE ReadLocal(s) /\ n = 0
  <2>1. UNCHANGED <<fromDaemon, mqweb>>
    BY <1>0, <1>6 DEF ReadLocal
  <2> QED
    BY <1>3, <2>1 DEF DownChain
<1> QED
  BY <1>4, <1>5, <1>6

(* A message is sent as a frame, or freed when the browser is gone. *)
LEMMA OrderSend ==
  ASSUME IInv, DownOrder, NEW s \in Sessions, WsWrite(s)
  PROVE  DownOrder'
<1> USE DEF IInv, TypeOK
<1> DEFINE q == mqweb[s]
           p == pipe[s]
           msg == Head(q)
           r == Tail(q)
<1>0. /\ mqweb \in [Sessions -> Seq(Msg)] /\ q \in Seq(Msg) /\ q # <<>>
      /\ pipe \in [Sessions -> Seq(Seq(Byte))] /\ p \in Seq(Seq(Byte))
  BY DEF BridgeTypeOK, EnvTypeOK, WsWrite, Byte
<1>1. msg \in Msg /\ r \in Seq(Msg)
  <2> HIDE DEF q
  <2> QED
    BY <1>0, HeadTailProperties
<1>2. /\ mqweb' = [mqweb EXCEPT ![s] = r]
      /\ UNCHANGED <<fromDaemon, wgot, dsent>>
      /\ pipe' = [pipe EXCEPT ![s] = Append(p, Frame(msg))] \/ pipe' = pipe
  BY DEF WsWrite
<1>3. Frame(msg) \in Seq(Byte) /\ Unframed(Frame(msg)) = msg.data /\ msg.data \in Seq(Unit)
  <2>1. msg.data \in Seq(Unit)
    BY <1>1 DEF Msg
  <2> HIDE DEF msg
  <2> QED
    BY <1>1, <2>1, FrameBytes, FrameKeepsData
<1>4. Payload(q) = msg.data \o Payload(r) /\ Payload(r) \in Seq(Unit)
  <2> HIDE DEF q
  <2> QED
    BY <1>0, <1>1, PayloadFacts
<1> HIDE DEF q, p, msg, r
<1>5. Clean(Append(p, Frame(msg))) = Clean(p) \o msg.data
  BY <1>0, <1>3, CleanFacts
<1> SUFFICES ASSUME NEW t \in Sessions PROVE DownChain(t)'
  BY DEF DownOrder
<1>6. DownChain(t)
  BY DEF DownOrder
<1>7. CASE t # s
  <2>1. mqweb'[t] = mqweb[t] /\ pipe'[t] = pipe[t]
    BY <1>0, <1>2, <1>7
  <2> QED
    BY <1>2, <1>6, <2>1 DEF DownChain
<1>8. CASE t = s
  <2>1. mqweb'[s] = r /\ (pipe'[s] = Append(p, Frame(msg)) \/ pipe'[s] = p)
    BY <1>0, <1>2 DEF p
  <2>2. Chain(s, Clean(wgot[s]), Clean(p), Payload(q), fromDaemon[s], dsent[s])
    BY <1>6, <1>8 DEF DownChain, p, q
  <2>3. /\ Chain(s, Clean(wgot[s]), Clean(p) \o msg.data, Payload(r), fromDaemon[s], dsent[s])
        /\ Chain(s, Clean(wgot[s]), Clean(p), Payload(r), fromDaemon[s], dsent[s])
    BY <1>3, <1>4, <2>2, ChainThird
  <2> QED
    BY <1>2, <1>5, <1>8, <2>1, <2>3 DEF DownChain
<1> QED
  BY <1>7, <1>8

LEMMA OrderBrowser ==
  ASSUME IInv, DownOrder, NEW s \in Sessions, BrowserDrain(s) \/ BrowserGone(s)
  PROVE  DownOrder'
<1> USE DEF IInv, TypeOK
<1> DEFINE p == pipe[s]
           w == wgot[s]
           f == Head(p)
           r == Tail(p)
<1>0. /\ pipe \in [Sessions -> Seq(Seq(Byte))] /\ p \in Seq(Seq(Byte))
      /\ wgot \in [Sessions -> Seq(Seq(Byte))] /\ w \in Seq(Seq(Byte))
  BY DEF EnvTypeOK, Byte
<1>1. UNCHANGED <<mqweb, fromDaemon, dsent>>
  BY DEF BrowserDrain, BrowserGone, bridgeVars
<1> SUFFICES ASSUME NEW t \in Sessions PROVE DownChain(t)'
  BY DEF DownOrder
<1>2. DownChain(t)
  BY DEF DownOrder
<1>3. CASE t # s
  <2>1. wgot'[t] = wgot[t] /\ pipe'[t] = pipe[t]
    BY <1>0, <1>3 DEF BrowserDrain, BrowserGone
  <2> QED
    BY <1>1, <1>2, <2>1 DEF DownChain
<1>4. CASE t = s /\ BrowserDrain(s)
  <2>1. p # <<>> /\ wgot'[s] = Append(w, f) /\ pipe'[s] = r
    BY <1>0, <1>4 DEF BrowserDrain
  <2>2. f \in Seq(Byte) /\ r \in Seq(Seq(Byte))
    <3> HIDE DEF p
    <3> QED
      BY <1>0, <2>1, HeadTailProperties
  <2>3. /\ Clean(p) = Unframed(f) \o Clean(r) /\ Clean(r) \in Seq(Unit)
        /\ Unframed(f) \in Seq(Unit) /\ Clean(Append(w, f)) = Clean(w) \o Unframed(f)
    <3> HIDE DEF p, w
    <3> QED
      BY <1>0, <2>1, <2>2, CleanFacts, UnframedIs
  <2> HIDE DEF p, w, f, r
  <2>4. Chain(s, Clean(w), Clean(p), Payload(mqweb[s]), fromDaemon[s], dsent[s])
    BY <1>2, <1>4 DEF DownChain, p, w
  <2>5. Chain(s, Clean(w) \o Unframed(f), Clean(r), Payload(mqweb[s]), fromDaemon[s], dsent[s])
    BY <2>3, <2>4, ChainSecond
  <2> QED
    BY <1>1, <1>4, <2>1, <2>3, <2>5 DEF DownChain
<1>5. CASE t = s /\ BrowserGone(s)
  <2>1. wgot'[s] = wgot[s] /\ pipe'[s] = <<>>
    BY <1>0, <1>5 DEF BrowserGone
  <2>2. Clean(pipe'[s]) = <<>>
    BY <2>1, CleanEmpty
  <2>3. Chain(s, Clean(wgot[s]), <<>>, Payload(mqweb[s]), fromDaemon[s], dsent[s])
    BY <1>2, <1>5, ChainLoss DEF DownChain
  <2> QED
    BY <1>1, <1>5, <2>1, <2>2, <2>3 DEF DownChain
<1> QED
  BY <1>3, <1>4, <1>5

LEMMA OrderDaemonSends ==
  ASSUME IInv, DownOrder, NEW s \in Sessions, DaemonWrite(s)
  PROVE  DownOrder'
<1> USE DEF IInv, TypeOK
<1> DEFINE u == <<s, dsent[s] + 1>>
<1>1. /\ fromDaemon \in [Sessions -> Seq(Unit)] /\ dsent \in [Sessions -> Nat]
      /\ dsent[s] \in Nat /\ fromDaemon[s] \in Seq(Unit)
  BY DEF EnvTypeOK
<1>2. /\ dsent' = [dsent EXCEPT ![s] = @ + 1]
      /\ fromDaemon' = [fromDaemon EXCEPT ![s] = Append(@, u)]
      /\ UNCHANGED <<mqweb, pipe, wgot>>
  BY DEF DaemonWrite, bridgeVars
<1>3. Span(<<u>>, s, dsent[s], dsent[s] + 1) /\ u \in Unit
  <2>1. <<>> \in Seq(Unit) /\ u \in Unit /\ Span(<<>>, s, dsent[s], dsent[s])
    BY <1>1, EmptySeq, SpanEmpty DEF Unit
  <2>2. Append(<<>>, u) = <<u>>
    <3>1. Append(<<>>, u) = <<>> \o <<u>> /\ <<u>> \in Seq(Unit)
      BY <2>1, AppendIsConcat
    <3> QED
      BY <3>1, ConcatEmptySeq
  <2>3. Span(Append(<<>>, u), s, dsent[s], dsent[s] + 1)
    BY <2>1, SpanNext
  <2> QED
    BY <2>1, <2>2, <2>3
<1> HIDE DEF u
<1>4. Append(fromDaemon[s], u) = fromDaemon[s] \o <<u>>
  BY <1>1, <1>3, AppendIsConcat
<1> SUFFICES ASSUME NEW t \in Sessions PROVE DownChain(t)'
  BY DEF DownOrder
<1>5. DownChain(t)
  BY DEF DownOrder
<1>6. CASE t # s
  <2>1. dsent'[t] = dsent[t] /\ fromDaemon'[t] = fromDaemon[t]
    BY <1>1, <1>2, <1>6
  <2> QED
    BY <1>2, <1>5, <2>1 DEF DownChain
<1>7. CASE t = s
  <2>1. dsent'[s] = dsent[s] + 1 /\ fromDaemon'[s] = fromDaemon[s] \o <<u>>
    BY <1>1, <1>2, <1>4
  <2>2. Chain(s, Clean(wgot[s]), Clean(pipe[s]), Payload(mqweb[s]), fromDaemon[s], dsent[s])
    BY <1>5, <1>7 DEF DownChain
  <2>3. Chain(s, Clean(wgot[s]), Clean(pipe[s]), Payload(mqweb[s]),
              fromDaemon[s] \o <<u>>, dsent[s] + 1)
    BY <1>3, <2>2, ChainSend
  <2> QED
    BY <1>2, <1>7, <2>1, <2>3 DEF DownChain
<1> QED
  BY <1>6, <1>7

----------------------------------------------------------------------------
(* Every step keeps the order. *)

(* Most steps move nothing on the way up, or on the way down. *)
LEMMA OrderUpFrame ==
  ASSUME UpOrder, NothingOut, UNCHANGED <<out, toDaemon, mqlocal, websent, dgot>>,
         \/ UNCHANGED busy
         \/ \A u \in Sessions : busy # <<"cli", u>> /\ busy' # <<"cli", u>>
         \/ out = <<>>
  PROVE  UpOrder' /\ NothingOut'
<1>1. \A t \in Sessions : Writing(t)' = Writing(t)
  BY WritingSame
<1>2. \A t \in Sessions : UpChain(t)'
  BY <1>1 DEF UpOrder, UpChain
<1> QED
  BY <1>2 DEF UpOrder, NothingOut

LEMMA OrderDownFrame ==
  ASSUME DownOrder, UNCHANGED <<fromDaemon, mqweb, pipe, wgot, dsent>>
  PROVE  DownOrder'
BY DEF DownOrder, DownChain

LEMMA OrderUpStep ==
  ASSUME IInv, UpOrder, NothingOut, [Next]_vars
  PROVE  UpOrder' /\ NothingOut'
<1>q. \A u \in Sessions : NoCallback # <<"cli", u>>
  BY DEF NoCallback
<1>1. ASSUME NEW s \in Sessions, WsReceive(s) PROVE UpOrder' /\ NothingOut'
  BY <1>1, OrderReceive DEF WsReceive, NothingOut
<1>2. ASSUME NEW s \in Sessions, CliPop(s) PROVE UpOrder' /\ NothingOut'
  BY <1>2, OrderPop DEF CliPop, NothingOut
<1>3. ASSUME NEW s \in Sessions, CliWrite(s) PROVE UpOrder' /\ NothingOut'
  BY <1>3, OrderWrite DEF CliWrite, NothingOut
<1>4. ASSUME NEW s \in Sessions, DaemonRead(s) \/ DaemonHup(s) PROVE UpOrder' /\ NothingOut'
  BY <1>4, OrderDaemon DEF DaemonRead, DaemonHup, bridgeVars, NothingOut
<1>5. ASSUME NEW s \in Sessions, CliWriteable(s) PROVE UpOrder' /\ NothingOut'
  <2>1. out = <<>>
    BY <1>5, <1>q DEF CliWriteable, CanCall, NothingOut
  <2> QED
    BY <1>5, <2>1, OrderUpFrame DEF CliWriteable, envVars
<1>6. ASSUME NEW s \in Sessions, EstablishFails(s) PROVE UpOrder' /\ NothingOut'
  BY <1>6, <1>q, OrderUpFrame DEF EstablishFails, envVars, CanCall
<1>7. ASSUME NEW s \in Sessions, Establish(s) PROVE UpOrder' /\ NothingOut'
  BY <1>7, <1>q, OrderUpFrame DEF Establish, CanCall
<1>8. ASSUME NEW s \in Sessions, Adopt(s) PROVE UpOrder' /\ NothingOut'
  BY <1>8, <1>q, OrderUpFrame DEF Adopt, envVars
<1>9. ASSUME NEW s \in Sessions, WsWriteable(s) PROVE UpOrder' /\ NothingOut'
  BY <1>9, <1>q, OrderUpFrame DEF WsWriteable, envVars, CanCall
<1>10. ASSUME NEW s \in Sessions, WsChoke(s) PROVE UpOrder' /\ NothingOut'
  BY <1>10, <1>q, OrderUpFrame DEF WsChoke
<1>11. ASSUME NEW s \in Sessions, WsWrite(s) PROVE UpOrder' /\ NothingOut'
  BY <1>11, <1>q, OrderUpFrame DEF WsWrite
<1>12. ASSUME NEW s \in Sessions, WsReturn(s) PROVE UpOrder' /\ NothingOut'
  BY <1>12, <1>q, OrderUpFrame DEF WsReturn
<1>13. ASSUME NEW s \in Sessions, WsClose(s) PROVE UpOrder' /\ NothingOut'
  BY <1>13, <1>q, OrderUpFrame DEF WsClose
<1>14. ASSUME NEW s \in Sessions, CliReceive(s) PROVE UpOrder' /\ NothingOut'
  BY <1>14, <1>q, OrderUpFrame DEF CliReceive, CanCall
<1>15. ASSUME NEW s \in Sessions, CliHangup(s) PROVE UpOrder' /\ NothingOut'
  BY <1>15, <1>q, OrderUpFrame DEF CliHangup, CanCall
<1>16. ASSUME NEW s \in Sessions, CliReturn(s) PROVE UpOrder' /\ NothingOut'
  BY <1>16, <1>q, OrderUpFrame DEF CliReturn, envVars
<1>17. ASSUME NEW s \in Sessions, DestroyClient(s) PROVE UpOrder' /\ NothingOut'
  BY <1>17, <1>q, OrderUpFrame DEF DestroyClient
<1>18. ASSUME NEW s \in Sessions, DaemonAccepts(s) PROVE UpOrder' /\ NothingOut'
  BY <1>18, <1>q, OrderUpFrame DEF DaemonAccepts, bridgeVars
<1>19. ASSUME NEW s \in Sessions, DaemonRefuses(s) PROVE UpOrder' /\ NothingOut'
  BY <1>19, <1>q, OrderUpFrame DEF DaemonRefuses, bridgeVars
<1>20. ASSUME NEW s \in Sessions, DaemonWrite(s) PROVE UpOrder' /\ NothingOut'
  BY <1>20, <1>q, OrderUpFrame DEF DaemonWrite, bridgeVars
<1>21. ASSUME NEW s \in Sessions, DaemonShutWr(s) PROVE UpOrder' /\ NothingOut'
  BY <1>21, <1>q, OrderUpFrame DEF DaemonShutWr, bridgeVars
<1>22. ASSUME NEW s \in Sessions, BrowserDrain(s) PROVE UpOrder' /\ NothingOut'
  BY <1>22, <1>q, OrderUpFrame DEF BrowserDrain, bridgeVars
<1>23. ASSUME NEW s \in Sessions, BrowserGone(s) PROVE UpOrder' /\ NothingOut'
  BY <1>23, <1>q, OrderUpFrame DEF BrowserGone, bridgeVars
<1>24. ASSUME LoopEnd PROVE UpOrder' /\ NothingOut'
  BY <1>24, <1>q, OrderUpFrame DEF LoopEnd, envVars, CanCall
<1>25. ASSUME ServiceFails PROVE UpOrder' /\ NothingOut'
  BY <1>25, <1>q, OrderUpFrame DEF ServiceFails, envVars, CanCall
<1>26. ASSUME BackendExit PROVE UpOrder' /\ NothingOut'
  BY <1>26, <1>q, OrderUpFrame DEF BackendExit
<1>27. ASSUME Sigint PROVE UpOrder' /\ NothingOut'
  BY <1>27, <1>q, OrderUpFrame DEF Sigint, envVars
<1>28. CASE UNCHANGED vars
  BY <1>28, OrderUpFrame DEF vars, bridgeVars, envVars
<1> QED
  BY <1>1, <1>2, <1>3, <1>4, <1>5, <1>6, <1>7, <1>8, <1>9, <1>10,
     <1>11, <1>12, <1>13, <1>14, <1>15, <1>16, <1>17, <1>18, <1>19, <1>20,
     <1>21, <1>22, <1>23, <1>24, <1>25, <1>26, <1>27, <1>28
     DEF Next, Callback, Backend, Environment

LEMMA OrderDownStep ==
  ASSUME IInv, DownOrder, [Next]_vars
  PROVE  DownOrder'
<1>1. ASSUME NEW s \in Sessions, CliReceive(s) PROVE DownOrder'
  BY <1>1, OrderRead DEF CliReceive
<1>2. ASSUME NEW s \in Sessions, CliHangup(s) PROVE DownOrder'
  BY <1>2, OrderRead DEF CliHangup
<1>3. ASSUME NEW s \in Sessions, WsWrite(s) PROVE DownOrder'
  BY <1>3, OrderSend
<1>4. ASSUME NEW s \in Sessions, BrowserDrain(s) \/ BrowserGone(s) PROVE DownOrder'
  BY <1>4, OrderBrowser
<1>5. ASSUME NEW s \in Sessions, DaemonWrite(s) PROVE DownOrder'
  BY <1>5, OrderDaemonSends
<1>6. ASSUME NEW s \in Sessions, EstablishFails(s) PROVE DownOrder'
  BY <1>6, OrderDownFrame DEF EstablishFails, envVars
<1>7. ASSUME NEW s \in Sessions, Establish(s) PROVE DownOrder'
  BY <1>7, OrderDownFrame DEF Establish
<1>8. ASSUME NEW s \in Sessions, Adopt(s) PROVE DownOrder'
  BY <1>8, OrderDownFrame DEF Adopt, envVars
<1>9. ASSUME NEW s \in Sessions, WsReceive(s) PROVE DownOrder'
  BY <1>9, OrderDownFrame DEF WsReceive
<1>10. ASSUME NEW s \in Sessions, WsWriteable(s) PROVE DownOrder'
  BY <1>10, OrderDownFrame DEF WsWriteable, envVars
<1>11. ASSUME NEW s \in Sessions, WsChoke(s) PROVE DownOrder'
  BY <1>11, OrderDownFrame DEF WsChoke
<1>12. ASSUME NEW s \in Sessions, WsReturn(s) PROVE DownOrder'
  BY <1>12, OrderDownFrame DEF WsReturn
<1>13. ASSUME NEW s \in Sessions, WsClose(s) PROVE DownOrder'
  BY <1>13, OrderDownFrame DEF WsClose
<1>14. ASSUME NEW s \in Sessions, CliWriteable(s) PROVE DownOrder'
  BY <1>14, OrderDownFrame DEF CliWriteable, envVars
<1>15. ASSUME NEW s \in Sessions, CliPop(s) PROVE DownOrder'
  BY <1>15, OrderDownFrame DEF CliPop, envVars
<1>16. ASSUME NEW s \in Sessions, CliWrite(s) PROVE DownOrder'
  BY <1>16, OrderDownFrame DEF CliWrite
<1>17. ASSUME NEW s \in Sessions, CliReturn(s) PROVE DownOrder'
  BY <1>17, OrderDownFrame DEF CliReturn, envVars
<1>18. ASSUME NEW s \in Sessions, DestroyClient(s) PROVE DownOrder'
  BY <1>18, OrderDownFrame DEF DestroyClient
<1>19. ASSUME NEW s \in Sessions, DaemonAccepts(s) PROVE DownOrder'
  BY <1>19, OrderDownFrame DEF DaemonAccepts, bridgeVars
<1>20. ASSUME NEW s \in Sessions, DaemonRefuses(s) PROVE DownOrder'
  BY <1>20, OrderDownFrame DEF DaemonRefuses, bridgeVars
<1>21. ASSUME NEW s \in Sessions, DaemonRead(s) PROVE DownOrder'
  BY <1>21, OrderDownFrame DEF DaemonRead, bridgeVars
<1>22. ASSUME NEW s \in Sessions, DaemonShutWr(s) PROVE DownOrder'
  BY <1>22, OrderDownFrame DEF DaemonShutWr, bridgeVars
<1>23. ASSUME NEW s \in Sessions, DaemonHup(s) PROVE DownOrder'
  BY <1>23, OrderDownFrame DEF DaemonHup, bridgeVars
<1>24. ASSUME LoopEnd PROVE DownOrder'
  BY <1>24, OrderDownFrame DEF LoopEnd, envVars
<1>25. ASSUME ServiceFails PROVE DownOrder'
  BY <1>25, OrderDownFrame DEF ServiceFails, envVars
<1>26. ASSUME BackendExit PROVE DownOrder'
  BY <1>26, OrderDownFrame DEF BackendExit
<1>27. ASSUME Sigint PROVE DownOrder'
  BY <1>27, OrderDownFrame DEF Sigint, envVars
<1>28. CASE UNCHANGED vars
  BY <1>28, OrderDownFrame DEF vars, bridgeVars, envVars
<1> QED
  BY <1>1, <1>2, <1>3, <1>4, <1>5, <1>6, <1>7, <1>8, <1>9, <1>10,
     <1>11, <1>12, <1>13, <1>14, <1>15, <1>16, <1>17, <1>18, <1>19, <1>20,
     <1>21, <1>22, <1>23, <1>24, <1>25, <1>26, <1>27, <1>28
     DEF Next, Callback, Backend, Environment

LEMMA OrderInit ==
  ASSUME Init
  PROVE  OrderInv
<1>1. ASSUME NEW t \in Sessions PROVE UpChain(t) /\ DownChain(t)
  <2>1. /\ dgot[t] = <<>> /\ toDaemon[t] = <<>> /\ Payload(mqlocal[t]) = <<>>
        /\ Writing(t) = <<>> /\ websent[t] = 0
    BY PayloadEmpty DEF Init, Writing
  <2>2. /\ Clean(wgot[t]) = <<>> /\ Clean(pipe[t]) = <<>> /\ Payload(mqweb[t]) = <<>>
        /\ fromDaemon[t] = <<>> /\ dsent[t] = 0
    BY PayloadEmpty, CleanEmpty DEF Init
  <2> QED
    BY <2>1, <2>2, ChainStart DEF UpChain, DownChain
<1> QED
  BY <1>1 DEF Init, OrderInv, UpOrder, DownOrder, NothingOut

(***************************************************************************)
(* Whatever fails, with any number of sessions: what a daemon reads and    *)
(* what a browser gets is a subsequence of what the other end of the same  *)
(* session has sent.  There is no hypothesis: malloc may fail and write()  *)
(* may be cut short at every step.                                         *)
(***************************************************************************)
THEOREM OrderKept == Spec => []InOrder
<1>1. Init => OrderInv
  BY OrderInit
<1>2. IInv /\ OrderInv /\ [Next]_vars => OrderInv'
  BY OrderUpStep, OrderDownStep DEF OrderInv
<1>3. OrderInv => InOrder
  <2> SUFFICES ASSUME OrderInv, NEW s \in Sessions
               PROVE  Rising(dgot[s], s) /\ Rising(Clean(wgot[s]), s)
    BY DEF InOrder
  <2>1. UpChain(s) /\ DownChain(s)
    BY DEF OrderInv, UpOrder, DownOrder
  <2>2. \E a \in Nat : Rise(dgot[s], s, 0, a)
    BY <2>1 DEF UpChain, Chain
  <2>3. \E a \in Nat : Rise(Clean(wgot[s]), s, 0, a)
    BY <2>1 DEF DownChain, Chain
  <2> QED
    BY <2>2, <2>3, RiseRising
<1> QED
  BY <1>1, <1>2, <1>3, Invariance, PTL DEF Spec
=============================================================================
