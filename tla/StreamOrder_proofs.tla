------------------------ MODULE StreamOrder_proofs ------------------------
(***************************************************************************)
(* The stream filter, for any number of chunks and calls: data keeps its   *)
(* order through the buffers and queues of both sides, and a filter that   *)
(* only suspends and resumes loses none.                                   *)
(***************************************************************************)
EXTENDS StreamFilter_proofs

-----------------------------------------------------------------------------
(***************************************************************************)
(* Data in sequences and in queues.                                        *)
(***************************************************************************)
Below(A, B) == \A m \in A, n \in B : m < n

Rising(q) == \A j, k \in 1..Len(q) : j < k => q[j] < q[k]

\* The chunks in a queue, in their order; 0 is no chunk.
InOrder(q) ==
  \A j, k \in 1..Len(q) : j < k /\ q[j].data # 0 /\ q[k].data # 0 => q[j].data < q[k].data

LEMMA NoElements ==
  /\ Elements(<<>>) = {} /\ ChunksIn(<<>>) = {}
  /\ Rising(<<>>) /\ InOrder(<<>>) /\ Ascending(<<>>)
  BY DEF Elements, ChunksIn, Rising, InOrder, Ascending

\* What is left of a sequence when its first element is taken.
LEMMA ElementsTaken ==
  ASSUME NEW S, NEW q \in Seq(S), q # <<>>
  PROVE  /\ Elements(q) = Elements(Tail(q)) \cup {Head(q)}
         /\ Rising(q) => Rising(Tail(q)) /\ Below({Head(q)}, Elements(Tail(q)))
<1> DEFINE t == Tail(q)
<1>1. /\ Head(q) = q[1] /\ Len(t) = Len(q) - 1 /\ Len(q) \in Nat \ {0}
      /\ \A n \in 1..Len(t) : t[n] = q[n + 1] /\ n + 1 \in 1..Len(q)
  BY TailOf
<1>2. \A k \in 1..Len(q) : k = 1 \/ (k - 1 \in 1..Len(t) /\ t[k - 1] = q[k])
  <2> SUFFICES ASSUME NEW k \in 1..Len(q), k # 1 PROVE k - 1 \in 1..Len(t) /\ t[k - 1] = q[k]
    OBVIOUS
  <2>1. k - 1 \in 1..Len(t) /\ (k - 1) + 1 = k
    BY <1>1
  <2> QED
    BY <2>1, <1>1
<1> HIDE DEF t
<1>3. Elements(q) = Elements(t) \cup {Head(q)}
  <2>1. 1 \in 1..Len(q)
    BY <1>1
  <2> QED
    BY <1>1, <1>2, <2>1 DEF Elements
<1>4. ASSUME Rising(q) PROVE Rising(t) /\ Below({Head(q)}, Elements(t))
  <2>1. ASSUME NEW j \in 1..Len(t), NEW k \in 1..Len(t), j < k PROVE t[j] < t[k]
    <3>1. j + 1 < k + 1
      BY <1>1, <2>1
    <3> QED
      BY <1>1, <1>4, <3>1 DEF Rising
  <2>2. ASSUME NEW k \in 1..Len(t) PROVE Head(q) < t[k]
    <3>1. 1 < k + 1 /\ 1 \in 1..Len(q)
      BY <1>1
    <3> QED
      BY <1>1, <1>4, <3>1 DEF Rising
  <2> QED
    BY <2>1, <2>2 DEF Rising, Below, Elements
<1> QED
  BY <1>3, <1>4 DEF t

LEMMA ElementsAdded ==
  ASSUME NEW S, NEW q \in Seq(S), NEW x \in S
  PROVE  /\ Elements(Append(q, x)) = Elements(q) \cup {x}
         /\ Rising(q) /\ Below(Elements(q), {x}) => Rising(Append(q, x))
         /\ Ascending(q) /\ (x # 0 => Below(Elements(q), {x})) => Ascending(Append(q, x))
<1> DEFINE a == Append(q, x)
<1>1. /\ Len(a) = Len(q) + 1 /\ Len(q) \in Nat
      /\ \A n \in 1..Len(q) : a[n] = q[n]
      /\ a[Len(q) + 1] = x
  BY AppendOf
<1> HIDE DEF a
<1>2. /\ \A k \in 1..Len(a) : k = Len(q) + 1 \/ k \in 1..Len(q)
      /\ \A k \in 1..Len(q) : k \in 1..Len(a) /\ k < Len(q) + 1
      /\ Len(q) + 1 \in 1..Len(a)
      /\ \A j \in 1..Len(q) : ~(Len(q) + 1 < j) /\ ~(Len(q) + 1 < Len(q) + 1)
  BY <1>1
<1>3. Elements(a) = Elements(q) \cup {x}
  BY <1>1, <1>2 DEF Elements
<1>4. ASSUME Rising(q), Below(Elements(q), {x}) PROVE Rising(a)
  <2> SUFFICES ASSUME NEW j \in 1..Len(a), NEW k \in 1..Len(a), j < k PROVE a[j] < a[k]
    BY DEF Rising
  <2>1. j \in 1..Len(q)
    BY <1>1
  <2>2. CASE k \in 1..Len(q)
    BY <1>1, <1>4, <2>1, <2>2 DEF Rising
  <2>3. CASE k = Len(q) + 1
    BY <1>1, <1>4, <2>1, <2>3 DEF Below, Elements
  <2> QED
    BY <1>2, <2>2, <2>3
<1>5. ASSUME Ascending(q), x # 0 => Below(Elements(q), {x}) PROVE Ascending(a)
  <2> SUFFICES ASSUME NEW j \in 1..Len(a), NEW k \in 1..Len(a), j < k, a[k] # 0 PROVE a[j] < a[k]
    BY DEF Ascending
  <2>1. j \in 1..Len(q)
    BY <1>1
  <2>2. CASE k \in 1..Len(q)
    BY <1>1, <1>5, <2>1, <2>2 DEF Ascending
  <2>3. CASE k = Len(q) + 1
    BY <1>1, <1>5, <2>1, <2>3 DEF Below, Elements
  <2> QED
    BY <1>2, <2>2, <2>3
<1> QED
  BY <1>3, <1>4, <1>5 DEF a

LEMMA ElementsJoined ==
  ASSUME NEW S, NEW q \in Seq(S), NEW r \in Seq(S), Rising(r)
  PROVE  /\ Elements(q \o r) = Elements(q) \cup Elements(r)
         /\ Ascending(q) /\ Below(Elements(q), Elements(r)) => Ascending(q \o r)
<1> DEFINE a == q \o r
<1>1. /\ Len(a) = Len(q) + Len(r) /\ Len(q) \in Nat /\ Len(r) \in Nat
      /\ \A n \in 1..Len(q) : a[n] = q[n]
      /\ \A n \in 1..Len(r) : a[Len(q) + n] = r[n]
      /\ \A n \in 1..Len(a) : n > Len(q) => a[n] = r[n - Len(q)] /\ n - Len(q) \in 1..Len(r)
  BY ConcatOf
<1> HIDE DEF a
<1>2. /\ \A k \in 1..Len(a) : k \in 1..Len(q) \/ (k - Len(q) \in 1..Len(r) /\ a[k] = r[k - Len(q)])
      /\ \A k \in 1..Len(q) : k \in 1..Len(a)
      /\ \A k \in 1..Len(r) : Len(q) + k \in 1..Len(a)
  BY <1>1
<1>3. Elements(a) = Elements(q) \cup Elements(r)
  <2>1. ASSUME NEW k \in 1..Len(a) PROVE a[k] \in Elements(q) \cup Elements(r)
    BY <1>1, <1>2 DEF Elements
  <2>2. ASSUME NEW k \in 1..Len(q) PROVE q[k] \in Elements(a)
    BY <1>1, <1>2 DEF Elements
  <2>3. ASSUME NEW k \in 1..Len(r) PROVE r[k] \in Elements(a)
    <3>1. a[Len(q) + k] = r[k] /\ Len(q) + k \in 1..Len(a)
      BY <1>1, <1>2
    <3> QED
      BY <3>1 DEF Elements
  <2> QED
    BY <2>1, <2>2, <2>3 DEF Elements
<1>4. ASSUME Ascending(q), Below(Elements(q), Elements(r)) PROVE Ascending(a)
  <2> SUFFICES ASSUME NEW j \in 1..Len(a), NEW k \in 1..Len(a), j < k, a[k] # 0 PROVE a[j] < a[k]
    BY DEF Ascending
  <2>1. CASE k \in 1..Len(q)
    <3>1. j \in 1..Len(q)
      BY <1>1, <2>1
    <3> QED
      BY <1>1, <1>4, <2>1, <3>1 DEF Ascending
  <2>2. CASE k \notin 1..Len(q) /\ j \in 1..Len(q)
    BY <1>1, <1>2, <1>4, <2>2 DEF Below, Elements
  <2>3. CASE k \notin 1..Len(q) /\ j \notin 1..Len(q)
    <3>1. /\ j - Len(q) < k - Len(q)
          /\ j - Len(q) \in 1..Len(r) /\ k - Len(q) \in 1..Len(r)
          /\ a[j] = r[j - Len(q)] /\ a[k] = r[k - Len(q)]
      BY <1>1, <1>2, <2>3
    <3> QED
      BY <3>1 DEF Rising
  <2> QED
    BY <2>1, <2>2, <2>3
<1> QED
  BY <1>3, <1>4 DEF a

\* The same of queues.
LEMMA DataTaken ==
  ASSUME NEW S, NEW q \in Seq(S), q # <<>>
  PROVE  /\ ChunksIn(q) = ChunksIn(Tail(q)) \cup ({Head(q).data} \ {0})
         /\ InOrder(q) => /\ InOrder(Tail(q))
                          /\ Below({Head(q).data} \ {0}, ChunksIn(Tail(q)))
<1> DEFINE t == Tail(q)
<1>1. /\ Head(q) = q[1] /\ Len(t) = Len(q) - 1 /\ Len(q) \in Nat \ {0}
      /\ \A n \in 1..Len(t) : t[n] = q[n + 1] /\ n + 1 \in 1..Len(q)
  BY TailOf
<1>2. \A k \in 1..Len(q) : k = 1 \/ (k - 1 \in 1..Len(t) /\ t[k - 1] = q[k])
  <2> SUFFICES ASSUME NEW k \in 1..Len(q), k # 1 PROVE k - 1 \in 1..Len(t) /\ t[k - 1] = q[k]
    OBVIOUS
  <2>1. k - 1 \in 1..Len(t) /\ (k - 1) + 1 = k
    BY <1>1
  <2> QED
    BY <2>1, <1>1
<1> HIDE DEF t
<1>3. ChunksIn(q) = ChunksIn(t) \cup ({Head(q).data} \ {0})
  <2>1. 1 \in 1..Len(q)
    BY <1>1
  <2> QED
    BY <1>1, <1>2, <2>1 DEF ChunksIn
<1>4. ASSUME InOrder(q) PROVE InOrder(t) /\ Below({Head(q).data} \ {0}, ChunksIn(t))
  <2>1. ASSUME NEW j \in 1..Len(t), NEW k \in 1..Len(t), j < k, t[j].data # 0, t[k].data # 0
        PROVE  t[j].data < t[k].data
    <3>1. j + 1 < k + 1
      BY <1>1, <2>1
    <3> QED
      BY <1>1, <1>4, <2>1, <3>1 DEF InOrder
  <2>2. ASSUME NEW k \in 1..Len(t), t[k].data # 0, Head(q).data # 0 PROVE Head(q).data < t[k].data
    <3>1. 1 < k + 1 /\ 1 \in 1..Len(q)
      BY <1>1
    <3> QED
      BY <1>1, <1>4, <2>2, <3>1 DEF InOrder
  <2> QED
    BY <2>1, <2>2 DEF InOrder, Below, ChunksIn
<1> QED
  BY <1>3, <1>4 DEF t

\* A message at the end of a queue adds its chunk, if it has one, ...
LEMMA QueueGains ==
  ASSUME NEW S, NEW q \in Seq(S), NEW x \in S
  PROVE  ChunksIn(Append(q, x)) = ChunksIn(q) \cup ({x.data} \ {0})
<1> DEFINE a == Append(q, x)
<1>1. /\ Len(a) = Len(q) + 1 /\ Len(q) \in Nat
      /\ \A n \in 1..Len(q) : a[n] = q[n]
      /\ a[Len(q) + 1] = x
  BY AppendOf
<1> HIDE DEF a
<1>2. /\ \A k \in 1..Len(a) : k = Len(q) + 1 \/ k \in 1..Len(q)
      /\ \A k \in 1..Len(q) : k \in 1..Len(a)
      /\ Len(q) + 1 \in 1..Len(a)
  BY <1>1
<1>3. ChunksIn(a) = ChunksIn(q) \cup ({x.data} \ {0})
  BY <1>1, <1>2 DEF ChunksIn
<1> QED
  BY <1>3 DEF a

\* ... and keeps them in order when its chunk comes after all of them.
LEMMA DataAdded ==
  ASSUME NEW S, NEW q \in Seq(S), NEW x \in S
  PROVE  /\ ChunksIn(Append(q, x)) = ChunksIn(q) \cup ({x.data} \ {0})
         /\ InOrder(q) /\ (x.data # 0 => Below(ChunksIn(q), {x.data})) => InOrder(Append(q, x))
<1> DEFINE a == Append(q, x)
<1>1. /\ Len(a) = Len(q) + 1 /\ Len(q) \in Nat
      /\ \A n \in 1..Len(q) : a[n] = q[n]
      /\ a[Len(q) + 1] = x
  BY AppendOf
<1> HIDE DEF a
<1>2. /\ \A k \in 1..Len(a) : k = Len(q) + 1 \/ k \in 1..Len(q)
      /\ \A k \in 1..Len(q) : k \in 1..Len(a)
      /\ Len(q) + 1 \in 1..Len(a)
  BY <1>1
<1>3. ChunksIn(Append(q, x)) = ChunksIn(q) \cup ({x.data} \ {0})
  BY QueueGains
<1>4. ASSUME InOrder(q), x.data # 0 => Below(ChunksIn(q), {x.data}) PROVE InOrder(a)
  <2> SUFFICES ASSUME NEW j \in 1..Len(a), NEW k \in 1..Len(a), j < k, a[j].data # 0, a[k].data # 0
               PROVE  a[j].data < a[k].data
    BY DEF InOrder
  <2>1. j \in 1..Len(q)
    BY <1>1
  <2>2. CASE k \in 1..Len(q)
    BY <1>1, <1>4, <2>1, <2>2 DEF InOrder
  <2>3. CASE k = Len(q) + 1
    BY <1>1, <1>4, <2>1, <2>3 DEF Below, ChunksIn
  <2> QED
    BY <1>2, <2>2, <2>3
<1> QED
  BY <1>3, <1>4 DEF a

\* A message without data changes nothing.
LEMMA PlainAdded ==
  ASSUME NEW S, NEW q \in Seq(S), NEW x \in S, x.data = 0
  PROVE  /\ ChunksIn(Append(q, x)) = ChunksIn(q)
         /\ InOrder(q) => InOrder(Append(q, x))
<1>1. ChunksIn(Append(q, x)) = ChunksIn(q) \cup ({x.data} \ {0})
  BY QueueGains
<1>2. {x.data} \ {0} = {}
  OBVIOUS
<1>3. InOrder(q) => InOrder(Append(q, x))
  BY DataAdded
<1> QED
  BY <1>1, <1>2, <1>3

LEMMA DataJoined ==
  ASSUME NEW S, NEW q \in Seq(S), NEW r \in Seq(S)
  PROVE  /\ ChunksIn(q \o r) = ChunksIn(q) \cup ChunksIn(r)
         /\ InOrder(q) /\ InOrder(r) /\ Below(ChunksIn(q), ChunksIn(r)) => InOrder(q \o r)
<1> DEFINE a == q \o r
<1>1. /\ Len(a) = Len(q) + Len(r) /\ Len(q) \in Nat /\ Len(r) \in Nat
      /\ \A n \in 1..Len(q) : a[n] = q[n]
      /\ \A n \in 1..Len(r) : a[Len(q) + n] = r[n]
      /\ \A n \in 1..Len(a) : n > Len(q) => a[n] = r[n - Len(q)] /\ n - Len(q) \in 1..Len(r)
  BY ConcatOf
<1> HIDE DEF a
<1>2. /\ \A k \in 1..Len(a) : k \in 1..Len(q) \/ (k - Len(q) \in 1..Len(r) /\ a[k] = r[k - Len(q)])
      /\ \A k \in 1..Len(q) : k \in 1..Len(a)
      /\ \A k \in 1..Len(r) : Len(q) + k \in 1..Len(a)
  BY <1>1
<1>3. ChunksIn(a) = ChunksIn(q) \cup ChunksIn(r)
  <2>1. ASSUME NEW k \in 1..Len(a), a[k].data # 0 PROVE a[k].data \in ChunksIn(q) \cup ChunksIn(r)
    BY <1>1, <1>2, <2>1 DEF ChunksIn
  <2>2. ASSUME NEW k \in 1..Len(q), q[k].data # 0 PROVE q[k].data \in ChunksIn(a)
    BY <1>1, <1>2, <2>2 DEF ChunksIn
  <2>3. ASSUME NEW k \in 1..Len(r), r[k].data # 0 PROVE r[k].data \in ChunksIn(a)
    <3>1. a[Len(q) + k] = r[k] /\ Len(q) + k \in 1..Len(a)
      BY <1>1, <1>2
    <3> QED
      BY <2>3, <3>1 DEF ChunksIn
  <2> QED
    BY <2>1, <2>2, <2>3 DEF ChunksIn
<1>4. ASSUME InOrder(q), InOrder(r), Below(ChunksIn(q), ChunksIn(r)) PROVE InOrder(a)
  <2> SUFFICES ASSUME NEW j \in 1..Len(a), NEW k \in 1..Len(a), j < k, a[j].data # 0, a[k].data # 0
               PROVE  a[j].data < a[k].data
    BY DEF InOrder
  <2>1. CASE k \in 1..Len(q)
    <3>1. j \in 1..Len(q)
      BY <1>1, <2>1
    <3> QED
      BY <1>1, <1>4, <2>1, <3>1 DEF InOrder
  <2>2. CASE k \notin 1..Len(q) /\ j \in 1..Len(q)
    BY <1>1, <1>2, <1>4, <2>2 DEF Below, ChunksIn
  <2>3. CASE k \notin 1..Len(q) /\ j \notin 1..Len(q)
    <3>1. /\ j - Len(q) < k - Len(q)
          /\ j - Len(q) \in 1..Len(r) /\ k - Len(q) \in 1..Len(r)
          /\ a[j] = r[j - Len(q)] /\ a[k] = r[k - Len(q)]
      BY <1>1, <1>2, <2>3
    <3> QED
      BY <1>4, <3>1 DEF InOrder
  <2> QED
    BY <2>1, <2>2, <2>3
<1> QED
  BY <1>3, <1>4 DEF a

\* Messages without data, and those that write a buffer back.
LEMMA Plain ==
  /\ \A name : Msg(name).data = 0 /\ Event(name).data = 0
  /\ \A name, n : Carrying(name, n).data = n
  /\ \A n : WriteMove(n).data = n /\ DoSendData(n).data = n
  BY DEF Msg, Event, Carrying, WriteMove, DoSendData

LEMMA OneMessage ==
  ASSUME NEW m
  PROVE  /\ ChunksIn(<<m>>) = {m.data} \ {0} /\ InOrder(<<m>>)
         /\ Append(<<>>, m) = <<m>>
<1>1. Len(<<m>>) = 1 /\ <<m>>[1] = m /\ Append(<<>>, m) = <<m>>
  OBVIOUS
<1>2. 1..1 = {1}
  OBVIOUS
<1>3. ChunksIn(<<m>>) = {m.data} \ {0}
  BY <1>1, <1>2 DEF ChunksIn
<1>4. InOrder(<<m>>)
  <2>1. \A j, k \in 1..1 : ~(j < k)
    OBVIOUS
  <2> QED
    BY <1>1, <2>1 DEF InOrder
<1> QED
  BY <1>1, <1>3, <1>4

LEMMA BufferWritten ==
  ASSUME NEW b \in Seq(Chunks), NEW w, w = [k \in 1..Len(b) |-> Carrying("Write", b[k])]
  PROVE  ChunksIn(w) = Elements(b) /\ (Rising(b) => InOrder(w)) /\ w \in Seq(ToParent)
<1>1. w \in Seq(ToParent)
  BY ChunksWritten
<1>2. Len(b) \in Nat /\ \A k \in 1..Len(b) : b[k] \in Chunks /\ b[k] # 0
  BY ChunksAssumption DEF Chunks
<1>3. Len(w) = Len(b) /\ \A k \in 1..Len(b) : w[k].data = b[k]
  BY <1>2, Plain
<1> HIDE DEF Chunks
<1>4. ChunksIn(w) = Elements(b)
  BY <1>2, <1>3 DEF ChunksIn, Elements
<1>5. Rising(b) => InOrder(w)
  BY <1>2, <1>3 DEF Rising, InOrder
<1> QED
  BY <1>1, <1>4, <1>5

\* A queue holds data when it has messages of the name that carries it.
LEMMA Dataless ==
  /\ \A q \in Seq(ToChild) : "Data" \notin Names(q) <=> ChunksIn(q) = {}
  /\ \A q \in Seq(ToParent) : "Write" \notin Names(q) <=> ChunksIn(q) = {}
  /\ \A q \in Seq(QueueEvents) : "write" \notin Names(q) <=> ChunksIn(q) = {}
  /\ \A q \in Seq(ActorEvents) : "data" \notin Names(q) <=> ChunksIn(q) = {}
<1>1. ASSUME NEW S, NEW name, \A m \in S : m.name = name <=> m.data # 0
      PROVE  \A q \in Seq(S) : name \notin Names(q) <=> ChunksIn(q) = {}
  <2> TAKE q \in Seq(S)
  <2>1. \A k \in 1..Len(q) : q[k] \in S
    OBVIOUS
  <2>2. name \notin Names(q) <=> \A k \in 1..Len(q) : q[k].name # name
    BY DEF Names
  <2>3. ChunksIn(q) = {} <=> \A k \in 1..Len(q) : q[k].data = 0
    BY DEF ChunksIn
  <2> QED
    BY <1>1, <2>1, <2>2, <2>3
<1>2. 0 \notin Chunks
  BY DEF Chunks
<1>3. \A m \in ToChild : m.name = "Data" <=> m.data # 0
  BY <1>2 DEF ToChild, Msg, Carrying
<1>4. \A m \in ToParent : m.name = "Write" <=> m.data # 0
  BY <1>2 DEF ToParent, Msg, Carrying
<1>5. \A m \in QueueEvents : m.name = "write" <=> m.data # 0
  BY <1>2 DEF QueueEvents, Event, Msg, WriteMove, Carrying
<1>6. \A m \in ActorEvents : m.name = "data" <=> m.data # 0
  BY <1>2 DEF ActorEvents, Event, Msg, DoSendData, Carrying
<1> QED
  BY <1>1, <1>3, <1>4, <1>5, <1>6

-----------------------------------------------------------------------------
(***************************************************************************)
(* Stages, each with the chunks that it holds: a later stage has the later *)
(* chunks.                                                                 *)
(***************************************************************************)
Ordered(p) == \A i, j \in 1..Len(p) : i < j => Below(p[i], p[j])

\* Stages may lose chunks.
LEMMA Lessened ==
  ASSUME NEW p, NEW q, Ordered(p), Len(q) = Len(p), \A k \in 1..Len(p) : q[k] \subseteq p[k]
  PROVE  Ordered(q)
  BY DEF Ordered, Below

\* Chunks X advance from later stages to stage j, when the stages that they leave
\* behind have later chunks only.
LEMMA Advanced ==
  ASSUME NEW p, NEW q, NEW X, NEW j \in 1..Len(p), Ordered(p), Len(q) = Len(p), Len(p) \in Nat,
         \A k \in 1..Len(p) : k # j => q[k] \subseteq p[k],
         q[j] \subseteq p[j] \cup X,
         \A x \in X : \E i \in 1..Len(p) : j < i /\ x \in p[i],
         \A k \in 1..Len(p) : j < k => Below(X, q[k])
  PROVE  Ordered(q)
<1> SUFFICES ASSUME NEW i \in 1..Len(p), NEW k \in 1..Len(p), i < k, NEW m \in q[i], NEW n \in q[k]
             PROVE  m < n
  BY DEF Ordered, Below
<1>1. CASE m \in p[i] /\ n \in p[k]
  BY <1>1 DEF Ordered, Below
<1>2. CASE i = j /\ m \in X
  BY <1>2 DEF Below
<1>3. CASE k = j /\ n \in X /\ m \in p[i]
  <2>1. PICK l \in 1..Len(p) : j < l /\ n \in p[l]
    BY <1>3
  <2>2. i < l
    BY <1>3, <2>1
  <2> QED
    BY <1>3, <2>1, <2>2 DEF Ordered, Below
<1> QED
  BY <1>1, <1>2, <1>3

-----------------------------------------------------------------------------
(***************************************************************************)
(* A channel that is not retargeted: what its data goes through.           *)
(***************************************************************************)
Buffer == child.mBufferedData

\* The states in which script may still write, or be given data.
Writers == Unborn \cup Ready \cup {"Suspending", "Resuming"}
MayWrite == ipc = "open" /\ child.mState \in Writers

If(condition, chunks) == IF condition THEN chunks ELSE {}
Later == {n \in Int : n > delivered}

\* The way of the chunks to script, from its end; while the parent does not send,
\* DoSendData drops what it finds.
Inward == <<Elements(kept), Elements(Buffer), ChunksIn(toChild),
            If(IPCActive, ChunksIn(actorq)), {oda} \ {0}, Later>>

\* The way to the listener, from its end; what script can not write is not on it.
Outward == <<Elements(output) \ {0}, ChunksIn(mQueue), ChunksIn(toParent),
             If(MayWrite, Elements(kept)), If(MayWrite, Elements(Buffer)),
             If(ipc = "open", ChunksIn(toChild)),
             IF IPCActive THEN ChunksIn(actorq) ELSE Elements(mBufferedData),
             {oda} \ {0}, Later>>

Sorts ==
  /\ Rising(kept) /\ Rising(Buffer) /\ InOrder(toChild) /\ (IPCActive => InOrder(actorq))
  /\ Ascending(output) /\ InOrder(mQueue) /\ InOrder(toParent) /\ Rising(mBufferedData)

\* No data comes out of a suspended channel, and none passes a message that the
\* channel was suspended, or a message that it was resumed: the child never hears
\* of data between the two.
Silence ==
  /\ suspends = 1 => oda = 0 /\ ("suspended" \in Names(actorq) \/ "data" \notin Names(actorq))
  /\ NotBehind(actorq, {"suspended"}, {"data"}) /\ NotBehind(actorq, {"data"}, {"resumed"})
  /\ NotBehind(toChild, {"Suspended"}, {"Data"}) /\ NotBehind(toChild, {"Data"}, {"Resumed"})
  /\ (child.mState = "Suspended" \/ (child.mState = "Resuming" /\ "Resumed" \notin Names(toChild)))
       => "Data" \notin Names(toChild)
  /\ ipc = "open" /\ mState = "TransferringData" =>
       /\ child.mState # "Suspended" /\ "Suspended" \notin Names(toChild)
       /\ child.mState = "Resuming" => \/ "resume" \in Names(mQueue) \/ "resumed" \in Names(actorq)
                                       \/ "Resumed" \in Names(toChild)

\* The stop waits for the child's buffer.
Drained(c) ==
  c.mState = "FinishedTransferringData"
    \/ (c.mState \in {"Suspending", "Resuming"} /\ c.mNextState = "FinishedTransferringData")
  => c.mBufferedData = <<>>

\* When the buffers of both sides are empty.
ChildBuffers ==
  /\ child.mState = "TransferringData" /\ emitting # "flush" => Buffer = <<>>
  /\ child.mState \in Unborn => Buffer = <<>> /\ kept = <<>>
  /\ Drained(child)

ParentBuffers ==
  /\ IPCActive => mBufferedData = <<>>
  /\ "redirected" \in Names(actorq) => mDisconnected
  /\ mState = "Uninitialized" /\ mDisconnected => oda = 0 /\ "data" \notin Names(actorq)
  /\ ipc = "open" /\ (mState = "Disconnected" \/ "flush" \in Names(mQueue)
                      \/ "disconnected" \in Names(actorq)) => "Data" \notin Names(toChild)

\* A filter that script neither ended nor left.
Calm == ~ended /\ script = "running" /\ ipc = "open"

Healthy(c) ==
  /\ c.mState \in Writers \cup {"Error"}
  /\ c.mNextState \notin {"Closing", "Disconnecting"}
  /\ c.mState \in Unborn \cup {"TransferringData", "Suspended", "Suspending", "Resuming"}
       => c.mStreamFilter

ParentCalm ==
  /\ IPCActive \/ (mState = "Disconnected" /\ mDisconnected)
  /\ mDisconnected => oda = 0 /\ "data" \notin Names(actorq)

CalmInv == Calm => ParentCalm /\ Healthy(child) /\ 1..delivered \subseteq Held

StraightInv ==
  /\ Silence /\ Sorts /\ Ordered(Inward) /\ Ordered(Outward)
  /\ ChildBuffers /\ ParentBuffers /\ CalmInv

OrderInv ==
  /\ Inv
  /\ channel = "new" => ~retargeted
  /\ ~retargeted => StraightInv

-----------------------------------------------------------------------------
(***************************************************************************)
(* The two ways, stage by stage.                                           *)
(***************************************************************************)
\* Chunks X pass from stage i to stage j, over stages that are empty.
LEMMA Passed ==
  ASSUME NEW p, NEW q, NEW X, Len(p) \in Nat, NEW i \in 1..Len(p), NEW j \in 1..Len(p), j < i,
         Ordered(p), Len(q) = Len(p),
         \A k \in 1..Len(p) : k # j => q[k] \subseteq p[k],
         q[j] \subseteq p[j] \cup X, X \subseteq p[i], Below(X, q[i]),
         \A k \in 1..Len(p) : j < k /\ k < i => q[k] = {}
  PROVE  Ordered(q)
<1>1. \A x \in X : \E k \in 1..Len(p) : j < k /\ x \in p[k]
  OBVIOUS
<1>2. ASSUME NEW k \in 1..Len(p), j < k PROVE Below(X, q[k])
  <2>1. CASE k < i
    BY <1>2, <2>1 DEF Below
  <2>2. CASE i < k
    BY <1>2, <2>2 DEF Below, Ordered
  <2> QED
    BY <1>2, <2>1, <2>2
<1> QED
  BY <1>1, <1>2, Advanced

LEMMA Stages ==
  /\ \A k \in 1..6 : k = 1 \/ k = 2 \/ k = 3 \/ k = 4 \/ k = 5 \/ k = 6
  /\ \A k \in 1..9 : k = 1 \/ k = 2 \/ k = 3 \/ k = 4 \/ k = 5 \/ k = 6 \/ k = 7 \/ k = 8 \/ k = 9
  OBVIOUS

LEMMA InwardStages ==
  /\ Len(Inward) = 6
  /\ Inward[1] = Elements(kept) /\ Inward[2] = Elements(Buffer) /\ Inward[3] = ChunksIn(toChild)
  /\ Inward[4] = (IF IPCActive THEN ChunksIn(actorq) ELSE {})
  /\ Inward[5] = {oda} \ {0} /\ Inward[6] = Later
  BY DEF Inward, If

LEMMA InwardNext ==
  /\ Len(Inward') = 6
  /\ Inward'[1] = Elements(kept') /\ Inward'[2] = Elements(Buffer') /\ Inward'[3] = ChunksIn(toChild')
  /\ Inward'[4] = (IF IPCActive' THEN ChunksIn(actorq') ELSE {})
  /\ Inward'[5] = {oda'} \ {0} /\ Inward'[6] = Later'
  BY DEF Inward, If

LEMMA OutwardStages ==
  /\ Len(Outward) = 9
  /\ Outward[1] = Elements(output) \ {0} /\ Outward[2] = ChunksIn(mQueue)
  /\ Outward[3] = ChunksIn(toParent)
  /\ Outward[4] = (IF MayWrite THEN Elements(kept) ELSE {})
  /\ Outward[5] = (IF MayWrite THEN Elements(Buffer) ELSE {})
  /\ Outward[6] = (IF ipc = "open" THEN ChunksIn(toChild) ELSE {})
  /\ Outward[7] = (IF IPCActive THEN ChunksIn(actorq) ELSE Elements(mBufferedData))
  /\ Outward[8] = {oda} \ {0} /\ Outward[9] = Later
  BY DEF Outward, If

LEMMA OutwardNext ==
  /\ Len(Outward') = 9
  /\ Outward'[1] = Elements(output') \ {0} /\ Outward'[2] = ChunksIn(mQueue')
  /\ Outward'[3] = ChunksIn(toParent')
  /\ Outward'[4] = (IF MayWrite' THEN Elements(kept') ELSE {})
  /\ Outward'[5] = (IF MayWrite' THEN Elements(Buffer') ELSE {})
  /\ Outward'[6] = (IF ipc' = "open" THEN ChunksIn(toChild') ELSE {})
  /\ Outward'[7] = (IF IPCActive' THEN ChunksIn(actorq') ELSE Elements(mBufferedData'))
  /\ Outward'[8] = {oda'} \ {0} /\ Outward'[9] = Later'
  BY DEF Outward, If

LEMMA InwardPassed ==
  ASSUME Ordered(Inward), NEW X, NEW i \in 1..6, NEW j \in 1..6, j < i,
         1 # j => Inward'[1] \subseteq Inward[1], 2 # j => Inward'[2] \subseteq Inward[2],
         3 # j => Inward'[3] \subseteq Inward[3], 4 # j => Inward'[4] \subseteq Inward[4],
         5 # j => Inward'[5] \subseteq Inward[5], 6 # j => Inward'[6] \subseteq Inward[6],
         Inward'[j] \subseteq Inward[j] \cup X, X \subseteq Inward[i], Below(X, Inward'[i]),
         \A k \in 1..6 : j < k /\ k < i => Inward'[k] = {}
  PROVE  Ordered(Inward')
<1>1. \A k \in 1..6 : k # j => Inward'[k] \subseteq Inward[k]
  BY Stages
<1> DEFINE p == Inward
           q == Inward'
<1>2. /\ Len(p) = 6 /\ Len(q) = 6 /\ 6 \in Nat /\ Ordered(p)
      /\ \A k \in 1..6 : k # j => q[k] \subseteq p[k]
      /\ q[j] \subseteq p[j] \cup X /\ X \subseteq p[i] /\ Below(X, q[i])
      /\ \A k \in 1..6 : j < k /\ k < i => q[k] = {}
  BY <1>1, InwardStages, InwardNext
<1> HIDE DEF p, q
<1>3. Ordered(q)
  BY <1>2, Passed
<1> QED
  BY <1>3 DEF q

LEMMA InwardLessened ==
  ASSUME Ordered(Inward),
         Inward'[1] \subseteq Inward[1], Inward'[2] \subseteq Inward[2],
         Inward'[3] \subseteq Inward[3], Inward'[4] \subseteq Inward[4],
         Inward'[5] \subseteq Inward[5], Inward'[6] \subseteq Inward[6]
  PROVE  Ordered(Inward')
<1>1. \A k \in 1..6 : Inward'[k] \subseteq Inward[k]
  BY Stages
<1> QED
  BY <1>1, InwardStages, InwardNext, Lessened

LEMMA OutwardPassed ==
  ASSUME Ordered(Outward), NEW X, NEW i \in 1..9, NEW j \in 1..9, j < i,
         1 # j => Outward'[1] \subseteq Outward[1], 2 # j => Outward'[2] \subseteq Outward[2],
         3 # j => Outward'[3] \subseteq Outward[3], 4 # j => Outward'[4] \subseteq Outward[4],
         5 # j => Outward'[5] \subseteq Outward[5], 6 # j => Outward'[6] \subseteq Outward[6],
         7 # j => Outward'[7] \subseteq Outward[7], 8 # j => Outward'[8] \subseteq Outward[8],
         9 # j => Outward'[9] \subseteq Outward[9],
         Outward'[j] \subseteq Outward[j] \cup X, X \subseteq Outward[i], Below(X, Outward'[i]),
         \A k \in 1..9 : j < k /\ k < i => Outward'[k] = {}
  PROVE  Ordered(Outward')
<1>1. \A k \in 1..9 : k # j => Outward'[k] \subseteq Outward[k]
  BY Stages
<1> DEFINE p == Outward
           q == Outward'
<1>2. /\ Len(p) = 9 /\ Len(q) = 9 /\ 9 \in Nat /\ Ordered(p)
      /\ \A k \in 1..9 : k # j => q[k] \subseteq p[k]
      /\ q[j] \subseteq p[j] \cup X /\ X \subseteq p[i] /\ Below(X, q[i])
      /\ \A k \in 1..9 : j < k /\ k < i => q[k] = {}
  BY <1>1, OutwardStages, OutwardNext
<1> HIDE DEF p, q
<1>3. Ordered(q)
  BY <1>2, Passed
<1> QED
  BY <1>3 DEF q

LEMMA OutwardLessened ==
  ASSUME Ordered(Outward),
         Outward'[1] \subseteq Outward[1], Outward'[2] \subseteq Outward[2],
         Outward'[3] \subseteq Outward[3], Outward'[4] \subseteq Outward[4],
         Outward'[5] \subseteq Outward[5], Outward'[6] \subseteq Outward[6],
         Outward'[7] \subseteq Outward[7], Outward'[8] \subseteq Outward[8],
         Outward'[9] \subseteq Outward[9]
  PROVE  Ordered(Outward')
<1>1. \A k \in 1..9 : Outward'[k] \subseteq Outward[k]
  BY Stages
<1> QED
  BY <1>1, OutwardStages, OutwardNext, Lessened

\* What is in a stage comes before what is in a later one.
LEMMA Between ==
  /\ Ordered(Inward) => \A i, k \in 1..6 : i < k => Below(Inward[i], Inward[k])
  /\ Ordered(Outward) => \A i, k \in 1..9 : i < k => Below(Outward[i], Outward[k])
  BY InwardStages, OutwardStages DEF Ordered

LEMMA OutwardAdvanced ==
  ASSUME Ordered(Outward), NEW X, NEW j \in 1..9,
         \A k \in 1..9 : k # j => Outward'[k] \subseteq Outward[k],
         Outward'[j] \subseteq Outward[j] \cup X,
         \A x \in X : \E i \in 1..9 : j < i /\ x \in Outward[i],
         \A k \in 1..9 : j < k => Below(X, Outward'[k])
  PROVE  Ordered(Outward')
<1> DEFINE p == Outward
           q == Outward'
<1>1. /\ Len(p) = 9 /\ Len(q) = 9 /\ 9 \in Nat /\ Ordered(p)
      /\ \A k \in 1..9 : k # j => q[k] \subseteq p[k]
      /\ q[j] \subseteq p[j] \cup X
      /\ \A x \in X : \E i \in 1..9 : j < i /\ x \in p[i]
      /\ \A k \in 1..9 : j < k => Below(X, q[k])
  BY OutwardStages, OutwardNext
<1> HIDE DEF p, q
<1>3. /\ j \in 1..Len(p) /\ Len(p) \in Nat /\ Len(q) = Len(p) /\ Ordered(p)
      /\ \A k \in 1..Len(p) : k # j => q[k] \subseteq p[k]
      /\ q[j] \subseteq p[j] \cup X
      /\ \A x \in X : \E i \in 1..Len(p) : j < i /\ x \in p[i]
      /\ \A k \in 1..Len(p) : j < k => Below(X, q[k])
  BY <1>1
<1>2. Ordered(q)
  BY <1>3, Advanced, ZenonT(40)
<1> QED
  BY <1>2 DEF q

-----------------------------------------------------------------------------
(***************************************************************************)
(* What a step of the child does with the data.                            *)
(***************************************************************************)
\* It sends w, and takes the oldest message or none.
Adds(w) ==
  /\ w \in Seq(ToParent)
  /\ toParent' = toParent \o (IF ipc = "open" THEN w ELSE <<>>)

Takes == toChild' = toChild \/ (toChild # <<>> /\ toChild' = Tail(toChild))

\* It may write what it has buffered and got, when script will write no more.
Returned(w) ==
  /\ kept' = kept /\ Buffer' \in {Buffer, <<>>} /\ (Takes \/ toChild' = <<>>)
  /\ InOrder(w) /\ ChunksIn(w) \subseteq Elements(Buffer) \cup ChunksIn(toChild)
  /\ Below(ChunksIn(w), ChunksIn(toChild'))
  /\ ChunksIn(w) # {} =>
       /\ child'.mState \notin Writers
       /\ child.mState \in Writers \/ ChunksIn(w) \subseteq ChunksIn(toChild)

\* Script writes a chunk.
Gave(w) ==
  /\ kept # <<>> /\ kept' = Tail(kept) /\ Buffer' = Buffer /\ toChild' = toChild
  /\ child'.mState \in Writers /\ w = <<Carrying("Write", Head(kept))>>

\* Script is given a chunk, which it may refuse.
Fed(w) ==
  /\ child'.mState \in {"TransferringData", "Resuming"} /\ ChunksIn(w) = {}
  /\ \E n \in Chunks :
       /\ kept' = kept \/ kept' = Append(kept, n)
       /\ \/ Buffer # <<>> /\ n = Head(Buffer) /\ Buffer' = Tail(Buffer) /\ Takes
          \/ /\ Buffer = <<>> /\ Buffer' = <<>>
             /\ toChild # <<>> /\ n = Head(toChild).data /\ toChild' = Tail(toChild)

\* A chunk is buffered.
Buffered(w) ==
  /\ child'.mState \in {"Suspending", "Suspended"} /\ ChunksIn(w) = {} /\ kept' = kept
  /\ \E n \in Chunks :
       /\ toChild # <<>> /\ n = Head(toChild).data /\ toChild' = Tail(toChild)
       /\ Buffer' = Append(Buffer, n)

Moves ==
  /\ ipc' = ipc /\ (child'.mState \in Writers => child.mState \in Writers)
  /\ \E w : Adds(w) /\ (Returned(w) \/ Gave(w) \/ Fed(w) \/ Buffered(w))

Ways == Sorts /\ Ordered(Inward) /\ Ordered(Outward)

\* The parent's stages.
LEMMA ParentStill ==
  ASSUME UNCHANGED parentVars
  PROVE  /\ UNCHANGED <<mState, mQueue, actorq, oda, output, mBufferedData, delivered>>
         /\ IPCActive' = IPCActive /\ Later' = Later
  BY DEF parentVars, channelVars, IPCActive, Later

\* The types of what data goes through.
LEMMA WayTypes ==
  ASSUME Inv
  PROVE  /\ kept \in Seq(Chunks) /\ Buffer \in Seq(Chunks) /\ mBufferedData \in Seq(Chunks)
         /\ toChild \in Seq(ToChild) /\ toParent \in Seq(ToParent)
         /\ mQueue \in Seq(QueueEvents) /\ actorq \in Seq(ActorEvents)
         /\ output \in Seq(0..MaxChunks) /\ oda \in 0..MaxChunks /\ delivered \in 0..MaxChunks
  BY DEF Inv, TypeInv, IpcTypeOK, ChildInv, ChildTypeOK, ParentTypes, Buffer

LEMMA DatalessOrdered == ASSUME NEW w, ChunksIn(w) = {} PROVE InOrder(w)
  BY DEF ChunksIn, InOrder

LEMMA ToParentJoined ==
  ASSUME Inv, NEW w, Adds(w), InOrder(w), InOrder(toParent),
         ipc = "open" => Below(ChunksIn(toParent), ChunksIn(w))
  PROVE  /\ InOrder(toParent')
         /\ ChunksIn(toParent') = ChunksIn(toParent) \cup (IF ipc = "open" THEN ChunksIn(w) ELSE {})
<1>1. toParent \in Seq(ToParent) /\ w \in Seq(ToParent) /\ toParent \o <<>> = toParent
  BY WayTypes, ConcatOf DEF Adds
<1>2. CASE ipc = "open"
  BY <1>1, <1>2, DataJoined DEF Adds
<1>3. CASE ipc # "open"
  BY <1>1, <1>3 DEF Adds
<1> QED
  BY <1>2, <1>3

\* Taking a message keeps the order of those that are left.
LEMMA TakenInOrder ==
  ASSUME Inv, InOrder(toChild), Takes \/ toChild' = <<>>
  PROVE  InOrder(toChild') /\ ChunksIn(toChild') \subseteq ChunksIn(toChild)
<1>1. CASE toChild # <<>> /\ toChild' = Tail(toChild)
  BY <1>1, WayTypes, DataTaken
<1>2. CASE toChild' = <<>> \/ toChild' = toChild
  BY <1>2, NoElements
<1> QED
  BY <1>1, <1>2 DEF Takes

LEMMA ReturnedWays ==
  ASSUME Inv, Ways, UNCHANGED parentVars, ipc' = ipc, child'.mState \in Writers => child.mState \in Writers,
         NEW w, Adds(w), Returned(w)
  PROVE  Ways'
<1> DEFINE X == ChunksIn(w)
<1>1. /\ UNCHANGED <<mState, mQueue, actorq, oda, output, mBufferedData, delivered>>
      /\ IPCActive' = IPCActive /\ Later' = Later
  BY ParentStill
<1>2. /\ kept' = kept /\ Rising(Buffer') /\ Elements(Buffer') \subseteq Elements(Buffer)
      /\ InOrder(toChild') /\ ChunksIn(toChild') \subseteq ChunksIn(toChild)
  BY TakenInOrder, NoElements DEF Returned, Ways, Sorts
<1>3. MayWrite' => MayWrite
  BY DEF MayWrite
<1>4. Ordered(Inward')
  BY <1>1, <1>2, InwardStages, InwardNext, InwardLessened DEF Ways
<1>5. ipc = "open" /\ X # {} => ~MayWrite' /\ X \subseteq Outward[5] \cup Outward[6]
  BY OutwardStages DEF Returned, MayWrite
<1> HIDE DEF X
<1>6. ipc = "open" => Below(ChunksIn(toParent), X)
  <2> SUFFICES ASSUME ipc = "open" PROVE Below(ChunksIn(toParent), X)
    OBVIOUS
  <2>1. Below(Outward[3], Outward[5]) /\ Below(Outward[3], Outward[6]) /\ Outward[3] = ChunksIn(toParent)
    BY OutwardStages, Between DEF Ways
  <2> SUFFICES ASSUME NEW m \in ChunksIn(toParent), NEW x \in X PROVE m < x
    BY DEF Below
  <2>2. x \in Outward[5] \/ x \in Outward[6]
    BY <1>5
  <2> QED
    BY <2>1, <2>2 DEF Below
<1>7. InOrder(toParent') /\ ChunksIn(toParent') = ChunksIn(toParent) \cup (IF ipc = "open" THEN X ELSE {})
  BY <1>6, ToParentJoined DEF Returned, Ways, Sorts, X
<1>8. Sorts'
  BY <1>1, <1>2, <1>7 DEF Ways, Sorts
<1>9. /\ \A k \in 1..9 : k # 3 => Outward'[k] \subseteq Outward[k]
      /\ Outward'[3] = Outward[3] \cup (IF ipc = "open" THEN X ELSE {})
  <2>1. /\ Outward'[1] \subseteq Outward[1] /\ Outward'[2] \subseteq Outward[2]
        /\ Outward'[4] \subseteq Outward[4] /\ Outward'[5] \subseteq Outward[5]
        /\ Outward'[6] \subseteq Outward[6] /\ Outward'[7] \subseteq Outward[7]
        /\ Outward'[8] \subseteq Outward[8] /\ Outward'[9] \subseteq Outward[9]
    BY <1>1, <1>2, <1>3, OutwardStages, OutwardNext
  <2>2. Outward'[3] = Outward[3] \cup (IF ipc = "open" THEN X ELSE {})
    BY <1>7, OutwardStages, OutwardNext
  <2> QED
    BY <2>1, <2>2, Stages
<1>10. Ordered(Outward')
  <2> DEFINE p == Outward
             q == Outward'
             Y == IF ipc = "open" THEN X ELSE {}
  <2>1. Len(p) = 9 /\ Len(q) = 9 /\ 9 \in Nat /\ Ordered(p)
    BY OutwardStages, OutwardNext DEF Ways
  <2>2. /\ \A k \in 1..9 : k # 3 => q[k] \subseteq p[k]
        /\ q[3] \subseteq p[3] \cup Y
    BY <1>9
  <2>3. Y \subseteq p[5] \cup p[6]
    BY <1>5
  <2>4. Y # {} => q[4] = {} /\ q[5] = {} /\ Below(Y, q[6])
    <3>1. Below(X, ChunksIn(toChild'))
      BY DEF Returned, X
    <3> QED
      BY <1>5, <3>1, OutwardNext DEF Below
  <2> HIDE DEF p, q, Y
  <2>5. \A k \in 1..9 : 3 < k => Below(Y, q[k])
    <3> SUFFICES ASSUME NEW k \in 1..9, 3 < k, NEW y \in Y, NEW m \in q[k] PROVE y < m
      BY DEF Below
    <3>1. CASE k = 4 \/ k = 5 \/ k = 6
      BY <2>4, <3>1 DEF Below
    <3>2. CASE 6 < k
      <4>1. m \in p[k]
        BY <2>2, <3>2
      <4> QED
        BY <2>1, <2>3, <3>2, <4>1 DEF Ordered, Below
    <3> QED
      BY <3>1, <3>2
  <2>6. \A y \in Y : \E i \in 1..9 : 3 < i /\ y \in p[i]
    <3> SUFFICES ASSUME NEW y \in Y PROVE \E i \in 1..9 : 3 < i /\ y \in p[i]
      OBVIOUS
    <3>1. CASE y \in p[5]
      BY <3>1
    <3>2. CASE y \in p[6]
      BY <3>2
    <3> QED
      BY <2>3, <3>1, <3>2
  <2>7. PICK j \in 1..9 : j = 3
    OBVIOUS
  <2> QED
    BY <2>1, <2>2, <2>5, <2>6, <2>7, OutwardAdvanced DEF p, q
<1> QED
  BY <1>4, <1>8, <1>10 DEF Ways

LEMMA GaveWays ==
  ASSUME Inv, Ways, UNCHANGED parentVars, ipc' = ipc, child'.mState \in Writers => child.mState \in Writers,
         NEW w, Adds(w), Gave(w)
  PROVE  Ways'
<1> DEFINE n == Head(kept)
<1>1. /\ UNCHANGED <<mState, mQueue, actorq, oda, output, mBufferedData, delivered>>
      /\ IPCActive' = IPCActive /\ Later' = Later
  BY ParentStill
<1>2. /\ kept # <<>> /\ kept' = Tail(kept) /\ Buffer' = Buffer /\ toChild' = toChild
      /\ w = <<Carrying("Write", n)>> /\ child.mState \in Writers /\ child'.mState \in Writers
  BY DEF Gave
<1>3. /\ Elements(kept) = Elements(kept') \cup {n} /\ Rising(kept') /\ Below({n}, Elements(kept'))
      /\ n \in Chunks
  BY <1>2, WayTypes, ElementsTaken, TailOf DEF Ways, Sorts
<1>4. ChunksIn(w) = {n} /\ InOrder(w)
  <2>1. n # 0 /\ Carrying("Write", n).data = n
    BY <1>3, Plain DEF Chunks
  <2> QED
    BY <1>2, <2>1, OneMessage
<1> HIDE DEF n
<1>5. (MayWrite' <=> ipc = "open") /\ (MayWrite <=> ipc = "open")
  BY <1>2 DEF MayWrite
<1>6. Ordered(Inward')
  BY <1>1, <1>2, <1>3, InwardStages, InwardNext, InwardLessened DEF Ways
<1>7. ipc = "open" => Below(ChunksIn(toParent), ChunksIn(w))
  <2> SUFFICES ASSUME ipc = "open" PROVE Below(ChunksIn(toParent), {n})
    BY <1>4
  <2>1. Below(Outward[3], Outward[4]) /\ Outward[3] = ChunksIn(toParent) /\ n \in Outward[4]
    BY <1>3, <1>5, OutwardStages, Between DEF Ways
  <2> QED
    BY <2>1 DEF Below
<1>8. InOrder(toParent') /\ ChunksIn(toParent') = ChunksIn(toParent) \cup (IF ipc = "open" THEN {n} ELSE {})
  BY <1>4, <1>7, ToParentJoined DEF Ways, Sorts
<1>9. Sorts'
  BY <1>1, <1>2, <1>3, <1>8 DEF Ways, Sorts
<1>10. /\ Outward'[1] \subseteq Outward[1] /\ Outward'[2] \subseteq Outward[2]
       /\ Outward'[3] = Outward[3] \cup (IF ipc = "open" THEN {n} ELSE {})
       /\ Outward'[4] \subseteq Outward[4] /\ Outward'[5] \subseteq Outward[5]
       /\ Outward'[6] \subseteq Outward[6] /\ Outward'[7] \subseteq Outward[7]
       /\ Outward'[8] \subseteq Outward[8] /\ Outward'[9] \subseteq Outward[9]
  BY <1>1, <1>2, <1>3, <1>5, <1>8, OutwardStages, OutwardNext
<1>11. Ordered(Outward')
  <2>1. CASE ipc = "open"
    <3>1. PICK i \in 1..9, j \in 1..9 : i = 4 /\ j = 3
      OBVIOUS
    <3>2. {n} \subseteq Outward[i] /\ Below({n}, Outward'[i])
      BY <1>3, <1>5, <2>1, <3>1, OutwardStages, OutwardNext
    <3> QED
      BY <1>10, <2>1, <3>1, <3>2, OutwardPassed DEF Ways
  <2>2. CASE ipc # "open"
    BY <1>10, <2>2, OutwardLessened DEF Ways
  <2> QED
    BY <2>1, <2>2
<1> QED
  BY <1>6, <1>9, <1>11 DEF Ways

\* From which stage a chunk passes to script.
LEMMA FedFrom ==
  ASSUME Inv, Ways, NEW n \in Chunks,
         \/ Buffer # <<>> /\ n = Head(Buffer) /\ Buffer' = Tail(Buffer) /\ Takes
         \/ /\ Buffer = <<>> /\ Buffer' = <<>>
            /\ toChild # <<>> /\ n = Head(toChild).data /\ toChild' = Tail(toChild)
  PROVE  /\ Rising(Buffer') /\ InOrder(toChild')
         /\ Elements(Buffer') \subseteq Elements(Buffer) /\ ChunksIn(toChild') \subseteq ChunksIn(toChild)
         /\ \/ n \in Elements(Buffer) /\ Below({n}, Elements(Buffer'))
            \/ n \in ChunksIn(toChild) /\ Below({n}, ChunksIn(toChild')) /\ Elements(Buffer') = {}
<1>1. CASE Buffer # <<>> /\ n = Head(Buffer) /\ Buffer' = Tail(Buffer) /\ Takes
  <2>1. Elements(Buffer) = Elements(Buffer') \cup {n} /\ Rising(Buffer') /\ Below({n}, Elements(Buffer'))
    BY <1>1, WayTypes, ElementsTaken DEF Ways, Sorts
  <2> QED
    BY <1>1, <2>1, TakenInOrder DEF Ways, Sorts
<1>2. CASE /\ Buffer = <<>> /\ Buffer' = <<>>
           /\ toChild # <<>> /\ n = Head(toChild).data /\ toChild' = Tail(toChild)
  <2>1. ChunksIn(toChild) = ChunksIn(toChild') \cup ({n} \ {0}) /\ InOrder(toChild')
        /\ Below({n} \ {0}, ChunksIn(toChild'))
    BY <1>2, WayTypes, DataTaken DEF Ways, Sorts
  <2>2. n # 0
    BY DEF Chunks
  <2> QED
    BY <1>2, <2>1, <2>2, NoElements
<1> QED
  BY <1>1, <1>2

LEMMA FedWays ==
  ASSUME Inv, Ways, UNCHANGED parentVars, ipc' = ipc, child'.mState \in Writers => child.mState \in Writers,
         NEW w, Adds(w), Fed(w)
  PROVE  Ways'
<1>1. /\ UNCHANGED <<mState, mQueue, actorq, oda, output, mBufferedData, delivered>>
      /\ IPCActive' = IPCActive /\ Later' = Later
  BY ParentStill
<1>2. PICK n \in Chunks :
         /\ kept' = kept \/ kept' = Append(kept, n)
         /\ \/ Buffer # <<>> /\ n = Head(Buffer) /\ Buffer' = Tail(Buffer) /\ Takes
            \/ /\ Buffer = <<>> /\ Buffer' = <<>>
               /\ toChild # <<>> /\ n = Head(toChild).data /\ toChild' = Tail(toChild)
  BY DEF Fed
<1>3. /\ Rising(Buffer') /\ InOrder(toChild')
      /\ Elements(Buffer') \subseteq Elements(Buffer) /\ ChunksIn(toChild') \subseteq ChunksIn(toChild)
      /\ \/ n \in Elements(Buffer) /\ Below({n}, Elements(Buffer'))
         \/ n \in ChunksIn(toChild) /\ Below({n}, ChunksIn(toChild')) /\ Elements(Buffer') = {}
  BY <1>2, FedFrom
<1>4. PICK i \in 2..3 :
        /\ n \in Inward[i] /\ Below({n}, Inward'[i])
        /\ i = 3 => Elements(Buffer') = {}
  <2>1. CASE n \in Elements(Buffer) /\ Below({n}, Elements(Buffer'))
    BY <2>1, InwardStages, InwardNext
  <2>2. CASE n \in ChunksIn(toChild) /\ Below({n}, ChunksIn(toChild')) /\ Elements(Buffer') = {}
    BY <2>2, InwardStages, InwardNext
  <2> QED
    BY <1>3, <2>1, <2>2
<1>5. Below(Elements(kept), {n})
  <2>1. Below(Inward[1], Inward[i]) /\ Inward[1] = Elements(kept)
    BY InwardStages, Between DEF Ways
  <2> QED
    BY <1>4, <2>1 DEF Below
<1>6. Elements(kept') \subseteq Elements(kept) \cup {n} /\ Rising(kept')
  <2>1. kept \in Seq(Chunks) /\ Rising(kept)
    BY WayTypes DEF Ways, Sorts
  <2>2. Elements(Append(kept, n)) = Elements(kept) \cup {n} /\ Rising(Append(kept, n))
    BY <1>5, <2>1, ElementsAdded
  <2> QED
    BY <1>2, <2>1, <2>2
<1>7. Ordered(Inward')
  <2>1. PICK j \in 1..6 : j = 1
    OBVIOUS
  <2>2. /\ Inward'[1] \subseteq Inward[1] \cup {n}
        /\ Inward'[2] \subseteq Inward[2] /\ Inward'[3] \subseteq Inward[3]
        /\ Inward'[4] \subseteq Inward[4] /\ Inward'[5] \subseteq Inward[5] /\ Inward'[6] \subseteq Inward[6]
    BY <1>1, <1>3, <1>6, InwardStages, InwardNext
  <2>3. \A k \in 1..6 : j < k /\ k < i => Inward'[k] = {}
    <3>1. \A k \in 1..6 : j < k /\ k < i => k = 2 /\ i = 3
      BY <2>1
    <3> QED
      BY <1>4, <3>1, InwardNext
  <2>4. i \in 1..6 /\ j < i /\ {n} \subseteq Inward[i]
    BY <1>4, <2>1
  <2> QED
    BY <1>4, <2>1, <2>2, <2>3, <2>4, InwardPassed DEF Ways
<1>8. InOrder(toParent') /\ ChunksIn(toParent') = ChunksIn(toParent)
  <2>1. ChunksIn(w) = {} /\ InOrder(w) /\ Below(ChunksIn(toParent), ChunksIn(w))
    BY DatalessOrdered DEF Fed, Below
  <2> QED
    BY <2>1, ToParentJoined DEF Ways, Sorts
<1>9. Sorts'
  BY <1>1, <1>3, <1>6, <1>8 DEF Ways, Sorts
<1>10. (MayWrite' <=> ipc = "open") /\ (MayWrite <=> ipc = "open")
  BY DEF MayWrite, Fed, Writers, Ready
<1>11. /\ Outward'[1] \subseteq Outward[1] /\ Outward'[2] \subseteq Outward[2]
       /\ Outward'[3] \subseteq Outward[3]
       /\ Outward'[4] \subseteq Outward[4] \cup (IF ipc = "open" THEN {n} ELSE {})
       /\ Outward'[5] \subseteq Outward[5]
       /\ Outward'[6] \subseteq Outward[6] /\ Outward'[7] \subseteq Outward[7]
       /\ Outward'[8] \subseteq Outward[8] /\ Outward'[9] \subseteq Outward[9]
  BY <1>1, <1>3, <1>6, <1>8, <1>10, OutwardStages, OutwardNext
<1>12. Ordered(Outward')
  <2>1. CASE ipc = "open"
    <3>1. PICK j \in 1..9, l \in 1..9 : j = 4 /\ l = i + 3
      OBVIOUS
    <3>2. Inward[i] = Outward[l] /\ Inward'[i] = Outward'[l]
      <4>1. i = 2 \/ i = 3
        OBVIOUS
      <4> QED
        BY <1>10, <2>1, <3>1, <4>1, OutwardStages, OutwardNext, InwardStages, InwardNext
    <3>3. \A k \in 1..9 : j < k /\ k < l => Outward'[k] = {}
      <4>1. \A k \in 1..9 : j < k /\ k < l => k = 5 /\ i = 3
        BY <3>1
      <4> QED
        BY <1>4, <4>1, OutwardNext
    <3> QED
      BY <1>4, <1>11, <2>1, <3>1, <3>2, <3>3, OutwardPassed DEF Ways
  <2>2. CASE ipc # "open"
    BY <1>11, <2>2, OutwardLessened DEF Ways
  <2> QED
    BY <2>1, <2>2
<1> QED
  BY <1>7, <1>9, <1>12 DEF Ways

LEMMA BufferedWays ==
  ASSUME Inv, Ways, UNCHANGED parentVars, ipc' = ipc, child'.mState \in Writers => child.mState \in Writers,
         NEW w, Adds(w), Buffered(w)
  PROVE  Ways'
<1>1. /\ UNCHANGED <<mState, mQueue, actorq, oda, output, mBufferedData, delivered>>
      /\ IPCActive' = IPCActive /\ Later' = Later
  BY ParentStill
<1>2. PICK n \in Chunks :
        /\ toChild # <<>> /\ n = Head(toChild).data /\ toChild' = Tail(toChild)
        /\ Buffer' = Append(Buffer, n) /\ kept' = kept
  BY DEF Buffered
<1>3. ChunksIn(toChild) = ChunksIn(toChild') \cup {n} /\ InOrder(toChild') /\ Below({n}, ChunksIn(toChild'))
  <2>1. n # 0
    BY DEF Chunks
  <2>2. toChild \in Seq(ToChild) /\ InOrder(toChild)
    BY WayTypes DEF Ways, Sorts
  <2>3. ChunksIn(toChild) = ChunksIn(toChild') \cup ({n} \ {0}) /\ InOrder(toChild')
        /\ Below({n} \ {0}, ChunksIn(toChild'))
    BY <1>2, <2>2, DataTaken
  <2>4. {n} \ {0} = {n}
    BY <2>1
  <2> QED
    BY <2>3, <2>4
<1>4. Below(Elements(Buffer), {n})
  <2>1. Below(Inward[2], Inward[3]) /\ Inward[2] = Elements(Buffer) /\ n \in Inward[3]
    BY <1>3, InwardStages, Between DEF Ways
  <2> QED
    BY <2>1 DEF Below
<1>5. Elements(Buffer') = Elements(Buffer) \cup {n} /\ Rising(Buffer')
  <2>1. Buffer \in Seq(Chunks) /\ Rising(Buffer)
    BY WayTypes DEF Ways, Sorts
  <2> QED
    BY <1>2, <1>4, <2>1, ElementsAdded
<1>6. Ordered(Inward')
  <2>1. PICK i \in 1..6, j \in 1..6 : i = 3 /\ j = 2
    OBVIOUS
  <2>2. /\ Inward'[1] \subseteq Inward[1] /\ Inward'[2] \subseteq Inward[2] \cup {n}
        /\ Inward'[3] \subseteq Inward[3]
        /\ Inward'[4] \subseteq Inward[4] /\ Inward'[5] \subseteq Inward[5] /\ Inward'[6] \subseteq Inward[6]
        /\ {n} \subseteq Inward[3] /\ Below({n}, Inward'[3])
    BY <1>1, <1>2, <1>3, <1>5, InwardStages, InwardNext
  <2> QED
    BY <2>1, <2>2, InwardPassed DEF Ways
<1>8. InOrder(toParent') /\ ChunksIn(toParent') = ChunksIn(toParent)
  <2>1. ChunksIn(w) = {} /\ InOrder(w) /\ Below(ChunksIn(toParent), ChunksIn(w))
    BY DatalessOrdered DEF Buffered, Below
  <2> QED
    BY <2>1, ToParentJoined DEF Ways, Sorts
<1>9. Sorts'
  BY <1>1, <1>2, <1>3, <1>5, <1>8 DEF Ways, Sorts
<1>10. (MayWrite' <=> ipc = "open") /\ (MayWrite <=> ipc = "open")
  BY DEF MayWrite, Buffered, Writers, Ready
<1>11. /\ Outward'[1] \subseteq Outward[1] /\ Outward'[2] \subseteq Outward[2]
       /\ Outward'[3] \subseteq Outward[3] /\ Outward'[4] \subseteq Outward[4]
       /\ Outward'[5] \subseteq Outward[5] \cup (IF ipc = "open" THEN {n} ELSE {})
       /\ Outward'[6] \subseteq Outward[6] /\ Outward'[7] \subseteq Outward[7]
       /\ Outward'[8] \subseteq Outward[8] /\ Outward'[9] \subseteq Outward[9]
       /\ ipc = "open" => {n} \subseteq Outward[6] /\ Below({n}, Outward'[6])
  BY <1>1, <1>2, <1>3, <1>5, <1>8, <1>10, OutwardStages, OutwardNext
<1>12. Ordered(Outward')
  <2>1. CASE ipc = "open"
    <3>1. PICK i \in 1..9, j \in 1..9 : i = 6 /\ j = 5
      OBVIOUS
    <3> QED
      BY <1>11, <2>1, <3>1, OutwardPassed DEF Ways
  <2>2. CASE ipc # "open"
    BY <1>11, <2>2, OutwardLessened DEF Ways
  <2> QED
    BY <2>1, <2>2
<1> QED
  BY <1>6, <1>9, <1>12 DEF Ways

LEMMA MovesWays == Inv /\ Ways /\ UNCHANGED parentVars /\ Moves => Ways'
  BY ReturnedWays, GaveWays, FedWays, BufferedWays DEF Moves

-----------------------------------------------------------------------------
(***************************************************************************)
(* What the child's methods do with the data, and to which states they     *)
(* lead.                                                                   *)
(***************************************************************************)
Holds(c, d) == d.mBufferedData = c.mBufferedData /\ ChunksIn(d.out) = {}
Forgets(d) == d.mBufferedData = <<>> /\ ChunksIn(d.out) = {}
Pours(c, d) ==
  /\ c.mState \in Ready /\ d.mState = "Disconnecting" /\ d.mBufferedData = <<>>
  /\ ChunksIn(d.out) = Elements(c.mBufferedData)
  /\ Rising(c.mBufferedData) => InOrder(d.out)

Handles(c, d) ==
  /\ d \in ChildRecords /\ Drained(d)
  /\ d.mState \in Writers => c.mState \in Writers
  /\ Holds(c, d) \/ Pours(c, d) \/ Forgets(d)

\* No method suspends the child, nor lets data flow again, before the parent agrees.
Settles(s, t) ==
  /\ t = "Suspended" => s = "Suspended"
  /\ t = "Resuming" => s \in {"Resuming", "Suspended"}
  /\ t = "TransferringData" => s = "TransferringData"
  /\ t \in Unborn => s \in Unborn

Leads(c, d) == Handles(c, d) /\ Settles(c.mState, d.mState)

\* Nor does it do harm to a filter that script keeps.
Heals(c, d) == Healthy(c) => Healthy(d) /\ Holds(c, d)

LEMMA HoldsStill ==
  ASSUME NEW c, Fresh(c), Drained(c)
  PROVE  Leads(c, c) /\ Heals(c, c) /\ Holds(c, c)
  BY NoElements DEF Fresh, Leads, Handles, Holds, Settles, Heals

LEMMA DisconnectLeads ==
  ASSUME NEW c, Fresh(c), Drained(c)
  PROVE  Leads(c, Disconnect(c)) /\ (Holds(c, Disconnect(c)) \/ Pours(c, Disconnect(c)))
<1> DEFINE d == Disconnect(c)
<1>0. d \in ChildRecords
  BY DisconnectTurns DEF Turns
<1>1. CASE CanDisconnectNow(c)
  <2> DEFINE w == [k \in 1..Len(c.mBufferedData) |-> Carrying("Write", c.mBufferedData[k])]
  <2>1. w \in Seq(ToParent) /\ ChunksIn(w) = Elements(c.mBufferedData)
        /\ (Rising(c.mBufferedData) => InOrder(w))
    BY BufferWritten DEF Fresh, ChildRecords
  <2> HIDE DEF w
  <2>2. <<>> \o w = w
    BY <2>1
  <2>3. d = [mState |-> "Disconnecting", mNextState |-> "Disconnected",
             mReceivedOnStop |-> c.mReceivedOnStop, mBufferedData |-> <<>>,
             mStreamFilter |-> c.mStreamFilter, out |-> Append(w, Msg("Disconnect"))]
    BY <1>1, <2>2 DEF Disconnect, Sends, WriteBufferedData, Goes, Fresh, ChildRecords, w
  <2>4. Msg("Disconnect") \in ToParent /\ Msg("Disconnect").data = 0
    BY Kinds, Plain
  <2>5. /\ ChunksIn(Append(w, Msg("Disconnect"))) = Elements(c.mBufferedData)
        /\ Rising(c.mBufferedData) => InOrder(Append(w, Msg("Disconnect")))
    BY <2>1, <2>4, PlainAdded
  <2>6. Pours(c, d) /\ Drained(d) /\ d.mState = "Disconnecting"
    BY <1>1, <2>3, <2>5 DEF Pours, Drained, CanDisconnectNow, In, Ready
  <2> QED
    BY <1>0, <2>6 DEF Leads, Handles, Settles, Writers, Unborn, Ready
<1>2. CASE ~CanDisconnectNow(c) /\ CanDisconnectLater(c)
  <2>1. d = [c EXCEPT !.mNextState = "Disconnecting"]
    BY <1>2 DEF Disconnect
  <2>2. d.mState = c.mState /\ d.mBufferedData = c.mBufferedData /\ d.out = <<>>
        /\ d.mNextState = "Disconnecting"
    BY <2>1 DEF Fresh, ChildRecords
  <2>3. Drained(d) /\ Holds(c, d)
    BY <1>2, <2>2, NoElements DEF Drained, Holds, CanDisconnectLater, In
  <2> QED
    BY <1>0, <2>2, <2>3 DEF Leads, Handles, Settles
<1>3. CASE ~CanDisconnectNow(c) /\ ~CanDisconnectLater(c)
  BY <1>3, HoldsStill DEF Disconnect
<1> QED
  BY <1>1, <1>2, <1>3

LEMMA CleanupLeads ==
  ASSUME NEW c, Fresh(c), Drained(c)
  PROVE  Leads(c, Cleanup(c)) /\ (Holds(c, Cleanup(c)) \/ Pours(c, Cleanup(c)))
  BY HoldsStill, DisconnectLeads DEF Cleanup

LEMMA CheckAliveLeads ==
  ASSUME NEW c, Fresh(c), Drained(c)
  PROVE  /\ Leads(c, CheckAlive(c)) /\ (Holds(c, CheckAlive(c)) \/ Pours(c, CheckAlive(c)))
         /\ script = "running" => CheckAlive(c) = c
<1> DEFINE d == Cleanup(c)
           e == [d EXCEPT !.mStreamFilter = FALSE]
<1>1. Leads(c, d) /\ (Holds(c, d) \/ Pours(c, d))
  BY CleanupLeads
<1> HIDE DEF d
<1>2. /\ e \in ChildRecords /\ e.mState = d.mState /\ e.mNextState = d.mNextState
      /\ e.mBufferedData = d.mBufferedData /\ e.out = d.out
  BY <1>1 DEF Leads, Handles, ChildRecords
<1> HIDE DEF e
<1>3. Leads(c, e) /\ (Holds(c, e) \/ Pours(c, e))
  BY <1>1, <1>2 DEF Leads, Handles, Settles, Drained, Holds, Pours, Forgets
<1>4. CheckAlive(c) = e \/ CheckAlive(c) = c
  BY DEF CheckAlive, d, e
<1>5. script = "running" => CheckAlive(c) = c
  BY DEF CheckAlive
<1> QED
  BY <1>3, <1>4, <1>5, HoldsStill

LEMMA MaybeStopLeads ==
  ASSUME NEW c, Fresh(c), Drained(c), c.mState \in Ready \cup Waiting \cup {"Closed"}
  PROVE  /\ Leads(c, MaybeStopRequest(c)) /\ Holds(c, MaybeStopRequest(c))
         /\ script = "running" => Heals(c, MaybeStopRequest(c))
<1>1. CASE ~(c.mReceivedOnStop /\ c.mBufferedData = <<>>)
  BY <1>1, HoldsStill DEF MaybeStopRequest
<1>2. CASE c.mReceivedOnStop /\ c.mBufferedData = <<>>
  <2> DEFINE d == CheckAlive(c)
             e == StopsIn(d)
  <2>1. Leads(c, d) /\ (script = "running" => d = c) /\ MaybeStopRequest(c) = e
    BY <1>2, CheckAliveLeads DEF MaybeStopRequest
  <2>7. e \in ChildRecords
    BY <2>1, MaybeStopTurns DEF Turns
  <2>8. Turns(c, d) /\ (d.mState \in Ready => d = c)
    BY CheckAliveTurns
  <2> HIDE DEF d
  <2>2. d \in ChildRecords /\ d.mBufferedData = <<>> /\ ChunksIn(d.out) = {}
    BY <1>2, <2>1, NoElements DEF Leads, Handles, Holds, Pours, Forgets
  <2>3. d.mState \in Ready \cup Waiting \cup {"Closed"}
    BY <2>8 DEF Turns
  <2>4. /\ e.mBufferedData = <<>> /\ ChunksIn(e.out) = {}
        /\ e.mState = d.mState \/ (d.mState \in Ready /\ e.mState = "FinishedTransferringData")
        /\ e.mNextState = d.mNextState \/ e.mNextState = "FinishedTransferringData"
        /\ e.mState # "FinishedTransferringData" => e.mStreamFilter = d.mStreamFilter
    <3>1. CASE d.mState \in {"Suspending", "Resuming"}
      <4>1. e = [d EXCEPT !.mNextState = "FinishedTransferringData"]
        BY <3>1 DEF StopsIn, In
      <4> QED
        BY <2>2, <4>1 DEF ChildRecords
    <3>2. CASE d.mState \in {"Disconnecting", "Closing", "Closed"}
      <4>1. e = d
        BY <3>2 DEF StopsIn, In
      <4> QED
        BY <2>2, <4>1
    <3>3. CASE d.mState \in Ready
      <4>1. e = [d EXCEPT !.mState = "FinishedTransferringData", !.mStreamFilter = FALSE]
        BY <3>3 DEF StopsIn, In, Ready
      <4> QED
        BY <2>2, <3>3, <4>1 DEF ChildRecords
    <3> QED
      BY <2>3, <3>1, <3>2, <3>3 DEF Waiting
  <2> HIDE DEF e
  <2>5. Leads(c, e) /\ Holds(c, e)
    <3>1. Drained(e) /\ Holds(c, e)
      BY <1>2, <2>4 DEF Drained, Holds
    <3>2. Settles(c.mState, e.mState)
      BY <2>1, <2>4 DEF Leads, Settles, Unborn
    <3>3. e.mState \in Writers => c.mState \in Writers
      BY <2>1, <2>4 DEF Leads, Handles, Writers
    <3> QED
      BY <2>7, <3>1, <3>2, <3>3 DEF Leads, Handles
  <2>6. script = "running" => Heals(c, e)
    BY <1>2, <2>1, <2>4 DEF Heals, Healthy, Holds, Writers, Ready, Unborn
  <2> QED
    BY <2>1, <2>5, <2>6
<1> QED
  BY <1>1, <1>2

\* The actor becomes d.
LEMMA BecomesIs ==
  ASSUME NEW d \in ChildRecords, Becomes(d)
  PROVE  /\ child'.mState = d.mState /\ child'.mNextState = d.mNextState
         /\ Buffer' = d.mBufferedData /\ child'.mStreamFilter = d.mStreamFilter
         /\ Adds(d.out)
         /\ Drained(d) => Drained(child')
         /\ Healthy(d) => Healthy(child')
<1>1. child' = [mState |-> d.mState, mNextState |-> d.mNextState,
                mReceivedOnStop |-> d.mReceivedOnStop, mBufferedData |-> d.mBufferedData,
                mStreamFilter |-> d.mStreamFilter, out |-> <<>>]
  BY DEF Becomes, ChildRecords
<1>2. /\ child'.mState = d.mState /\ child'.mNextState = d.mNextState
      /\ child'.mBufferedData = d.mBufferedData /\ child'.mStreamFilter = d.mStreamFilter
  BY <1>1
<1>3. Adds(d.out)
  BY DEF Adds, Becomes, ChildRecords
<1>4. Drained(d) => Drained(child')
  BY <1>2 DEF Drained
<1>5. Healthy(d) => Healthy(child')
  BY <1>2 DEF Healthy
<1> QED
  BY <1>2, <1>3, <1>4, <1>5 DEF Buffer

-----------------------------------------------------------------------------
(***************************************************************************)
(* The child's steps.                                                      *)
(***************************************************************************)
\* A step that lets no data through between a suspension and the resume.
Quiet ==
  \/ /\ child'.mState = "Suspended" => child.mState = "Suspended"
     /\ child'.mState = "Resuming" => child.mState \in {"Resuming", "Suspended"}
     /\ \/ toChild' = toChild
        \/ toChild # <<>> /\ toChild' = Tail(toChild) /\ Head(toChild).name # "Resumed"
  \/ toChild' = <<>> /\ ipc # "open"
  \/ toChild # <<>> /\ toChild' = Tail(toChild) /\ Head(toChild).name = "Suspended"
  \/ /\ toChild # <<>> /\ toChild' = Tail(toChild) /\ Head(toChild).name = "Resumed"
     /\ child'.mState \notin {"Suspended", "Resuming"}

\* What the child has, and what it sent or will receive.
Around == Elements(kept) \cup Elements(Buffer) \cup ChunksIn(toChild) \cup ChunksIn(toParent)

Unhurt == Healthy(child') /\ Around \subseteq Around'

Straight == Moves /\ Quiet /\ ChildBuffers' /\ (Calm' => Calm /\ Unhurt)

LEMMA SilenceKept ==
  ASSUME Inv, Silence, UNCHANGED parentVars, ipc' = ipc, Quiet
  PROVE  Silence'
<1>1. UNCHANGED <<suspends, oda, actorq, mQueue, mState>>
  BY DEF parentVars, channelVars
<1>2. toChild \in Seq(ToChild)
  BY WayTypes
<1>3. CASE /\ child'.mState = "Suspended" => child.mState = "Suspended"
           /\ child'.mState = "Resuming" => child.mState \in {"Resuming", "Suspended"}
           /\ toChild' = toChild
  <2>1. (child'.mState = "Suspended" \/ (child'.mState = "Resuming" /\ "Resumed" \notin Names(toChild)))
           => "Data" \notin Names(toChild)
    BY <1>3 DEF Silence
  <2>2. ipc = "open" /\ mState = "TransferringData" =>
          /\ child'.mState # "Suspended" /\ "Suspended" \notin Names(toChild)
          /\ child'.mState = "Resuming" => \/ "resume" \in Names(mQueue) \/ "resumed" \in Names(actorq)
                                           \/ "Resumed" \in Names(toChild)
    BY <1>3 DEF Silence
  <2> QED
    BY <1>1, <1>3, <2>1, <2>2 DEF Silence
<1>4. CASE toChild' = <<>> /\ ipc # "open"
  <2>1. Names(toChild') = {} /\ NotBehind(toChild', {"Suspended"}, {"Data"})
        /\ NotBehind(toChild', {"Data"}, {"Resumed"})
    BY <1>4, NoNames DEF NotBehind
  <2> QED
    BY <1>1, <1>4, <2>1 DEF Silence
<1>5. CASE toChild # <<>> /\ toChild' = Tail(toChild)
  <2>1. /\ Names(toChild) = Names(toChild') \cup {Head(toChild).name}
        /\ NotBehind(toChild', {"Suspended"}, {"Data"})
        /\ NotBehind(toChild', {"Data"}, {"Resumed"})
        /\ Head(toChild).name = "Suspended" => "Data" \notin Names(toChild')
    BY <1>2, <1>5, Taken DEF Silence
  <2>2. Silence => /\ suspends = 1 => oda = 0 /\ ("suspended" \in Names(actorq) \/ "data" \notin Names(actorq))
                   /\ NotBehind(actorq, {"suspended"}, {"data"}) /\ NotBehind(actorq, {"data"}, {"resumed"})
    BY DEF Silence
  <2>3. (child'.mState = "Suspended" \/ (child'.mState = "Resuming" /\ "Resumed" \notin Names(toChild')))
           => "Data" \notin Names(toChild')
    BY <1>3, <1>4, <1>5, <2>1 DEF Silence, Quiet
  <2>4. ipc = "open" /\ mState = "TransferringData" =>
          /\ child'.mState # "Suspended" /\ "Suspended" \notin Names(toChild')
          /\ child'.mState = "Resuming" => \/ "resume" \in Names(mQueue) \/ "resumed" \in Names(actorq)
                                           \/ "Resumed" \in Names(toChild')
    BY <1>3, <1>4, <1>5, <2>1 DEF Silence, Quiet
  <2> QED
    BY <1>1, <2>1, <2>2, <2>3, <2>4 DEF Silence
<1> QED
  BY <1>3, <1>4, <1>5 DEF Quiet

\* Such a step keeps everything.
LEMMA StraightKept ==
  ASSUME Inv, StraightInv, UNCHANGED parentVars, Straight
  PROVE  StraightInv'
<1>1. ipc' = ipc
  BY DEF Straight, Moves
<1>2. Silence'
  BY <1>1, SilenceKept DEF Straight, StraightInv
<1>3. Sorts' /\ Ordered(Inward') /\ Ordered(Outward')
  <2>1. Ways'
    BY MovesWays DEF StraightInv, Straight, Ways
  <2> QED
    BY <2>1 DEF Ways
<1>4. UNCHANGED <<mState, mDisconnected, mBufferedData, mQueue, actorq, oda, output, delivered>>
      /\ IPCActive' = IPCActive
  BY DEF parentVars, channelVars, IPCActive
<1>5. Names(toChild') \subseteq Names(toChild)
  <2>1. toChild' = toChild \/ toChild' = <<>> \/ (toChild # <<>> /\ toChild' = Tail(toChild))
    BY DEF Straight, Quiet
  <2> QED
    BY <2>1, WayTypes, Taken, NoNames
<1>6. ParentBuffers'
  BY <1>1, <1>4, <1>5 DEF StraightInv, ParentBuffers
<1>7. CalmInv'
  <2> SUFFICES ASSUME Calm' PROVE ParentCalm' /\ Healthy(child') /\ 1..delivered' \subseteq Held'
    BY DEF CalmInv
  <2>1. Calm /\ Healthy(child') /\ Around \subseteq Around'
    BY DEF Straight, Unhurt
  <2>2. ParentCalm'
    BY <1>4, <2>1 DEF StraightInv, CalmInv, ParentCalm
  <2>3. Held = Around \cup (Elements(output) \cup ChunksIn(mQueue) \cup ChunksIn(actorq) \cup {oda})
    BY DEF Held, Around, Buffer
  <2>4. Held' = Around' \cup (Elements(output') \cup ChunksIn(mQueue') \cup ChunksIn(actorq') \cup {oda'})
    BY DEF Held, Around, Buffer
  <2> HIDE DEF Held, Around
  <2>5. Held \subseteq Held'
    BY <1>4, <2>1, <2>3, <2>4
  <2> QED
    BY <1>4, <2>1, <2>2, <2>5 DEF StraightInv, CalmInv
<1> QED
  BY <1>2, <1>3, <1>6, <1>7 DEF StraightInv, Straight

\* A message that is no data takes no chunk with it.
LEMMA PlainTaken ==
  ASSUME Inv, toChild # <<>>, toChild' = Tail(toChild), Head(toChild).name # "Data"
  PROVE  ChunksIn(toChild') = ChunksIn(toChild)
<1>1. toChild \in Seq(ToChild) /\ Head(toChild) \in ToChild
  BY WayTypes, TailOf
<1>2. Head(toChild).data = 0
  BY <1>1 DEF ToChild, Msg, Carrying
<1>3. ChunksIn(toChild) = ChunksIn(toChild') \cup ({Head(toChild).data} \ {0})
  BY <1>1, DataTaken
<1> QED
  BY <1>2, <1>3

\* What was sent to the parent stays on its way.
LEMMA SentStays ==
  ASSUME Inv, NEW w, Adds(w), ipc = "open"
  PROVE  ChunksIn(toParent') = ChunksIn(toParent) \cup ChunksIn(w)
  BY WayTypes, DataJoined DEF Adds

\* Methods that lead from the actor c to d, of which c has the child's buffer.
LEMMA Methods ==
  ASSUME Inv, StraightInv, ipc' = ipc, NEW c, NEW d, Handles(c, d), c.mBufferedData = Buffer,
         c.mState \in Writers => child.mState \in Writers,
         d.mState \in Unborn => child.mState \in Unborn,
         d.mState = "TransferringData" /\ emitting' # "flush" => Buffer = <<>>,
         Becomes(d), kept' = kept, Takes \/ toChild' = <<>>
  PROVE  /\ Moves /\ ChildBuffers' /\ child'.mState = d.mState
         /\ ipc = "open" /\ Healthy(d) /\ Holds(c, d) /\ ChunksIn(toChild) \subseteq ChunksIn(toChild')
              => Unhurt
<1> DEFINE w == d.out
<1>1. /\ child'.mState = d.mState /\ Buffer' = d.mBufferedData /\ Adds(w)
      /\ Drained(child') /\ (Healthy(d) => Healthy(child'))
  BY BecomesIs DEF Handles
<1>2. Rising(Buffer) /\ InOrder(toChild) /\ Ordered(Inward)
  BY DEF StraightInv, Sorts
<1>3. /\ Buffer' \in {Buffer, <<>>} /\ InOrder(w)
      /\ ChunksIn(w) = {} \/ (Pours(c, d) /\ ChunksIn(w) = Elements(Buffer))
  BY <1>1, <1>2, DatalessOrdered DEF Handles, Holds, Forgets, Pours
<1>4. Below(Elements(Buffer), ChunksIn(toChild'))
  <2>1. Below(Inward[2], Inward[3]) /\ Inward[2] = Elements(Buffer) /\ Inward[3] = ChunksIn(toChild)
    BY <1>2, InwardStages, Between
  <2>2. ChunksIn(toChild') \subseteq ChunksIn(toChild)
    BY <1>2, TakenInOrder
  <2> QED
    BY <2>1, <2>2 DEF Below
<1>5. ChunksIn(w) # {} => child'.mState \notin Writers /\ child.mState \in Writers
  BY <1>1, <1>3 DEF Pours, Writers, Ready, Unborn
<1>6. Returned(w)
  BY <1>3, <1>4, <1>5 DEF Returned, Below
<1>7. Moves
  BY <1>1, <1>6 DEF Moves, Handles
<1>8. ChildBuffers'
  <2>1. d.mState \in Unborn => Buffer = <<>> /\ kept = <<>>
    BY DEF StraightInv, ChildBuffers
  <2> QED
    BY <1>1, <1>3, <2>1 DEF ChildBuffers
<1>9. ASSUME ipc = "open", Healthy(d), Holds(c, d), ChunksIn(toChild) \subseteq ChunksIn(toChild')
      PROVE  Unhurt
  BY <1>1, <1>9, SentStays DEF Unhurt, Around, Holds
<1> QED
  BY <1>1, <1>7, <1>8, <1>9

\* FlushBufferedData gives script the next chunk, or has nothing to give.
LEMMA FlushMoves ==
  ASSUME Inv, StraightInv, ipc' = ipc, NEW d \in ChildRecords, d.mBufferedData = Buffer,
         ChunksIn(d.out) = {}, Drained(d), d.mState \in Writers => child.mState \in Writers,
         d.mState \in Unborn => child.mState \in Unborn, FlushBufferedData(d), Takes
  PROVE  /\ Moves /\ ChildBuffers' /\ child'.mState = d.mState
         /\ ipc = "open" /\ Healthy(d) /\ ChunksIn(toChild) \subseteq ChunksIn(toChild') => Unhurt
<1>1. CASE CanFlushData(d) /\ Buffer # <<>>
  <2> DEFINE n == Head(Buffer)
             e == [d EXCEPT !.mBufferedData = Tail(@)]
  <2>1. Emits(e, n, "flush")
    BY <1>1 DEF FlushBufferedData
  <2>2. n \in Chunks /\ Tail(Buffer) \in Seq(Chunks) /\ kept \in Seq(Chunks)
    BY <1>1, WayTypes, TailOf
  <2>3. e \in ChildRecords /\ e.mState = d.mState /\ e.mNextState = d.mNextState
        /\ e.mBufferedData = Tail(Buffer) /\ e.mStreamFilter = d.mStreamFilter /\ e.out = d.out
    BY <2>2 DEF ChildRecords
  <2>4. d.mState \in {"TransferringData", "Resuming"} /\ Drained(e)
    BY <1>1, <2>3 DEF CanFlushData, In, Drained
  <2> HIDE DEF e, n
  <2>5. /\ emitting' = "flush" /\ kept' = IF d.mStreamFilter THEN Append(kept, n) ELSE kept
        /\ child'.mState = d.mState /\ Buffer' = Tail(Buffer) /\ Adds(d.out)
        /\ Drained(child') /\ (Healthy(e) => Healthy(child'))
    BY <2>1, <2>3, <2>4, BecomesIs DEF Emits
  <2>6. Fed(d.out)
    BY <1>1, <2>2, <2>4, <2>5 DEF Fed, n
  <2>7. Moves
    BY <2>4, <2>5, <2>6 DEF Moves
  <2>8. ChildBuffers'
    BY <2>4, <2>5 DEF ChildBuffers, Unborn
  <2>9. ASSUME ipc = "open", Healthy(d), ChunksIn(toChild) \subseteq ChunksIn(toChild')
        PROVE  Unhurt
    <3>1. Healthy(e) /\ d.mStreamFilter
      BY <2>3, <2>4, <2>9 DEF Healthy
    <3>2. Elements(Buffer) = Elements(Buffer') \cup {n}
      BY <1>1, <2>5, WayTypes, ElementsTaken DEF n
    <3>3. Elements(kept') = Elements(kept) \cup {n}
      <4>1. Elements(Append(kept, n)) = Elements(kept) \cup {n}
        BY <2>2, ElementsAdded
      <4> QED
        BY <2>5, <3>1, <4>1
    <3> QED
      BY <2>5, <2>9, <3>1, <3>2, <3>3, SentStays DEF Unhurt, Around
  <2> QED
    BY <2>5, <2>7, <2>8, <2>9
<1>2. CASE ~(CanFlushData(d) /\ Buffer # <<>>)
  <2>1. EmitsNothing(d)
    BY <1>2 DEF FlushBufferedData
  <2>2. d.mState = "TransferringData" => Buffer = <<>>
    BY <1>2 DEF CanFlushData, In
  <2>3. Handles(d, d) /\ Holds(d, d)
    BY DEF Handles, Holds
  <2> QED
    BY <2>1, <2>2, <2>3, Methods DEF EmitsNothing
<1> QED
  BY <1>1, <1>2

\* A step in which the child only goes from a method to another.
LEMMA MethodsStraight ==
  ASSUME Inv, StraightInv, ipc' = ipc, NEW d, Leads(child, d), Becomes(d), kept' = kept,
         toChild' = toChild, emitting' = emitting \/ emitting # "flush",
         Calm' => Calm /\ Heals(child, d)
  PROVE  Straight
<1>1. d.mState \in Unborn => child.mState \in Unborn
  BY DEF Leads, Settles
<1>2. d.mState = "TransferringData" /\ emitting' # "flush" => Buffer = <<>>
  BY DEF Leads, Settles, StraightInv, ChildBuffers
<1>3. /\ Moves /\ ChildBuffers' /\ child'.mState = d.mState
      /\ ipc = "open" /\ Healthy(d) /\ Holds(child, d) => Unhurt
  BY <1>1, <1>2, Methods DEF Leads, Buffer, Takes
<1>4. Quiet
  BY <1>3 DEF Quiet, Leads, Settles
<1>5. Calm' => Calm /\ Unhurt
  BY <1>3 DEF Heals, StraightInv, CalmInv, Calm
<1> QED
  BY <1>3, <1>4, <1>5 DEF Straight

LEMMA ChildNow ==
  ASSUME Inv, StraightInv
  PROVE  /\ Fresh(child) /\ Drained(child) /\ child \in ChildRecords /\ child.out = <<>>
         /\ child.mBufferedData = Buffer
  BY ChildFresh DEF Inv, TypeInv, StraightInv, ChildBuffers, Fresh, Buffer

LEMMA OneWord ==
  ASSUME NEW r
  PROVE  ChunksIn(Append(<<>>, Msg(r))) = {}
<1>1. Append(<<>>, Msg(r)) = <<Msg(r)>>
  BY OneMessage
<1>2. ChunksIn(<<Msg(r)>>) = {Msg(r).data} \ {0}
  BY OneMessage
<1>3. Msg(r).data = 0
  BY Plain
<1> QED
  BY <1>1, <1>2, <1>3

LEMMA SuspendStraight ==
  ASSUME Inv, StraightInv, Suspend, UNCHANGED ended
  PROVE  Straight
<1>1. Fresh(child) /\ Drained(child) /\ child \in ChildRecords /\ child.out = <<>>
  BY ChildNow
<1>2. Calm' => Calm
  BY DEF Calm, Suspend, Calls, Call, ScriptRuns
<1>3. ASSUME NEW d, Calls(d), Leads(child, d), Heals(child, d)
      PROVE  Straight
  BY <1>2, <1>3, MethodsStraight DEF Calls, Call, ScriptRuns
<1>4. CASE In(child, {"TransferringData"}) /\ Calls(Sends(Goes(child, "Suspending", "Suspended"), "Suspend"))
  <2> DEFINE d == Sends(Goes(child, "Suspending", "Suspended"), "Suspend")
             w == Append(<<>>, Msg("Suspend"))
  <2>1. w \in Seq(ToParent) /\ ChunksIn(w) = {}
    BY OneRequest, OneWord DEF Requests
  <2>2. d = [child EXCEPT !.mState = "Suspending", !.mNextState = "Suspended", !.out = w]
    BY <1>1 DEF Sends, Goes, ChildRecords
  <2> HIDE DEF w
  <2>3. /\ d \in ChildRecords /\ d.mState = "Suspending" /\ d.mNextState = "Suspended"
        /\ d.mBufferedData = child.mBufferedData /\ d.mStreamFilter = child.mStreamFilter /\ d.out = w
    BY <1>1, <2>1, <2>2 DEF ChildRecords, States
  <2>4. child.mState = "TransferringData"
    BY <1>4 DEF In
  <2>6. Calls(d)
    BY <1>4
  <2> HIDE DEF d
  <2>5. Leads(child, d) /\ Heals(child, d)
    BY <2>1, <2>3, <2>4 DEF Leads, Handles, Holds, Settles, Drained, Heals, Healthy, Writers, Ready, Unborn
  <2> QED
    BY <1>3, <2>5, <2>6
<1>5. ASSUME NEW next \in {"Suspended", "Suspending"}, Calls([child EXCEPT !.mNextState = next])
      PROVE  Straight
  <2> DEFINE d == [child EXCEPT !.mNextState = next]
  <2>1. /\ d \in ChildRecords /\ d.mState = child.mState /\ d.mNextState = next
        /\ d.mBufferedData = child.mBufferedData /\ d.mStreamFilter = child.mStreamFilter /\ d.out = <<>>
    BY <1>1 DEF ChildRecords, States
  <2>2. Calls(d)
    BY <1>5
  <2> HIDE DEF d
  <2>3. Holds(child, d) /\ Drained(d)
    BY <1>1, <2>1, NoElements DEF Holds, Drained
  <2>4. Leads(child, d) /\ Heals(child, d)
    BY <2>1, <2>3 DEF Leads, Handles, Settles, Heals, Healthy
  <2> QED
    BY <1>3, <2>2, <2>4
<1> QED
  BY <1>4, <1>5 DEF Suspend

LEMMA ResumeStraight ==
  ASSUME Inv, StraightInv, Resume, UNCHANGED ended
  PROVE  Straight
<1>1. Fresh(child) /\ Drained(child) /\ child \in ChildRecords /\ child.out = <<>>
      /\ child.mBufferedData = Buffer
  BY ChildNow
<1>2. /\ toChild' = toChild /\ ipc' = ipc
      /\ Calm' => Calm /\ Healthy(child)
  <2>1. UNCHANGED <<toChild, ipc, script>>
    BY DEF Resume, Calls, Call, ScriptRuns
  <2> QED
    BY <2>1 DEF Calm, StraightInv, CalmInv
<1>3. ASSUME NEW d \in ChildRecords, d.mBufferedData = Buffer, ChunksIn(d.out) = {}, Drained(d),
             d.mState = child.mState \/ (d.mState = "Resuming" /\ child.mState = "Suspended"),
             Healthy(child) => Healthy(d), FlushBufferedData(d)
      PROVE  Straight
  <2>1. (d.mState \in Writers => child.mState \in Writers) /\ (d.mState \in Unborn => child.mState \in Unborn)
    BY <1>3 DEF Writers, Ready, Unborn
  <2>2. /\ Moves /\ ChildBuffers' /\ child'.mState = d.mState
        /\ ipc = "open" /\ Healthy(d) => Unhurt
    BY <1>2, <1>3, <2>1, FlushMoves DEF Takes
  <2>3. Quiet
    BY <1>2, <1>3, <2>2 DEF Quiet
  <2> QED
    BY <1>2, <1>3, <2>2, <2>3 DEF Straight, Calm
<1>4. CASE In(child, {"Suspended"}) /\ FlushBufferedData(Sends(Goes(child, "Resuming", "TransferringData"), "Resume"))
  <2> DEFINE d == Sends(Goes(child, "Resuming", "TransferringData"), "Resume")
             w == Append(<<>>, Msg("Resume"))
  <2>1. w \in Seq(ToParent) /\ ChunksIn(w) = {}
    BY OneRequest, OneWord DEF Requests
  <2>2. d = [child EXCEPT !.mState = "Resuming", !.mNextState = "TransferringData", !.out = w]
    BY <1>1 DEF Sends, Goes, ChildRecords
  <2> HIDE DEF w
  <2>3. /\ d \in ChildRecords /\ d.mState = "Resuming" /\ d.mNextState = "TransferringData"
        /\ d.mBufferedData = child.mBufferedData /\ d.mStreamFilter = child.mStreamFilter /\ d.out = w
    BY <1>1, <2>1, <2>2 DEF ChildRecords, States
  <2>4. child.mState = "Suspended" /\ FlushBufferedData(d)
    BY <1>4 DEF In
  <2> HIDE DEF d
  <2>5. Drained(d) /\ (Healthy(child) => Healthy(d))
    BY <2>3, <2>4 DEF Drained, Healthy, Writers, Ready
  <2> QED
    BY <1>1, <1>3, <2>1, <2>3, <2>4, <2>5
<1>5. CASE Calls([child EXCEPT !.mNextState = "Resuming"])
  <2> DEFINE d == [child EXCEPT !.mNextState = "Resuming"]
  <2>1. /\ d \in ChildRecords /\ d.mState = child.mState /\ d.mNextState = "Resuming"
        /\ d.mBufferedData = child.mBufferedData /\ d.mStreamFilter = child.mStreamFilter /\ d.out = <<>>
    BY <1>1 DEF ChildRecords, States
  <2>2. Calls(d)
    BY <1>5
  <2> HIDE DEF d
  <2>3. Holds(child, d) /\ Drained(d)
    BY <1>1, <2>1, NoElements DEF Holds, Drained
  <2>4. Leads(child, d) /\ Heals(child, d)
    BY <2>1, <2>3 DEF Leads, Handles, Settles, Heals, Healthy
  <2> QED
    BY <1>2, <2>2, <2>4, MethodsStraight DEF Calls
<1>6. CASE FlushBufferedData(child)
  BY <1>1, <1>3, <1>6, NoElements
<1> QED
  BY <1>4, <1>5, <1>6 DEF Resume

LEMMA DisconnectStraight ==
  ASSUME Inv, StraightInv, CallDisconnect, ended' = TRUE
  PROVE  Straight
<1>1. Leads(child, Disconnect(child))
  BY ChildNow, DisconnectLeads
<1>2. ~Calm'
  BY DEF Calm
<1> QED
  BY <1>1, <1>2, MethodsStraight DEF CallDisconnect, Calls, Call, ScriptRuns

LEMMA CloseStraight ==
  ASSUME Inv, StraightInv, Close, ended' = TRUE
  PROVE  Straight
<1>1. Fresh(child) /\ child \in ChildRecords /\ child.out = <<>> /\ <<>> \in Seq(Chunks)
  BY ChildNow
<1>2. ~Calm'
  BY DEF Calm
<1>3. ASSUME NEW d \in ChildRecords, d.mState = child.mState \/ d.mState = "Closing",
             d.mBufferedData = <<>>, ChunksIn(d.out) = {}, Calls(d)
      PROVE  Straight
  <2>1. Leads(child, d)
    BY <1>3 DEF Leads, Handles, Forgets, Drained, Settles, Writers, Ready, Unborn
  <2> QED
    BY <1>2, <1>3, <2>1, MethodsStraight DEF Calls, Call, ScriptRuns
<1>4. CASE Calls(Clears(Sends(Goes(child, "Closing", "Closed"), "Close")))
  <2> DEFINE d == Clears(Sends(Goes(child, "Closing", "Closed"), "Close"))
             w == Append(<<>>, Msg("Close"))
  <2>1. w \in Seq(ToParent) /\ ChunksIn(w) = {}
    BY OneRequest, OneWord DEF Requests
  <2>2. d = [child EXCEPT !.mState = "Closing", !.mNextState = "Closed", !.mBufferedData = <<>>, !.out = w]
    BY <1>1 DEF Clears, Sends, Goes, ChildRecords
  <2>3. d \in ChildRecords /\ d.mState = "Closing" /\ d.mBufferedData = <<>> /\ d.out = w
    BY <1>1, <2>1, <2>2 DEF ChildRecords, States
  <2> HIDE DEF d, w
  <2>4. Calls(d)
    BY <1>4 DEF d
  <2> QED
    BY <1>3, <2>1, <2>3, <2>4
<1>5. CASE Calls(Clears([child EXCEPT !.mNextState = "Closing"]))
  <2> DEFINE d == Clears([child EXCEPT !.mNextState = "Closing"])
  <2>1. d = [child EXCEPT !.mNextState = "Closing", !.mBufferedData = <<>>]
    BY <1>1 DEF Clears, ChildRecords
  <2>2. d \in ChildRecords /\ d.mState = child.mState /\ d.mBufferedData = <<>> /\ d.out = <<>>
    BY <1>1, <2>1 DEF ChildRecords, States
  <2> HIDE DEF d
  <2>3. Calls(d)
    BY <1>5 DEF d
  <2> QED
    BY <1>3, <2>2, <2>3, NoElements
<1>6. CASE Calls(Clears(child))
  <2> DEFINE d == Clears(child)
  <2>1. d \in ChildRecords /\ d.mState = child.mState /\ d.mBufferedData = <<>> /\ d.out = <<>>
    BY <1>1 DEF ChildRecords, Clears
  <2> HIDE DEF d
  <2>2. Calls(d)
    BY <1>6 DEF d
  <2> QED
    BY <1>3, <2>1, <2>2, NoElements
<1> QED
  BY <1>4, <1>5, <1>6 DEF Close

LEMMA WriteStraight ==
  ASSUME Inv, StraightInv, Write
  PROVE  Straight
<1> DEFINE n == Head(kept)
           w == <<Carrying("Write", n)>>
           d == [child EXCEPT !.out = w]
<1>1. kept # <<>> /\ kept' = Tail(kept) /\ n \in Chunks /\ kept \in Seq(Chunks)
      /\ UNCHANGED <<toChild, ipc, script, ended, emitting>>
  BY WayTypes, TailOf DEF Write, ScriptRuns
<1>2. w \in Seq(ToParent) /\ ChunksIn(w) = {n}
  <2>1. Carrying("Write", n) \in ToParent /\ Carrying("Write", n).data = n /\ n # 0
    BY <1>1, Kinds, Plain DEF Chunks
  <2>2. ChunksIn(<<Carrying("Write", n)>>) = {Carrying("Write", n).data} \ {0}
    BY OneMessage
  <2> QED
    BY <2>1, <2>2
<1>3. child \in ChildRecords /\ child.out = <<>> /\ child.mBufferedData = Buffer /\ Drained(child)
  BY ChildNow
<1>4. Becomes(d)
  BY DEF Write
<1>5. d \in ChildRecords /\ d.mState = child.mState /\ d.mNextState = child.mNextState
      /\ d.mBufferedData = Buffer /\ d.mStreamFilter = child.mStreamFilter /\ d.out = w
  BY <1>2, <1>3 DEF ChildRecords
<1>6. child.mState \in Writers /\ child.mState \notin Unborn
  BY DEF Write, CanWrite, In, Writers, Ready, Unborn
<1> HIDE DEF n, d
<1>7. /\ child'.mState = child.mState /\ Buffer' = Buffer /\ Adds(w)
      /\ Drained(child') /\ (Healthy(child) => Healthy(child'))
  BY <1>3, <1>4, <1>5, BecomesIs DEF Drained, Healthy
<1>8. Gave(w)
  BY <1>1, <1>6, <1>7 DEF Gave, n
<1>9. Moves
  BY <1>1, <1>6, <1>7, <1>8 DEF Moves
<1>10. Quiet
  BY <1>1, <1>7 DEF Quiet
<1>11. ChildBuffers'
  BY <1>1, <1>6, <1>7 DEF StraightInv, ChildBuffers
<1>12. Calm' => Calm /\ Healthy(child)
  BY <1>1 DEF Calm, StraightInv, CalmInv
<1>13. Calm => Healthy(child')
  BY <1>7, <1>1 DEF Calm, StraightInv, CalmInv
<1>14. Calm => Unhurt
  <2> SUFFICES ASSUME Calm PROVE Unhurt
    OBVIOUS
  <2>1. Healthy(child')
    BY <1>13
  <2>2. Elements(kept) = Elements(kept') \cup {n}
    BY <1>1, ElementsTaken DEF n
  <2>3. ChunksIn(toParent') = ChunksIn(toParent) \cup {n}
    BY <1>2, <1>7, SentStays DEF Calm
  <2> QED
    BY <1>1, <1>7, <2>1, <2>2, <2>3 DEF Unhurt, Around
<1> QED
  BY <1>9, <1>10, <1>11, <1>12, <1>14 DEF Straight

LEMMA EventEndsStraight ==
  ASSUME Inv, StraightInv, EventEnds
  PROVE  Straight
<1> DEFINE d == MaybeStopRequest(child)
<1>1. Fresh(child) /\ Drained(child) /\ child.mBufferedData = Buffer
      /\ child.mState \in Ready \cup Waiting
  BY ChildNow DEF EventEnds, Inv, TypeInv, ChildInv
<1>2. Leads(child, d) /\ Holds(child, d) /\ (script = "running" => Heals(child, d))
  BY <1>1, MaybeStopLeads
<1>3. /\ UNCHANGED <<toChild, ipc, script, ended>>
      /\ FlushBufferedData(d) \/ (emitting = "data" /\ EmitsNothing(d))
  BY DEF EventEnds
<1>4. Calm' => Calm /\ Heals(child, d) /\ Healthy(child)
  BY <1>2, <1>3 DEF Calm, StraightInv, CalmInv
<1> HIDE DEF d
<1>5. CASE FlushBufferedData(d)
  <2>1. /\ Moves /\ ChildBuffers' /\ child'.mState = d.mState
        /\ ipc = "open" /\ Healthy(d) => Unhurt
    BY <1>1, <1>2, <1>3, <1>5, FlushMoves DEF Leads, Handles, Holds, Settles, Takes
  <2>2. Quiet
    BY <1>2, <1>3, <2>1 DEF Quiet, Leads, Settles
  <2> QED
    BY <1>4, <2>1, <2>2 DEF Straight, Heals, Calm
<1>6. CASE emitting = "data" /\ EmitsNothing(d)
  BY <1>2, <1>3, <1>4, <1>6, MethodsStraight DEF EmitsNothing
<1> QED
  BY <1>3, <1>5, <1>6

\* Steps that send nothing and are not for a message.
LEMMA OwnStraight ==
  ASSUME Inv, StraightInv, FinishConnect \/ PageGone \/ Collect \/ ChildActorDestroy
  PROVE  Straight
<1>1. Fresh(child) /\ Drained(child) /\ child \in ChildRecords /\ child.out = <<>>
      /\ child.mBufferedData = Buffer
  BY ChildNow
<1>2. toParent \o <<>> = toParent
  BY WayTypes, ConcatOf
<1>3. CASE FinishConnect
  <2> DEFINE d == [child EXCEPT !.mState = "Initialized"]
  <2>1. /\ d \in ChildRecords /\ d.mState = "Initialized" /\ d.mNextState = child.mNextState
        /\ d.mBufferedData = child.mBufferedData /\ d.mStreamFilter = child.mStreamFilter /\ d.out = <<>>
        /\ d = [d EXCEPT !.out = <<>>]
    BY <1>1 DEF ChildRecords, States
  <2>2. child' = d /\ child.mState = "Uninitialized" /\ UNCHANGED <<emitting, kept, script, ended, toParent, toChild, ipc>>
    BY <1>3 DEF FinishConnect, In, ipcVars
  <2> HIDE DEF d
  <2>3. Becomes(d)
    BY <1>2, <2>1, <2>2 DEF Becomes
  <2>4. Leads(child, d) /\ Heals(child, d)
    BY <2>1, <2>2, NoElements DEF Leads, Handles, Holds, Drained, Settles, Heals, Healthy, Writers, Unborn
  <2> QED
    BY <2>2, <2>3, <2>4, MethodsStraight DEF Calm
<1>4. CASE PageGone
  <2>1. child' = child /\ child = [child EXCEPT !.out = <<>>] /\ ~Calm'
        /\ UNCHANGED <<emitting, kept, toParent, toChild, ipc>>
    BY <1>1, <1>4 DEF PageGone, ipcVars, ChildRecords, Calm
  <2>2. Becomes(child)
    BY <1>1, <1>2, <2>1 DEF Becomes
  <2> QED
    BY <1>1, <2>1, <2>2, HoldsStill, MethodsStraight
<1>5. CASE Collect
  <2>1. Leads(child, Cleanup(child)) /\ Becomes(Cleanup(child)) /\ kept' = kept /\ emitting = "no"
        /\ UNCHANGED <<toChild, ipc>> /\ ~Calm'
    BY <1>1, <1>5, CleanupLeads DEF Collect, EmitsNothing, Calm
  <2> QED
    BY <2>1, MethodsStraight
<1>6. CASE ChildActorDestroy
  <2> DEFINE d == [child EXCEPT !.mStreamFilter = FALSE]
  <2>1. /\ d \in ChildRecords /\ d.mState = child.mState /\ d.mNextState = child.mNextState
        /\ d.mBufferedData = child.mBufferedData /\ d.out = <<>>
        /\ d = [d EXCEPT !.out = <<>>]
    BY <1>1 DEF ChildRecords
  <2>2. child' = d /\ ipc = "closed" /\ toChild' = <<>> /\ UNCHANGED <<emitting, kept, toParent, ipc>>
        /\ emitting = "no"
    BY <1>6 DEF ChildActorDestroy
  <2> HIDE DEF d
  <2>3. Becomes(d)
    BY <1>2, <2>1, <2>2 DEF Becomes
  <2>4. Handles(child, d)
    BY <1>1, <2>1, NoElements DEF Handles, Holds, Drained
  <2>5. d.mState = "TransferringData" => Buffer = <<>>
    BY <2>1, <2>2 DEF StraightInv, ChildBuffers
  <2>6. Moves /\ ChildBuffers'
    BY <1>1, <2>1, <2>2, <2>3, <2>4, <2>5, Methods
  <2>7. Quiet /\ ~Calm'
    BY <2>2 DEF Quiet, Calm
  <2> QED
    BY <2>6, <2>7 DEF Straight
<1> QED
  BY <1>3, <1>4, <1>5, <1>6

\* In which states the child gets which message.
LEMMA HeardIn ==
  ASSUME Inv, NEW name, Receives(name)
  PROVE  /\ toChild # <<>> /\ toChild' = Tail(toChild) /\ Head(toChild).name = name
         /\ emitting = "no" /\ UNCHANGED <<ipc, script, ended>>
         /\ Names(toChild) = Names(toChild') \cup {name}
         /\ name = "StartRequest" => child.mState \in Unborn
         /\ name = "Suspended" => child.mState = "Suspending"
         /\ name = "Resumed" => child.mState = "Resuming"
         /\ name = "Closed" => child.mState = "Closing"
         /\ name = "FlushData" => child.mState = "Disconnecting"
         /\ name = "StopRequest" => child.mState \in Ready \cup Waiting \cup {"Closed"}
         /\ name = "Data" => child.mState \notin Unborn /\ ~child.mReceivedOnStop
<1>1. TypeInv /\ ChildHand /\ Protocol(child.mState, child.mReceivedOnStop, toChild, toParent)
  BY DEF Inv, ChildHand
<1>2. /\ toChild # <<>> /\ toChild' = Tail(toChild) /\ Head(toChild).name = name
      /\ emitting = "no" /\ UNCHANGED <<ipc, script, ended>>
  BY DEF Receives
<1>3. /\ Names(toChild) = Names(toChild') \cup {name}
      /\ child.mState \notin {"Uninitialized", "Dead"}
      /\ child.mState = "Initialized" => name \in Starts
  BY <1>1, Heard
<1>4. /\ name = "StartRequest" => child.mState \in Unborn
      /\ name = "Suspended" => child.mState = "Suspending"
      /\ name = "Resumed" => child.mState = "Resuming"
      /\ name = "Closed" => child.mState = "Closing"
      /\ name = "FlushData" => child.mState = "Disconnecting"
  BY <1>1, <1>3 DEF Protocol, Waits, Started, Starting
<1>5. name = "Data" => child.mState \notin Unborn /\ ~child.mReceivedOnStop
  BY <1>1, <1>3 DEF Protocol, Flows, Unborn, Starts
<1>6. name = "StopRequest" => child.mState \in Ready \cup Waiting \cup {"Closed"}
  <2>1. name = "StopRequest" => child.mState \notin Over /\ child.mState # "Initialized"
    BY <1>1, <1>3 DEF Protocol, Flows, Flowing, Starts
  <2>2. child.mState \in States
    BY <1>1 DEF TypeInv, ChildInv, ChildTypeOK
  <2> QED
    BY <1>3, <2>1, <2>2 DEF States, Over, Ready, Waiting
<1> QED
  BY <1>2, <1>3, <1>4, <1>5, <1>6

\* A message that only leads from a method to another.
LEMMA MessageStraight ==
  ASSUME Inv, StraightInv, NEW name, Receives(name), NEW c, NEW d, Handles(c, d),
         c.mBufferedData = Buffer, c.mState \in Writers => child.mState \in Writers,
         d.mState \in Unborn => child.mState \in Unborn,
         d.mState = "TransferringData" => Buffer = <<>>, EmitsNothing(d),
         \/ name = "Suspended"
         \/ name = "Resumed" /\ d.mState \notin {"Suspended", "Resuming"}
         \/ /\ name # "Resumed" /\ (d.mState = "Suspended" => child.mState = "Suspended")
            /\ d.mState = "Resuming" => child.mState \in {"Resuming", "Suspended"},
         Calm /\ Healthy(child) => Healthy(d) /\ Holds(c, d) /\ name # "Data"
  PROVE  Straight
<1>1. /\ toChild # <<>> /\ toChild' = Tail(toChild) /\ Head(toChild).name = name
      /\ UNCHANGED <<ipc, script, ended, kept>>
  BY HeardIn DEF EmitsNothing
<1>2. /\ Moves /\ ChildBuffers' /\ child'.mState = d.mState
      /\ ipc = "open" /\ Healthy(d) /\ Holds(c, d) /\ ChunksIn(toChild) \subseteq ChunksIn(toChild')
           => Unhurt
  BY <1>1, Methods DEF EmitsNothing, Takes
<1>3. Quiet
  BY <1>1, <1>2 DEF Quiet
<1>4. name # "Data" => ChunksIn(toChild') = ChunksIn(toChild)
  BY <1>1, PlainTaken
<1>5. Calm' => Calm /\ Healthy(child) /\ ipc = "open"
  BY <1>1 DEF Calm, StraightInv, CalmInv
<1> QED
  BY <1>2, <1>3, <1>4, <1>5 DEF Straight

LEMMA StartStraight ==
  ASSUME Inv, StraightInv, RecvStartRequest
  PROVE  Straight
<1> DEFINE c == [child EXCEPT !.mState = "TransferringData"]
           d == CheckAlive(c)
<1>1. Receives("StartRequest") /\ EmitsNothing(d)
  BY DEF RecvStartRequest
<1>2. child.mState \in Unborn /\ script' = script
  BY <1>1, HeardIn
<1>3. Buffer = <<>> /\ Fresh(child) /\ child.mBufferedData = Buffer
  BY <1>2, ChildNow DEF StraightInv, ChildBuffers
<1>4. /\ Fresh(c) /\ c.mState = "TransferringData" /\ c.mBufferedData = Buffer
      /\ c.mNextState = child.mNextState /\ c.mStreamFilter = child.mStreamFilter
  BY <1>3 DEF Fresh, ChildRecords, States, Fits
<1>5. Drained(c)
  BY <1>4 DEF Drained
<1>6. Leads(c, d) /\ (script = "running" => d = c)
  BY <1>4, <1>5, CheckAliveLeads
<1>7. Healthy(child) => Healthy(c) /\ Holds(c, c)
  BY <1>2, <1>4, <1>5, HoldsStill DEF Healthy, Writers, Ready
<1> HIDE DEF c, d
<1>8. Calm => script = "running"
  BY DEF Calm
<1> QED
  BY <1>1, <1>2, <1>3, <1>4, <1>6, <1>7, <1>8, MessageStraight DEF Leads, Settles, Writers, Unborn

LEMMA StopStraight ==
  ASSUME Inv, StraightInv, RecvStopRequest
  PROVE  Straight
<1> DEFINE c == [child EXCEPT !.mReceivedOnStop = TRUE]
           d == MaybeStopRequest(c)
<1>1. Receives("StopRequest") /\ EmitsNothing(d)
  BY DEF RecvStopRequest
<1>2. child.mState \in Ready \cup Waiting \cup {"Closed"} /\ emitting = "no"
  BY <1>1, HeardIn
<1>3. Fresh(child) /\ child.mBufferedData = Buffer /\ Drained(child)
  BY ChildNow
<1>4. /\ Fresh(c) /\ c.mState = child.mState /\ c.mBufferedData = Buffer
      /\ c.mNextState = child.mNextState /\ c.mStreamFilter = child.mStreamFilter
  BY <1>3 DEF Fresh, ChildRecords, Fits
<1>5. Drained(c) /\ (Healthy(child) => Healthy(c))
  BY <1>3, <1>4 DEF Drained, Healthy
<1>6. Leads(c, d) /\ Holds(c, d) /\ (script = "running" => Heals(c, d))
  BY <1>2, <1>4, <1>5, MaybeStopLeads
<1>7. d.mState = "TransferringData" => Buffer = <<>>
  BY <1>2, <1>4, <1>6 DEF Leads, Settles, StraightInv, ChildBuffers
<1> HIDE DEF c, d
<1> QED
  BY <1>1, <1>4, <1>5, <1>6, <1>7, MessageStraight DEF Leads, Settles, Heals, Calm

LEMMA ErrorStraight ==
  ASSUME Inv, StraightInv, RecvError
  PROVE  Straight
<1> DEFINE w == Append(<<>>, Msg("Destroy"))
           d == Sends([child EXCEPT !.mState = "Error", !.mStreamFilter = FALSE], "Destroy")
<1>1. Receives("Error") /\ EmitsNothing(d)
  BY DEF RecvError
<1>2. child \in ChildRecords /\ child.out = <<>> /\ child.mBufferedData = Buffer
  BY ChildNow
<1>3. w \in Seq(ToParent) /\ ChunksIn(w) = {}
  <2>1. Msg("Destroy") \in ToParent /\ <<>> \in Seq(ToParent)
    BY Kinds
  <2> QED
    BY <2>1, OneWord, AppendOf
<1>4. /\ d \in ChildRecords /\ d.mState = "Error" /\ d.mNextState = child.mNextState
      /\ d.mBufferedData = Buffer /\ d.out = w
  BY <1>2, <1>3 DEF Sends, ChildRecords, States
<1> HIDE DEF w, d
<1>5. Handles(child, d) /\ Holds(child, d)
  BY <1>2, <1>3, <1>4 DEF Handles, Holds, Drained, Writers, Ready, Unborn
<1>6. Healthy(child) => Healthy(d)
  BY <1>4 DEF Healthy, Unborn
<1> QED
  BY <1>1, <1>2, <1>4, <1>5, <1>6, MessageStraight DEF Unborn

LEMMA NextStateLeads ==
  ASSUME NEW c, Fresh(c), Drained(c), c.mState \in {"Suspending", "Resuming", "Closing"}
  PROVE  /\ Handles(c, SetNextState(c)) /\ Holds(c, SetNextState(c))
         /\ Healthy(c) => Healthy(SetNextState(c))
         /\ SetNextState(c).mState \notin Unborn
         /\ c.mState = "Resuming" => SetNextState(c).mState \notin {"Suspended", "Resuming"}
         /\ c.mState = "Closing" => SetNextState(c).mState = "Closed"
<1> DEFINE s == c.mNextState
           d == SetNextState(c)
<1>1. /\ c \in ChildRecords /\ c.out = <<>> /\ <<>> \in Seq(ToParent)
      /\ s \in {"Suspended", "Resuming", "Disconnecting", "Closing", "FinishedTransferringData",
                "TransferringData", "Suspending", "Closed"}
      /\ c.mState = "Resuming" => s \notin {"Suspended", "Resuming", "Closed"}
      /\ c.mState = "Suspending" => s # "Closed"
      /\ c.mState = "Closing" => s = "Closed"
  BY DEF Fresh, Fits
<1>2. ASSUME d \in ChildRecords, d.mState = s, d.mBufferedData = c.mBufferedData, ChunksIn(d.out) = {},
             s \in {"Suspending", "Resuming"} => d.mNextState # "FinishedTransferringData",
             s \in Writers => d.mNextState \notin {"Closing", "Disconnecting"},
             d.mStreamFilter = c.mStreamFilter \/ s \in {"FinishedTransferringData", "Closed"}
      PROVE  Handles(c, d) /\ Holds(c, d) /\ (Healthy(c) => Healthy(d)) /\ d.mState \notin Unborn
  <2> HIDE DEF d
  <2>1. Drained(d)
    BY <1>1, <1>2 DEF Drained
  <2>2. Handles(c, d) /\ Holds(c, d) /\ d.mState \notin Unborn
    BY <1>1, <1>2, <2>1 DEF Handles, Holds, Writers, Ready, Unborn
  <2>3. Healthy(c) => Healthy(d)
    BY <1>1, <1>2 DEF Healthy, Writers, Ready, Unborn
  <2> QED
    BY <2>2, <2>3
<1>3. /\ s = "Suspending" => d = Sends(Goes(c, s, "Suspended"), "Suspend")
      /\ s = "Resuming" => d = Sends(Goes(c, s, "TransferringData"), "Resume")
      /\ s = "Closing" => d = Sends(Goes(c, s, "Closed"), "Close")
      /\ s = "Disconnecting" => d = Sends(Goes(c, s, "Disconnected"), "Disconnect")
      /\ s \in {"FinishedTransferringData", "Closed"} => d = [Goes(c, s, s) EXCEPT !.mStreamFilter = FALSE]
      /\ s \in {"Suspended", "TransferringData"} => d = Goes(c, s, s)
  BY DEF SetNextState, NextSends, NextNext
<1> HIDE DEF d
<1>4. CASE s \in {"Suspending", "Resuming", "Closing", "Disconnecting"}
  <2>1. PICK next \in States, r \in Requests :
          /\ d = Sends(Goes(c, s, next), r)
          /\ next \in {"Suspended", "TransferringData", "Closed", "Disconnected"}
    BY <1>3, <1>4 DEF States, Requests
  <2> DEFINE w == Append(<<>>, Msg(r))
  <2>2. w \in Seq(ToParent) /\ ChunksIn(w) = {}
    BY OneRequest, OneWord
  <2>3. d = [c EXCEPT !.mState = s, !.mNextState = next, !.out = w]
    BY <1>1, <2>1 DEF Sends, Goes, ChildRecords
  <2> HIDE DEF w
  <2>4. /\ d \in ChildRecords /\ d.mState = s /\ d.mNextState = next /\ d.out = w
        /\ d.mStreamFilter = c.mStreamFilter /\ d.mBufferedData = c.mBufferedData
    BY <1>1, <1>4, <2>2, <2>3 DEF ChildRecords, States
  <2>5. Handles(c, d) /\ Holds(c, d) /\ (Healthy(c) => Healthy(d)) /\ d.mState \notin Unborn
    BY <1>2, <2>1, <2>2, <2>4
  <2> QED
    BY <1>1, <1>4, <2>4, <2>5 DEF d
<1>5. CASE s \in {"FinishedTransferringData", "Closed", "Suspended", "TransferringData"}
  <2>1. /\ d \in ChildRecords /\ d.mState = s /\ d.mNextState = s /\ d.out = <<>>
        /\ d.mBufferedData = c.mBufferedData
        /\ d.mStreamFilter = c.mStreamFilter \/ s \in {"FinishedTransferringData", "Closed"}
    BY <1>1, <1>3, <1>5 DEF Goes, ChildRecords, States
  <2>2. Handles(c, d) /\ Holds(c, d) /\ (Healthy(c) => Healthy(d)) /\ d.mState \notin Unborn
    BY <1>2, <1>5, <2>1, NoElements
  <2> QED
    BY <1>1, <1>5, <2>1, <2>2 DEF d
<1> QED
  BY <1>1, <1>4, <1>5

LEMMA AgreementStraight ==
  ASSUME Inv, StraightInv, RecvAgreement
  PROVE  Straight
<1> DEFINE d == SetNextState(child)
<1>1. PICK name \in {"Suspended", "Resumed", "Closed"} : Receives(name)
  BY DEF RecvAgreement
<1>2. /\ child.mState \in {"Suspending", "Resuming", "Closing"}
      /\ name = "Resumed" => child.mState = "Resuming"
      /\ name = "Closed" => child.mState = "Closing"
      /\ toChild # <<>> /\ toChild' = Tail(toChild) /\ Head(toChild).name = name
      /\ UNCHANGED <<ipc, script, ended>>
  BY <1>1, HeardIn
<1>3. Fresh(child) /\ Drained(child) /\ child.mBufferedData = Buffer
  BY ChildNow
<1>4. /\ Handles(child, d) /\ Holds(child, d) /\ (Healthy(child) => Healthy(d))
      /\ d.mState \notin Unborn
      /\ child.mState = "Resuming" => d.mState \notin {"Suspended", "Resuming"}
      /\ child.mState = "Closing" => d.mState = "Closed"
  BY <1>2, <1>3, NextStateLeads
<1>5. IF d.mState = "TransferringData" THEN FlushBufferedData(d) ELSE EmitsNothing(d)
  BY DEF RecvAgreement, In
<1> HIDE DEF d
<1>6. CASE d.mState = "TransferringData"
  <2>1. /\ Moves /\ ChildBuffers' /\ child'.mState = d.mState
        /\ ipc = "open" /\ Healthy(d) /\ ChunksIn(toChild) \subseteq ChunksIn(toChild') => Unhurt
    BY <1>2, <1>3, <1>4, <1>5, <1>6, FlushMoves DEF Handles, Holds, Takes
  <2>2. ChunksIn(toChild') = ChunksIn(toChild)
    BY <1>2, PlainTaken
  <2>3. Quiet
    BY <1>2, <1>4, <1>6, <2>1 DEF Quiet
  <2>4. Calm' => Calm /\ Healthy(child) /\ ipc = "open"
    BY <1>2 DEF Calm, StraightInv, CalmInv
  <2> QED
    BY <1>4, <2>1, <2>2, <2>3, <2>4 DEF Straight
<1>7. CASE d.mState # "TransferringData"
  BY <1>1, <1>2, <1>3, <1>4, <1>5, <1>7, MessageStraight
<1> QED
  BY <1>6, <1>7

LEMMA FlushStraight ==
  ASSUME Inv, StraightInv, RecvFlushData
  PROVE  Straight
<1> DEFINE w == Append(<<>>, Msg("FlushedData"))
           d == SetNextState(Sends(child, "FlushedData"))
<1>1. Receives("FlushData") /\ EmitsNothing(d)
  BY DEF RecvFlushData
<1>2. child.mState = "Disconnecting"
  BY <1>1, HeardIn
<1>3. child \in ChildRecords /\ child.out = <<>> /\ child.mBufferedData = Buffer /\ Fits(child)
  BY ChildNow DEF Fresh
<1>4. child.mNextState = "Disconnected"
  BY <1>2, <1>3 DEF Fits
<1>5. w \in Seq(ToParent) /\ ChunksIn(w) = {}
  <2>1. Msg("FlushedData") \in ToParent /\ <<>> \in Seq(ToParent)
    BY Kinds
  <2> QED
    BY <2>1, OneWord, AppendOf
<1>6. d = [child EXCEPT !.mState = "Disconnected", !.mNextState = "Disconnected", !.mStreamFilter = FALSE,
                        !.out = w]
  BY <1>3, <1>4 DEF SetNextState, Sends, NextSends, Goes, ChildRecords
<1> HIDE DEF w
<1>7. d \in ChildRecords /\ d.mState = "Disconnected" /\ d.mBufferedData = Buffer /\ d.out = w
  BY <1>3, <1>5, <1>6 DEF ChildRecords, States
<1> HIDE DEF d
<1>8. Handles(child, d)
  BY <1>3, <1>5, <1>7 DEF Handles, Holds, Drained, Writers, Ready, Unborn
<1>9. ~Healthy(child)
  BY <1>2 DEF Healthy, Writers, Ready, Unborn
<1> QED
  BY <1>1, <1>3, <1>7, <1>8, <1>9, MessageStraight DEF Unborn

LEMMA ChunkAdded ==
  ASSUME NEW q \in Seq(Chunks), NEW n \in Chunks
  PROVE  /\ Elements(Append(q, n)) = Elements(q) \cup {n}
         /\ Rising(q) /\ Below(Elements(q), {n}) => Rising(Append(q, n))
<1> DEFINE S == Chunks
<1>1. q \in Seq(S) /\ n \in S
  OBVIOUS
<1> HIDE DEF S
<1> QED
  BY <1>1, ElementsAdded

\* Data is for the script of a child that has nothing else for it, is buffered, or
\* is written back behind what was buffered.
LEMMA DataStraight ==
  ASSUME Inv, StraightInv, RecvData
  PROVE  Straight
<1> DEFINE c == CheckAlive(child)
           n == Head(toChild).data
<1>1. Receives("Data")
  BY DEF RecvData
<1>2. /\ toChild # <<>> /\ toChild' = Tail(toChild) /\ Head(toChild).name = "Data" /\ emitting = "no"
      /\ UNCHANGED <<ipc, script, ended>> /\ "Data" \in Names(toChild)
      /\ child.mState \notin Unborn /\ ~child.mReceivedOnStop
  BY <1>1, HeardIn
<1>3. toChild \in Seq(ToChild) /\ n \in Chunks /\ n # 0 /\ kept \in Seq(Chunks) /\ Buffer \in Seq(Chunks)
  <2>1. toChild \in Seq(ToChild) /\ Head(toChild) \in ToChild /\ kept \in Seq(Chunks) /\ Buffer \in Seq(Chunks)
    BY <1>2, WayTypes, TailOf
  <2> QED
    BY <1>2, <2>1, Chunked DEF Chunks
<1>4. Fresh(child) /\ Drained(child) /\ child.mBufferedData = Buffer
  BY ChildNow
<1>5. /\ Leads(child, c) /\ (Holds(child, c) \/ Pours(child, c))
      /\ script = "running" => c = child
  BY <1>4, CheckAliveLeads
<1>6. Turns(child, c)
  BY <1>4, CheckAliveTurns
<1>7. c \in ChildRecords /\ Fits(c) /\ ~c.mReceivedOnStop
  BY <1>2, <1>6 DEF Turns
<1>8. \/ Passes(c) /\ Emits(c, n, "data")
      \/ In(c, {"Suspending", "Suspended"}) /\ EmitsNothing([c EXCEPT !.mBufferedData = Append(@, n)])
      \/ In(c, {"Disconnecting"}) /\ EmitsNothing([c EXCEPT !.out = Append(@, Carrying("Write", n))])
      \/ In(c, {"Closing"}) /\ EmitsNothing(c)
  BY DEF RecvData
<1> HIDE DEF c, n
<1>a. Elements(Append(kept, n)) = Elements(kept) \cup {n}
  BY <1>3, ChunkAdded
<1>b. Elements(Append(Buffer, n)) = Elements(Buffer) \cup {n}
  BY <1>3, ChunkAdded
<1>9. Calm' => Calm /\ Healthy(child) /\ ipc = "open" /\ c = child
  BY <1>2, <1>5 DEF Calm, StraightInv, CalmInv
<1>10. /\ ChunksIn(toChild) = ChunksIn(toChild') \cup {n}
       /\ Below({n}, ChunksIn(toChild'))
  <2>1. /\ ChunksIn(toChild) = ChunksIn(toChild') \cup ({n} \ {0})
        /\ Below({n} \ {0}, ChunksIn(toChild'))
    BY <1>2, <1>3, DataTaken DEF n, StraightInv, Sorts
  <2>2. {n} \ {0} = {n}
    BY <1>3
  <2> QED
    BY <2>1, <2>2
<1>11. CASE Passes(c) /\ Emits(c, n, "data")
  <2>1. c.mState \in {"TransferringData", "Resuming"} /\ c.mState \notin Unborn
    BY <1>11 DEF Passes, CanFlushData, In, Unborn
  <2>2. child.mState \notin {"Suspended", "Resuming"}
    <3>1. "Resumed" \notin Names(toChild)
      <4>1. NotBehind(toChild, {"Data"}, {"Resumed"})
        BY DEF StraightInv, Silence
      <4>2. /\ Names(toChild) = Names(toChild') \cup {"Data"}
            /\ "Resumed" \notin Names(toChild')
        BY <1>2, <1>3, <4>1, Taken
      <4> QED
        BY <4>2
    <3> QED
      BY <1>2, <3>1 DEF StraightInv, Silence
  <2>3. child.mState = "TransferringData" /\ c.mState = "TransferringData"
    BY <1>5, <2>1, <2>2 DEF Leads, Settles
  <2>4. Buffer = <<>>
    BY <1>2, <2>3 DEF StraightInv, ChildBuffers
  <2>5. c.mBufferedData = <<>> /\ ChunksIn(c.out) = {} /\ Drained(c)
    BY <1>4, <1>5, <2>3, <2>4 DEF Leads, Handles, Holds, Pours
  <2>6. /\ emitting' = "data" /\ kept' = IF c.mStreamFilter THEN Append(kept, n) ELSE kept
        /\ child'.mState = "TransferringData" /\ Buffer' = <<>> /\ Adds(c.out)
        /\ Drained(child') /\ (Healthy(c) => Healthy(child'))
    BY <1>7, <1>11, <2>3, <2>5, BecomesIs DEF Emits
  <2>7. Fed(c.out)
    BY <1>2, <1>3, <2>4, <2>5, <2>6 DEF Fed, n
  <2>8. Moves
    BY <1>2, <2>3, <2>6, <2>7 DEF Moves
  <2>9. Quiet /\ ChildBuffers'
    BY <1>2, <2>6 DEF Quiet, ChildBuffers, Unborn
  <2>10. Calm' => Calm /\ Unhurt
    <3> SUFFICES ASSUME Calm' PROVE Calm /\ Unhurt
      OBVIOUS
    <3>1. Calm /\ Healthy(child) /\ ipc = "open" /\ c = child /\ c.mStreamFilter
      BY <1>9, <2>3 DEF Healthy
    <3>2. Elements(kept') = Elements(kept) \cup {n}
      BY <1>a, <2>6, <3>1
    <3>3. ChunksIn(toParent') = ChunksIn(toParent)
      BY <2>5, <2>6, <3>1, SentStays
    <3> QED
      BY <1>10, <2>4, <2>6, <3>1, <3>2, <3>3 DEF Unhurt, Around
  <2> QED
    BY <2>8, <2>9, <2>10 DEF Straight
<1>12. CASE In(c, {"Suspending", "Suspended"}) /\ EmitsNothing([c EXCEPT !.mBufferedData = Append(@, n)])
  <2> DEFINE d == [c EXCEPT !.mBufferedData = Append(@, n)]
  <2>1. c.mState \in {"Suspending", "Suspended"} /\ EmitsNothing(d)
    BY <1>12 DEF In
  <2>2. c.mBufferedData = Buffer /\ ChunksIn(c.out) = {}
    BY <1>4, <1>5, <2>1 DEF Holds, Pours
  <2>3. Append(Buffer, n) \in Seq(Chunks)
    BY <1>3, AppendOf
  <2>4. /\ d \in ChildRecords /\ d.mState = c.mState /\ d.mNextState = c.mNextState
        /\ d.mBufferedData = Append(Buffer, n) /\ d.mStreamFilter = c.mStreamFilter /\ d.out = c.out
    BY <1>7, <2>2, <2>3 DEF ChildRecords
  <2> HIDE DEF d
  <2>5. Drained(d)
    BY <1>7, <2>1, <2>4 DEF Fits, Drained
  <2>6. /\ emitting' = "no" /\ kept' = kept /\ child'.mState = c.mState
        /\ Buffer' = Append(Buffer, n) /\ Adds(d.out)
        /\ Drained(child') /\ (Healthy(c) => Healthy(child'))
    BY <2>1, <2>4, <2>5, BecomesIs DEF EmitsNothing, Healthy
  <2>7. Buffered(d.out)
    BY <1>2, <1>3, <2>1, <2>2, <2>4, <2>6 DEF Buffered, n
  <2>8. Moves
    BY <1>2, <1>5, <2>6, <2>7 DEF Moves, Leads, Handles
  <2>9. Quiet
    BY <1>2, <1>5, <2>1, <2>6 DEF Quiet, Leads, Settles
  <2>10. ChildBuffers'
    BY <2>1, <2>6 DEF ChildBuffers, Unborn
  <2>11. Calm' => Calm /\ Unhurt
    <3> SUFFICES ASSUME Calm' PROVE Calm /\ Unhurt
      OBVIOUS
    <3>1. Calm /\ Healthy(c) /\ ipc = "open"
      BY <1>9
    <3>2. Elements(Buffer') = Elements(Buffer) \cup {n}
      BY <1>b, <2>6
    <3>3. ChunksIn(toParent') = ChunksIn(toParent)
      BY <2>2, <2>4, <2>6, <3>1, SentStays
    <3> QED
      BY <1>10, <2>6, <3>1, <3>2, <3>3 DEF Unhurt, Around
  <2> QED
    BY <2>8, <2>9, <2>10, <2>11 DEF Straight
<1>13. CASE In(c, {"Disconnecting"}) /\ EmitsNothing([c EXCEPT !.out = Append(@, Carrying("Write", n))])
  <2> DEFINE x == Carrying("Write", n)
             w == Append(c.out, x)
             d == [c EXCEPT !.out = w]
  <2>1. x \in ToParent /\ x.data = n /\ c.out \in Seq(ToParent) /\ {x.data} \ {0} = {n}
    BY <1>3, <1>7, Kinds, Plain DEF ChildRecords
  <2>2. EmitsNothing(d) /\ c.mState = "Disconnecting"
    BY <1>13 DEF In
  <2> HIDE DEF x
  <2>3. /\ w \in Seq(ToParent) /\ ChunksIn(w) = ChunksIn(c.out) \cup {n}
        /\ InOrder(c.out) /\ Below(ChunksIn(c.out), {n}) => InOrder(w)
    <3> DEFINE q == c.out
    <3>0. q \in Seq(ToParent) /\ x \in ToParent
      BY <2>1
    <3> HIDE DEF q
    <3>1. ChunksIn(Append(q, x)) = ChunksIn(q) \cup ({x.data} \ {0})
      BY <3>0, QueueGains
    <3>2. InOrder(q) /\ (x.data # 0 => Below(ChunksIn(q), {x.data})) => InOrder(Append(q, x))
      BY <3>0, DataAdded
    <3>3. Append(q, x) \in Seq(ToParent)
      BY <3>0, AppendOf
    <3> QED
      BY <2>1, <3>1, <3>2, <3>3 DEF q
  <2> HIDE DEF w
  <2>4. /\ d \in ChildRecords /\ d.mState = "Disconnecting" /\ d.mBufferedData = c.mBufferedData /\ d.out = w
    BY <1>7, <2>2, <2>3 DEF ChildRecords
  <2> HIDE DEF d
  <2>5. Below(Elements(Buffer), {n}) /\ Below(Elements(Buffer), ChunksIn(toChild'))
    <3>1. Below(Inward[2], Inward[3]) /\ Inward[2] = Elements(Buffer) /\ Inward[3] = ChunksIn(toChild)
      BY InwardStages, Between DEF StraightInv
    <3> QED
      BY <1>10, <3>1 DEF Below
  <2>6. \/ ChunksIn(c.out) = {} /\ c.mBufferedData = Buffer
        \/ /\ ChunksIn(c.out) = Elements(Buffer) /\ InOrder(c.out) /\ c.mBufferedData = <<>>
           /\ child.mState \in Writers
    BY <1>4, <1>5 DEF Holds, Pours, StraightInv, Sorts, Writers
  <2>7. InOrder(c.out) /\ Below(ChunksIn(c.out), {n}) /\ Below(ChunksIn(c.out), ChunksIn(toChild'))
    BY <2>5, <2>6, DatalessOrdered DEF Below
  <2>8. /\ kept' = kept /\ Buffer' \in {Buffer, <<>>} /\ child'.mState = "Disconnecting" /\ Adds(w)
    BY <2>2, <2>4, <2>6, BecomesIs DEF EmitsNothing
  <2>9. Below(ChunksIn(w), ChunksIn(toChild'))
    BY <1>10, <2>3, <2>7 DEF Below
  <2>10. "Disconnecting" \notin Writers
    BY DEF Writers, Ready, Unborn
  <2>11. ChunksIn(w) \subseteq Elements(Buffer) \cup ChunksIn(toChild)
         /\ (child.mState \in Writers \/ ChunksIn(w) \subseteq ChunksIn(toChild))
    BY <1>10, <2>3, <2>6
  <2>12. Returned(w)
    BY <1>2, <2>3, <2>7, <2>8, <2>9, <2>10, <2>11 DEF Returned, Takes
  <2>13. Moves
    BY <1>2, <2>8, <2>10, <2>12 DEF Moves
  <2>14. Quiet /\ ChildBuffers'
    BY <1>2, <2>8 DEF Quiet, ChildBuffers, Drained, Unborn
  <2>15. ~Calm'
    BY <1>9, <2>2, <2>10 DEF Healthy
  <2> QED
    BY <2>13, <2>14, <2>15 DEF Straight
<1>14. CASE In(c, {"Closing"}) /\ EmitsNothing(c)
  <2>1. c.mState = "Closing" /\ "Closing" \notin Writers
    BY <1>14 DEF In, Writers, Ready, Unborn
  <2>2. Calm => script = "running"
    BY DEF Calm
  <2>3. ~(Calm /\ Healthy(child))
    BY <1>5, <2>1, <2>2 DEF Healthy
  <2> QED
    BY <1>1, <1>4, <1>5, <1>14, <2>1, <2>3, MessageStraight DEF Leads, Unborn
<1> QED
  BY <1>8, <1>11, <1>12, <1>13, <1>14

\* With the process of the extension dies what it had and what was on its way.
LEMMA DeathStraight ==
  ASSUME Inv, StraightInv, UNCHANGED parentVars, ChildDies
  PROVE  StraightInv'
<1>1. /\ UNCHANGED <<mState, mDisconnected, mBufferedData, mQueue, actorq, oda, output, delivered, suspends>>
      /\ IPCActive' = IPCActive /\ Later' = Later
  BY DEF parentVars, channelVars, IPCActive, Later
<1>2. /\ child'.mState = "Dead" /\ Buffer' = <<>> /\ toChild' = <<>> /\ toParent' = <<>>
      /\ ipc' # "open" /\ kept' = kept
  <2>1. child \in ChildRecords /\ <<>> \in Seq(Chunks)
    BY ChildNow
  <2> QED
    BY <2>1 DEF ChildDies, ChildRecords, Buffer
<1>3. ~MayWrite' /\ Names(toChild') = {} /\ Elements(Buffer') = {} /\ ChunksIn(toChild') = {}
      /\ ChunksIn(toParent') = {} /\ Rising(Buffer') /\ InOrder(toChild') /\ InOrder(toParent')
      /\ NotBehind(toChild', {"Suspended"}, {"Data"}) /\ NotBehind(toChild', {"Data"}, {"Resumed"})
  BY <1>2, NoElements, NoNames DEF MayWrite, NotBehind
<1>4. Silence'
  BY <1>1, <1>2, <1>3 DEF StraightInv, Silence
<1>5. Sorts'
  BY <1>1, <1>2, <1>3 DEF StraightInv, Sorts
<1>6. Ordered(Inward')
  BY <1>1, <1>2, <1>3, InwardStages, InwardNext, InwardLessened DEF StraightInv
<1>7. Ordered(Outward')
  BY <1>1, <1>2, <1>3, OutwardStages, OutwardNext, OutwardLessened DEF StraightInv
<1>8. ChildBuffers' /\ ParentBuffers' /\ CalmInv'
  <2>1. child'.mBufferedData = <<>>
    BY <1>2 DEF Buffer
  <2> QED
    BY <1>1, <1>2, <2>1 DEF StraightInv, ChildBuffers, ParentBuffers, CalmInv, Calm, Drained, Unborn
<1> QED
  BY <1>4, <1>5, <1>6, <1>7, <1>8 DEF StraightInv

LEMMA ChildStraight == Inv /\ StraightInv /\ (Child \/ ChildEnd) /\ UNCHANGED parentVars => StraightInv'
<1> SUFFICES ASSUME Inv, StraightInv, Child \/ ChildEnd, UNCHANGED parentVars PROVE StraightInv'
  OBVIOUS
<1>1. CASE ChildDies
  BY <1>1, DeathStraight
<1>2. CASE Script
  <2>1. Straight
    BY <1>2, SuspendStraight, ResumeStraight, DisconnectStraight, CloseStraight, WriteStraight DEF Script
  <2> QED
    BY <2>1, StraightKept
<1>3. CASE Recv
  <2>1. Straight
    BY <1>3, StartStraight, StopStraight, DataStraight, ErrorStraight, AgreementStraight, FlushStraight DEF Recv
  <2> QED
    BY <2>1, StraightKept
<1>4. CASE EventEnds \/ FinishConnect \/ PageGone \/ Collect \/ ChildActorDestroy
  <2>1. Straight
    BY <1>4, EventEndsStraight, OwnStraight
  <2> QED
    BY <2>1, StraightKept
<1> QED
  BY <1>1, <1>2, <1>3, <1>4 DEF Child, ChildEnd

-----------------------------------------------------------------------------
(***************************************************************************)
(* The parent's steps.                                                     *)
(***************************************************************************)
\* From the queue q chunks were lost, or none; the order of the others is the same.
Less(q, r) == ChunksIn(r) \subseteq ChunksIn(q) /\ (InOrder(q) => InOrder(r))
Same(q, r) == ChunksIn(r) = ChunksIn(q) /\ (InOrder(q) => InOrder(r))

LEMMA Plainness ==
  /\ \A m \in ToParent : m.name # "Write" => m.data = 0
  /\ \A m \in ToChild : m.name # "Data" => m.data = 0
  /\ \A m \in QueueEvents : m.name # "write" => m.data = 0
  /\ \A m \in ActorEvents : m.name # "data" => m.data = 0
  BY DEF ToParent, ToChild, QueueEvents, ActorEvents, Msg, Carrying, Event, WriteMove, DoSendData

LEMMA SameTaken ==
  ASSUME NEW S, NEW q \in Seq(S), q # <<>>
  PROVE  /\ Less(q, Tail(q))
         /\ Head(q).data = 0 => Same(q, Tail(q))
<1>1. ChunksIn(q) = ChunksIn(Tail(q)) \cup ({Head(q).data} \ {0}) /\ (InOrder(q) => InOrder(Tail(q)))
  BY DataTaken
<1> QED
  BY <1>1 DEF Less, Same

LEMMA SameAdded ==
  ASSUME NEW S, NEW q \in Seq(S), NEW x \in S, x.data = 0
  PROVE  Same(q, Append(q, x))
  BY PlainAdded DEF Same

\* Of the queues that the parent uses.
LEMMA QueuesTaken ==
  ASSUME Inv
  PROVE  /\ toParent # <<>> => /\ Less(toParent, Tail(toParent))
                               /\ Head(toParent).name # "Write" => Same(toParent, Tail(toParent))
         /\ mQueue # <<>> => /\ Less(mQueue, Tail(mQueue))
                             /\ Head(mQueue).name # "write" => Same(mQueue, Tail(mQueue))
         /\ actorq # <<>> => /\ Less(actorq, Tail(actorq))
                             /\ Head(actorq).name # "data" => Same(actorq, Tail(actorq))
<1>1. toParent \in Seq(ToParent) /\ mQueue \in Seq(QueueEvents) /\ actorq \in Seq(ActorEvents)
  BY WayTypes
<1>2. /\ toParent # <<>> => Head(toParent) \in ToParent
      /\ mQueue # <<>> => Head(mQueue) \in QueueEvents
      /\ actorq # <<>> => Head(actorq) \in ActorEvents
  BY <1>1, TailOf
<1> QED
  BY <1>1, <1>2, SameTaken, Plainness

LEMMA QueuesAdded ==
  ASSUME Inv
  PROVE  /\ \A m \in ToChild : m.name # "Data" => Same(toChild, Append(toChild, m))
         /\ \A m \in QueueEvents : m.name # "write" => Same(mQueue, Append(mQueue, m))
         /\ \A m \in ActorEvents : m.name # "data" => Same(actorq, Append(actorq, m))
<1>1. toChild \in Seq(ToChild) /\ mQueue \in Seq(QueueEvents) /\ actorq \in Seq(ActorEvents)
  BY WayTypes
<1> QED
  BY <1>1, SameAdded, Plainness

\* The chunks stay where they are, or some are lost.
Lessens ==
  /\ Less(toChild, toChild') /\ Less(toParent, toParent') /\ Less(mQueue, mQueue')
  /\ IPCActive' => Less(actorq, actorq')
  /\ oda' \in {oda, 0} /\ mBufferedData' = mBufferedData /\ delivered' = delivered
  /\ Ascending(output') /\ Elements(output') \ {0} = Elements(output) \ {0}

LEMMA ChildStill ==
  ASSUME UNCHANGED childVars, ipc' = "open" => ipc = "open"
  PROVE  /\ child' = child /\ kept' = kept /\ Buffer' = Buffer /\ emitting' = emitting
         /\ MayWrite' => MayWrite
         /\ Calm' => Calm
         /\ Healthy(child') <=> Healthy(child)
         /\ ChildBuffers <=> ChildBuffers'
  BY DEF childVars, Buffer, MayWrite, Calm, ChildBuffers

LEMMA LessWays ==
  ASSUME Inv, StraightInv, UNCHANGED childVars, ipc' = "open" => ipc = "open",
         IPCActive' => IPCActive, Lessens
  PROVE  Ways'
<1>1. /\ kept' = kept /\ Buffer' = Buffer /\ (MayWrite' => MayWrite)
  BY ChildStill
<1>2. Sorts'
  BY <1>1 DEF StraightInv, Sorts, Lessens, Less
<1>3. IPCActive => mBufferedData = <<>>
  BY DEF StraightInv, ParentBuffers
<1>4. Later' = Later /\ mBufferedData' = mBufferedData
  BY DEF Lessens, Later
<1>5. Ordered(Inward')
  BY <1>1, <1>4, InwardStages, InwardNext, InwardLessened DEF StraightInv, Lessens, Less
<1>6. Outward'[7] \subseteq Outward[7]
  BY <1>3, <1>4, OutwardStages, OutwardNext, NoElements DEF Lessens, Less
<1>7. Ordered(Outward')
  BY <1>1, <1>4, <1>6, OutwardStages, OutwardNext, OutwardLessened DEF StraightInv, Lessens, Less
<1> QED
  BY <1>2, <1>5, <1>7 DEF Ways

\* What the parent and the queues have of the chunks.
Theirs ==
  UNION {Elements(output) \ {0}, ChunksIn(mQueue), ChunksIn(actorq), {oda} \ {0},
         ChunksIn(toChild), ChunksIn(toParent)}

LEMMA TheirsHeld ==
  ASSUME 1..delivered \subseteq Held, delivered' = delivered, kept' = kept, Buffer' = Buffer,
         Theirs \subseteq Theirs'
  PROVE  1..delivered' \subseteq Held'
<1> SUFFICES ASSUME NEW n \in 1..delivered PROVE n \in Held'
  OBVIOUS
<1>1. n # 0 /\ n \in Held
  OBVIOUS
<1>2. n \in Theirs \cup Elements(kept) \cup Elements(Buffer)
  BY <1>1 DEF Held, Theirs, Buffer
<1>3. n \in Theirs' \cup Elements(kept') \cup Elements(Buffer')
  BY <1>2
<1> QED
  BY <1>3 DEF Held, Theirs, Buffer

\* What a step of the parent has to keep.
LEMMA SteadyKept ==
  ASSUME Inv, StraightInv, UNCHANGED childVars, ipc' = "open" => ipc = "open",
         Ways', Silence', ParentBuffers',
         Calm /\ Calm' => ParentCalm' /\ 1..delivered' \subseteq Held'
  PROVE  StraightInv'
<1>1. ChildBuffers'
  BY ChildStill DEF StraightInv
<1>2. CalmInv'
  <2> SUFFICES ASSUME Calm' PROVE ParentCalm' /\ Healthy(child') /\ 1..delivered' \subseteq Held'
    BY DEF CalmInv
  <2>1. Calm /\ (Healthy(child') <=> Healthy(child))
    BY ChildStill
  <2> QED
    BY <2>1 DEF StraightInv, CalmInv
<1> QED
  BY <1>1, <1>2 DEF StraightInv, Ways

\* A step that moves no chunk, or loses some.
LEMMA LessKept ==
  ASSUME Inv, StraightInv, UNCHANGED childVars, ipc' = "open" => ipc = "open",
         IPCActive' => IPCActive, Lessens, Silence', ParentBuffers',
         Calm /\ Calm' => ParentCalm' /\ Theirs \subseteq Theirs'
  PROVE  StraightInv'
<1>1. Ways'
  BY LessWays
<1>2. Calm /\ Calm' => ParentCalm' /\ 1..delivered' \subseteq Held'
  <2>1. delivered' = delivered /\ kept' = kept /\ Buffer' = Buffer
    BY ChildStill DEF Lessens
  <2> QED
    BY <2>1, TheirsHeld DEF StraightInv, CalmInv
<1> QED
  BY <1>1, <1>2, SteadyKept

\* The silence of the actor's queue, of the queue to the child, and what is said of a
\* resume.
ActorHush ==
  /\ suspends = 1 => oda = 0 /\ ("suspended" \in Names(actorq) \/ "data" \notin Names(actorq))
  /\ NotBehind(actorq, {"suspended"}, {"data"}) /\ NotBehind(actorq, {"data"}, {"resumed"})

ChildHush ==
  /\ NotBehind(toChild, {"Suspended"}, {"Data"}) /\ NotBehind(toChild, {"Data"}, {"Resumed"})
  /\ (child.mState = "Suspended" \/ (child.mState = "Resuming" /\ "Resumed" \notin Names(toChild)))
       => "Data" \notin Names(toChild)

Awaited ==
  ipc = "open" /\ mState = "TransferringData" =>
    /\ child.mState # "Suspended" /\ "Suspended" \notin Names(toChild)
    /\ child.mState = "Resuming" => \/ "resume" \in Names(mQueue) \/ "resumed" \in Names(actorq)
                                    \/ "Resumed" \in Names(toChild)

LEMMA SilenceParts ==
  /\ Silence <=> ActorHush /\ ChildHush /\ Awaited
  /\ Silence' <=> ActorHush' /\ ChildHush' /\ Awaited'
  BY DEF Silence, ActorHush, ChildHush, Awaited

LEMMA ActedHush ==
  ASSUME Inv, Silence, NEW name, Acts(name)
  PROVE  ActorHush'
<1>1. actorq \in Seq(ActorEvents) /\ actorq # <<>> /\ actorq' = Tail(actorq) /\ Head(actorq).name = name
      /\ UNCHANGED <<suspends, oda>>
  BY WayTypes DEF Acts, ActorFrame
<1>2. ActorHush
  BY SilenceParts
<1>3. /\ NotBehind(actorq', {"suspended"}, {"data"}) /\ NotBehind(actorq', {"data"}, {"resumed"})
      /\ name = "suspended" => "data" \notin Names(actorq')
      /\ Names(actorq) = Names(actorq') \cup {name}
  <2>1. /\ Names(actorq) = Names(actorq') \cup {name}
        /\ NotBehind(actorq', {"suspended"}, {"data"})
        /\ name \in {"suspended"} => \A x \in {"data"} : x \notin Names(actorq')
    BY <1>1, <1>2, Taken DEF ActorHush
  <2>2. NotBehind(actorq', {"data"}, {"resumed"})
    BY <1>1, <1>2, Taken DEF ActorHush
  <2> QED
    BY <2>1, <2>2
<1> QED
  BY <1>1, <1>2, <1>3 DEF ActorHush

LEMMA AddedHush ==
  ASSUME Inv, Silence, NEW x \in ActorEvents, x.name \notin {"data", "resumed"},
         actorq' = Append(actorq, x), UNCHANGED <<suspends, oda>>
  PROVE  ActorHush' /\ Names(actorq') = Names(actorq) \cup {x.name} /\ Same(actorq, actorq')
<1>1. actorq \in Seq(ActorEvents) /\ ActorHush
  BY WayTypes, SilenceParts
<1>2. /\ Names(actorq') = Names(actorq) \cup {x.name}
      /\ NotBehind(actorq', {"suspended"}, {"data"})
  BY <1>1, Added DEF ActorHush
<1>3. NotBehind(actorq', {"data"}, {"resumed"})
  BY <1>1, Added DEF ActorHush
<1> QED
  BY <1>1, <1>2, <1>3, QueuesAdded DEF ActorHush

LEMMA ToldHush ==
  ASSUME Inv, Silence, NEW m \in ToChild, m.name \notin {"Data", "Resumed"},
         toChild' = Append(toChild, m), UNCHANGED childVars
  PROVE  ChildHush' /\ Names(toChild') = Names(toChild) \cup {m.name} /\ Same(toChild, toChild')
<1>1. toChild \in Seq(ToChild) /\ ChildHush /\ child' = child
  BY WayTypes, SilenceParts DEF childVars
<1>2. /\ Names(toChild') = Names(toChild) \cup {m.name}
      /\ NotBehind(toChild', {"Suspended"}, {"Data"})
  BY <1>1, Added DEF ChildHush
<1>3. NotBehind(toChild', {"Data"}, {"Resumed"})
  BY <1>1, Added DEF ChildHush
<1> QED
  BY <1>1, <1>2, <1>3, QueuesAdded DEF ChildHush

LEMMA StillHush ==
  ASSUME Silence
  PROVE  /\ UNCHANGED <<suspends, oda, actorq>> => ActorHush'
         /\ UNCHANGED <<childVars, toChild>> => ChildHush'
         /\ ipc' # "open" \/ mState' # "TransferringData" => Awaited'
  BY SilenceParts DEF ActorHush, ChildHush, Awaited, childVars

LEMMA NoneLost == \A q, r : Less(q, q) /\ Same(q, q) /\ (Same(q, r) => Less(q, r))
  BY DEF Less, Same

\* The chunks, as far as the actor's events and messages leave them alone.
OwnStill == UNCHANGED <<mBufferedData, oda, output, delivered, suspends>>

LEMMA ActedData ==
  ASSUME Inv, NEW name, Acts(name)
  PROVE  /\ Less(actorq, actorq') /\ (name # "data" => Same(actorq, actorq'))
         /\ Names(actorq) = Names(actorq') \cup {name} /\ OwnStill
<1>1. actorq # <<>> /\ Head(actorq).name = name /\ actorq' = Tail(actorq) /\ OwnStill
  BY DEF Acts, ActorFrame, OwnStill
<1> QED
  BY <1>1, QueuesTaken, Acted

LEMMA SortedOutput == StraightInv => Ascending(output)
  BY DEF StraightInv, Sorts

LEMMA BrokenData ==
  ASSUME Inv, NEW state, Broken(state, mQueue)
  PROVE  Same(mQueue, mQueue') /\ mState' \in {state, "Disconnecting"}
<1>1. Event("flush") \in QueueEvents /\ Event("flush").name # "write"
  BY Kinds, Named
<1>2. mQueue' = mQueue \/ mQueue' = Append(mQueue, Event("flush"))
  BY DEF Broken
<1> QED
  BY <1>1, <1>2, QueuesAdded, NoneLost DEF Broken

\* The child is gone.
LEMMA ShutKept ==
  ASSUME Inv, StraightInv, UNCHANGED childVars, ipc' # "open", mState' = mState \/ ~IPCActive',
         toChild' = toChild, toParent' \in {toParent, <<>>}, Same(mQueue, mQueue'),
         Less(actorq, actorq'), Names(actorq') \subseteq Names(actorq), ActorHush',
         mDisconnected' = mDisconnected, OwnStill
  PROVE  StraightInv'
<1>1. IPCActive' => IPCActive
  BY DEF IPCActive
<1>2. Less(toParent, toParent')
  BY NoneLost, NoElements DEF Less
<1>3. Lessens
  BY <1>2, NoneLost, SortedOutput DEF Lessens, OwnStill
<1>4. Silence'
  BY StillHush, SilenceParts DEF StraightInv
<1>5. ParentBuffers'
  <2>1. ParentBuffers
    BY DEF StraightInv
  <2> QED
    BY <1>1, <2>1 DEF ParentBuffers, OwnStill, IPCActive
<1>6. ~Calm'
  BY DEF Calm
<1> QED
  BY <1>1, <1>3, <1>4, <1>5, <1>6, LessKept

LEMMA ToldShut ==
  ASSUME Inv, StraightInv, UNCHANGED childVars, NEW name, Acts(name), IPCActive, ipc # "open",
         NEW state \in {mState, "TransferringData", "Suspended", "Disconnected"},
         NEW m, EntersAndSends(state, mQueue, m),
         UNCHANGED <<mDisconnected, toParent, ipc>>
  PROVE  StraightInv'
<1>1. Broken(state, mQueue) /\ toChild' = toChild
  BY DEF EntersAndSends
<1>2. mState' = mState \/ ~IPCActive'
  BY <1>1 DEF Broken, IPCActive
<1>3. Same(mQueue, mQueue')
  BY <1>1, BrokenData
<1>4. ActorHush'
  BY ActedHush DEF StraightInv
<1> QED
  BY <1>1, <1>2, <1>3, <1>4, ActedData, ShutKept

\* The child is told of something that is not data.
LEMMA ToldOpen ==
  ASSUME Inv, StraightInv, UNCHANGED childVars, NEW name, Acts(name), name # "data",
         ipc = "open", IPCActive, IPCActive', mState' = "Uninitialized" => mState = "Uninitialized",
         NEW m \in ToChild, m.name # "Data", toChild' = Append(toChild, m), ChildHush', Awaited',
         UNCHANGED <<mDisconnected, toParent, ipc, mQueue>>
  PROVE  StraightInv'
<1>1. Same(actorq, actorq') /\ Names(actorq) = Names(actorq') \cup {name} /\ OwnStill
  BY ActedData
<1>2. Same(toChild, toChild')
  BY QueuesAdded
<1>3. Lessens
  BY <1>1, <1>2, NoneLost, SortedOutput DEF Lessens, OwnStill
<1>4. Silence'
  BY ActedHush, SilenceParts DEF StraightInv
<1>5. ParentBuffers'
  <2>1. ParentBuffers
    BY DEF StraightInv
  <2>2. "flush" \notin Names(mQueue') /\ "disconnected" \notin Names(actorq') /\ mState' # "Disconnected"
    BY <1>1, ActiveParent DEF Stopping, IPCActive
  <2> QED
    BY <1>1, <2>1, <2>2 DEF ParentBuffers, OwnStill
<1>6. Calm => ParentCalm'
  BY <1>1 DEF StraightInv, CalmInv, ParentCalm, OwnStill
<1>7. Theirs \subseteq Theirs'
  BY <1>1, <1>2 DEF Theirs, Same, OwnStill
<1> QED
  BY <1>3, <1>4, <1>5, <1>6, <1>7, LessKept

LEMMA ActStartStraight == Inv /\ StraightInv /\ UNCHANGED childVars /\ ActStart => StraightInv'
<1> SUFFICES ASSUME Inv, StraightInv, UNCHANGED childVars, ActStart PROVE StraightInv'
  OBVIOUS
<1>1. /\ Acts("start") /\ IPCActive /\ EntersAndSends("TransferringData", mQueue, Msg("StartRequest"))
      /\ UNCHANGED <<mDisconnected, toParent, ipc>>
  BY DEF ActStart, Tells
<1>2. CASE ipc # "open"
  BY <1>1, <1>2, ToldShut
<1>3. CASE ipc = "open"
  <2>1. mState = "Uninitialized" /\ channel # "new"
    BY <1>1, Acted DEF ActorStarts
  <2>2. toChild = <<>> /\ child.mState \in Unborn \cup {"Dead"}
    BY <2>1, InvParts DEF HandAt, Started
  <2>3. mState' = "TransferringData" /\ mQueue' = mQueue /\ toChild' = Append(toChild, Msg("StartRequest"))
    BY <1>1, <1>3 DEF EntersAndSends
  <2>4. Msg("StartRequest") \in ToChild /\ Msg("StartRequest").name = "StartRequest"
    BY Kinds, Named
  <2>5. ChildHush' /\ Names(toChild') = {"StartRequest"}
    BY <2>2, <2>3, <2>4, ToldHush, NoNames DEF StraightInv
  <2>6. Awaited'
    <3>1. child' = child
      BY DEF childVars
    <3> QED
      BY <2>2, <2>5, <3>1 DEF Awaited, Unborn
  <2>7. IPCActive'
    BY <2>3 DEF IPCActive
  <2> QED
    BY <1>1, <1>3, <2>3, <2>4, <2>5, <2>6, <2>7, ToldOpen
<1> QED
  BY <1>2, <1>3

LEMMA ActStopStraight == Inv /\ StraightInv /\ UNCHANGED childVars /\ ActStop => StraightInv'
<1> SUFFICES ASSUME Inv, StraightInv, UNCHANGED childVars, ActStop PROVE StraightInv'
  OBVIOUS
<1>1. /\ Acts("stop") /\ IPCActive /\ EntersAndSends(mState, mQueue, Msg("StopRequest"))
      /\ UNCHANGED <<mDisconnected, toParent, ipc>>
  BY DEF ActStop, Tells
<1>2. CASE ipc # "open"
  BY <1>1, <1>2, ToldShut
<1>3. CASE ipc = "open"
  <2>1. mState' = mState /\ mQueue' = mQueue /\ toChild' = Append(toChild, Msg("StopRequest"))
    BY <1>1, <1>3 DEF EntersAndSends
  <2>2. Msg("StopRequest") \in ToChild /\ Msg("StopRequest").name = "StopRequest"
    BY Kinds, Named
  <2>3. ChildHush' /\ Names(toChild') = Names(toChild) \cup {"StopRequest"}
    BY <2>1, <2>2, ToldHush DEF StraightInv
  <2>4. Awaited'
    <3>1. child' = child /\ Names(actorq) = Names(actorq') \cup {"stop"} /\ Awaited
      BY <1>1, ActedData, SilenceParts DEF childVars, StraightInv
    <3> QED
      BY <1>1, <2>1, <2>3, <3>1 DEF Awaited
  <2>5. IPCActive'
    BY <1>1, <2>1 DEF IPCActive
  <2> QED
    BY <1>1, <1>3, <2>1, <2>2, <2>3, <2>4, <2>5, ToldOpen
<1> QED
  BY <1>2, <1>3

LEMMA ActSuspendedStraight == Inv /\ StraightInv /\ UNCHANGED childVars /\ ActSuspended => StraightInv'
<1> SUFFICES ASSUME Inv, StraightInv, UNCHANGED childVars, ActSuspended PROVE StraightInv'
  OBVIOUS
<1>1. /\ Acts("suspended") /\ IPCActive /\ EntersAndSends("Suspended", mQueue, Msg("Suspended"))
      /\ UNCHANGED <<mDisconnected, toParent, ipc>>
  BY DEF ActSuspended, Tells
<1>2. CASE ipc # "open"
  BY <1>1, <1>2, ToldShut
<1>3. CASE ipc = "open"
  <2>1. mState' = "Suspended" /\ mQueue' = mQueue /\ toChild' = Append(toChild, Msg("Suspended"))
    BY <1>1, <1>3 DEF EntersAndSends
  <2>2. Msg("Suspended") \in ToChild /\ Msg("Suspended").name = "Suspended"
    BY Kinds, Named
  <2>3. ChildHush' /\ Awaited' /\ IPCActive'
    BY <2>1, <2>2, ToldHush, StillHush DEF StraightInv, IPCActive
  <2> QED
    BY <1>1, <1>3, <2>1, <2>2, <2>3, ToldOpen
<1> QED
  BY <1>2, <1>3

\* The child waits for this answer, so there is no data behind which it comes.
LEMMA ActResumedStraight == Inv /\ StraightInv /\ UNCHANGED childVars /\ ActResumed => StraightInv'
<1> SUFFICES ASSUME Inv, StraightInv, UNCHANGED childVars, ActResumed PROVE StraightInv'
  OBVIOUS
<1>1. /\ Acts("resumed") /\ IPCActive /\ EntersAndSends(mState, mQueue, Msg("Resumed"))
      /\ UNCHANGED <<mDisconnected, toParent, ipc>>
  BY DEF ActResumed, Tells
<1>2. CASE ipc # "open"
  BY <1>1, <1>2, ToldShut
<1>3. CASE ipc = "open"
  <2>1. mState' = mState /\ mQueue' = mQueue /\ toChild' = Append(toChild, Msg("Resumed"))
    BY <1>1, <1>3 DEF EntersAndSends
  <2>2. Msg("Resumed") \in ToChild /\ Msg("Resumed").name = "Resumed"
    BY Kinds, Named
  <2>3. /\ "resumed" \in Names(actorq) /\ child.mState = "Resuming" /\ ~Answering(toChild)
        /\ child' = child /\ ChildHush /\ Awaited /\ toChild \in Seq(ToChild)
    <3>1. "resumed" \in Names(actorq) /\ child.mState # "Dead"
      BY <1>1, <1>3, Acted, InvParts DEF HandAt, Started
    <3> QED
      BY <3>1, InvParts, SilenceParts, WayTypes DEF HandAt, Waits, OneToken, Agreeing, StraightInv, childVars
  <2>4. "Resumed" \notin Names(toChild) /\ "Suspended" \notin Names(toChild) /\ "Data" \notin Names(toChild)
    BY <2>3 DEF Answering, ChildHush
  <2>5. /\ Names(toChild') = Names(toChild) \cup {"Resumed"}
        /\ NotBehind(toChild', {"Suspended"}, {"Data"}) /\ NotBehind(toChild', {"Data"}, {"Resumed"})
    <3>1. /\ Names(toChild') = Names(toChild) \cup {"Resumed"}
          /\ NotBehind(toChild', {"Suspended"}, {"Data"})
      BY <2>1, <2>2, <2>3, Added DEF ChildHush
    <3>2. NotBehind(toChild', {"Data"}, {"Resumed"})
      BY <2>1, <2>2, <2>3, <2>4, Added DEF ChildHush
    <3> QED
      BY <3>1, <3>2
  <2>6. ChildHush' /\ Awaited'
    BY <2>3, <2>4, <2>5 DEF ChildHush, Awaited
  <2>7. IPCActive'
    BY <1>1, <2>1 DEF IPCActive
  <2> QED
    BY <1>1, <1>3, <2>1, <2>2, <2>6, <2>7, ToldOpen
<1> QED
  BY <1>2, <1>3

\* An event is taken, and nothing follows from it.
LEMMA DroppedStraight ==
  ASSUME Inv, StraightInv, UNCHANGED childVars, NEW name, Acts(name),
         UNCHANGED <<mState, mQueue, mDisconnected, ipcVars>>,
         name = "resumed" => ~IPCActive, name = "data" => ~Calm
  PROVE  StraightInv'
<1>1. /\ Less(actorq, actorq') /\ (name # "data" => Same(actorq, actorq'))
      /\ Names(actorq) = Names(actorq') \cup {name} /\ OwnStill
  BY ActedData
<1>2. toChild' = toChild /\ toParent' = toParent /\ ipc' = ipc /\ (IPCActive' <=> IPCActive)
      /\ child' = child
  BY DEF ipcVars, IPCActive, childVars
<1>3. Lessens
  BY <1>1, <1>2, NoneLost, SortedOutput DEF Lessens, OwnStill
<1>4. Silence'
  <2>1. Awaited'
    BY <1>1, <1>2, SilenceParts DEF StraightInv, Awaited, IPCActive
  <2> QED
    BY <1>2, <2>1, ActedHush, StillHush, SilenceParts DEF StraightInv
<1>5. ParentBuffers'
  <2>1. ParentBuffers
    BY DEF StraightInv
  <2> QED
    BY <1>1, <1>2, <2>1 DEF ParentBuffers, OwnStill
<1>6. Calm => ParentCalm'
  BY <1>1, <1>2 DEF StraightInv, CalmInv, ParentCalm, OwnStill
<1>7. Calm => Theirs \subseteq Theirs'
  BY <1>1, <1>2 DEF Theirs, Same, OwnStill
<1> QED
  BY <1>2, <1>3, <1>4, <1>5, <1>6, <1>7, LessKept

LEMMA ActUnheardStraight == Inv /\ StraightInv /\ UNCHANGED childVars /\ ActUnheard => StraightInv'
<1> SUFFICES ASSUME Inv, StraightInv, UNCHANGED childVars, ActUnheard PROVE StraightInv'
  OBVIOUS
<1>1. PICK name \in {"redirected", "start", "stop", "suspended", "resumed"} : Acts(name)
  BY DEF ActUnheard
<1>2. ~IPCActive /\ UNCHANGED <<mState, mQueue, mDisconnected, ipcVars>> /\ name # "data"
  BY DEF ActUnheard
<1> QED
  BY <1>1, <1>2, DroppedStraight

\* A filter that script keeps does not drop data.
LEMMA ActDropDataStraight == Inv /\ StraightInv /\ UNCHANGED childVars /\ ActDropData => StraightInv'
<1> SUFFICES ASSUME Inv, StraightInv, UNCHANGED childVars, ActDropData PROVE StraightInv'
  OBVIOUS
<1>1. Acts("data") /\ mState # "TransferringData" /\ UNCHANGED <<mState, mQueue, mDisconnected, ipcVars>>
  BY DEF ActDropData
<1>2. "data" \in Names(actorq) /\ mState # "Uninitialized"
  BY <1>1, Acted DEF ActorStarts
<1>3. ~Calm
  <2> SUFFICES ASSUME Calm PROVE FALSE
    OBVIOUS
  <2>1. ParentCalm
    BY DEF StraightInv, CalmInv
  <2>2. mState = "Suspended"
    BY <1>1, <1>2, <2>1, InvParts DEF ParentCalm, IPCActive, TypeInv, ParentTypes
  <2>3. suspends = 1 /\ "suspended" \notin Names(actorq)
    BY <2>2, InvParts DEF Suspends, Agreeing
  <2> QED
    BY <1>2, <2>3 DEF StraightInv, Silence
<1> QED
  BY <1>1, <1>3, DroppedStraight

LEMMA ActCloseStraight == Inv /\ StraightInv /\ UNCHANGED childVars /\ (ActClose \/ ActError) => StraightInv'
<1> SUFFICES ASSUME Inv, StraightInv, UNCHANGED childVars, ActClose \/ ActError PROVE StraightInv'
  OBVIOUS
<1>1. CASE ActClose /\ ~ActorDestroy
  BY <1>1, DroppedStraight DEF ActClose
<1>2. CASE ActorDestroy
  <2>1. /\ ipc' # "open" /\ toChild' = toChild /\ toParent' \in {toParent, <<>>}
        /\ mDisconnected' = mDisconnected /\ Broken(mState, mQueue)
    BY <1>2 DEF ActorDestroy, Broken
  <2>2. Same(mQueue, mQueue') /\ (mState' = mState \/ ~IPCActive')
    BY <2>1, BrokenData DEF IPCActive
  <2>3. Less(actorq, actorq') /\ Names(actorq') \subseteq Names(actorq) /\ ActorHush' /\ OwnStill
    <3>1. CASE ActError
      <4>1. actorq' = actorq /\ OwnStill
        BY <3>1 DEF ActError, ActorFrame, OwnStill
      <4> QED
        BY <4>1, NoneLost, StillHush DEF StraightInv, OwnStill
    <3>2. CASE ActClose
      <4>1. Acts("close")
        BY <3>2 DEF ActClose
      <4> QED
        BY <4>1, ActedData, ActedHush DEF StraightInv
    <3> QED
      BY <3>1, <3>2
  <2> QED
    BY <2>1, <2>2, <2>3, ShutKept
<1> QED
  BY <1>1, <1>2 DEF ActError

\* A filter that is disconnecting is not one that script keeps.
LEMMA ActDisconnectedStraight == Inv /\ StraightInv /\ UNCHANGED childVars /\ ActDisconnected => StraightInv'
<1> SUFFICES ASSUME Inv, StraightInv, UNCHANGED childVars, ActDisconnected PROVE StraightInv'
  OBVIOUS
<1>1. Acts("disconnected") /\ UNCHANGED <<mQueue, toChild, toParent, ipc>>
  BY DEF ActDisconnected, ipcVars
<1>2. /\ Same(actorq, actorq') /\ Names(actorq) = Names(actorq') \cup {"disconnected"} /\ OwnStill
      /\ ActorHush'
  BY <1>1, ActedData, ActedHush DEF StraightInv
<1>3. mState = "Disconnecting"
  BY <1>2, InvParts DEF HandAt, Flushes
<1>4. mState' = "Disconnected" /\ mDisconnected' = TRUE
  BY <1>3 DEF ActDisconnected
<1>5. ~IPCActive' /\ ~Calm
  BY <1>3, <1>4 DEF IPCActive, StraightInv, CalmInv, ParentCalm
<1>6. Lessens
  BY <1>1, <1>2, <1>5, NoneLost, SortedOutput DEF Lessens, OwnStill
<1>7. Silence'
  BY <1>1, <1>2, <1>4, StillHush, SilenceParts DEF StraightInv
<1>8. ParentBuffers'
  <2>1. ParentBuffers
    BY DEF StraightInv
  <2> QED
    BY <1>1, <1>2, <1>4, <1>5, <2>1 DEF ParentBuffers
<1> QED
  BY <1>1, <1>5, <1>6, <1>7, <1>8, LessKept

\* The channel's request is another one: its data passes the filter.
LEMMA ActRedirectedStraight == Inv /\ StraightInv /\ UNCHANGED childVars /\ ActRedirected => StraightInv'
<1> SUFFICES ASSUME Inv, StraightInv, UNCHANGED childVars, ActRedirected PROVE StraightInv'
  OBVIOUS
<1>1. /\ Acts("redirected") /\ IPCActive /\ EntersAndSends("Disconnected", mQueue, Msg("Error"))
      /\ UNCHANGED <<mDisconnected, toParent, ipc>>
  BY DEF ActRedirected, Tells
<1>2. CASE ipc # "open"
  BY <1>1, <1>2, ToldShut
<1>3. CASE ipc = "open"
  <2>1. mState' = "Disconnected" /\ mQueue' = mQueue /\ toChild' = Append(toChild, Msg("Error"))
    BY <1>1, <1>3 DEF EntersAndSends
  <2>2. /\ Same(actorq, actorq') /\ Names(actorq) = Names(actorq') \cup {"redirected"} /\ OwnStill
        /\ ActorHush'
    BY <1>1, ActedData, ActedHush DEF StraightInv
  <2>3. mState = "Uninitialized" /\ toChild = <<>>
    <3>1. mState = "Uninitialized"
      BY <1>1, Acted DEF ActorStarts
    <3> QED
      BY <3>1, InvParts DEF HandAt, Started
  <2>4. mDisconnected /\ oda = 0 /\ "data" \notin Names(actorq)
    BY <2>2, <2>3 DEF StraightInv, ParentBuffers
  <2>5. Msg("Error") \in ToChild /\ Msg("Error").name = "Error"
    BY Kinds, Named
  <2>6. ChildHush' /\ Names(toChild') = {"Error"} /\ Same(toChild, toChild')
    BY <2>1, <2>3, <2>5, ToldHush, NoNames DEF StraightInv
  <2>7. Silence'
    BY <2>1, <2>2, <2>6, StillHush, SilenceParts DEF StraightInv
  <2>8. ~IPCActive'
    BY <2>1 DEF IPCActive
  <2>9. Lessens
    BY <1>1, <2>1, <2>2, <2>6, <2>8, NoneLost, SortedOutput DEF Lessens, OwnStill
  <2>10. ParentBuffers'
    BY <1>1, <2>1, <2>4, <2>6, <2>8 DEF ParentBuffers
  <2>11. ParentCalm'
    BY <1>1, <2>1, <2>2, <2>4 DEF ParentCalm, OwnStill
  <2>12. Theirs \subseteq Theirs'
    BY <1>1, <2>1, <2>2, <2>6 DEF Theirs, Same, OwnStill
  <2> QED
    BY <1>1, <1>3, <2>7, <2>8, <2>9, <2>10, <2>11, <2>12, LessKept
<1> QED
  BY <1>2, <1>3

LEMMA DataSent ==
  ASSUME Inv, NEW n \in Chunks, toChild' = Append(toChild, Carrying("Data", n))
  PROVE  /\ Names(toChild') = Names(toChild) \cup {"Data"}
         /\ ChunksIn(toChild') = ChunksIn(toChild) \cup {n}
         /\ InOrder(toChild) /\ Below(ChunksIn(toChild), {n}) => InOrder(toChild')
         /\ \A F, T : NotBehind(toChild, F, T) /\ ("Data" \in T => \A y \in F : y \notin Names(toChild))
                      => NotBehind(toChild', F, T)
<1> DEFINE m == Carrying("Data", n)
<1>1. m \in ToChild /\ m.name = "Data" /\ m.data = n /\ n # 0 /\ {n} \ {0} = {n}
  BY Kinds, Named, Plain DEF Chunks
<1>2. toChild \in Seq(ToChild) /\ toChild' = Append(toChild, m)
  BY WayTypes
<1> HIDE DEF m
<1>a. toChild \in Seq(ToChild) /\ m \in ToChild
  BY <1>1, <1>2
<1>b. /\ ChunksIn(Append(toChild, m)) = ChunksIn(toChild) \cup ({m.data} \ {0})
      /\ InOrder(toChild) /\ (m.data # 0 => Below(ChunksIn(toChild), {m.data}))
           => InOrder(Append(toChild, m))
  BY <1>a, DataAdded
<1>3. /\ ChunksIn(toChild') = ChunksIn(toChild) \cup ({m.data} \ {0})
      /\ InOrder(toChild) /\ (m.data # 0 => Below(ChunksIn(toChild), {m.data})) => InOrder(toChild')
  BY <1>2, <1>b
<1>4. /\ Names(toChild') = Names(toChild) \cup {"Data"}
      /\ \A F, T : NotBehind(toChild, F, T) /\ ("Data" \in T => \A y \in F : y \notin Names(toChild))
                   => NotBehind(toChild', F, T)
  BY <1>1, <1>2, Added
<1> QED
  BY <1>1, <1>3, <1>4

\* The oldest event of the actor's queue has a chunk.
LEMMA ActedChunk ==
  ASSUME Inv, StraightInv, Acts("data"), IPCActive
  PROVE  \E n \in Chunks : /\ n = Head(actorq).data
                           /\ ChunksIn(actorq) = ChunksIn(actorq') \cup {n}
                           /\ Below({n}, ChunksIn(actorq')) /\ InOrder(actorq')
<1> DEFINE n == Head(actorq).data
<1>1. /\ actorq # <<>> /\ Head(actorq).name = "data" /\ actorq' = Tail(actorq)
      /\ actorq \in Seq(ActorEvents) /\ Head(actorq) \in ActorEvents /\ InOrder(actorq)
  BY WayTypes, TailOf DEF Acts, StraightInv, Sorts
<1>2. n \in Chunks
  BY <1>1, Chunked
<1>3. {n} \ {0} = {n}
  BY <1>2 DEF Chunks
<1>4. /\ ChunksIn(actorq) = ChunksIn(actorq') \cup ({n} \ {0})
      /\ InOrder(actorq') /\ Below({n} \ {0}, ChunksIn(actorq'))
  BY <1>1, DataTaken
<1> QED
  BY <1>2, <1>3, <1>4

\* The child is neither suspended, nor does it resume without that a message says so.
LEMMA ActSendHush ==
  ASSUME Inv, StraightInv, UNCHANGED childVars, Acts("data"), ipc = "open", mState = "TransferringData",
         NEW n \in Chunks, toChild' = Append(toChild, Carrying("Data", n)),
         UNCHANGED <<mState, mQueue, ipc>>
  PROVE  Silence'
<1>1. /\ actorq # <<>> /\ actorq' = Tail(actorq) /\ actorq \in Seq(ActorEvents)
      /\ Head(actorq).name = "data" /\ child' = child
  BY WayTypes DEF Acts, childVars
<1>2. ActorHush /\ ChildHush /\ Awaited
  BY SilenceParts DEF StraightInv
<1>3. Names(actorq) = Names(actorq') \cup {"data"}
  BY Acted
<1>4. "resumed" \notin Names(actorq)
  <2>1. "data" \in {"data"} => \A x \in {"resumed"} : x \notin Names(actorq')
    BY <1>1, <1>2, Taken DEF ActorHush
  <2> QED
    BY <1>3, <2>1
<1>5. "resume" \notin Names(mQueue)
  <2> SUFFICES ASSUME "resume" \in Names(mQueue) PROVE FALSE
    OBVIOUS
  <2>1. suspends = 1 /\ "suspended" \notin Names(actorq)
    BY InvParts DEF Suspends, HandAt, OneToken, Asking, Agreeing, Resuming
  <2> QED
    BY <1>2, <1>3, <2>1 DEF ActorHush
<1>6. /\ child.mState # "Suspended" /\ "Suspended" \notin Names(toChild)
      /\ child.mState = "Resuming" => "Resumed" \in Names(toChild)
  BY <1>2, <1>4, <1>5 DEF Awaited
<1>7. /\ Names(toChild') = Names(toChild) \cup {"Data"}
      /\ NotBehind(toChild', {"Suspended"}, {"Data"}) /\ NotBehind(toChild', {"Data"}, {"Resumed"})
  BY <1>2, <1>6, DataSent DEF ChildHush
<1>8. ChildHush' /\ Awaited'
  BY <1>1, <1>6, <1>7 DEF ChildHush, Awaited
<1> QED
  BY <1>8, ActedHush, SilenceParts DEF StraightInv

LEMMA ActSendDataStraight == Inv /\ StraightInv /\ UNCHANGED childVars /\ ActSendData => StraightInv'
<1> SUFFICES ASSUME Inv, StraightInv, UNCHANGED childVars, ActSendData PROVE StraightInv'
  OBVIOUS
<1>1. /\ Acts("data") /\ mState = "TransferringData" /\ IPCActive
      /\ EntersAndSends(mState, mQueue, Carrying("Data", Head(actorq).data))
      /\ UNCHANGED <<mDisconnected, toParent, ipc>>
  BY DEF ActSendData, IPCActive
<1>2. CASE ipc # "open"
  BY <1>1, <1>2, ToldShut
<1>3. CASE ipc = "open"
  <2>1. PICK n \in Chunks : /\ n = Head(actorq).data
                            /\ ChunksIn(actorq) = ChunksIn(actorq') \cup {n}
                            /\ Below({n}, ChunksIn(actorq')) /\ InOrder(actorq')
    BY <1>1, ActedChunk
  <2>2. mState' = mState /\ mQueue' = mQueue /\ toChild' = Append(toChild, Carrying("Data", n))
        /\ (IPCActive' <=> IPCActive)
    BY <1>1, <1>3, <2>1 DEF EntersAndSends, IPCActive
  <2>3. Names(actorq) = Names(actorq') \cup {"data"} /\ OwnStill
    BY <1>1, ActedData
  <2>4. Below(ChunksIn(toChild), {n})
    <3>1. PICK i \in 1..9, j \in 1..9 : i = 6 /\ j = 7
      OBVIOUS
    <3>2. Below(Outward[6], Outward[7])
      BY <3>1, Between DEF StraightInv
    <3> QED
      BY <1>1, <1>3, <2>1, <3>2, OutwardStages DEF Below
  <2>5. InOrder(toChild') /\ ChunksIn(toChild') = ChunksIn(toChild) \cup {n}
        /\ Names(toChild') = Names(toChild) \cup {"Data"}
    BY <2>2, <2>4, DataSent DEF StraightInv, Sorts
  <2>6. /\ kept' = kept /\ Buffer' = Buffer /\ (MayWrite' => MayWrite) /\ Later' = Later
    BY <2>3, <1>1, ChildStill DEF OwnStill, Later
  <2>7. Sorts'
    BY <1>1, <2>1, <2>2, <2>3, <2>5, <2>6 DEF StraightInv, Sorts, OwnStill
  <2>8. Ordered(Inward')
    <3>1. PICK i \in 1..6, j \in 1..6 : i = 4 /\ j = 3
      OBVIOUS
    <3>2. /\ Inward'[1] = Inward[1] /\ Inward'[2] = Inward[2] /\ Inward'[3] = Inward[3] \cup {n}
          /\ Inward'[4] \subseteq Inward[4] /\ {n} \subseteq Inward[4] /\ Below({n}, Inward'[4])
          /\ Inward'[5] = Inward[5] /\ Inward'[6] = Inward[6]
      BY <1>1, <2>1, <2>2, <2>3, <2>5, <2>6, InwardStages, InwardNext DEF OwnStill
    <3> QED
      BY <3>1, <3>2, InwardPassed DEF StraightInv
  <2>9. Ordered(Outward')
    <3>1. PICK i \in 1..9, j \in 1..9 : i = 7 /\ j = 6
      OBVIOUS
    <3>2. /\ Outward'[1] = Outward[1] /\ Outward'[2] = Outward[2] /\ Outward'[3] = Outward[3]
          /\ Outward'[4] \subseteq Outward[4] /\ Outward'[5] \subseteq Outward[5]
          /\ Outward'[6] = Outward[6] \cup {n} /\ Outward'[7] \subseteq Outward[7]
          /\ {n} \subseteq Outward[7] /\ Below({n}, Outward'[7])
          /\ Outward'[8] = Outward[8] /\ Outward'[9] = Outward[9]
      BY <1>1, <1>3, <2>1, <2>2, <2>3, <2>5, <2>6, OutwardStages, OutwardNext DEF OwnStill
    <3> QED
      BY <3>1, <3>2, OutwardPassed DEF StraightInv
  <2>10. Silence'
    BY <1>1, <1>3, <2>2, ActSendHush
  <2>11. ParentBuffers'
    <3>1. ParentBuffers
      BY DEF StraightInv
    <3>2. "flush" \notin Names(mQueue) /\ "disconnected" \notin Names(actorq)
      BY <1>1, ActiveParent DEF Stopping
    <3> QED
      BY <1>1, <2>2, <2>3, <3>1, <3>2 DEF ParentBuffers, OwnStill
  <2>12. Calm => ParentCalm' /\ 1..delivered' \subseteq Held'
    <3> SUFFICES ASSUME Calm PROVE ParentCalm' /\ 1..delivered' \subseteq Held'
      OBVIOUS
    <3>1. ParentCalm /\ 1..delivered \subseteq Held
      BY DEF StraightInv, CalmInv
    <3>2. Theirs \subseteq Theirs'
      BY <1>1, <2>1, <2>2, <2>3, <2>5 DEF Theirs, OwnStill
    <3>3. ParentCalm'
      BY <1>1, <2>2, <2>3, <3>1 DEF ParentCalm, OwnStill
    <3> QED
      BY <2>3, <2>6, <3>1, <3>2, <3>3, TheirsHeld DEF OwnStill
  <2> QED
    BY <1>1, <2>7, <2>8, <2>9, <2>10, <2>11, <2>12, SteadyKept DEF Ways
<1> QED
  BY <1>2, <1>3

LEMMA ReceivedData ==
  ASSUME Inv, NEW name, ParentReceives(name)
  PROVE  /\ Less(toParent, toParent') /\ (name # "Write" => Same(toParent, toParent'))
         /\ ipc = "open" /\ ipc' = "open" /\ mDisconnected' = mDisconnected /\ OwnStill
<1>1. /\ toParent # <<>> /\ Head(toParent).name = name /\ toParent' = Tail(toParent)
      /\ ipc = "open" /\ ipc' = "open" /\ mDisconnected' = mDisconnected /\ OwnStill
  BY DEF ParentReceives, ActorFrame, OwnStill
<1> QED
  BY <1>1, QueuesTaken

\* A message that is not data moves no chunk.
LEMMA HeardKept ==
  ASSUME Inv, StraightInv, UNCHANGED childVars, NEW name, ParentReceives(name), name # "Write",
         IPCActive' => IPCActive,
         Same(mQueue, mQueue'), Same(actorq, actorq'), Same(toChild, toChild'),
         Silence', ParentBuffers', Calm => ParentCalm'
  PROVE  StraightInv'
<1>1. Same(toParent, toParent') /\ ipc = "open" /\ OwnStill
  BY ReceivedData
<1>2. Lessens
  BY <1>1, NoneLost, SortedOutput DEF Lessens, OwnStill
<1>3. Theirs \subseteq Theirs'
  BY <1>1 DEF Theirs, Same, OwnStill
<1> QED
  BY <1>1, <1>2, <1>3, LessKept

\* Where an event of this name is added to mQueue.
LEMMA Enqueued ==
  ASSUME Inv, NEW name \in {"emitStop", "emitStopOnce", "suspend", "resume", "resumeOnly", "flush", "leaveGroup"},
         mQueue' = Append(mQueue, Event(name))
  PROVE  Same(mQueue, mQueue') /\ Names(mQueue') = Names(mQueue) \cup {name}
<1>1. Event(name) \in QueueEvents /\ Event(name).name = name /\ name # "write"
  BY Kinds, Named
<1>2. Names(mQueue') = Names(mQueue) \cup {name}
  BY <1>1, WayTypes, Added
<1> QED
  BY <1>1, <1>2, QueuesAdded

LEMMA DestroyData ==
  ASSUME Inv, Silence, Destroy, UNCHANGED <<suspends, oda>>
  PROVE  Same(actorq, actorq') /\ Names(actorq') = Names(actorq) \cup {"close"} /\ ActorHush'
<1>1. /\ actorq' = Append(actorq, Event("close")) /\ Event("close") \in ActorEvents
      /\ Event("close").name = "close"
  BY Kinds, Named DEF Destroy
<1> QED
  BY <1>1, AddedHush

LEMMA RecvSuspendStraight == Inv /\ StraightInv /\ UNCHANGED childVars /\ RecvSuspend => StraightInv'
<1> SUFFICES ASSUME Inv, StraightInv, UNCHANGED childVars, RecvSuspend PROVE StraightInv'
  OBVIOUS
<1>1. /\ ParentReceives("Suspend") /\ UNCHANGED <<mState, actorq, toChild>>
      /\ mQueue' = Append(mQueue, Event("suspend"))
  BY DEF RecvSuspend, Enqueues
<1>2. /\ mDisconnected' = mDisconnected /\ OwnStill /\ ipc = "open" /\ ipc' = "open" /\ child' = child
      /\ (IPCActive' <=> IPCActive)
  BY <1>1, ReceivedData DEF childVars, IPCActive
<1>3. Same(mQueue, mQueue') /\ Names(mQueue') = Names(mQueue) \cup {"suspend"}
  BY <1>1, Enqueued
<1>4. Silence'
  <2>1. Awaited'
    BY <1>1, <1>2, <1>3, SilenceParts DEF StraightInv, Awaited
  <2> QED
    BY <1>1, <1>2, <2>1, StillHush, SilenceParts DEF StraightInv, OwnStill
<1>5. ParentBuffers'
  BY <1>1, <1>2, <1>3 DEF StraightInv, ParentBuffers, OwnStill
<1>6. Calm => ParentCalm'
  BY <1>1, <1>2 DEF StraightInv, CalmInv, ParentCalm, OwnStill
<1> QED
  BY <1>1, <1>2, <1>3, <1>4, <1>5, <1>6, NoneLost, HeardKept

LEMMA RecvResumeStraight == Inv /\ StraightInv /\ UNCHANGED childVars /\ RecvResume => StraightInv'
<1> SUFFICES ASSUME Inv, StraightInv, UNCHANGED childVars, RecvResume PROVE StraightInv'
  OBVIOUS
<1>1. /\ ParentReceives("Resume") /\ mState = "Suspended" /\ mState' = "TransferringData"
      /\ UNCHANGED <<actorq, toChild>> /\ mQueue' = Append(mQueue, Event("resume"))
  BY DEF RecvResume, Enqueues
<1>2. /\ mDisconnected' = mDisconnected /\ OwnStill /\ ipc = "open" /\ ipc' = "open" /\ child' = child
      /\ IPCActive' /\ IPCActive
  BY <1>1, ReceivedData DEF childVars, IPCActive
<1>3. Same(mQueue, mQueue') /\ Names(mQueue') = Names(mQueue) \cup {"resume"}
  BY <1>1, Enqueued
<1>4. ~Answering(toChild) /\ child.mState = "Resuming"
  BY <1>1, Received, InvParts DEF HandAt, OneToken, Waits, Requesting
<1>5. Silence'
  <2>1. Awaited'
    BY <1>1, <1>2, <1>3, <1>4 DEF Awaited, Answering
  <2> QED
    BY <1>1, <1>2, <2>1, StillHush, SilenceParts DEF StraightInv, OwnStill
<1>6. ParentBuffers'
  BY <1>1, <1>2, <1>3 DEF StraightInv, ParentBuffers, OwnStill
<1>7. Calm => ParentCalm'
  BY <1>1, <1>2 DEF StraightInv, CalmInv, ParentCalm, OwnStill
<1> QED
  BY <1>1, <1>2, <1>3, <1>5, <1>6, <1>7, NoneLost, HeardKept

LEMMA RecvDisconnectStraight == Inv /\ StraightInv /\ UNCHANGED childVars /\ RecvDisconnect => StraightInv'
<1> SUFFICES ASSUME Inv, StraightInv, UNCHANGED childVars, RecvDisconnect PROVE StraightInv'
  OBVIOUS
<1>1. /\ ParentReceives("Disconnect") /\ mState \in {"Suspended", "TransferringData"}
      /\ mState' = "Disconnecting" /\ actorq' = actorq
      /\ toChild' = Append(toChild, Msg("FlushData")) /\ mQueue' = mQueue \o ResumeFirst
  BY DEF RecvDisconnect, EntersAndSends, ParentReceives
<1>2. /\ mDisconnected' = mDisconnected /\ OwnStill /\ ipc = "open" /\ ipc' = "open" /\ child' = child
      /\ IPCActive /\ ~IPCActive'
  BY <1>1, ReceivedData DEF childVars, IPCActive
<1>3. Same(mQueue, mQueue') /\ Names(mQueue') \subseteq Names(mQueue) \cup {"resumeOnly"}
  <2>1. mQueue' = mQueue \/ mQueue' = Append(mQueue, Event("resumeOnly"))
    <3>1. mQueue \in Seq(QueueEvents)
      BY WayTypes
    <3> QED
      BY <1>1, <3>1 DEF ResumeFirst
  <2> QED
    BY <2>1, Enqueued, NoneLost
<1>4. Msg("FlushData") \in ToChild /\ Msg("FlushData").name = "FlushData"
  BY Kinds, Named
<1>5. /\ ChildHush' /\ Names(toChild') = Names(toChild) \cup {"FlushData"} /\ Same(toChild, toChild')
  BY <1>1, <1>4, ToldHush DEF StraightInv
<1>6. Silence'
  BY <1>1, <1>2, <1>5, StillHush, SilenceParts DEF StraightInv, OwnStill
<1>7. ParentBuffers'
  <2>1. "flush" \notin Names(mQueue') /\ "disconnected" \notin Names(actorq)
    BY <1>2, <1>3, ActiveParent DEF Stopping
  <2> QED
    BY <1>1, <1>2, <2>1 DEF StraightInv, ParentBuffers
<1>8. ~Calm
  <2>1. child.mState = "Disconnecting"
    BY <1>1, Received, InvParts DEF HandAt, Waits
  <2> QED
    BY <2>1 DEF StraightInv, CalmInv, Healthy, Writers, Unborn, Ready
<1> QED
  BY <1>1, <1>2, <1>3, <1>5, <1>6, <1>7, <1>8, NoneLost, HeardKept

LEMMA RecvIgnoredStraight == Inv /\ StraightInv /\ UNCHANGED childVars /\ RecvIgnored => StraightInv'
<1> SUFFICES ASSUME Inv, StraightInv, UNCHANGED childVars, RecvIgnored PROVE StraightInv'
  OBVIOUS
<1>1. PICK name \in {"Suspend", "Resume", "Disconnect"} : ParentReceives(name)
  BY DEF RecvIgnored
<1>2. UNCHANGED <<mState, mQueue, actorq, toChild>> /\ name # "Write"
  BY DEF RecvIgnored
<1>3. /\ mDisconnected' = mDisconnected /\ OwnStill /\ ipc = "open" /\ ipc' = "open" /\ child' = child
      /\ (IPCActive' <=> IPCActive)
  BY <1>1, <1>2, ReceivedData DEF childVars, IPCActive
<1>4. Silence'
  <2>1. Awaited'
    BY <1>2, <1>3, SilenceParts DEF StraightInv, Awaited
  <2> QED
    BY <1>2, <1>3, <2>1, StillHush, SilenceParts DEF StraightInv, OwnStill
<1>5. ParentBuffers'
  BY <1>2, <1>3 DEF StraightInv, ParentBuffers, OwnStill
<1>6. Calm => ParentCalm'
  BY <1>2, <1>3 DEF StraightInv, CalmInv, ParentCalm, OwnStill
<1> QED
  BY <1>1, <1>2, <1>3, <1>4, <1>5, <1>6, NoneLost, HeardKept

LEMMA RecvFlushedDataStraight == Inv /\ StraightInv /\ UNCHANGED childVars /\ RecvFlushedData => StraightInv'
<1> SUFFICES ASSUME Inv, StraightInv, UNCHANGED childVars, RecvFlushedData PROVE StraightInv'
  OBVIOUS
<1>1. /\ ParentReceives("FlushedData") /\ Destroy /\ UNCHANGED <<mState, toChild>>
      /\ mQueue' = Append(mQueue, Event("flush"))
  BY DEF RecvFlushedData, Enqueues
<1>2. /\ mDisconnected' = mDisconnected /\ OwnStill /\ ipc = "open" /\ ipc' = "open" /\ child' = child
  BY <1>1, ReceivedData DEF childVars
<1>3. child.mState = "Disconnected" /\ mState = "Disconnecting" /\ "Data" \notin Names(toChild)
  <2>1. "FlushedData" \in Names(toParent) /\ child.mState # "Dead"
    BY <1>1, Received
  <2>2. child.mState = "Disconnected" /\ mState = "Disconnecting"
    BY <1>2, <2>1, InvParts DEF HandAt, Waits, Flushes
  <2> QED
    BY <2>2, InvParts DEF HandAt, Flows, Flowing, Over
<1>4. ~IPCActive /\ ~IPCActive' /\ ~Calm
  BY <1>1, <1>3 DEF IPCActive, StraightInv, CalmInv, Healthy, Writers, Unborn, Ready
<1>5. Same(mQueue, mQueue') /\ Names(mQueue') = Names(mQueue) \cup {"flush"}
  BY <1>1, Enqueued
<1>6. Same(actorq, actorq') /\ Names(actorq') = Names(actorq) \cup {"close"} /\ ActorHush'
  BY <1>1, <1>2, DestroyData DEF StraightInv, OwnStill
<1>7. Silence'
  BY <1>1, <1>3, <1>6, StillHush, SilenceParts DEF StraightInv
<1>8. ParentBuffers'
  BY <1>1, <1>2, <1>3, <1>4, <1>5, <1>6 DEF StraightInv, ParentBuffers
<1> QED
  BY <1>1, <1>2, <1>4, <1>5, <1>6, <1>7, <1>8, NoneLost, HeardKept

LEMMA RecvCloseStraight == Inv /\ StraightInv /\ UNCHANGED childVars /\ RecvClose => StraightInv'
<1> SUFFICES ASSUME Inv, StraightInv, UNCHANGED childVars, RecvClose PROVE StraightInv'
  OBVIOUS
<1>1. /\ ParentReceives("Close") /\ Destroy /\ mState' = "Closed"
      /\ toChild' = Append(toChild, Msg("Closed"))
      /\ mQueue' = mQueue \/ mQueue' = Append(mQueue, Event("emitStop"))
  BY DEF RecvClose
<1>2. /\ mDisconnected' = mDisconnected /\ OwnStill /\ ipc = "open" /\ ipc' = "open" /\ child' = child
      /\ ~IPCActive'
  BY <1>1, ReceivedData DEF childVars, IPCActive
<1>3. child.mState = "Closing" /\ ~Finished /\ ~Stopping(mQueue)
  BY <1>1, Received, InvParts DEF HandAt, Waits
<1>4. ~Calm
  BY <1>3 DEF StraightInv, CalmInv, Healthy, Writers, Unborn, Ready
<1>5. Same(mQueue, mQueue') /\ Names(mQueue') \subseteq Names(mQueue) \cup {"emitStop"}
  BY <1>1, Enqueued, NoneLost
<1>6. Same(actorq, actorq') /\ Names(actorq') = Names(actorq) \cup {"close"} /\ ActorHush'
  BY <1>1, <1>2, DestroyData DEF StraightInv, OwnStill
<1>7. ChildHush' /\ Names(toChild') = Names(toChild) \cup {"Closed"} /\ Same(toChild, toChild')
  <2>1. Msg("Closed") \in ToChild /\ Msg("Closed").name = "Closed"
    BY Kinds, Named
  <2> QED
    BY <1>1, <2>1, ToldHush DEF StraightInv
<1>8. Silence'
  BY <1>1, <1>6, <1>7, StillHush, SilenceParts DEF StraightInv
<1>9. ParentBuffers'
  BY <1>1, <1>2, <1>3, <1>5, <1>6 DEF StraightInv, ParentBuffers, Finished, Stopping
<1> QED
  BY <1>1, <1>2, <1>4, <1>5, <1>6, <1>7, <1>8, <1>9, NoneLost, HeardKept

LEMMA RecvDestroyStraight == Inv /\ StraightInv /\ UNCHANGED childVars /\ RecvDestroy => StraightInv'
<1> SUFFICES ASSUME Inv, StraightInv, UNCHANGED childVars, RecvDestroy PROVE StraightInv'
  OBVIOUS
<1>1. ParentReceives("Destroy") /\ Destroy /\ UNCHANGED <<mState, mQueue, toChild>>
  BY DEF RecvDestroy
<1>2. /\ mDisconnected' = mDisconnected /\ OwnStill /\ ipc = "open" /\ ipc' = "open" /\ child' = child
      /\ (IPCActive' <=> IPCActive)
  BY <1>1, ReceivedData DEF childVars, IPCActive
<1>3. Same(actorq, actorq') /\ Names(actorq') = Names(actorq) \cup {"close"} /\ ActorHush'
  BY <1>1, <1>2, DestroyData DEF StraightInv, OwnStill
<1>4. Silence'
  <2>1. Awaited'
    BY <1>1, <1>2, <1>3, SilenceParts DEF StraightInv, Awaited
  <2> QED
    BY <1>1, <1>3, <2>1, StillHush, SilenceParts DEF StraightInv
<1>5. ParentBuffers'
  BY <1>1, <1>2, <1>3 DEF StraightInv, ParentBuffers, OwnStill
<1>6. Calm => ParentCalm'
  BY <1>1, <1>2, <1>3 DEF StraightInv, CalmInv, ParentCalm, OwnStill
<1> QED
  BY <1>1, <1>2, <1>3, <1>4, <1>5, <1>6, NoneLost, HeardKept

\* A written chunk goes to mQueue.
LEMMA WriteQueued ==
  ASSUME Inv, NEW n \in Chunks, mQueue' = Append(mQueue, WriteMove(n))
  PROVE  /\ Names(mQueue') = Names(mQueue) \cup {"write"}
         /\ ChunksIn(mQueue') = ChunksIn(mQueue) \cup {n}
         /\ InOrder(mQueue) /\ Below(ChunksIn(mQueue), {n}) => InOrder(mQueue')
<1> DEFINE m == WriteMove(n)
<1>1. m \in QueueEvents /\ m.name = "write" /\ m.data = n /\ n # 0 /\ {n} \ {0} = {n}
  BY Kinds, Named, Plain DEF Chunks
<1>2. mQueue \in Seq(QueueEvents) /\ mQueue' = Append(mQueue, m)
  BY WayTypes
<1> HIDE DEF m
<1>3. mQueue \in Seq(QueueEvents) /\ m \in QueueEvents
  BY <1>1, <1>2
<1>4. /\ ChunksIn(Append(mQueue, m)) = ChunksIn(mQueue) \cup ({m.data} \ {0})
      /\ InOrder(mQueue) /\ (m.data # 0 => Below(ChunksIn(mQueue), {m.data}))
           => InOrder(Append(mQueue, m))
  BY <1>3, DataAdded
<1>5. Names(mQueue') = Names(mQueue) \cup {"write"}
  BY <1>1, <1>2, Added
<1> QED
  BY <1>1, <1>2, <1>4, <1>5

LEMMA RecvWriteStraight == Inv /\ StraightInv /\ UNCHANGED childVars /\ RecvWrite => StraightInv'
<1> SUFFICES ASSUME Inv, StraightInv, UNCHANGED childVars, RecvWrite PROVE StraightInv'
  OBVIOUS
<1> DEFINE n == Head(toParent).data
<1>1. /\ ParentReceives("Write") /\ UNCHANGED <<mState, actorq, toChild>>
      /\ mQueue' = Append(mQueue, WriteMove(n))
  BY DEF RecvWrite, Enqueues
<1>2. /\ mDisconnected' = mDisconnected /\ OwnStill /\ ipc = "open" /\ ipc' = "open" /\ child' = child
      /\ (IPCActive' <=> IPCActive)
  BY <1>1, ReceivedData DEF childVars, IPCActive
<1>3. /\ toParent # <<>> /\ toParent' = Tail(toParent) /\ Head(toParent).name = "Write"
      /\ toParent \in Seq(ToParent) /\ Head(toParent) \in ToParent /\ InOrder(toParent)
  BY <1>1, WayTypes, TailOf DEF ParentReceives, StraightInv, Sorts
<1>4. n \in Chunks
  BY <1>3, Chunked
<1>5. /\ ChunksIn(toParent) = ChunksIn(toParent') \cup {n}
      /\ InOrder(toParent') /\ Below({n}, ChunksIn(toParent'))
  <2>1. {n} \ {0} = {n}
    BY <1>4 DEF Chunks
  <2>2. /\ ChunksIn(toParent) = ChunksIn(toParent') \cup ({n} \ {0})
        /\ InOrder(toParent') /\ Below({n} \ {0}, ChunksIn(toParent'))
    BY <1>3, DataTaken
  <2> QED
    BY <2>1, <2>2
<1> HIDE DEF n
<1>6. Below(ChunksIn(mQueue), {n})
  <2>1. PICK i \in 1..9, j \in 1..9 : i = 2 /\ j = 3
    OBVIOUS
  <2>2. Below(Outward[2], Outward[3])
    BY <2>1, Between DEF StraightInv
  <2> QED
    BY <1>5, <2>2, OutwardStages DEF Below
<1>7. /\ Names(mQueue') = Names(mQueue) \cup {"write"}
      /\ ChunksIn(mQueue') = ChunksIn(mQueue) \cup {n} /\ InOrder(mQueue')
  BY <1>1, <1>4, <1>6, WriteQueued DEF StraightInv, Sorts
<1>8. kept' = kept /\ Buffer' = Buffer /\ (MayWrite' => MayWrite) /\ Later' = Later
  BY <1>2, ChildStill DEF OwnStill, Later
<1>9. Sorts'
  BY <1>1, <1>2, <1>5, <1>7, <1>8 DEF StraightInv, Sorts, OwnStill
<1>10. Ordered(Inward')
  BY <1>1, <1>2, <1>8, InwardStages, InwardNext, InwardLessened DEF StraightInv, OwnStill
<1>11. Ordered(Outward')
  <2>1. PICK i \in 1..9, j \in 1..9 : i = 3 /\ j = 2
    OBVIOUS
  <2>2. /\ Outward'[1] = Outward[1] /\ Outward'[2] = Outward[2] \cup {n}
        /\ Outward'[3] \subseteq Outward[3] /\ {n} \subseteq Outward[3] /\ Below({n}, Outward'[3])
        /\ Outward'[4] \subseteq Outward[4] /\ Outward'[5] \subseteq Outward[5]
        /\ Outward'[6] \subseteq Outward[6] /\ Outward'[7] \subseteq Outward[7]
        /\ Outward'[8] = Outward[8] /\ Outward'[9] = Outward[9]
    BY <1>1, <1>2, <1>5, <1>7, <1>8, OutwardStages, OutwardNext DEF OwnStill
  <2> QED
    BY <2>1, <2>2, OutwardPassed DEF StraightInv
<1>12. Silence'
  <2>1. Awaited'
    BY <1>1, <1>2, <1>7, SilenceParts DEF StraightInv, Awaited
  <2> QED
    BY <1>1, <1>2, <2>1, StillHush, SilenceParts DEF StraightInv, OwnStill
<1>13. ParentBuffers'
  BY <1>1, <1>2, <1>7 DEF StraightInv, ParentBuffers, OwnStill
<1>14. Calm => ParentCalm' /\ 1..delivered' \subseteq Held'
  <2> SUFFICES ASSUME Calm PROVE ParentCalm' /\ 1..delivered' \subseteq Held'
    OBVIOUS
  <2>1. ParentCalm /\ 1..delivered \subseteq Held
    BY DEF StraightInv, CalmInv
  <2>2. Theirs \subseteq Theirs'
    BY <1>1, <1>2, <1>5, <1>7 DEF Theirs, OwnStill
  <2>3. ParentCalm'
    BY <1>1, <1>2, <2>1 DEF ParentCalm, OwnStill
  <2> QED
    BY <1>2, <1>8, <2>1, <2>2, <2>3, TheirsHeld DEF OwnStill
<1> QED
  BY <1>2, <1>9, <1>10, <1>11, <1>12, <1>13, <1>14, SteadyKept DEF Ways

\* What the listener gets.
LEMMA OutputGrows ==
  \A q \in Seq(0..MaxChunks), n \in 0..MaxChunks :
     /\ Elements(Append(q, n)) = Elements(q) \cup {n}
     /\ Ascending(q) /\ (n # 0 => Below(Elements(q), {n})) => Ascending(Append(q, n))
<1> DEFINE S == 0..MaxChunks
<1> HIDE DEF S
<1>1. ASSUME NEW q \in Seq(S), NEW n \in S
      PROVE  /\ Elements(Append(q, n)) = Elements(q) \cup {n}
             /\ Rising(q) /\ Below(Elements(q), {n}) => Rising(Append(q, n))
             /\ Ascending(q) /\ (n # 0 => Below(Elements(q), {n})) => Ascending(Append(q, n))
  BY ElementsAdded, Zenon
<1> QED
  BY <1>1 DEF S

LEMMA OutputAdded ==
  ASSUME NEW q \in Seq(0..MaxChunks), Ascending(q), NEW n \in 0..MaxChunks,
         n # 0 => Below(Elements(q) \ {0}, {n})
  PROVE  /\ Ascending(Append(q, n)) /\ Append(q, n) \in Seq(0..MaxChunks)
         /\ Elements(Append(q, n)) \ {0} = (Elements(q) \ {0}) \cup ({n} \ {0})
<1> DEFINE S == 0..MaxChunks
<1>1. q \in Seq(S) /\ n \in S
  OBVIOUS
<1>2. n # 0 => Below(Elements(q), {n})
  BY ChunksAssumption DEF Below
<1> HIDE DEF S
<1>3. /\ Elements(Append(q, n)) = Elements(q) \cup {n}
      /\ Ascending(q) /\ (n # 0 => Below(Elements(q), {n})) => Ascending(Append(q, n))
  BY OutputGrows
<1>4. Append(q, n) \in Seq(S)
  BY <1>1, AppendOf
<1> QED
  BY <1>2, <1>3, <1>4 DEF S

LEMMA OutputJoined ==
  ASSUME NEW q \in Seq(0..MaxChunks), Ascending(q), NEW r \in Seq(Chunks), Rising(r),
         Below(Elements(q) \ {0}, Elements(r))
  PROVE  /\ Ascending(q \o r) /\ q \o r \in Seq(0..MaxChunks)
         /\ Elements(q \o r) \ {0} = (Elements(q) \ {0}) \cup Elements(r)
<1> DEFINE S == 0..MaxChunks
<1>1. q \in Seq(S) /\ r \in Seq(S)
  BY ChunksAssumption DEF Chunks
<1>2. \A n \in Elements(r) : n \in Chunks
  BY DEF Elements
<1>3. Below(Elements(q), Elements(r)) /\ 0 \notin Elements(r)
  BY <1>2, ChunksAssumption DEF Below, Chunks
<1> HIDE DEF S
<1>4. /\ Elements(q \o r) = Elements(q) \cup Elements(r)
      /\ Ascending(q) /\ Below(Elements(q), Elements(r)) => Ascending(q \o r)
  BY <1>1, ElementsJoined
<1>5. q \o r \in Seq(S)
  BY <1>1, ConcatOf
<1> QED
  BY <1>3, <1>4, <1>5 DEF S

LEMMA RanData ==
  ASSUME Inv, NEW name, Runs(name), mQueue' = Tail(mQueue)
  PROVE  /\ Less(mQueue, mQueue') /\ (name # "write" => Same(mQueue, mQueue'))
         /\ Names(mQueue) = Names(mQueue') \cup {name}
         /\ UNCHANGED <<mState, mDisconnected, oda, delivered, toChild, toParent, ipc>>
<1>1. mQueue # <<>> /\ Head(mQueue).name = name
      /\ UNCHANGED <<mState, mDisconnected, oda, delivered, toChild, toParent, ipc>>
  BY DEF Runs, QueueFrame, ipcVars
<1> QED
  BY <1>1, QueuesTaken, Ran

\* An event that is about the stop or the load group.
LEMMA RanKept ==
  ASSUME Inv, StraightInv, UNCHANGED childVars, NEW name, Runs(name),
         name \notin {"write", "resume"}, mQueue' = Tail(mQueue),
         UNCHANGED <<mBufferedData, actorq, suspends>>,
         Ascending(output'), Elements(output') \ {0} = Elements(output) \ {0}
  PROVE  StraightInv'
<1>1. /\ Same(mQueue, mQueue') /\ Names(mQueue) = Names(mQueue') \cup {name}
      /\ UNCHANGED <<mState, mDisconnected, oda, delivered, toChild, toParent, ipc>>
  BY RanData
<1>2. (IPCActive' <=> IPCActive) /\ child' = child
  BY <1>1 DEF IPCActive, childVars
<1>3. Lessens
  BY <1>1, NoneLost DEF Lessens
<1>4. Silence'
  <2>1. Awaited'
    BY <1>1, <1>2, SilenceParts DEF StraightInv, Awaited
  <2> QED
    BY <1>1, <2>1, StillHush, SilenceParts DEF StraightInv
<1>5. ParentBuffers'
  BY <1>1, <1>2 DEF StraightInv, ParentBuffers
<1>6. Calm => ParentCalm'
  BY <1>1, <1>2 DEF StraightInv, CalmInv, ParentCalm
<1>7. Theirs \subseteq Theirs'
  BY <1>1 DEF Theirs, Same
<1> QED
  BY <1>1, <1>2, <1>3, <1>4, <1>5, <1>6, <1>7, LessKept

LEMMA RunPlainStraight ==
  Inv /\ StraightInv /\ UNCHANGED childVars /\ (RunEmitStop \/ RunStopSent \/ RunLeaveGroup) => StraightInv'
<1> SUFFICES ASSUME Inv, StraightInv, UNCHANGED childVars, RunEmitStop \/ RunStopSent \/ RunLeaveGroup
             PROVE  StraightInv'
  OBVIOUS
<1>1. PICK name \in {"emitStop", "emitStopOnce", "leaveGroup"} : Runs(name)
  BY DEF RunEmitStop, RunStopSent, RunLeaveGroup
<1>2. mQueue' = Tail(mQueue) /\ UNCHANGED <<mBufferedData, actorq, suspends>>
      /\ output' \in {output, Append(output, 0)}
  BY DEF RunEmitStop, RunStopSent, RunLeaveGroup, EmitStopRequest
<1>3. Ascending(output') /\ Elements(output') \ {0} = Elements(output) \ {0}
  <2>1. output \in Seq(0..MaxChunks) /\ 0 \in 0..MaxChunks /\ Ascending(output)
    BY WayTypes, SortedOutput, ChunksAssumption
  <2>2. Ascending(Append(output, 0)) /\ Elements(Append(output, 0)) \ {0} = Elements(output) \ {0}
    BY <2>1, OutputAdded
  <2> QED
    BY <1>2, <2>1, <2>2
<1> QED
  BY <1>1, <1>2, <1>3, RanKept

\* A chunk that script wrote goes to the listener.
LEMMA RunWriteStraight == Inv /\ StraightInv /\ UNCHANGED childVars /\ RunWrite => StraightInv'
<1> SUFFICES ASSUME Inv, StraightInv, UNCHANGED childVars, RunWrite PROVE StraightInv'
  OBVIOUS
<1> DEFINE n == Head(mQueue).data
<1>1. /\ Runs("write") /\ mQueue' = Tail(mQueue) /\ output' = Append(output, n)
      /\ UNCHANGED <<mBufferedData, actorq, suspends>>
  BY DEF RunWrite
<1>2. /\ Names(mQueue) = Names(mQueue') \cup {"write"}
      /\ UNCHANGED <<mState, mDisconnected, oda, delivered, toChild, toParent, ipc>>
  BY <1>1, RanData
<1>3. /\ mQueue # <<>> /\ mQueue \in Seq(QueueEvents) /\ Head(mQueue) \in QueueEvents
      /\ Head(mQueue).name = "write" /\ InOrder(mQueue)
  BY <1>1, WayTypes, TailOf DEF Runs, StraightInv, Sorts
<1>4. n \in Chunks /\ n # 0 /\ n \in 0..MaxChunks
  BY <1>3, Chunked, ChunksAssumption DEF Chunks
<1>5. /\ ChunksIn(mQueue) = ChunksIn(mQueue') \cup {n}
      /\ InOrder(mQueue') /\ Below({n}, ChunksIn(mQueue'))
  <2>1. {n} \ {0} = {n}
    BY <1>4
  <2>2. /\ ChunksIn(mQueue) = ChunksIn(mQueue') \cup ({n} \ {0})
        /\ InOrder(mQueue') /\ Below({n} \ {0}, ChunksIn(mQueue'))
    BY <1>1, <1>3, DataTaken
  <2> QED
    BY <2>1, <2>2
<1> HIDE DEF n
<1>6. Below(Elements(output) \ {0}, {n})
  <2>1. PICK i \in 1..9, j \in 1..9 : i = 1 /\ j = 2
    OBVIOUS
  <2>2. Below(Outward[1], Outward[2])
    BY <2>1, Between DEF StraightInv
  <2> QED
    BY <1>5, <2>2, OutwardStages DEF Below
<1>7. Ascending(output') /\ Elements(output') \ {0} = (Elements(output) \ {0}) \cup {n}
  <2>1. output \in Seq(0..MaxChunks) /\ Ascending(output)
    BY WayTypes, SortedOutput
  <2>2. /\ Ascending(Append(output, n))
        /\ Elements(Append(output, n)) \ {0} = (Elements(output) \ {0}) \cup ({n} \ {0})
    BY <1>4, <1>6, <2>1, OutputAdded
  <2> QED
    BY <1>1, <1>4, <2>2
<1>8. /\ kept' = kept /\ Buffer' = Buffer /\ (MayWrite' => MayWrite) /\ Later' = Later /\ child' = child
      /\ (IPCActive' <=> IPCActive)
  BY <1>2, ChildStill DEF Later, IPCActive
<1>9. Sorts'
  BY <1>1, <1>2, <1>5, <1>7, <1>8 DEF StraightInv, Sorts
<1>10. Ordered(Inward')
  BY <1>1, <1>2, <1>8, InwardStages, InwardNext, InwardLessened DEF StraightInv
<1>11. Ordered(Outward')
  <2>1. PICK i \in 1..9, j \in 1..9 : i = 2 /\ j = 1
    OBVIOUS
  <2>2. /\ Outward'[1] = Outward[1] \cup {n} /\ Outward'[2] \subseteq Outward[2]
        /\ {n} \subseteq Outward[2] /\ Below({n}, Outward'[2])
        /\ Outward'[3] = Outward[3]
        /\ Outward'[4] \subseteq Outward[4] /\ Outward'[5] \subseteq Outward[5]
        /\ Outward'[6] = Outward[6] /\ Outward'[7] = Outward[7]
        /\ Outward'[8] = Outward[8] /\ Outward'[9] = Outward[9]
    BY <1>1, <1>2, <1>5, <1>7, <1>8, OutwardStages, OutwardNext
  <2> QED
    BY <2>1, <2>2, OutwardPassed DEF StraightInv
<1>12. Silence'
  <2>1. Awaited'
    BY <1>1, <1>2, <1>8, SilenceParts DEF StraightInv, Awaited
  <2> QED
    BY <1>1, <1>2, <2>1, StillHush, SilenceParts DEF StraightInv
<1>13. ParentBuffers'
  BY <1>1, <1>2, <1>8 DEF StraightInv, ParentBuffers
<1>14. Calm => ParentCalm' /\ 1..delivered' \subseteq Held'
  <2> SUFFICES ASSUME Calm PROVE ParentCalm' /\ 1..delivered' \subseteq Held'
    OBVIOUS
  <2>1. ParentCalm /\ 1..delivered \subseteq Held
    BY DEF StraightInv, CalmInv
  <2>2. Theirs \subseteq Theirs'
    BY <1>1, <1>2, <1>5, <1>7 DEF Theirs
  <2>3. ParentCalm'
    BY <1>1, <1>2, <1>8, <2>1 DEF ParentCalm
  <2> QED
    BY <1>2, <1>8, <2>1, <2>2, <2>3, TheirsHeld
<1> QED
  BY <1>2, <1>9, <1>10, <1>11, <1>12, <1>13, <1>14, SteadyKept DEF Ways

\* The channel is suspended: no data comes out of it.
LEMMA RunSuspendStraight ==
  Inv /\ StraightInv /\ ~retargeted /\ UNCHANGED childVars /\ RunSuspend => StraightInv'
<1> SUFFICES ASSUME Inv, StraightInv, ~retargeted, UNCHANGED childVars, RunSuspend PROVE StraightInv'
  OBVIOUS
<1>1. /\ Runs("suspend") /\ mQueue' = Tail(mQueue) /\ suspends' = suspends + 1
      /\ actorq' = Append(actorq, Event("suspended")) /\ UNCHANGED <<mBufferedData, output>>
  BY DEF RunSuspend
<1>2. /\ Same(mQueue, mQueue') /\ Names(mQueue) = Names(mQueue') \cup {"suspend"}
      /\ UNCHANGED <<mState, mDisconnected, oda, delivered, toChild, toParent, ipc>>
  BY <1>1, RanData
<1>3. oda = 0
  BY <1>1, Ran DEF MainFree
<1>4. (IPCActive' <=> IPCActive) /\ child' = child
  BY <1>2 DEF IPCActive, childVars
<1>5. /\ actorq \in Seq(ActorEvents) /\ Event("suspended") \in ActorEvents
      /\ Event("suspended").name = "suspended" /\ "suspended" \notin {"data", "resumed"}
  BY WayTypes, Kinds, Named
<1>6. Names(actorq') = Names(actorq) \cup {"suspended"} /\ Same(actorq, actorq')
  <2>1. Names(actorq') = Names(actorq) \cup {"suspended"}
    BY <1>1, <1>5, Added
  <2> QED
    BY <1>1, <1>5, <2>1, QueuesAdded
<1>7. Lessens
  BY <1>1, <1>2, <1>6, NoneLost, SortedOutput DEF Lessens
<1>8. child.mState \in {"Suspending", "Dead"}
  BY <1>2, InvParts DEF HandAt, Waits
<1>9. Silence'
  <2>1. ActorHush
    BY SilenceParts DEF StraightInv
  <2>2. NotBehind(actorq', {"suspended"}, {"data"})
    BY <1>1, <1>5, <2>1, Added DEF ActorHush
  <2>3. NotBehind(actorq', {"data"}, {"resumed"})
    BY <1>1, <1>5, <2>1, Added DEF ActorHush
  <2>4. ActorHush'
    BY <1>2, <1>3, <1>6, <2>2, <2>3 DEF ActorHush
  <2>5. Awaited'
    BY <1>2, <1>4, <1>8, SilenceParts DEF StraightInv, Awaited
  <2> QED
    BY <1>2, <2>4, <2>5, StillHush, SilenceParts DEF StraightInv
<1>10. ParentBuffers'
  BY <1>1, <1>2, <1>4, <1>6 DEF StraightInv, ParentBuffers
<1>11. Calm => ParentCalm'
  BY <1>2, <1>4, <1>6 DEF StraightInv, CalmInv, ParentCalm
<1>12. Theirs \subseteq Theirs'
  BY <1>1, <1>2, <1>6 DEF Theirs, Same
<1> QED
  BY <1>2, <1>4, <1>7, <1>9, <1>10, <1>11, <1>12, LessKept

\* It resumes: what the actor then gets is behind the agreement.
LEMMA RunResumeStraight == Inv /\ StraightInv /\ UNCHANGED childVars /\ RunResume => StraightInv'
<1> SUFFICES ASSUME Inv, StraightInv, UNCHANGED childVars, RunResume PROVE StraightInv'
  OBVIOUS
<1>1. /\ mQueue' = Tail(mQueue) /\ suspends' = suspends - 1 /\ UNCHANGED <<mBufferedData, output>>
  BY DEF RunResume
<1>2. PICK name \in {"resume", "resumeOnly"} :
        /\ Runs(name)
        /\ name = "resume" => actorq' = Append(actorq, Event("resumed"))
        /\ name = "resumeOnly" => actorq' = actorq
  BY DEF RunResume
<1>3. /\ Same(mQueue, mQueue') /\ Names(mQueue) = Names(mQueue') \cup {name}
      /\ UNCHANGED <<mState, mDisconnected, oda, delivered, toChild, toParent, ipc>>
  BY <1>1, <1>2, RanData
<1>4. (IPCActive' <=> IPCActive) /\ child' = child
  BY <1>3 DEF IPCActive, childVars
<1>5. suspends = 1 /\ suspends' = 0
  BY <1>1, <1>3, InvParts DEF Suspends, Resuming
<1>6. /\ actorq \in Seq(ActorEvents) /\ Event("resumed") \in ActorEvents
      /\ Event("resumed").name = "resumed" /\ ActorHush /\ Awaited
  BY WayTypes, Kinds, Named, SilenceParts DEF StraightInv
<1>7. name = "resume" => "data" \notin Names(actorq)
  <2> SUFFICES ASSUME name = "resume" PROVE "data" \notin Names(actorq)
    OBVIOUS
  <2>1. ~Agreeing(actorq)
    BY <1>3, InvParts DEF HandAt, OneToken, Asking
  <2> QED
    BY <1>5, <1>6, <2>1 DEF ActorHush, Agreeing
<1>8. /\ Same(actorq, actorq')
      /\ Names(actorq') = Names(actorq) \cup (IF name = "resume" THEN {"resumed"} ELSE {})
      /\ NotBehind(actorq', {"suspended"}, {"data"}) /\ NotBehind(actorq', {"data"}, {"resumed"})
  <2>1. CASE name = "resume"
    <3>1. /\ actorq' = Append(actorq, Event("resumed")) /\ actorq \in Seq(ActorEvents)
          /\ Event("resumed") \in ActorEvents /\ Event("resumed").name = "resumed"
      BY <1>2, <1>6, <2>1
    <3>2. Names(actorq') = Names(actorq) \cup {"resumed"}
      BY <3>1, Added
    <3>3. NotBehind(actorq, {"suspended"}, {"data"}) /\ NotBehind(actorq, {"data"}, {"resumed"})
      BY <1>6 DEF ActorHush
    <3>4. NotBehind(actorq', {"suspended"}, {"data"})
      BY <3>1, <3>3, Added
    <3>5. NotBehind(actorq', {"data"}, {"resumed"})
      BY <1>7, <2>1, <3>1, <3>3, Added
    <3>6. Same(actorq, actorq')
      BY <3>1, QueuesAdded
    <3> QED
      BY <2>1, <3>2, <3>4, <3>5, <3>6
  <2>2. CASE name = "resumeOnly"
    BY <1>2, <1>6, <2>2, NoneLost DEF ActorHush
  <2> QED
    BY <2>1, <2>2
<1>9. Lessens
  BY <1>1, <1>3, <1>8, NoneLost, SortedOutput DEF Lessens
<1>10. Silence'
  <2>1. ActorHush'
    BY <1>5, <1>8 DEF ActorHush
  <2>2. Awaited'
    BY <1>3, <1>4, <1>6, <1>8 DEF Awaited
  <2> QED
    BY <1>3, <2>1, <2>2, StillHush, SilenceParts DEF StraightInv
<1>11. ParentBuffers'
  BY <1>1, <1>3, <1>4, <1>8 DEF StraightInv, ParentBuffers
<1>12. Calm => ParentCalm'
  BY <1>3, <1>4, <1>8 DEF StraightInv, CalmInv, ParentCalm
<1>13. Theirs \subseteq Theirs'
  BY <1>1, <1>3, <1>8 DEF Theirs, Same
<1> QED
  BY <1>3, <1>4, <1>9, <1>10, <1>11, <1>12, <1>13, LessKept

\* The parent's buffer goes to the listener, when nothing is on the way before it.
LEMMA RunFlushStraight == Inv /\ StraightInv /\ UNCHANGED childVars /\ RunFlush => StraightInv'
<1> SUFFICES ASSUME Inv, StraightInv, UNCHANGED childVars, RunFlush PROVE StraightInv'
  OBVIOUS
<1>1. /\ Runs("flush") /\ output' = output \o mBufferedData /\ mBufferedData' = <<>>
      /\ actorq' = Append(actorq, Event("disconnected")) /\ suspends' = suspends
      /\ UNCHANGED <<mState, mDisconnected, oda, delivered, toChild, toParent, ipc>>
  BY DEF RunFlush, Runs, QueueFrame, ipcVars
<1>2. "flush" \in Names(mQueue) /\ mState = "Disconnecting"
  BY <1>1, Ran, InvParts DEF HandAt, Flushes
<1>3. ~IPCActive /\ ~IPCActive' /\ ~Calm
  BY <1>1, <1>2 DEF IPCActive, StraightInv, CalmInv, ParentCalm
<1>4. /\ Names(actorq') = Names(actorq) \cup {"disconnected"} /\ ActorHush'
  <2>1. Event("disconnected") \in ActorEvents /\ Event("disconnected").name = "disconnected"
    BY Kinds, Named
  <2> QED
    BY <1>1, <2>1, AddedHush DEF StraightInv
<1>5. ChunksIn(mQueue') = {} /\ InOrder(mQueue')
  <2>1. TypeInv' /\ StopInv'
    BY ParentSteps DEF Parent, QueueThreads, Kept
  <2>2. mQueue' \in Seq(QueueEvents)
    BY <2>1 DEF TypeInv, ParentTypes
  <2>3. "write" \notin Names(mQueue')
    BY <1>4, <2>1 DEF StopInv, Writing
  <2> QED
    BY <2>2, <2>3, Dataless, DatalessOrdered
<1>6. ChunksIn(toParent) = {}
  <2>1. "Write" \notin Names(toParent)
    BY <1>2, InvParts, NoNames DEF HandAt, Flushes, Started, Finished
  <2> QED
    BY <2>1, Dataless, WayTypes
<1>7. ipc = "open" => ChunksIn(toChild) = {}
  <2>1. ipc = "open" => "Data" \notin Names(toChild)
    BY <1>2 DEF StraightInv, ParentBuffers
  <2> QED
    BY <2>1, Dataless, WayTypes
<1>8. kept' = kept /\ Buffer' = Buffer /\ (MayWrite' <=> MayWrite) /\ Later' = Later
  BY <1>1, ChildStill DEF Later, MayWrite, childVars
<1>9. MayWrite => Elements(kept) = {} /\ Elements(Buffer) = {}
  <2> SUFFICES ASSUME MayWrite PROVE Elements(kept) = {} /\ Elements(Buffer) = {}
    OBVIOUS
  <2>1. child.mState \in Unborn
    BY <1>2, InvParts DEF HandAt, Flushes, Finished, MayWrite, Writers, Unborn, Ready
  <2> QED
    BY <2>1, NoElements DEF StraightInv, ChildBuffers
<1>10. /\ Ascending(output')
       /\ Elements(output') \ {0} = (Elements(output) \ {0}) \cup Elements(mBufferedData)
  <2>1. /\ output \in Seq(0..MaxChunks) /\ mBufferedData \in Seq(Chunks)
        /\ Ascending(output) /\ Rising(mBufferedData)
    BY WayTypes DEF StraightInv, Sorts
  <2>2. PICK i \in 1..9, j \in 1..9 : i = 1 /\ j = 7
    OBVIOUS
  <2>3. Below(Outward[1], Outward[7])
    BY <2>2, Between DEF StraightInv
  <2>4. Below(Elements(output) \ {0}, Elements(mBufferedData))
    BY <1>3, <2>3, OutwardStages
  <2> QED
    BY <1>1, <2>1, <2>4, OutputJoined
<1>11. Sorts'
  BY <1>1, <1>3, <1>5, <1>8, <1>10, NoElements DEF StraightInv, Sorts
<1>12. Ordered(Inward')
  BY <1>1, <1>3, <1>8, InwardStages, InwardNext, InwardLessened DEF StraightInv
<1>13. Ordered(Outward')
  <2> DEFINE X == Elements(mBufferedData)
  <2>1. PICK i \in 1..9, j \in 1..9 : i = 7 /\ j = 1
    OBVIOUS
  <2>2. /\ Outward'[1] = Outward[1] \cup X
        /\ Outward'[2] = {} /\ Outward'[3] = {} /\ Outward'[4] = {} /\ Outward'[5] = {}
        /\ Outward'[6] = {} /\ Outward'[7] = {} /\ X = Outward[7]
        /\ Outward'[8] = Outward[8] /\ Outward'[9] = Outward[9]
    BY <1>1, <1>3, <1>5, <1>6, <1>7, <1>8, <1>9, <1>10, OutwardStages, OutwardNext, NoElements
  <2> HIDE DEF X
  <2>3. Below(X, {}) /\ \A k \in 1..9 : 1 < k /\ k < 7 => k = 2 \/ k = 3 \/ k = 4 \/ k = 5 \/ k = 6
    BY DEF Below
  <2>4. \A k \in 1..9 : j < k /\ k < i => Outward'[k] = {}
    BY <2>1, <2>2, <2>3
  <2>5. /\ j < i /\ Outward'[j] \subseteq Outward[j] \cup X /\ X \subseteq Outward[i]
        /\ Below(X, Outward'[i])
    BY <2>1, <2>2, <2>3
  <2>6. /\ 1 # j => Outward'[1] \subseteq Outward[1]
        /\ Outward'[2] \subseteq Outward[2] /\ Outward'[3] \subseteq Outward[3]
        /\ Outward'[4] \subseteq Outward[4] /\ Outward'[5] \subseteq Outward[5]
        /\ Outward'[6] \subseteq Outward[6] /\ Outward'[7] \subseteq Outward[7]
        /\ Outward'[8] \subseteq Outward[8] /\ Outward'[9] \subseteq Outward[9]
    BY <2>1, <2>2
  <2> QED
    BY <2>4, <2>5, <2>6, OutwardPassed DEF StraightInv
<1>14. Silence'
  BY <1>1, <1>2, <1>4, StillHush, SilenceParts DEF StraightInv
<1>15. ParentBuffers'
  BY <1>1, <1>2, <1>3, <1>4, NoElements DEF StraightInv, ParentBuffers
<1> QED
  BY <1>1, <1>3, <1>11, <1>12, <1>13, <1>14, <1>15, SteadyKept DEF Ways

-----------------------------------------------------------------------------
(***************************************************************************)
(* The channel.                                                            *)
(***************************************************************************)
\* What it tells the filter, other than of data.
LEMMA CallKept ==
  ASSUME Inv, StraightInv, UNCHANGED childVars, ListenerFrame,
         UNCHANGED <<oda, mBufferedData, delivered>>,
         Ascending(output'), Elements(output') \ {0} = Elements(output) \ {0},
         Same(actorq, actorq'), ActorHush', Names(actorq) \subseteq Names(actorq'),
         ParentBuffers', Calm => ParentCalm'
  PROVE  StraightInv'
<1>1. /\ UNCHANGED <<mState, mQueue, suspends, toParent, toChild, ipc>> /\ child' = child
      /\ (IPCActive' <=> IPCActive)
  BY DEF ListenerFrame, childVars, IPCActive
<1>2. Lessens
  BY <1>1, NoneLost DEF Lessens
<1>3. Silence'
  <2>1. Awaited'
    BY <1>1, SilenceParts DEF StraightInv, Awaited
  <2> QED
    BY <1>1, <2>1, StillHush, SilenceParts DEF StraightInv
<1>4. Theirs \subseteq Theirs'
  BY <1>1 DEF Theirs, Same
<1> QED
  BY <1>1, <1>2, <1>3, <1>4, LessKept

LEMMA OnStartStraight ==
  Inv /\ StraightInv /\ UNCHANGED childVars /\ (OnStartRequest \/ OnStartRedirected) => StraightInv'
<1> SUFFICES ASSUME Inv, StraightInv, UNCHANGED childVars, OnStartRequest \/ OnStartRedirected
             PROVE  StraightInv'
  OBVIOUS
<1>1. PICK name \in {"start", "redirected"} :
        /\ actorq' = Append(actorq, Event(name))
        /\ name = "start" => mDisconnected' = mDisconnected
        /\ name = "redirected" => mDisconnected' = TRUE
  BY DEF OnStartRequest, OnStartRedirected
<1>2. /\ ListenerFrame /\ UNCHANGED <<oda, mBufferedData, delivered, output>> /\ channel = "new"
      /\ UNCHANGED <<mState, mQueue, suspends, toParent, toChild, ipc>>
  BY DEF OnStartRequest, OnStartRedirected, ListenerFrame
<1>3. /\ Names(actorq) = {} /\ mState = "Uninitialized" /\ toChild = <<>> /\ oda = 0
  BY <1>2, InvParts, NoNames DEF HandAt, Started, Flows
<1>4. Event(name) \in ActorEvents /\ Event(name).name = name /\ name \notin {"data", "resumed"}
  BY Kinds, Named
<1>5. Names(actorq') = {name} /\ Same(actorq, actorq') /\ ActorHush'
  BY <1>1, <1>2, <1>3, <1>4, AddedHush DEF StraightInv
<1>6. ParentBuffers'
  BY <1>1, <1>2, <1>3, <1>5, NoNames DEF StraightInv, ParentBuffers, IPCActive
<1>7. ParentCalm'
  BY <1>2, <1>3, <1>5 DEF ParentCalm, IPCActive
<1> QED
  BY <1>2, <1>3, <1>5, <1>6, <1>7, SortedOutput, CallKept

LEMMA OnStopRequestStraight == Inv /\ StraightInv /\ UNCHANGED childVars /\ OnStopRequest => StraightInv'
<1> SUFFICES ASSUME Inv, StraightInv, UNCHANGED childVars, OnStopRequest PROVE StraightInv'
  OBVIOUS
<1>1. /\ ListenerFrame /\ UNCHANGED <<oda, mBufferedData, delivered, output, actorq, mDisconnected>>
      /\ UNCHANGED <<mState, mQueue, suspends, toParent, toChild, ipc>>
  BY DEF OnStopRequest, ListenerFrame
<1>2. ActorHush'
  BY <1>1, StillHush DEF StraightInv
<1>3. ParentBuffers'
  BY <1>1 DEF StraightInv, ParentBuffers, IPCActive
<1>4. Calm => ParentCalm'
  BY <1>1 DEF StraightInv, CalmInv, ParentCalm, IPCActive
<1> QED
  BY <1>1, <1>2, <1>3, <1>4, SortedOutput, NoneLost, CallKept

LEMMA OnStopPassedStraight == Inv /\ StraightInv /\ UNCHANGED childVars /\ OnStopPassed => StraightInv'
<1> SUFFICES ASSUME Inv, StraightInv, UNCHANGED childVars, OnStopPassed PROVE StraightInv'
  OBVIOUS
<1>1. /\ ListenerFrame /\ UNCHANGED <<oda, mBufferedData, delivered, actorq, mDisconnected>>
      /\ UNCHANGED <<mState, mQueue, suspends, toParent, toChild, ipc>>
      /\ output' = Append(output, 0)
  BY DEF OnStopPassed, OnStopFrame, EmitStopRequest, ListenerFrame
<1>2. Ascending(output') /\ Elements(output') \ {0} = Elements(output) \ {0}
  <2>1. output \in Seq(0..MaxChunks) /\ 0 \in 0..MaxChunks /\ Ascending(output)
    BY WayTypes, SortedOutput, ChunksAssumption
  <2>2. Ascending(Append(output, 0)) /\ Elements(Append(output, 0)) \ {0} = Elements(output) \ {0}
    BY <2>1, OutputAdded
  <2> QED
    BY <1>1, <2>2
<1>3. ActorHush'
  BY <1>1, StillHush DEF StraightInv
<1>4. ParentBuffers'
  BY <1>1 DEF StraightInv, ParentBuffers, IPCActive
<1>5. Calm => ParentCalm'
  BY <1>1 DEF StraightInv, CalmInv, ParentCalm, IPCActive
<1> QED
  BY <1>1, <1>2, <1>3, <1>4, <1>5, NoneLost, CallKept

LEMMA OnStopDispatchedStraight ==
  Inv /\ StraightInv /\ UNCHANGED childVars /\ OnStopDispatched => StraightInv'
<1> SUFFICES ASSUME Inv, StraightInv, UNCHANGED childVars, OnStopDispatched PROVE StraightInv'
  OBVIOUS
<1>1. /\ ListenerFrame /\ UNCHANGED <<oda, mBufferedData, delivered, output, mDisconnected>>
      /\ UNCHANGED <<mState, mQueue, suspends, toParent, toChild, ipc>>
      /\ actorq' = Append(actorq, Event("stop"))
  BY DEF OnStopDispatched, OnStopFrame, ListenerFrame
<1>2. Event("stop") \in ActorEvents /\ Event("stop").name = "stop"
  BY Kinds, Named
<1>3. /\ Names(actorq') = Names(actorq) \cup {"stop"} /\ Same(actorq, actorq') /\ ActorHush'
  BY <1>1, <1>2, AddedHush DEF StraightInv
<1>4. ParentBuffers'
  BY <1>1, <1>3 DEF StraightInv, ParentBuffers, IPCActive
<1>5. Calm => ParentCalm'
  BY <1>1, <1>3 DEF StraightInv, CalmInv, ParentCalm, IPCActive
<1> QED
  BY <1>1, <1>3, <1>4, <1>5, SortedOutput, CallKept

\* The channel's next chunk is one more that was delivered.
LEMMA HeldMore ==
  ASSUME 1..delivered \subseteq Held, delivered \in Nat, delivered' = delivered + 1,
         kept' = kept, Buffer' = Buffer, Theirs \subseteq Theirs', delivered + 1 \in Theirs'
  PROVE  1..delivered' \subseteq Held'
<1> SUFFICES ASSUME NEW n \in 1..(delivered + 1) PROVE n \in Held'
  OBVIOUS
<1>1. CASE n = delivered + 1
  BY <1>1 DEF Held, Theirs, Buffer
<1>2. CASE n \in 1..delivered
  <2>1. n # 0 /\ n \in Held
    BY <1>2
  <2>2. n \in Theirs \cup Elements(kept) \cup Elements(Buffer)
    BY <2>1 DEF Held, Theirs, Buffer
  <2>3. n \in Theirs' \cup Elements(kept') \cup Elements(Buffer')
    BY <2>2
  <2> QED
    BY <2>3 DEF Held, Theirs, Buffer
<1>3. n = delivered + 1 \/ n \in 1..delivered
  OBVIOUS
<1> QED
  BY <1>1, <1>2, <1>3

LEMMA NextChunk ==
  ASSUME Inv, Delivers
  PROVE  /\ delivered \in Nat /\ delivered + 1 \in Chunks /\ delivered + 1 \in 0..MaxChunks
         /\ delivered + 1 # 0
         /\ delivered + 1 \in Later /\ Below({delivered + 1}, Later') /\ Later' \subseteq Later
<1>1. delivered' = delivered + 1 /\ delivered < MaxChunks /\ delivered \in 0..MaxChunks
  BY WayTypes DEF Delivers
<1>2. delivered \in Nat /\ delivered + 1 \in 1..MaxChunks /\ MaxChunks \in Nat
  BY <1>1, ChunksAssumption
<1> QED
  BY <1>1, <1>2 DEF Chunks, Later, Below

LEMMA OnDataAvailableStraight == Inv /\ StraightInv /\ UNCHANGED childVars /\ OnDataAvailable => StraightInv'
<1> SUFFICES ASSUME Inv, StraightInv, UNCHANGED childVars, OnDataAvailable PROVE StraightInv'
  OBVIOUS
<1> DEFINE n == delivered + 1
<1>1. /\ Delivers /\ ~mDisconnected /\ suspends = 0 /\ oda = 0 /\ oda' = n /\ delivered' = n
      /\ UNCHANGED <<mState, mQueue, suspends, toParent, toChild, ipc, mBufferedData, output, actorq,
                     mDisconnected>>
  BY DEF OnDataAvailable, Delivers, ListenerFrame
<1>2. /\ delivered \in Nat /\ n # 0 /\ n \in Later /\ Below({n}, Later') /\ Later' \subseteq Later
  BY <1>1, NextChunk
<1>3. /\ kept' = kept /\ Buffer' = Buffer /\ (MayWrite' => MayWrite) /\ child' = child
      /\ (IPCActive' <=> IPCActive)
  BY <1>1, ChildStill DEF IPCActive
<1> HIDE DEF n
<1>4. {oda'} \ {0} = {n} /\ {oda} \ {0} = {}
  BY <1>1, <1>2
<1>5. Sorts'
  BY <1>1, <1>3 DEF StraightInv, Sorts
<1>6. Ordered(Inward')
  <2>1. PICK i \in 1..6, j \in 1..6 : i = 6 /\ j = 5
    OBVIOUS
  <2>2. /\ Inward'[1] = Inward[1] /\ Inward'[2] = Inward[2] /\ Inward'[3] = Inward[3]
        /\ Inward'[4] = Inward[4] /\ Inward'[5] = {n} /\ Inward'[6] \subseteq Inward[6]
        /\ {n} \subseteq Inward[6] /\ Below({n}, Inward'[6])
    BY <1>1, <1>2, <1>3, <1>4, InwardStages, InwardNext
  <2> QED
    BY <2>1, <2>2, InwardPassed DEF StraightInv
<1>7. Ordered(Outward')
  <2>1. PICK i \in 1..9, j \in 1..9 : i = 9 /\ j = 8
    OBVIOUS
  <2>2. /\ Outward'[1] = Outward[1] /\ Outward'[2] = Outward[2] /\ Outward'[3] = Outward[3]
        /\ Outward'[4] \subseteq Outward[4] /\ Outward'[5] \subseteq Outward[5]
        /\ Outward'[6] = Outward[6] /\ Outward'[7] = Outward[7]
        /\ Outward'[8] = {n} /\ Outward'[9] \subseteq Outward[9]
        /\ {n} \subseteq Outward[9] /\ Below({n}, Outward'[9])
    BY <1>1, <1>2, <1>3, <1>4, OutwardStages, OutwardNext
  <2> QED
    BY <2>1, <2>2, OutwardPassed DEF StraightInv
<1>8. Silence'
  <2>1. ActorHush'
    BY <1>1, SilenceParts DEF StraightInv, ActorHush
  <2>2. Awaited'
    BY <1>1, <1>3, SilenceParts DEF StraightInv, Awaited
  <2> QED
    BY <1>1, <2>1, <2>2, StillHush, SilenceParts DEF StraightInv
<1>9. ParentBuffers'
  BY <1>1, <1>3 DEF StraightInv, ParentBuffers
<1>10. Calm => ParentCalm' /\ 1..delivered' \subseteq Held'
  <2> SUFFICES ASSUME Calm PROVE ParentCalm' /\ 1..delivered' \subseteq Held'
    OBVIOUS
  <2>1. ParentCalm /\ 1..delivered \subseteq Held
    BY DEF StraightInv, CalmInv
  <2>2. Theirs \subseteq Theirs' /\ n \in Theirs'
    BY <1>1, <1>4 DEF Theirs
  <2>3. ParentCalm'
    BY <1>1, <1>3, <2>1 DEF ParentCalm
  <2> QED
    BY <1>1, <1>2, <1>3, <2>1, <2>2, <2>3, HeldMore DEF n
<1> QED
  BY <1>1, <1>5, <1>6, <1>7, <1>8, <1>9, <1>10, SteadyKept DEF Ways

\* A chunk that passes the filter finds nothing on the way that it could overtake
\* but the parent's buffer, which goes before it.
LEMMA NothingBefore ==
  ASSUME Inv, StraightInv, mDisconnected
  PROVE  /\ ChunksIn(mQueue) = {} /\ ChunksIn(toParent) = {}
         /\ ipc = "open" => ChunksIn(toChild) = {}
         /\ MayWrite => Elements(kept) = {} /\ Elements(Buffer) = {}
         /\ IPCActive => ChunksIn(actorq) = {} /\ mBufferedData = <<>>
<1>1. \/ mState = "Disconnected"
      \/ /\ mState = "Uninitialized" /\ toChild = <<>> /\ mQueue = <<>>
         /\ child.mState \in Unborn \cup {"Dead"} /\ toParent = <<>>
  BY InvParts DEF StopInv, HandAt, Started, Beginning
<1>2. "write" \notin Names(mQueue)
  BY <1>1, InvParts, NoNames DEF StopInv, Writing
<1>3. "Write" \notin Names(toParent)
  BY <1>1, InvParts, NoNames DEF HandAt, Flushes, Started, Finished
<1>4. ipc = "open" => "Data" \notin Names(toChild)
  BY <1>1, NoNames DEF StraightInv, ParentBuffers
<1>5. MayWrite => Elements(kept) = {} /\ Elements(Buffer) = {}
  <2> SUFFICES ASSUME MayWrite PROVE Elements(kept) = {} /\ Elements(Buffer) = {}
    OBVIOUS
  <2>1. child.mState \in Unborn
    BY <1>1, InvParts DEF HandAt, Flushes, Finished, MayWrite, Writers, Unborn, Ready
  <2> QED
    BY <2>1, NoElements DEF StraightInv, ChildBuffers
<1>6. IPCActive => "data" \notin Names(actorq) /\ mBufferedData = <<>>
  BY <1>1 DEF StraightInv, ParentBuffers, IPCActive
<1> QED
  BY <1>2, <1>3, <1>4, <1>5, <1>6, Dataless, WayTypes

LEMMA OnDataPassedStraight == Inv /\ StraightInv /\ UNCHANGED childVars /\ OnDataPassed => StraightInv'
<1> SUFFICES ASSUME Inv, StraightInv, UNCHANGED childVars, OnDataPassed PROVE StraightInv'
  OBVIOUS
<1> DEFINE n == delivered + 1
           X == Elements(mBufferedData)
<1>1. /\ Delivers /\ mDisconnected /\ oda = 0 /\ oda' = oda /\ delivered' = n
      /\ mBufferedData' = <<>> /\ output' = output \o mBufferedData \o <<n>>
      /\ UNCHANGED <<mState, mQueue, suspends, toParent, toChild, ipc, actorq, mDisconnected>>
  BY DEF OnDataPassed, Delivers, ListenerFrame
<1>2. /\ delivered \in Nat /\ n # 0 /\ n \in 0..MaxChunks
      /\ n \in Later /\ Below({n}, Later') /\ Later' \subseteq Later
  BY <1>1, NextChunk
<1>3. /\ kept' = kept /\ Buffer' = Buffer /\ (MayWrite' <=> MayWrite) /\ child' = child
      /\ (IPCActive' <=> IPCActive)
  BY <1>1, ChildStill DEF IPCActive, MayWrite, childVars
<1>4. X = Outward[7]
  BY <1>1, NothingBefore, NoElements, OutwardStages
<1> HIDE DEF n
<1>5. Below(Elements(output) \ {0}, X) /\ Below(Elements(output) \ {0}, {n}) /\ Below(X, {n})
      /\ Below(X, Later')
  <2>1. PICK i \in 1..9, j \in 1..9, k \in 1..9 : i = 1 /\ j = 7 /\ k = 9
    OBVIOUS
  <2>2. Below(Outward[1], Outward[7]) /\ Below(Outward[1], Outward[9]) /\ Below(Outward[7], Outward[9])
    BY <2>1, Between DEF StraightInv
  <2> QED
    BY <1>2, <1>4, <2>2, OutwardStages DEF Below
<1>6. Ascending(output') /\ Elements(output') \ {0} = (Elements(output) \ {0}) \cup X \cup {n}
  <2> DEFINE q == output \o mBufferedData
  <2>1. /\ output \in Seq(0..MaxChunks) /\ mBufferedData \in Seq(Chunks)
        /\ Ascending(output) /\ Rising(mBufferedData)
    BY WayTypes DEF StraightInv, Sorts
  <2>2. /\ Ascending(q) /\ q \in Seq(0..MaxChunks) /\ Elements(q) \ {0} = (Elements(output) \ {0}) \cup X
    BY <1>5, <2>1, OutputJoined
  <2>3. Below(Elements(q) \ {0}, {n})
    BY <1>5, <2>2 DEF Below
  <2>4. output' = q \o <<n>>
    BY <1>1
  <2> HIDE DEF q
  <2>5. output' = Append(q, n)
    BY <1>2, <2>2, <2>4, AppendOf
  <2>6. /\ Ascending(Append(q, n))
        /\ Elements(Append(q, n)) \ {0} = (Elements(q) \ {0}) \cup ({n} \ {0})
    BY <1>2, <2>2, <2>3, OutputAdded
  <2> QED
    BY <1>2, <2>2, <2>5, <2>6
<1>7. Sorts'
  BY <1>1, <1>3, <1>6, NoElements DEF StraightInv, Sorts
<1>8. Ordered(Inward')
  BY <1>1, <1>2, <1>3, InwardStages, InwardNext, InwardLessened DEF StraightInv
<1>9. Ordered(Outward')
  <2> DEFINE Y == X \cup {n}
  <2>1. PICK i \in 1..9, j \in 1..9, l \in 1..9 : i = 7 /\ j = 1 /\ l = 9
    OBVIOUS
  <2>2. /\ Outward'[1] = Outward[1] \cup Y /\ X = Outward[7] /\ n \in Outward[9]
        /\ Outward'[2] = {} /\ Outward'[3] = {} /\ Outward'[4] = {} /\ Outward'[5] = {}
        /\ Outward'[6] = {} /\ Outward'[7] = {} /\ Outward'[8] = {}
        /\ Outward'[9] \subseteq Outward[9] /\ Below(Y, Outward'[9])
    <3>1. Outward'[7] = {}
      BY <1>1, <1>3, NothingBefore, NoElements, OutwardNext
    <3>2. Below(Y, Later')
      BY <1>2, <1>5 DEF Below
    <3>3. {oda'} \ {0} = {}
      BY <1>1
    <3>4. Outward'[1] = Outward[1] \cup Y
      BY <1>6, OutwardStages, OutwardNext
    <3> HIDE DEF Y, X
    <3>5. /\ Outward'[2] = {} /\ Outward'[3] = {} /\ Outward'[4] = {} /\ Outward'[5] = {}
          /\ Outward'[6] = {}
      BY <1>1, <1>3, NothingBefore, OutwardNext
    <3> QED
      BY <1>2, <1>4, <3>1, <3>2, <3>3, <3>4, <3>5, OutwardStages, OutwardNext
  <2>3. \A k \in 1..9 : k # j => Outward'[k] \subseteq Outward[k]
    BY <2>1, <2>2, Stages
  <2>4. \A x \in Y : \E k \in 1..9 : j < k /\ x \in Outward[k]
    <3> SUFFICES ASSUME NEW x \in Y PROVE \E k \in 1..9 : j < k /\ x \in Outward[k]
      OBVIOUS
    <3>1. x \in Outward[i] \/ x \in Outward[l]
      BY <2>1, <2>2
    <3> QED
      BY <2>1, <3>1
  <2>5. \A k \in 1..9 : j < k => Below(Y, Outward'[k])
    <3>1. Below(Y, {})
      BY DEF Below
    <3> QED
      BY <2>1, <2>2, <3>1, Stages
  <2>6. Outward'[j] \subseteq Outward[j] \cup Y
    BY <2>1, <2>2
  <2> HIDE DEF Y
  <2> QED
    BY <2>3, <2>4, <2>5, <2>6, OutwardAdvanced DEF StraightInv
<1>10. Silence'
  <2>1. Awaited'
    BY <1>1, <1>3, SilenceParts DEF StraightInv, Awaited
  <2> QED
    BY <1>1, <2>1, StillHush, SilenceParts DEF StraightInv
<1>11. ParentBuffers'
  BY <1>1, <1>3 DEF StraightInv, ParentBuffers
<1>12. Calm => ParentCalm' /\ 1..delivered' \subseteq Held'
  <2> SUFFICES ASSUME Calm PROVE ParentCalm' /\ 1..delivered' \subseteq Held'
    OBVIOUS
  <2>1. ParentCalm /\ 1..delivered \subseteq Held
    BY DEF StraightInv, CalmInv
  <2>2. Theirs \subseteq Theirs' /\ n \in Theirs'
    BY <1>1, <1>6 DEF Theirs
  <2>3. ParentCalm'
    BY <1>1, <1>3, <2>1 DEF ParentCalm
  <2> QED
    BY <1>1, <1>2, <1>3, <2>1, <2>2, <2>3, HeldMore DEF n
<1> QED
  BY <1>1, <1>7, <1>8, <1>9, <1>10, <1>11, <1>12, SteadyKept DEF Ways

\* The parent keeps a chunk for the listener while it waits for the child's.
LEMMA OnDataBufferedStraight == Inv /\ StraightInv /\ UNCHANGED childVars /\ OnDataBuffered => StraightInv'
<1> SUFFICES ASSUME Inv, StraightInv, UNCHANGED childVars, OnDataBuffered PROVE StraightInv'
  OBVIOUS
<1>1. /\ oda # 0 /\ oda' = 0 /\ mState = "Disconnecting" /\ mBufferedData' = Append(mBufferedData, oda)
      /\ UNCHANGED <<mState, mQueue, suspends, toParent, toChild, ipc, actorq, mDisconnected, output,
                     delivered>>
  BY DEF OnDataBuffered, OdaFrame, ListenerFrame
<1>2. ~IPCActive /\ ~IPCActive' /\ ~Calm
  BY <1>1 DEF IPCActive, StraightInv, CalmInv, ParentCalm
<1>3. oda \in Chunks /\ mBufferedData \in Seq(Chunks)
  BY <1>1, WayTypes, ChunksAssumption DEF Chunks
<1>4. {oda} \ {0} = {oda} /\ {oda'} \ {0} = {}
  BY <1>1
<1>5. Elements(mBufferedData') = Elements(mBufferedData) \cup {oda} /\ Rising(mBufferedData')
  <2>1. PICK i \in 1..9, j \in 1..9 : i = 7 /\ j = 8
    OBVIOUS
  <2>2. Below(Outward[7], Outward[8])
    BY <2>1, Between DEF StraightInv
  <2>3. Below(Elements(mBufferedData), {oda}) /\ Rising(mBufferedData)
    BY <1>2, <1>4, <2>2, OutwardStages DEF StraightInv, Sorts
  <2> QED
    BY <1>1, <1>3, <2>3, ChunkAdded
<1>6. /\ kept' = kept /\ Buffer' = Buffer /\ (MayWrite' => MayWrite) /\ Later' = Later
  BY <1>1, ChildStill DEF Later
<1>7. Sorts'
  BY <1>1, <1>2, <1>5, <1>6 DEF StraightInv, Sorts
<1>8. Ordered(Inward')
  BY <1>1, <1>2, <1>4, <1>6, InwardStages, InwardNext, InwardLessened DEF StraightInv
<1>9. Ordered(Outward')
  <2>1. PICK i \in 1..9, j \in 1..9 : i = 8 /\ j = 7
    OBVIOUS
  <2>2. /\ Outward'[1] = Outward[1] /\ Outward'[2] = Outward[2] /\ Outward'[3] = Outward[3]
        /\ Outward'[4] \subseteq Outward[4] /\ Outward'[5] \subseteq Outward[5]
        /\ Outward'[6] = Outward[6] /\ Outward'[7] = Outward[7] \cup {oda}
        /\ Outward'[8] = {} /\ Outward[8] = {oda} /\ Below({oda}, Outward'[8])
        /\ Outward'[9] = Outward[9]
    BY <1>1, <1>2, <1>4, <1>5, <1>6, OutwardStages, OutwardNext, SMTT(30) DEF Below
  <2> QED
    BY <2>1, <2>2, OutwardPassed DEF StraightInv
<1>10. Silence'
  <2>1. ActorHush'
    BY <1>1, SilenceParts DEF StraightInv, ActorHush
  <2> QED
    BY <1>1, <2>1, StillHush, SilenceParts DEF StraightInv
<1>11. ParentBuffers'
  BY <1>1, <1>2 DEF StraightInv, ParentBuffers
<1> QED
  BY <1>1, <1>2, <1>7, <1>8, <1>9, <1>10, <1>11, SteadyKept DEF Ways

LEMMA OnDataClosedStraight == Inv /\ StraightInv /\ UNCHANGED childVars /\ OnDataClosed => StraightInv'
<1> SUFFICES ASSUME Inv, StraightInv, UNCHANGED childVars, OnDataClosed PROVE StraightInv'
  OBVIOUS
<1>1. /\ oda' = 0 /\ mState = "Closed"
      /\ UNCHANGED <<mState, mQueue, suspends, toParent, toChild, ipc, actorq, mDisconnected, output,
                     delivered, mBufferedData>>
  BY DEF OnDataClosed, OdaFrame, ListenerFrame
<1>2. ~IPCActive /\ ~IPCActive' /\ ~Calm
  BY <1>1 DEF IPCActive, StraightInv, CalmInv, ParentCalm
<1>3. Lessens
  BY <1>1, NoneLost, SortedOutput DEF Lessens
<1>4. Silence'
  <2>1. ActorHush'
    BY <1>1, SilenceParts DEF StraightInv, ActorHush
  <2> QED
    BY <1>1, <2>1, StillHush, SilenceParts DEF StraightInv
<1>5. ParentBuffers'
  BY <1>1, <1>2 DEF StraightInv, ParentBuffers
<1> QED
  BY <1>1, <1>2, <1>3, <1>4, <1>5, LessKept

LEMMA DataQueued ==
  ASSUME Inv, NEW n \in Chunks, actorq' = Append(actorq, DoSendData(n))
  PROVE  /\ Names(actorq') = Names(actorq) \cup {"data"}
         /\ ChunksIn(actorq') = ChunksIn(actorq) \cup {n}
         /\ InOrder(actorq) /\ Below(ChunksIn(actorq), {n}) => InOrder(actorq')
         /\ \A F, T : NotBehind(actorq, F, T) /\ ("data" \in T => \A y \in F : y \notin Names(actorq))
                      => NotBehind(actorq', F, T)
<1> DEFINE m == DoSendData(n)
<1>1. m \in ActorEvents /\ m.name = "data" /\ m.data = n /\ n # 0 /\ {n} \ {0} = {n}
  BY Kinds, Named, Plain DEF Chunks
<1>2. actorq \in Seq(ActorEvents) /\ actorq' = Append(actorq, m)
  BY WayTypes
<1> HIDE DEF m
<1>3. actorq \in Seq(ActorEvents) /\ m \in ActorEvents
  BY <1>1, <1>2
<1>4. /\ ChunksIn(Append(actorq, m)) = ChunksIn(actorq) \cup ({m.data} \ {0})
      /\ InOrder(actorq) /\ (m.data # 0 => Below(ChunksIn(actorq), {m.data}))
           => InOrder(Append(actorq, m))
  BY <1>3, DataAdded
<1>5. /\ ChunksIn(actorq') = ChunksIn(actorq) \cup ({m.data} \ {0})
      /\ InOrder(actorq) /\ (m.data # 0 => Below(ChunksIn(actorq), {m.data})) => InOrder(actorq')
  BY <1>2, <1>4
<1>6. /\ Names(actorq') = Names(actorq) \cup {"data"}
      /\ \A F, T : NotBehind(actorq, F, T) /\ ("data" \in T => \A y \in F : y \notin Names(actorq))
                   => NotBehind(actorq', F, T)
  BY <1>1, <1>2, Added
<1> QED
  BY <1>1, <1>5, <1>6

\* A chunk that the parent sends to the child: none came since the channel was
\* suspended.
LEMMA OnDataDispatchedStraight ==
  Inv /\ StraightInv /\ UNCHANGED childVars /\ OnDataDispatched => StraightInv'
<1> SUFFICES ASSUME Inv, StraightInv, UNCHANGED childVars, OnDataDispatched PROVE StraightInv'
  OBVIOUS
<1> DEFINE n == oda
<1>1. /\ oda # 0 /\ oda' = 0 /\ mState \notin {"Disconnecting", "Closed"}
      /\ actorq' = Append(actorq, DoSendData(n))
      /\ UNCHANGED <<mState, mQueue, suspends, toParent, toChild, ipc, mDisconnected, output,
                     delivered, mBufferedData>>
  BY DEF OnDataDispatched, OdaFrame, ListenerFrame
<1>2. /\ n \in Chunks /\ {oda} \ {0} = {n} /\ {oda'} \ {0} = {}
  BY <1>1, WayTypes, ChunksAssumption DEF Chunks
<1> HIDE DEF n
<1>3. /\ kept' = kept /\ Buffer' = Buffer /\ (MayWrite' => MayWrite) /\ Later' = Later /\ child' = child
      /\ (IPCActive' <=> IPCActive)
  BY <1>1, ChildStill DEF IPCActive, Later
<1>4. ActorHush /\ Awaited
  BY SilenceParts DEF StraightInv
<1>5. suspends = 0 /\ "suspended" \notin Names(actorq)
  BY <1>1, <1>4, InvParts DEF Suspends, ActorHush
<1>6. IPCActive => Below(ChunksIn(actorq), {n}) /\ InOrder(actorq)
  <2>1. PICK i \in 1..9, j \in 1..9 : i = 7 /\ j = 8
    OBVIOUS
  <2>2. Below(Outward[7], Outward[8])
    BY <2>1, Between DEF StraightInv
  <2> QED
    BY <1>2, <2>2, OutwardStages DEF StraightInv, Sorts
<1>7. /\ Names(actorq') = Names(actorq) \cup {"data"}
      /\ ChunksIn(actorq') = ChunksIn(actorq) \cup {n} /\ (IPCActive => InOrder(actorq'))
  BY <1>1, <1>2, <1>6, DataQueued
<1>8. Sorts'
  BY <1>1, <1>3, <1>7 DEF StraightInv, Sorts
<1>9. Ordered(Inward')
  <2>1. PICK i \in 1..6, j \in 1..6 : i = 5 /\ j = 4
    OBVIOUS
  <2>2. /\ Inward'[1] = Inward[1] /\ Inward'[2] = Inward[2] /\ Inward'[3] = Inward[3]
        /\ Inward'[4] \subseteq Inward[4] \cup {n} /\ Inward'[5] = {} /\ Inward[5] = {n}
        /\ Below({n}, Inward'[5]) /\ Inward'[6] = Inward[6]
    BY <1>1, <1>2, <1>3, <1>7, InwardStages, InwardNext DEF Below
  <2> QED
    BY <2>1, <2>2, InwardPassed DEF StraightInv
<1>10. Ordered(Outward')
  <2>1. PICK i \in 1..9, j \in 1..9 : i = 8 /\ j = 7
    OBVIOUS
  <2>2. /\ Outward'[1] = Outward[1] /\ Outward'[2] = Outward[2] /\ Outward'[3] = Outward[3]
        /\ Outward'[4] \subseteq Outward[4] /\ Outward'[5] \subseteq Outward[5]
        /\ Outward'[6] = Outward[6] /\ Outward'[7] \subseteq Outward[7] \cup {n}
        /\ Outward'[8] = {} /\ Outward[8] = {n} /\ Below({n}, Outward'[8])
        /\ Outward'[9] = Outward[9]
    BY <1>1, <1>2, <1>3, <1>7, OutwardStages, OutwardNext, SMTT(30) DEF Below
  <2>3. /\ j < i /\ Outward'[j] \subseteq Outward[j] \cup {n} /\ {n} \subseteq Outward[i]
        /\ Below({n}, Outward'[i])
    BY <2>1, <2>2
  <2>4. /\ Outward'[1] \subseteq Outward[1] /\ Outward'[2] \subseteq Outward[2]
        /\ Outward'[3] \subseteq Outward[3] /\ Outward'[4] \subseteq Outward[4]
        /\ Outward'[5] \subseteq Outward[5] /\ Outward'[6] \subseteq Outward[6]
        /\ 7 # j => Outward'[7] \subseteq Outward[7]
        /\ Outward'[8] \subseteq Outward[8] /\ Outward'[9] \subseteq Outward[9]
    BY <2>1, <2>2
  <2>5. \A k \in 1..9 : j < k /\ k < i => Outward'[k] = {}
    BY <2>1
  <2> QED
    BY <2>3, <2>4, <2>5, OutwardPassed DEF StraightInv
<1>11. Silence'
  <2>1. NotBehind(actorq', {"suspended"}, {"data"})
    BY <1>1, <1>2, <1>4, <1>5, DataQueued DEF ActorHush
  <2>4. NotBehind(actorq', {"data"}, {"resumed"})
    BY <1>1, <1>2, <1>4, <1>5, DataQueued DEF ActorHush
  <2>5. ActorHush'
    BY <1>1, <1>5, <2>1, <2>4 DEF ActorHush
  <2>6. Awaited'
    BY <1>1, <1>3, <1>4, <1>7 DEF Awaited
  <2> QED
    BY <1>1, <2>5, <2>6, StillHush, SilenceParts DEF StraightInv
<1>12. ParentBuffers'
  BY <1>1, <1>3, <1>7 DEF StraightInv, ParentBuffers
<1>13. Calm => ParentCalm' /\ 1..delivered' \subseteq Held'
  <2> SUFFICES ASSUME Calm PROVE ParentCalm' /\ 1..delivered' \subseteq Held'
    OBVIOUS
  <2>1. ParentCalm /\ 1..delivered \subseteq Held
    BY DEF StraightInv, CalmInv
  <2>2. Theirs \subseteq Theirs'
    BY <1>1, <1>2, <1>7 DEF Theirs
  <2>3. ParentCalm'
    BY <1>1, <1>3, <2>1 DEF ParentCalm
  <2> QED
    BY <1>1, <1>3, <2>1, <2>2, <2>3, TheirsHeld
<1> QED
  BY <1>1, <1>8, <1>9, <1>10, <1>11, <1>12, <1>13, SteadyKept DEF Ways

-----------------------------------------------------------------------------
(***************************************************************************)
(* The theorems.                                                           *)
(***************************************************************************)
LEMMA ActorStraight == Inv /\ StraightInv /\ UNCHANGED childVars /\ ActorThread => StraightInv'
<1> SUFFICES ASSUME Inv, StraightInv, UNCHANGED childVars, ActorThread PROVE StraightInv'
  OBVIOUS
<1>1. CASE ActRedirected \/ ActStart \/ ActStop \/ ActSuspended \/ ActResumed \/ ActUnheard
  BY <1>1, ActRedirectedStraight, ActStartStraight, ActStopStraight, ActSuspendedStraight,
     ActResumedStraight, ActUnheardStraight
<1>2. CASE ActDisconnected \/ ActSendData \/ ActDropData \/ ActClose \/ ActError
  BY <1>2, ActDisconnectedStraight, ActSendDataStraight, ActDropDataStraight, ActCloseStraight
<1>3. CASE RecvWrite \/ RecvSuspend \/ RecvResume \/ RecvDisconnect
  BY <1>3, RecvWriteStraight, RecvSuspendStraight, RecvResumeStraight, RecvDisconnectStraight
<1>4. CASE RecvIgnored \/ RecvFlushedData \/ RecvClose \/ RecvDestroy
  BY <1>4, RecvIgnoredStraight, RecvFlushedDataStraight, RecvCloseStraight, RecvDestroyStraight
<1> QED
  BY <1>1, <1>2, <1>3, <1>4 DEF ActorThread

LEMMA QueueStraight ==
  Inv /\ StraightInv /\ ~retargeted /\ UNCHANGED childVars /\ QueueThreads => StraightInv'
  BY RunWriteStraight, RunFlushStraight, RunPlainStraight, RunSuspendStraight, RunResumeStraight
  DEF QueueThreads

LEMMA CallStraight == Inv /\ StraightInv /\ UNCHANGED childVars /\ (Channel \/ Listener) => StraightInv'
  BY OnStartStraight, OnDataPassedStraight, OnDataAvailableStraight, OnStopRequestStraight,
     OnDataBufferedStraight, OnDataClosedStraight, OnDataDispatchedStraight, OnStopPassedStraight,
     OnStopDispatchedStraight
  DEF Channel, Listener

\* Whether a channel is retargeted is known when it starts.
LEMMA RetargetedAtStart ==
  [Next]_vars => \/ retargeted' = retargeted /\ (channel' = "new" => channel = "new")
                 \/ channel = "new" /\ channel' = "open"
<1> SUFFICES ASSUME [Next]_vars
             PROVE  \/ retargeted' = retargeted /\ (channel' = "new" => channel = "new")
                    \/ channel = "new" /\ channel' = "open"
  OBVIOUS
<1>1. CASE UNCHANGED parentVars
  BY <1>1 DEF parentVars, channelVars
<1>2. CASE ActorThread
  BY <1>2 DEF ActorThread, ActRedirected, ActStart, ActStop, ActSuspended, ActResumed, ActUnheard,
     ActDisconnected, ActSendData, ActDropData, ActClose, ActError, Tells, Acts,
     RecvWrite, RecvSuspend, RecvResume, RecvDisconnect, RecvIgnored, RecvFlushedData, RecvClose,
     RecvDestroy, ParentReceives, ActorFrame
<1>3. CASE QueueThreads
  BY <1>3 DEF QueueThreads, RunWrite, RunFlush, RunEmitStop, RunStopSent, RunLeaveGroup, RunSuspend,
     RunResume, Runs, QueueFrame
<1>4. CASE Channel \/ Listener
  BY <1>4 DEF Channel, Listener, OnStartRequest, OnStartRedirected, OnDataPassed, OnDataAvailable,
     OnStopRequest, Delivers, OnDataBuffered, OnDataClosed, OnDataDispatched, OdaFrame,
     OnStopPassed, OnStopDispatched, OnStopFrame
<1> QED
  BY <1>1, <1>2, <1>3, <1>4 DEF Next, Parent, vars

LEMMA StutterStraight == Inv /\ StraightInv /\ UNCHANGED vars => StraightInv'
<1> SUFFICES ASSUME Inv, StraightInv, UNCHANGED vars PROVE StraightInv'
  OBVIOUS
<1>1. /\ UNCHANGED childVars /\ child' = child
      /\ UNCHANGED <<mState, mQueue, actorq, oda, mBufferedData, output, delivered, suspends,
                     mDisconnected, toChild, toParent, ipc>>
      /\ (IPCActive' <=> IPCActive)
  BY DEF vars, ipcVars, childVars, parentVars, channelVars, IPCActive
<1>2. Lessens
  BY <1>1, NoneLost, SortedOutput DEF Lessens
<1>3. Silence'
  <2>1. Awaited'
    BY <1>1, SilenceParts DEF StraightInv, Awaited
  <2> QED
    BY <1>1, <2>1, StillHush, SilenceParts DEF StraightInv
<1>4. ParentBuffers'
  BY <1>1 DEF StraightInv, ParentBuffers
<1>5. Calm => ParentCalm' /\ Theirs \subseteq Theirs'
  BY <1>1 DEF StraightInv, CalmInv, ParentCalm, Theirs
<1> QED
  BY <1>1, <1>2, <1>3, <1>4, <1>5, LessKept

LEMMA StraightInit == Init => StraightInv
<1> SUFFICES ASSUME Init PROVE StraightInv
  OBVIOUS
<1>1. /\ toChild = <<>> /\ toParent = <<>> /\ mQueue = <<>> /\ actorq = <<>> /\ output = <<>>
      /\ mBufferedData = <<>> /\ kept = <<>> /\ Buffer = <<>> /\ oda = 0 /\ delivered = 0
      /\ suspends = 0 /\ mState = "Uninitialized" /\ ~mDisconnected
      /\ child.mState = "Uninitialized" /\ child.mNextState = "Uninitialized" /\ child.mStreamFilter
      /\ child.mBufferedData = <<>>
  BY DEF Init, IpcInit, ParentInit, ChildInit, Buffer
<1>2. Names(<<>>) = {} /\ \A F, T : NotBehind(<<>>, F, T)
  BY NoNames DEF NotBehind
<1>3. Silence
  BY <1>1, <1>2 DEF Silence
<1>4. Sorts
  BY <1>1, NoElements DEF Sorts
<1>5. Below({}, Later)
  BY DEF Below
<1>6. Below({}, {}) /\ {oda} \ {0} = {}
  BY <1>1 DEF Below
<1>7. Ordered(Inward)
  <2>1. \A k \in 1..6 : k < 6 => Inward[k] = {}
    BY <1>1, <1>6, NoElements, InwardStages, Stages
  <2> QED
    BY <1>5, <1>6, <2>1, InwardStages DEF Ordered, Below
<1>8. Ordered(Outward)
  <2>1. \A k \in 1..9 : k < 9 => Outward[k] = {}
    BY <1>1, <1>6, NoElements, OutwardStages, Stages
  <2> QED
    BY <1>5, <1>6, <2>1, OutwardStages DEF Ordered, Below
<1>9. ChildBuffers /\ ParentBuffers
  BY <1>1, <1>2 DEF ChildBuffers, ParentBuffers, Drained, Unborn
<1>10. CalmInv
  <2>1. 1..delivered = {}
    BY <1>1
  <2> QED
    BY <1>1, <2>1 DEF CalmInv, ParentCalm, IPCActive, Healthy, Writers, Unborn
<1> QED
  BY <1>3, <1>4, <1>7, <1>8, <1>9, <1>10 DEF StraightInv

LEMMA OrderStep == OrderInv /\ [Next]_vars => OrderInv'
<1> SUFFICES ASSUME OrderInv, [Next]_vars PROVE OrderInv'
  OBVIOUS
<1>1. Inv /\ Inv'
  BY InvStep DEF OrderInv
<1>2. /\ channel' = "new" => ~retargeted'
      /\ ~retargeted' => ~retargeted
  BY RetargetedAtStart DEF OrderInv
<1>3. ASSUME ~retargeted PROVE StraightInv'
  <2>1. StraightInv
    BY <1>3 DEF OrderInv
  <2>2. CASE (Child \/ ChildEnd) /\ UNCHANGED parentVars
    BY <1>1, <2>1, <2>2, ChildStraight
  <2>3. CASE Parent /\ UNCHANGED childVars
    BY <1>1, <1>3, <2>1, <2>3, ActorStraight, QueueStraight, CallStraight DEF Parent
  <2>4. CASE UNCHANGED vars
    BY <1>1, <2>1, <2>4, StutterStraight
  <2> QED
    BY <2>2, <2>3, <2>4 DEF Next
<1> QED
  BY <1>1, <1>2, <1>3 DEF OrderInv

LEMMA OrderAlways == Spec => []OrderInv
<1>1. Init => OrderInv
  BY InvInit, StraightInit DEF OrderInv, Init, ParentInit
<1>2. OrderInv /\ [Next]_vars => OrderInv'
  BY OrderStep
<1> QED
  BY <1>1, <1>2, PTL DEF Spec

\* On a channel that is not retargeted, script sees the chunks in the channel's
\* order and each at most once, and so does the listener: neither the child's
\* mBufferedData, nor the parent's, nor the two event queues let one chunk overtake
\* another, however suspend, resume, disconnect, close and the stop interleave.
THEOREM ChunksKeepTheirOrder == Spec => []OrderKept
<1>1. OrderInv => OrderKept
  BY DEF OrderInv, OrderKept, StraightInv, Sorts, Rising, Ascending
<1> QED
  BY <1>1, OrderAlways, PTL

\* A filter that script only suspends and resumes has every chunk that its channel
\* delivered somewhere; DoSendData drops none, FlushBufferedData leaves none behind
\* in the child once its data flows again, and none comes after its stop event.
THEOREM SuspensionsLoseNothing == Spec => []SuspendKeepsData
<1>1. OrderInv => SuspendKeepsData
  <2> SUFFICES ASSUME OrderInv, ~retargeted, ~ended, script = "running", ipc = "open", emitting = "no"
               PROVE  /\ 1..delivered \subseteq Held
                      /\ In(child, {"TransferringData", "FinishedTransferringData"})
                           => child.mBufferedData = <<>>
                      /\ In(child, {"FinishedTransferringData"}) => ChunksIn(toChild) = {}
    BY DEF SuspendKeepsData
  <2>1. Inv /\ StraightInv
    BY DEF OrderInv
  <2>2. 1..delivered \subseteq Held
    BY <2>1 DEF StraightInv, CalmInv, Calm
  <2>3. In(child, {"TransferringData", "FinishedTransferringData"}) => child.mBufferedData = <<>>
    BY <2>1 DEF StraightInv, ChildBuffers, Drained, Buffer, In
  <2>4. In(child, {"FinishedTransferringData"}) => "Data" \notin Names(toChild)
    BY <2>1, InvParts DEF In, TypeInv, ChildInv, Fits, HandAt, Flows
  <2>5. In(child, {"FinishedTransferringData"}) => ChunksIn(toChild) = {}
    BY <2>1, <2>4, Dataless, WayTypes
  <2> QED
    BY <2>2, <2>3, <2>5
<1> QED
  BY <1>1, OrderAlways, PTL
=============================================================================
