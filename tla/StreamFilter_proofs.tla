------------------------ MODULE StreamFilter_proofs ------------------------
(***************************************************************************)
(* The stream filter, for any number of chunks and calls: the two sides    *)
(* agree, the listener's OnStopRequest is its last call, and the channel's *)
(* suspensions pair up.                                                    *)
(***************************************************************************)
EXTENDS StreamFilter, TLAPS

-----------------------------------------------------------------------------
(***************************************************************************)
(* Queues: the names in one, and where in it they may stand.               *)
(***************************************************************************)
Names(q) == {q[k].name : k \in 1..Len(q)}

\* At most one of these names; none of the names behind one of the first; one
\* of the names at the end only.
Once(q, names) == \A j, k \in 1..Len(q) : q[j].name \in names /\ q[k].name \in names => j = k
NotBehind(q, first, names) ==
    \A j, k \in 1..Len(q) : j < k /\ q[j].name \in first => q[k].name \notin names
OnlyLast(q, names) == \A k \in 1..Len(q) : q[k].name \in names => k = Len(q)

LEMMA TailOf ==
  ASSUME NEW S, NEW q \in Seq(S), q # <<>>
  PROVE  /\ Head(q) \in S /\ Head(q) = q[1]
         /\ Tail(q) \in Seq(S)
         /\ Len(Tail(q)) = Len(q) - 1 /\ Len(q) \in Nat \ {0}
         /\ \A n \in 1..Len(Tail(q)) : Tail(q)[n] = q[n + 1] /\ n + 1 \in 1..Len(q)
  OBVIOUS

LEMMA AppendOf ==
  ASSUME NEW S, NEW q \in Seq(S), NEW x \in S
  PROVE  /\ Append(q, x) \in Seq(S)
         /\ Append(q, x) # <<>>
         /\ Len(Append(q, x)) = Len(q) + 1 /\ Len(q) \in Nat
         /\ \A n \in 1..Len(q) : Append(q, x)[n] = q[n]
         /\ Append(q, x)[Len(q) + 1] = x
         /\ q # <<>> => Head(Append(q, x)) = Head(q)
         /\ q = <<>> => Head(Append(q, x)) = x
         /\ q \o <<x>> = Append(q, x)
  OBVIOUS

LEMMA ConcatOf ==
  ASSUME NEW S, NEW q \in Seq(S), NEW r \in Seq(S)
  PROVE  /\ q \o r \in Seq(S)
         /\ Len(q \o r) = Len(q) + Len(r) /\ Len(q) \in Nat /\ Len(r) \in Nat
         /\ \A n \in 1..Len(q) : (q \o r)[n] = q[n]
         /\ \A n \in 1..Len(r) : (q \o r)[Len(q) + n] = r[n]
         /\ \A n \in 1..Len(q \o r) : n > Len(q) => (q \o r)[n] = r[n - Len(q)] /\ n - Len(q) \in 1..Len(r)
         /\ q \o <<>> = q
         /\ q = <<>> => q \o r = r
  OBVIOUS

LEMMA NoNames == Names(<<>>) = {}
  BY DEF Names

\* What is left when the oldest is taken.
LEMMA Taken ==
  ASSUME NEW S, NEW q \in Seq(S), q # <<>>
  PROVE  /\ Names(q) = Names(Tail(q)) \cup {Head(q).name}
         /\ \A T : Once(q, T) => /\ Once(Tail(q), T)
                                 /\ Head(q).name \in T => \A x \in T : x \notin Names(Tail(q))
         /\ \A F, T : NotBehind(q, F, T) =>
              /\ NotBehind(Tail(q), F, T)
              /\ Head(q).name \in F => \A x \in T : x \notin Names(Tail(q))
         /\ \A T : OnlyLast(q, T) => /\ OnlyLast(Tail(q), T)
                                     /\ Head(q).name \in T => Tail(q) = <<>>
<1> DEFINE t == Tail(q)
<1>1. /\ Head(q) = q[1] /\ Len(t) = Len(q) - 1 /\ Len(q) \in Nat \ {0}
      /\ \A n \in 1..Len(t) : t[n] = q[n + 1] /\ n + 1 \in 1..Len(q)
      /\ t \in Seq(S)
  BY TailOf
<1>2. \A k \in 1..Len(q) : k = 1 \/ (k - 1 \in 1..Len(t) /\ t[k - 1] = q[k])
  <2> SUFFICES ASSUME NEW k \in 1..Len(q), k # 1 PROVE k - 1 \in 1..Len(t) /\ t[k - 1] = q[k]
    OBVIOUS
  <2>1. k - 1 \in 1..Len(t) /\ (k - 1) + 1 = k
    BY <1>1
  <2> QED
    BY <2>1, <1>1
<1> HIDE DEF t
<1>3. 1 \in 1..Len(q) /\ (Len(t) = 0 => t = <<>>)
  BY <1>1
<1>4. Names(q) = Names(t) \cup {Head(q).name}
  BY <1>1, <1>2, <1>3 DEF Names
<1>5. ASSUME NEW T, Once(q, T)
      PROVE  Once(t, T) /\ (Head(q).name \in T => \A x \in T : x \notin Names(t))
  <2>1. Once(t, T)
    <3> SUFFICES ASSUME NEW j \in 1..Len(t), NEW k \in 1..Len(t), t[j].name \in T,
                        t[k].name \in T
                 PROVE  j = k
      BY DEF Once
    <3>1. j + 1 = k + 1
      BY <1>1, <1>5 DEF Once
    <3> QED
      BY <3>1, <1>1
  <2>2. ASSUME Head(q).name \in T, NEW k \in 1..Len(t), t[k].name \in T PROVE FALSE
    <3>1. k + 1 = 1
      BY <1>1, <1>3, <1>5, <2>2 DEF Once
    <3> QED
      BY <3>1, <1>1
  <2> QED
    BY <2>1, <2>2 DEF Names
<1>6. ASSUME NEW F, NEW T, NotBehind(q, F, T)
      PROVE  NotBehind(t, F, T) /\ (Head(q).name \in F => \A x \in T : x \notin Names(t))
  <2>1. NotBehind(t, F, T)
    <3> SUFFICES ASSUME NEW j \in 1..Len(t), NEW k \in 1..Len(t), j < k, t[j].name \in F
                 PROVE  t[k].name \notin T
      BY DEF NotBehind
    <3>1. j + 1 < k + 1
      BY <1>1
    <3> QED
      BY <3>1, <1>1, <1>6 DEF NotBehind
  <2>2. ASSUME Head(q).name \in F, NEW k \in 1..Len(t), t[k].name \in T PROVE FALSE
    <3>1. 1 < k + 1
      BY <1>1
    <3> QED
      BY <3>1, <1>1, <1>3, <1>6, <2>2 DEF NotBehind
  <2> QED
    BY <2>1, <2>2 DEF Names
<1>7. ASSUME NEW T, OnlyLast(q, T)
      PROVE  OnlyLast(t, T) /\ (Head(q).name \in T => t = <<>>)
  <2>1. ASSUME NEW k \in 1..Len(t), t[k].name \in T PROVE k = Len(t)
    <3>1. k + 1 = Len(q)
      BY <1>1, <1>7, <2>1 DEF OnlyLast
    <3> QED
      BY <1>1, <3>1
  <2>2. ASSUME Head(q).name \in T PROVE t = <<>>
    <3>1. 1 = Len(q)
      BY <1>1, <1>3, <1>7, <2>2 DEF OnlyLast
    <3> QED
      BY <1>1, <1>3, <3>1
  <2> QED
    BY <2>1, <2>2 DEF OnlyLast
<1> QED
  BY <1>4, <1>5, <1>6, <1>7 DEF t

\* What there is when one more is added.
LEMMA Added ==
  ASSUME NEW S, NEW q \in Seq(S), NEW x \in S
  PROVE  /\ Names(Append(q, x)) = Names(q) \cup {x.name}
         /\ \A T : Once(q, T) /\ (x.name \in T => \A y \in T : y \notin Names(q))
                   => Once(Append(q, x), T)
         /\ \A F, T : NotBehind(q, F, T) /\ (x.name \in T => \A y \in F : y \notin Names(q))
                      => NotBehind(Append(q, x), F, T)
<1> DEFINE a == Append(q, x)
<1>1. /\ Len(a) = Len(q) + 1 /\ Len(q) \in Nat
      /\ \A n \in 1..Len(q) : a[n] = q[n]
      /\ a[Len(q) + 1] = x
  BY AppendOf
<1> HIDE DEF a
<1>2. \A k \in 1..Len(a) : k = Len(q) + 1 \/ k \in 1..Len(q)
  BY <1>1
<1>3. /\ \A k \in 1..Len(q) : k \in 1..Len(a) /\ k < Len(q) + 1
      /\ Len(q) + 1 \in 1..Len(a)
  BY <1>1
<1>4. Names(a) = Names(q) \cup {x.name}
  BY <1>1, <1>2, <1>3 DEF Names
<1>5. ASSUME NEW T, Once(q, T), x.name \in T => \A y \in T : y \notin Names(q)
      PROVE  Once(a, T)
  BY <1>1, <1>2, <1>5 DEF Names, Once
<1>6. ASSUME NEW F, NEW T, NotBehind(q, F, T), x.name \in T => \A y \in F : y \notin Names(q)
      PROVE  NotBehind(a, F, T)
  BY <1>1, <1>2, <1>6 DEF Names, NotBehind
<1> QED
  BY <1>4, <1>5, <1>6 DEF a

\* What there is when several are added.
LEMMA Joined ==
  ASSUME NEW S, NEW q \in Seq(S), NEW r \in Seq(S)
  PROVE  /\ Names(q \o r) = Names(q) \cup Names(r)
         /\ \A T : Once(q, T) /\ Once(r, T)
                   /\ ((\A x \in T : x \notin Names(q)) \/ (\A x \in T : x \notin Names(r)))
                   => Once(q \o r, T)
         /\ \A T : OnlyLast(r, T) /\ (\A x \in T : x \notin Names(q)) => OnlyLast(q \o r, T)
<1> DEFINE a == q \o r
<1>1. /\ Len(a) = Len(q) + Len(r) /\ Len(q) \in Nat /\ Len(r) \in Nat
      /\ \A n \in 1..Len(q) : a[n] = q[n]
      /\ \A n \in 1..Len(r) : a[Len(q) + n] = r[n]
      /\ \A n \in 1..Len(a) : n > Len(q) => a[n] = r[n - Len(q)] /\ n - Len(q) \in 1..Len(r)
  BY ConcatOf
<1> HIDE DEF a
<1>2. \A k \in 1..Len(a) : k \in 1..Len(q) \/ (k - Len(q) \in 1..Len(r) /\ a[k] = r[k - Len(q)])
  BY <1>1
<1>3. /\ \A k \in 1..Len(q) : k \in 1..Len(a)
      /\ \A k \in 1..Len(r) : Len(q) + k \in 1..Len(a)
  BY <1>1
<1>4. Names(a) = Names(q) \cup Names(r)
  <2>1. ASSUME NEW n \in Names(a) PROVE n \in Names(q) \cup Names(r)
    <3>1. PICK k \in 1..Len(a) : n = a[k].name
      BY <2>1 DEF Names
    <3>2. CASE k \in 1..Len(q)
      BY <1>1, <3>1, <3>2 DEF Names
    <3>3. CASE k - Len(q) \in 1..Len(r) /\ a[k] = r[k - Len(q)]
      BY <3>1, <3>3 DEF Names
    <3> QED
      BY <1>2, <3>2, <3>3
  <2>2. ASSUME NEW n \in Names(q) PROVE n \in Names(a)
    BY <1>1, <1>3, <2>2 DEF Names
  <2>3. ASSUME NEW n \in Names(r) PROVE n \in Names(a)
    <3>1. PICK k \in 1..Len(r) : n = r[k].name
      BY <2>3 DEF Names
    <3>2. Len(q) + k \in 1..Len(a) /\ a[Len(q) + k].name = n
      BY <1>1, <1>3, <3>1
    <3> QED
      BY <3>2 DEF Names
  <2> QED
    BY <2>1, <2>2, <2>3
<1>5. ASSUME NEW T, Once(q, T), Once(r, T),
             (\A x \in T : x \notin Names(q)) \/ (\A x \in T : x \notin Names(r))
      PROVE  Once(a, T)
  <2> SUFFICES ASSUME NEW j \in 1..Len(a), NEW k \in 1..Len(a), a[j].name \in T, a[k].name \in T
               PROVE  j = k
    BY DEF Once
  <2>1. CASE j \in 1..Len(q) /\ k \in 1..Len(q)
    BY <2>1, <1>1, <1>5 DEF Once
  <2>2. CASE j \in 1..Len(q) /\ k \notin 1..Len(q)
    BY <2>2, <1>1, <1>2, <1>5 DEF Names
  <2>3. CASE j \notin 1..Len(q) /\ k \in 1..Len(q)
    BY <2>3, <1>1, <1>2, <1>5 DEF Names
  <2>4. CASE j \notin 1..Len(q) /\ k \notin 1..Len(q)
    <3>1. j - Len(q) = k - Len(q)
      BY <2>4, <1>2, <1>5 DEF Once
    <3> QED
      BY <3>1, <1>1
  <2> QED
    BY <2>1, <2>2, <2>3, <2>4
<1>6. ASSUME NEW T, OnlyLast(r, T), \A x \in T : x \notin Names(q)
      PROVE  OnlyLast(a, T)
  <2> SUFFICES ASSUME NEW k \in 1..Len(a), a[k].name \in T PROVE k = Len(a)
    BY DEF OnlyLast
  <2>1. k \notin 1..Len(q)
    BY <1>1, <1>6 DEF Names
  <2>2. k - Len(q) = Len(r)
    BY <1>2, <1>6, <2>1 DEF OnlyLast
  <2> QED
    BY <1>1, <2>2
<1> QED
  BY <1>4, <1>5, <1>6 DEF a

LEMMA Kinds ==
  /\ \A name \in {"FlushedData", "Suspend", "Resume", "Close", "Disconnect", "Destroy"} :
        Msg(name) \in ToParent
  /\ \A n \in Chunks : Carrying("Write", n) \in ToParent
  /\ \A name \in {"Resumed", "Suspended", "Closed", "Error", "FlushData", "StartRequest",
                  "StopRequest"} : Msg(name) \in ToChild
  /\ \A n \in Chunks : Carrying("Data", n) \in ToChild
  /\ \A name \in {"emitStop", "emitStopOnce", "suspend", "resume", "resumeOnly", "flush",
                  "leaveGroup"} : Event(name) \in QueueEvents
  /\ \A n \in Chunks : WriteMove(n) \in QueueEvents
  /\ \A name \in {"redirected", "start", "stop", "suspended", "resumed", "disconnected",
                  "close"} : Event(name) \in ActorEvents
  /\ \A n \in Chunks : DoSendData(n) \in ActorEvents
  BY DEF ToParent, ToChild, QueueEvents, ActorEvents

\* What carries a chunk is known by its name.
LEMMA Chunked ==
  /\ \A m \in ToParent : m.name = "Write" => m.data \in Chunks
  /\ \A m \in ToChild : m.name = "Data" => m.data \in Chunks
  /\ \A m \in QueueEvents : m.name = "write" => m.data \in Chunks
  /\ \A m \in ActorEvents : m.name = "data" => m.data \in Chunks
  BY DEF ToParent, ToChild, QueueEvents, ActorEvents, Msg, Carrying, Event, WriteMove, DoSendData

LEMMA Named ==
  ASSUME NEW name, NEW n
  PROVE  /\ Msg(name).name = name /\ Carrying(name, n).name = name /\ Event(name).name = name
         /\ WriteMove(n).name = "write" /\ DoSendData(n).name = "data"
  BY DEF Msg, Carrying, Event, WriteMove, DoSendData
-----------------------------------------------------------------------------
(***************************************************************************)
(* The child's methods: from which state to which they lead, and what they *)
(* send on the way.                                                        *)
(***************************************************************************)
ChildRecords == [mState : States, mNextState : States, mReceivedOnStop : BOOLEAN,
                 mBufferedData : Seq(Chunks), mStreamFilter : BOOLEAN, out : Seq(ToParent)]

Requests == {"Suspend", "Resume", "Close", "Disconnect"}
Lasts == {"Close", "FlushedData", "Destroy"}
Waiting == {"Suspending", "Resuming", "Closing", "Disconnecting"}
Ready == {"TransferringData", "Suspended", "FinishedTransferringData"}
Unborn == {"Uninitialized", "Initialized"}
Over == {"Closed", "Disconnected", "Error"}

\* A waiting state knows what comes next, and the stop is not emitted before it came.
Fits(c) ==
  /\ c.mState = "Suspending" =>
       c.mNextState \in {"Suspended", "Resuming", "Disconnecting", "Closing",
                        "FinishedTransferringData"}
  /\ c.mState = "Resuming" =>
       c.mNextState \in {"TransferringData", "Suspending", "Disconnecting", "Closing",
                        "FinishedTransferringData"}
  /\ c.mState = "Closing" => c.mNextState = "Closed"
  /\ c.mState = "Disconnecting" => c.mNextState = "Disconnected"
  /\ c.mState \in {"Suspending", "Resuming"} /\ c.mNextState = "FinishedTransferringData"
       => c.mReceivedOnStop
  /\ c.mState = "FinishedTransferringData" => c.mReceivedOnStop

OnlyWrites(w) == \A name \in Names(w) : name = "Write"

RequestOf(state) ==
  CASE state = "Suspending" -> "Suspend"
    [] state = "Resuming" -> "Resume"
    [] state = "Closing" -> "Close"
    [] state = "Disconnecting" -> "Disconnect"

\* One request, and data that script wrote; nothing with or behind a Close.
Asks(w, request) ==
  /\ request \in Names(w)
  /\ Once(w, Requests)
  /\ \A name \in Names(w) : name \in {request, "Write"}
  /\ OnlyLast(w, Lasts)

\* From the actor c methods lead to the actor d: it stays in its state, or sends a
\* request and waits, or goes to another state in which it waits for nothing.
Turns(c, d) ==
  /\ d \in ChildRecords
  /\ d.mReceivedOnStop = c.mReceivedOnStop
  /\ Fits(d)
  /\ \/ /\ d.mState = c.mState
        /\ OnlyWrites(d.out)
        /\ d.out # <<>> => c.mState \in Ready \cup {"Suspending", "Resuming", "Disconnecting"}
     \/ /\ c.mState \in Ready
        /\ d.mState \in Waiting
        /\ Asks(d.out, RequestOf(d.mState))
     \/ /\ c.mState \in Ready
        /\ d.mState \in Ready
        /\ d.out = <<>>

Fresh(c) == c \in ChildRecords /\ c.out = <<>> /\ Fits(c)

LEMMA ChunksWritten ==
  ASSUME NEW b \in Seq(Chunks), NEW w, w = [k \in 1..Len(b) |-> Carrying("Write", b[k])]
  PROVE  w \in Seq(ToParent) /\ OnlyWrites(w)
<1>1. Len(b) \in Nat /\ \A k \in 1..Len(b) : b[k] \in Chunks
  OBVIOUS
<1>2. \A k \in 1..Len(b) : Carrying("Write", b[k]) \in ToParent
  BY <1>1, Kinds
<1>3. w \in Seq(ToParent) /\ Len(w) = Len(b)
  BY <1>1, <1>2
<1>4. \A k \in 1..Len(b) : w[k].name = "Write"
  BY DEF Carrying
<1> QED
  BY <1>3, <1>4 DEF OnlyWrites, Names

LEMMA WritesOrdered ==
  ASSUME NEW w, OnlyWrites(w)
  PROVE  Once(w, Requests) /\ OnlyLast(w, Lasts) /\ Once(w, {"FlushedData"})
<1>1. \A k \in 1..Len(w) : w[k].name = "Write"
  BY DEF OnlyWrites, Names
<1> QED
  BY <1>1 DEF Once, OnlyLast, Requests, Lasts

LEMMA Requested ==
  ASSUME NEW w \in Seq(ToParent), OnlyWrites(w), NEW r \in Requests
  PROVE  /\ Append(w, Msg(r)) \in Seq(ToParent)
         /\ Asks(Append(w, Msg(r)), r)
<1> DEFINE a == Append(w, Msg(r))
<1>1. Msg(r) \in ToParent /\ Msg(r).name = r /\ r # "Write"
  BY Kinds, Named DEF Requests
<1>2. /\ a \in Seq(ToParent)
      /\ Names(a) = Names(w) \cup {r}
      /\ Once(w, Requests)
  BY <1>1, AppendOf, Added, WritesOrdered
<1>3. \A y \in Requests \cup Lasts : y \notin Names(w)
  BY DEF OnlyWrites, Requests, Lasts
<1>4. Once(a, Requests)
  BY <1>1, <1>2, <1>3, Added
<1>5. OnlyLast(a, Lasts)
  <2>1. \A k \in 1..Len(a) : k = Len(a) \/ a[k].name \in Names(w)
    BY <1>1, AppendOf DEF Names
  <2> QED
    BY <1>3, <2>1 DEF OnlyLast
<1>6. \A name \in Names(a) : name \in {r, "Write"}
  BY <1>2 DEF OnlyWrites
<1>7. Asks(a, r)
  BY <1>2, <1>4, <1>5, <1>6 DEF Asks
<1> QED
  BY <1>2, <1>7 DEF a

LEMMA DisconnectTurns ==
  ASSUME NEW c, Fresh(c)
  PROVE  Turns(c, Disconnect(c))
<1>1. CASE CanDisconnectNow(c)
  <2> DEFINE w == [k \in 1..Len(c.mBufferedData) |-> Carrying("Write", c.mBufferedData[k])]
             d == Disconnect(c)
  <2>1. w \in Seq(ToParent) /\ OnlyWrites(w)
    BY ChunksWritten DEF Fresh, ChildRecords
  <2> HIDE DEF w
  <2>2. <<>> \o w = w
    BY <2>1
  <2>3. d = [mState |-> "Disconnecting", mNextState |-> "Disconnected",
             mReceivedOnStop |-> c.mReceivedOnStop, mBufferedData |-> <<>>,
             mStreamFilter |-> c.mStreamFilter, out |-> Append(w, Msg("Disconnect"))]
    BY <1>1, <2>2 DEF Disconnect, Sends, WriteBufferedData, Goes, Fresh, ChildRecords, w
  <2>4. /\ Append(w, Msg("Disconnect")) \in Seq(ToParent)
        /\ Asks(Append(w, Msg("Disconnect")), "Disconnect")
    BY <2>1, Requested DEF Requests
  <2>5. d \in ChildRecords
    BY <2>3, <2>4 DEF Fresh, ChildRecords, States
  <2>6. c.mState \in Ready
    BY <1>1 DEF CanDisconnectNow, In, Ready
  <2>7. Fits(d) /\ RequestOf("Disconnecting") = "Disconnect"
    BY <2>3 DEF Fits, RequestOf
  <2> QED
    BY <2>3, <2>4, <2>5, <2>6, <2>7 DEF Turns, Waiting
<1>2. CASE ~CanDisconnectNow(c) /\ CanDisconnectLater(c)
  <2>1. Disconnect(c) = [c EXCEPT !.mNextState = "Disconnecting"]
    BY <1>2 DEF Disconnect
  <2> QED
    BY <1>2, <2>1, NoNames DEF Turns, Fresh, ChildRecords, States, Fits, OnlyWrites,
         CanDisconnectLater, In
<1>3. CASE ~CanDisconnectNow(c) /\ ~CanDisconnectLater(c)
  BY <1>3, NoNames DEF Disconnect, Turns, Fresh, OnlyWrites
<1> QED
  BY <1>1, <1>2, <1>3

LEMMA CleanupTurns ==
  ASSUME NEW c, Fresh(c)
  PROVE  /\ Turns(c, Cleanup(c))
         /\ c.mState \in Ready => Cleanup(c).mState = "Disconnecting"
<1>1. Turns(c, c)
  BY NoNames DEF Fresh, Turns, OnlyWrites
<1>2. c.mState \in Ready => Cleanup(c) = Disconnect(c) /\ Disconnect(c).mState = "Disconnecting"
  BY DEF Cleanup, In, Ready, Disconnect, CanDisconnectNow, Sends, WriteBufferedData, Goes, Fresh,
         ChildRecords
<1> QED
  BY <1>1, <1>2, DisconnectTurns DEF Cleanup

LEMMA CheckAliveTurns ==
  ASSUME NEW c, Fresh(c)
  PROVE  /\ Turns(c, CheckAlive(c))
         /\ CheckAlive(c).mState \in Ready => CheckAlive(c) = c
<1>1. Turns(c, c)
  BY NoNames DEF Fresh, Turns, OnlyWrites
<1> DEFINE d == Cleanup(c)
<1>2. Turns(c, d) /\ (c.mState \in Ready => d.mState = "Disconnecting")
  BY CleanupTurns
<1> HIDE DEF d
<1>3. /\ Turns(c, [d EXCEPT !.mStreamFilter = FALSE])
      /\ [d EXCEPT !.mStreamFilter = FALSE].mState = d.mState
  BY <1>2 DEF Turns, ChildRecords, Fits
<1>4. d.mState \notin Ready
  BY <1>2 DEF Turns, Ready, Waiting
<1> QED
  BY <1>1, <1>3, <1>4 DEF CheckAlive, d

LEMMA MaybeStopTurns ==
  ASSUME NEW c, Fresh(c), c.mState \in Ready \cup Waiting \cup {"Closed"}
  PROVE  Turns(c, MaybeStopRequest(c))
<1>1. Turns(c, c)
  BY NoNames DEF Fresh, Turns, OnlyWrites
<1>2. ASSUME c.mReceivedOnStop PROVE Turns(c, StopsIn(CheckAlive(c)))
  <2> DEFINE d == CheckAlive(c)
  <2>1. Turns(c, d) /\ (d.mState \in Ready => d = c)
    BY CheckAliveTurns
  <2> SUFFICES Turns(c, StopsIn(d))
    OBVIOUS
  <2> HIDE DEF d
  <2>2. d.mState \in Ready \cup Waiting \cup {"Closed"}
    BY <2>1 DEF Turns
  <2>3. CASE d.mState \in {"Suspending", "Resuming"}
    <3>1. StopsIn(d) = [d EXCEPT !.mNextState = "FinishedTransferringData"]
      BY <2>3 DEF StopsIn, In
    <3> QED
      BY <1>2, <2>1, <2>3, <3>1 DEF Turns, ChildRecords, States, Fits
  <2>4. CASE d.mState \in {"Disconnecting", "Closing", "Closed"}
    BY <2>1, <2>4 DEF StopsIn, In
  <2>5. CASE d.mState \in Ready
    <3>1. StopsIn(d) = [c EXCEPT !.mState = "FinishedTransferringData", !.mStreamFilter = FALSE]
      BY <2>1, <2>5 DEF StopsIn, In, Ready
    <3> QED
      BY <1>2, <2>1, <2>5, <3>1 DEF Turns, ChildRecords, States, Fits, Fresh, Ready
  <2> QED
    BY <2>2, <2>3, <2>4, <2>5 DEF Waiting
<1> QED
  BY <1>1, <1>2 DEF MaybeStopRequest

LEMMA NextStateTurns ==
  ASSUME NEW c, Fresh(c), c.mState \in {"Suspending", "Resuming"}
  PROVE  Turns([c EXCEPT !.mState = "TransferringData"], SetNextState(c))
<1> DEFINE s == c.mNextState
           t == [c EXCEPT !.mState = "TransferringData"]
<1>1. /\ s \in {"Suspended", "Resuming", "Disconnecting", "Closing", "FinishedTransferringData",
                "TransferringData", "Suspending"}
      /\ s = "FinishedTransferringData" => c.mReceivedOnStop
  BY DEF Fresh, Fits
<1>2. t.mState \in Ready /\ t.mReceivedOnStop = c.mReceivedOnStop
  BY DEF Fresh, ChildRecords, Ready
<1>3. ASSUME NEW state \in States, NEW next \in States, NEW r \in Requests, state \in Waiting,
             r = RequestOf(state), SetNextState(c) = Sends(Goes(c, state, next), r),
             Fits([c EXCEPT !.mState = state, !.mNextState = next])
      PROVE  Turns(t, SetNextState(c))
  <2>3. <<>> \in Seq(ToParent) /\ OnlyWrites(<<>>)
    BY NoNames DEF OnlyWrites
  <2>1. /\ Append(<<>>, Msg(r)) \in Seq(ToParent)
        /\ Asks(Append(<<>>, Msg(r)), r)
    BY <2>3, Requested
  <2>2. SetNextState(c) = [c EXCEPT !.mState = state, !.mNextState = next, !.out = Append(<<>>, Msg(r))]
    BY <1>3 DEF Sends, Goes, Fresh, ChildRecords
  <2> HIDE DEF t
  <2> QED
    BY <1>2, <1>3, <2>1, <2>2 DEF Turns, Fresh, ChildRecords, Fits
<1>4. CASE s = "Suspending"
  BY <1>3, <1>4 DEF SetNextState, NextSends, NextNext, States, Requests, Waiting, RequestOf, Fresh,
                    ChildRecords, Fits
<1>5. CASE s = "Resuming"
  BY <1>3, <1>5 DEF SetNextState, NextSends, NextNext, States, Requests, Waiting, RequestOf, Fresh,
                    ChildRecords, Fits
<1>6. CASE s = "Closing"
  BY <1>3, <1>6 DEF SetNextState, NextSends, NextNext, States, Requests, Waiting, RequestOf, Fresh,
                    ChildRecords, Fits
<1>7. CASE s = "Disconnecting"
  BY <1>3, <1>7 DEF SetNextState, NextSends, NextNext, States, Requests, Waiting, RequestOf, Fresh,
                    ChildRecords, Fits
<1>8. CASE s \in {"Suspended", "TransferringData"}
  <2>1. SetNextState(c) = [c EXCEPT !.mState = s]
    BY <1>8 DEF SetNextState, NextSends, Goes, Fresh, ChildRecords
  <2> QED
    BY <1>2, <1>8, <2>1 DEF Turns, Fresh, ChildRecords, States, Fits, Ready
<1>9. CASE s = "FinishedTransferringData"
  <2>1. SetNextState(c) = [c EXCEPT !.mState = s, !.mStreamFilter = FALSE]
    BY <1>9 DEF SetNextState, NextSends, Goes, Fresh, ChildRecords
  <2> QED
    BY <1>1, <1>2, <1>9, <2>1 DEF Turns, Fresh, ChildRecords, States, Fits, Ready
<1> QED
  BY <1>1, <1>4, <1>5, <1>6, <1>7, <1>8, <1>9

-----------------------------------------------------------------------------
(***************************************************************************)
(* Types.                                                                  *)
(***************************************************************************)
\* The parent's types; that suspends is no less than 0 is a matter of the protocol.
ParentTypes ==
  /\ mState \in {"Uninitialized", "TransferringData", "Suspended", "Closed", "Disconnecting",
                 "Disconnected"}
  /\ mDisconnected \in BOOLEAN /\ mReceivedStop \in BOOLEAN /\ mSentStop \in BOOLEAN
  /\ mBufferedData \in Seq(Chunks)
  /\ mQueue \in Seq(QueueEvents)
  /\ actorq \in Seq(ActorEvents)
  /\ oda \in 0..MaxChunks
  /\ onStop \in {"no", "set", "late", "done"}
  /\ grouped \in BOOLEAN
  /\ output \in Seq(0..MaxChunks)
  /\ channel \in {"new", "open", "stopped"}
  /\ delivered \in 0..MaxChunks
  /\ suspends \in Int
  /\ cancelled \in BOOLEAN /\ retargeted \in BOOLEAN /\ stopMissed \in BOOLEAN

\* The child's, with what its states say of the next one and of events.
ChildInv ==
  /\ ChildTypeOK
  /\ Fits(child)
  /\ emitting # "no" => child.mState \in Ready \cup Waiting

TypeInv == IpcTypeOK /\ ParentTypes /\ ChildInv

LEMMA ChildFresh == ChildInv => Fresh(child)
<1> SUFFICES ASSUME ChildInv PROVE Fresh(child)
  OBVIOUS
<1>1. <<>> \in Seq(ToParent)
  OBVIOUS
<1>2. child \in ChildRecords /\ child.out = <<>>
  BY <1>1 DEF ChildInv, ChildTypeOK, ChildRecords
<1> QED
  BY <1>2 DEF ChildInv, Fresh

LEMMA QueueTypes ==
  ASSUME TypeInv
  PROVE  /\ toParent \in Seq(ToParent) /\ toChild \in Seq(ToChild)
         /\ mQueue \in Seq(QueueEvents) /\ actorq \in Seq(ActorEvents)
         /\ <<>> \in Seq(ToParent) /\ <<>> \in Seq(ToChild)
         /\ toParent # <<>> => Tail(toParent) \in Seq(ToParent) /\ Head(toParent) \in ToParent
         /\ toChild # <<>> => Tail(toChild) \in Seq(ToChild) /\ Head(toChild) \in ToChild
         /\ mQueue # <<>> => Tail(mQueue) \in Seq(QueueEvents) /\ Head(mQueue) \in QueueEvents
         /\ actorq # <<>> => Tail(actorq) \in Seq(ActorEvents) /\ Head(actorq) \in ActorEvents
         /\ \A x \in QueueEvents, q \in Seq(QueueEvents) : Append(q, x) \in Seq(QueueEvents)
         /\ \A x \in ActorEvents, q \in Seq(ActorEvents) : Append(q, x) \in Seq(ActorEvents)
         /\ \A x \in ToChild : Append(toChild, x) \in Seq(ToChild)
<1>1. /\ toParent \in Seq(ToParent) /\ toChild \in Seq(ToChild)
      /\ mQueue \in Seq(QueueEvents) /\ actorq \in Seq(ActorEvents)
  BY DEF TypeInv, IpcTypeOK, ParentTypes
<1> QED
  BY <1>1, TailOf, AppendOf

ActorTypes ==
  /\ mState \in {"Uninitialized", "TransferringData", "Suspended", "Closed", "Disconnecting",
                 "Disconnected"}
  /\ mDisconnected \in BOOLEAN
  /\ mQueue \in Seq(QueueEvents)
  /\ actorq \in Seq(ActorEvents)
  /\ cancelled \in BOOLEAN
  /\ IpcTypeOK

LEMMA BrokenTypes ==
  ASSUME TypeInv,
         NEW state \in {"Uninitialized", "TransferringData", "Suspended", "Closed",
                        "Disconnecting", "Disconnected"},
         NEW q \in Seq(QueueEvents), Broken(state, q)
  PROVE  /\ mState' \in {"Uninitialized", "TransferringData", "Suspended", "Closed",
                         "Disconnecting", "Disconnected"}
         /\ mQueue' \in Seq(QueueEvents) /\ cancelled' \in BOOLEAN
  BY QueueTypes, Kinds DEF Broken, TypeInv, ParentTypes

LEMMA EnteredTypes ==
  ASSUME TypeInv,
         NEW state \in {"Uninitialized", "TransferringData", "Suspended", "Closed",
                        "Disconnecting", "Disconnected"},
         NEW q \in Seq(QueueEvents), NEW m \in ToChild, EntersAndSends(state, q, m)
  PROVE  /\ mState' \in {"Uninitialized", "TransferringData", "Suspended", "Closed",
                         "Disconnecting", "Disconnected"}
         /\ mQueue' \in Seq(QueueEvents) /\ cancelled' \in BOOLEAN
         /\ toChild' \in Seq(ToChild)
  BY QueueTypes, BrokenTypes DEF EntersAndSends, TypeInv, ParentTypes

LEMMA ActorThreadTypes == TypeInv /\ ActorThread => ParentTypes' /\ IpcTypeOK'
<1> SUFFICES ASSUME TypeInv, ActorThread PROVE ParentTypes' /\ IpcTypeOK'
  OBVIOUS
<1>a. ActorFrame /\ ActorTypes' => ParentTypes' /\ IpcTypeOK'
  BY DEF ActorFrame, ActorTypes, TypeInv, ParentTypes
<1>b. ActorTypes
  BY DEF ActorTypes, TypeInv, ParentTypes
<1>t. ASSUME NEW name, NEW message \in {"Resumed", "Suspended", "Error", "StartRequest", "StopRequest"},
             NEW state \in {"Uninitialized", "TransferringData", "Suspended", "Closed",
                            "Disconnecting", "Disconnected"},
             Tells(name, state, message)
      PROVE  ParentTypes' /\ IpcTypeOK'
  <2>1. Msg(message) \in ToChild
    BY Kinds
  <2>2. ActorTypes'
    BY <1>b, <1>t, <2>1, QueueTypes, EnteredTypes DEF Tells, Acts, ActorTypes, IpcTypeOK
  <2> QED
    BY <1>a, <1>t, <2>2 DEF Tells, Acts
<1>1. CASE ActRedirected \/ ActStart \/ ActStop \/ ActSuspended \/ ActResumed
  <2>1. ActRedirected \/ ActStart \/ ActSuspended => ParentTypes' /\ IpcTypeOK'
    BY <1>t DEF ActRedirected, ActStart, ActSuspended
  <2>2. ActStop \/ ActResumed => ParentTypes' /\ IpcTypeOK'
    BY <1>b, <1>t DEF ActStop, ActResumed, ActorTypes
  <2> QED
    BY <1>1, <2>1, <2>2
<1>2. CASE ActUnheard \/ ActDropData \/ ActDisconnected
  <2>1. ActorTypes'
    BY <1>b, <1>2, QueueTypes DEF ActUnheard, ActDropData, ActDisconnected, Acts, ActorTypes,
                                 IpcTypeOK, ipcVars
  <2> QED
    BY <1>a, <1>2, <2>1 DEF ActUnheard, ActDropData, ActDisconnected, Acts
<1>3. CASE ActSendData
  <2>1. Carrying("Data", Head(actorq).data) \in ToChild
    BY <1>3, QueueTypes, Chunked, Kinds DEF ActSendData, Acts
  <2>2. ActorTypes'
    BY <1>b, <1>3, <2>1, QueueTypes, EnteredTypes DEF ActSendData, Acts, ActorTypes, IpcTypeOK
  <2> QED
    BY <1>a, <1>3, <2>2 DEF ActSendData, Acts
<1>4. CASE ActClose \/ ActError
  <2>1. ActorDestroy => ipc' = "closed" /\ toParent' = <<>> /\ toChild' = toChild /\ mDisconnected' = mDisconnected
                        /\ mState' \in {"Uninitialized", "TransferringData", "Suspended", "Closed",
                         "Disconnecting", "Disconnected"}
         /\ mQueue' \in Seq(QueueEvents) /\ cancelled' \in BOOLEAN
    BY <1>b, BrokenTypes DEF ActorDestroy, ActorTypes
  <2>2. ActorTypes'
    BY <1>b, <1>4, <2>1, QueueTypes DEF ActClose, ActError, Acts, ActorTypes, IpcTypeOK, ipcVars
  <2> QED
    BY <1>a, <1>4, <2>2 DEF ActClose, ActError, Acts
<1>5. CASE RecvWrite
  <2>1. WriteMove(Head(toParent).data) \in QueueEvents
    BY <1>5, QueueTypes, Chunked, Kinds DEF RecvWrite, ParentReceives
  <2>2. ActorTypes'
    BY <1>b, <1>5, <2>1, QueueTypes DEF RecvWrite, ParentReceives, Enqueues, ActorTypes, IpcTypeOK
  <2> QED
    BY <1>a, <1>5, <2>2 DEF RecvWrite, ParentReceives
<1>6. CASE RecvSuspend \/ RecvResume \/ RecvIgnored
  <2>1. Event("suspend") \in QueueEvents /\ Event("resume") \in QueueEvents
    BY Kinds
  <2>2. ActorTypes'
    BY <1>b, <1>6, <2>1, QueueTypes DEF RecvSuspend, RecvResume, RecvIgnored, ParentReceives,
                                       Enqueues, ActorTypes, IpcTypeOK
  <2> QED
    BY <1>a, <1>6, <2>2 DEF RecvSuspend, RecvResume, RecvIgnored, ParentReceives
<1>7. CASE RecvDisconnect
  <2>1. Event("resumeOnly") \in QueueEvents /\ Msg("FlushData") \in ToChild
    BY Kinds
  <2>2. mQueue \o ResumeFirst \in Seq(QueueEvents)
    BY <2>1, QueueTypes DEF ResumeFirst
  <2>3. ActorTypes'
    BY <1>b, <1>7, <2>1, <2>2, QueueTypes, EnteredTypes DEF RecvDisconnect, ParentReceives,
                                                      ActorTypes, IpcTypeOK
  <2> QED
    BY <1>a, <1>7, <2>3 DEF RecvDisconnect, ParentReceives
<1>8. CASE RecvFlushedData \/ RecvClose \/ RecvDestroy
  <2>1. /\ Event("flush") \in QueueEvents /\ Event("emitStop") \in QueueEvents
        /\ Event("close") \in ActorEvents /\ Msg("Closed") \in ToChild
    BY Kinds
  <2>2. ActorTypes'
    BY <1>b, <1>8, <2>1, QueueTypes DEF RecvFlushedData, RecvClose, RecvDestroy, ParentReceives,
                                       Enqueues, Destroy, ActorTypes, IpcTypeOK
  <2> QED
    BY <1>a, <1>8, <2>2 DEF RecvFlushedData, RecvClose, RecvDestroy, ParentReceives
<1> QED
  BY <1>1, <1>2, <1>3, <1>4, <1>5, <1>6, <1>7, <1>8 DEF ActorThread

LEMMA QueueThreadsTypes == TypeInv /\ QueueThreads => ParentTypes' /\ IpcTypeOK'
<1> SUFFICES ASSUME TypeInv, QueueThreads PROVE ParentTypes' /\ IpcTypeOK'
  OBVIOUS
<1>a. /\ QueueFrame /\ mQueue # <<>>
      /\ mQueue' \in Seq(QueueEvents) /\ actorq' \in Seq(ActorEvents)
      /\ output' \in Seq(0..MaxChunks) /\ suspends' \in Int /\ mBufferedData' \in Seq(Chunks)
      /\ mSentStop' \in BOOLEAN /\ grouped' \in BOOLEAN
      => ParentTypes' /\ IpcTypeOK'
  BY DEF QueueFrame, TypeInv, ParentTypes, IpcTypeOK, ipcVars
<1>b. \A name : Runs(name) => QueueFrame /\ mQueue # <<>> /\ Tail(mQueue) \in Seq(QueueEvents)
  BY QueueTypes DEF Runs
<1>c. /\ output \in Seq(0..MaxChunks) /\ suspends \in Int /\ mBufferedData \in Seq(Chunks)
      /\ mSentStop \in BOOLEAN /\ grouped \in BOOLEAN /\ mDisconnected \in BOOLEAN
      /\ actorq \in Seq(ActorEvents) /\ MaxChunks \in Nat /\ <<>> \in Seq(Chunks)
  BY ChunksAssumption DEF TypeInv, ParentTypes
<1>d. \A x \in 0..MaxChunks : Append(output, x) \in Seq(0..MaxChunks)
  BY <1>c
<1>1. CASE RunWrite
  <2>1. Head(mQueue).data \in 0..MaxChunks
    BY <1>1, <1>c, QueueTypes, Chunked DEF RunWrite, Runs, Chunks
  <2> QED
    BY <1>1, <1>a, <1>b, <1>c, <1>d, <2>1 DEF RunWrite
<1>2. CASE RunFlush
  <2>1. output \o mBufferedData \in Seq(0..MaxChunks)
    BY <1>c DEF Chunks
  <2>2. Event("disconnected") \in ActorEvents /\ Event("emitStopOnce") \in QueueEvents /\ Event("leaveGroup") \in QueueEvents
    BY Kinds
  <2>3. Append(actorq, Event("disconnected")) \in Seq(ActorEvents)
    BY <2>2, <1>c, AppendOf
  <2>4. Tail(mQueue) \o StopIfReceived \o <<Event("leaveGroup")>> \in Seq(QueueEvents)
    BY <1>2, <1>b, <2>2 DEF RunFlush, StopIfReceived
  <2> QED
    BY <1>2, <1>a, <1>b, <1>c, <2>1, <2>3, <2>4 DEF RunFlush
<1>3. CASE RunEmitStop
  <2>1. Append(output, 0) \in Seq(0..MaxChunks)
    BY <1>c, <1>d
  <2>2. (grouped /\ mDisconnected) \in BOOLEAN
    BY <1>c
  <2> QED
    BY <1>3, <1>a, <1>b, <1>c, <2>1, <2>2 DEF RunEmitStop, EmitStopRequest
<1>4. CASE RunStopSent \/ RunLeaveGroup
  BY <1>4, <1>a, <1>b, <1>c DEF RunStopSent, RunLeaveGroup
<1>5. CASE RunSuspend \/ RunResume
  <2>1. Event("suspended") \in ActorEvents /\ Event("resumed") \in ActorEvents
    BY Kinds
  <2>2. /\ Append(actorq, Event("suspended")) \in Seq(ActorEvents)
        /\ Append(actorq, Event("resumed")) \in Seq(ActorEvents)
    BY <2>1, <1>c, AppendOf
  <2>3. suspends + 1 \in Int /\ suspends - 1 \in Int
    BY <1>c
  <2>4. CASE RunSuspend
    BY <2>4, <1>a, <1>b, <1>c, <2>2, <2>3 DEF RunSuspend
  <2>5. CASE RunResume
    <3>1. QueueFrame /\ mQueue # <<>> /\ Tail(mQueue) \in Seq(QueueEvents) /\ actorq' \in Seq(ActorEvents)
      BY <2>5, <1>b, <1>c, <2>2 DEF RunResume
    <3> QED
      BY <2>5, <3>1, <1>a, <1>c, <2>3 DEF RunResume
  <2> QED
    BY <1>5, <2>4, <2>5
<1> QED
  BY <1>1, <1>2, <1>3, <1>4, <1>5 DEF QueueThreads

LEMMA ListenerTypes == TypeInv /\ (Channel \/ Listener) => ParentTypes' /\ IpcTypeOK'
<1> SUFFICES ASSUME TypeInv, Channel \/ Listener PROVE ParentTypes' /\ IpcTypeOK'
  OBVIOUS
<1>a. ParentTypes /\ IpcTypeOK /\ MaxChunks \in Nat /\ MayRetarget \in BOOLEAN
  BY ChunksAssumption, ParentAssumption DEF TypeInv
<1>b. /\ \A x \in ActorEvents : Append(actorq, x) \in Seq(ActorEvents)
      /\ Event("start") \in ActorEvents /\ Event("redirected") \in ActorEvents
      /\ Event("stop") \in ActorEvents
  BY <1>a, Kinds, QueueTypes
<1>1. CASE OnStartRequest \/ OnStartRedirected
  <2>1. retargeted' \in BOOLEAN
    BY <1>1, <1>a DEF OnStartRequest, OnStartRedirected
  <2>2. CASE OnStartRequest
    BY <2>1, <2>2, <1>a, <1>b DEF OnStartRequest, ListenerFrame, ParentTypes, IpcTypeOK
  <2>3. CASE OnStartRedirected
    BY <2>1, <2>3, <1>a, <1>b DEF OnStartRedirected, ListenerFrame, ParentTypes, IpcTypeOK
  <2> QED
    BY <1>1, <2>2, <2>3
<1>2. CASE OnDataPassed
  <2>1. delivered + 1 \in 0..MaxChunks
    BY <1>2, <1>a DEF OnDataPassed, Delivers, ParentTypes
  <2>2. output \o mBufferedData \in Seq(0..MaxChunks)
    BY <1>a DEF ParentTypes, Chunks
  <2>3. output \o mBufferedData \o <<delivered + 1>> \in Seq(0..MaxChunks)
    BY <2>1, <2>2
  <2>4. mBufferedData' \in Seq(Chunks) /\ output' \in Seq(0..MaxChunks) /\ delivered' \in 0..MaxChunks
    BY <1>2, <2>1, <2>3 DEF OnDataPassed, Delivers
  <2> QED
    BY <1>2, <1>a, <2>4 DEF OnDataPassed, Delivers, ListenerFrame, ParentTypes, IpcTypeOK
<1>3. CASE OnDataAvailable
  <2>1. delivered + 1 \in 0..MaxChunks
    BY <1>3, <1>a DEF OnDataAvailable, Delivers, ParentTypes
  <2> QED
    BY <1>3, <1>a, <2>1 DEF OnDataAvailable, Delivers, ListenerFrame, ParentTypes, IpcTypeOK
<1>4. CASE OnStopRequest
  BY <1>4, <1>a DEF OnStopRequest, ListenerFrame, ParentTypes, IpcTypeOK
<1>5. CASE OnDataBuffered \/ OnDataClosed \/ OnDataDispatched
  <2>1. 0 \in 0..MaxChunks /\ oda \in Chunks
    BY <1>5, <1>a DEF OnDataBuffered, OnDataClosed, OnDataDispatched, ParentTypes, Chunks
  <2>2. Append(mBufferedData, oda) \in Seq(Chunks)
    BY <1>a, <2>1 DEF ParentTypes
  <2>3. Append(actorq, DoSendData(oda)) \in Seq(ActorEvents)
    BY <1>b, <2>1, Kinds
  <2>4. /\ OdaFrame /\ actorq' \in Seq(ActorEvents) /\ mBufferedData' \in Seq(Chunks)
        /\ cancelled' \in BOOLEAN
    BY <1>5, <1>a, <2>2, <2>3 DEF OnDataBuffered, OnDataClosed, OnDataDispatched, ParentTypes
  <2> QED
    BY <1>a, <2>1, <2>4 DEF OdaFrame, ListenerFrame, ParentTypes, IpcTypeOK
<1>6. CASE OnStopPassed
  <2>1. Append(output, 0) \in Seq(0..MaxChunks)
    BY <1>a DEF ParentTypes
  <2>2. (grouped /\ mDisconnected) \in BOOLEAN
    BY <1>a DEF ParentTypes
  <2> QED
    BY <1>6, <1>a, <2>1, <2>2 DEF OnStopPassed, EmitStopRequest, OnStopFrame, ListenerFrame,
                                  ParentTypes, IpcTypeOK
<1>7. CASE OnStopDispatched
  BY <1>7, <1>a, <1>b DEF OnStopDispatched, OnStopFrame, ListenerFrame, ParentTypes, IpcTypeOK
<1> QED
  BY <1>1, <1>2, <1>3, <1>4, <1>5, <1>6, <1>7 DEF Channel, Listener


-----------------------------------------------------------------------------
(***************************************************************************)
(* What a step of the child's thread makes of its actor.                   *)
(***************************************************************************)
FrameTypes ==
  /\ emitting \in {"no", "data", "flush"}
  /\ kept \in Seq(Chunks)
  /\ script \in {"running", "stopped", "collected"}
  /\ calls \in 0..MaxCalls
  /\ ended \in BOOLEAN

\* The actor c goes on by its methods, up to an event that they fire.
Turned(c) ==
  /\ \E d : Turns(c, d) /\ Becomes(d) /\ (emitting' # "no" => d.mState \in Ready \cup Waiting)
  /\ FrameTypes'

LEMMA Written ==
  ASSUME NEW w \in Seq(ToParent), toParent \in Seq(ToParent)
  PROVE  toParent \o (IF ipc = "open" THEN w ELSE <<>>) \in Seq(ToParent)
<1>1. toParent \o <<>> = toParent /\ toParent \o w \in Seq(ToParent)
  BY ConcatOf
<1> QED
  BY <1>1

LEMMA TurnedTypes ==
  ASSUME NEW c, Turned(c), toParent \in Seq(ToParent)
  PROVE  ChildInv' /\ toParent' \in Seq(ToParent)
<1>1. PICK d : Turns(c, d) /\ Becomes(d) /\ (emitting' # "no" => d.mState \in Ready \cup Waiting)
  BY DEF Turned
<1>2. d \in ChildRecords /\ Fits(d)
  BY <1>1 DEF Turns
<1>3. /\ child' = [mState |-> d.mState, mNextState |-> d.mNextState,
                   mReceivedOnStop |-> d.mReceivedOnStop, mBufferedData |-> d.mBufferedData,
                   mStreamFilter |-> d.mStreamFilter, out |-> <<>>]
      /\ toParent' = toParent \o (IF ipc = "open" THEN d.out ELSE <<>>)
  BY <1>1, <1>2 DEF Becomes, ChildRecords
<1>4. ChildTypeOK'
  BY <1>2, <1>3 DEF ChildTypeOK, Turned, FrameTypes, ChildRecords
<1>5. Fits(child') /\ child'.mState = d.mState
  BY <1>2, <1>3 DEF Fits
<1>6. toParent' \in Seq(ToParent)
  BY <1>2, <1>3, Written DEF ChildRecords
<1> QED
  BY <1>1, <1>4, <1>5, <1>6 DEF ChildInv

LEMMA FlushTurns ==
  ASSUME NEW c, NEW d, Turns(c, d), FlushBufferedData(d), kept \in Seq(Chunks)
  PROVE  /\ \E e : Turns(c, e) /\ Becomes(e) /\ (emitting' # "no" => e.mState \in Ready \cup Waiting)
         /\ emitting' \in {"no", "data", "flush"} /\ kept' \in Seq(Chunks)
<1>1. CASE CanFlushData(d) /\ d.mBufferedData # <<>>
  <2> DEFINE e == [d EXCEPT !.mBufferedData = Tail(@)]
  <2>1. Emits(e, Head(d.mBufferedData), "flush")
    BY <1>1 DEF FlushBufferedData
  <2>2. Tail(d.mBufferedData) \in Seq(Chunks) /\ Head(d.mBufferedData) \in Chunks
    BY <1>1, TailOf DEF Turns, ChildRecords
  <2>3. Turns(c, e) /\ e.mState \in Ready \cup Waiting
    BY <1>1, <2>2 DEF Turns, ChildRecords, Fits, CanFlushData, In, Ready, Waiting
  <2>4. Append(kept, Head(d.mBufferedData)) \in Seq(Chunks)
    BY <2>2, AppendOf
  <2> HIDE DEF e
  <2> QED
    BY <2>1, <2>3, <2>4 DEF Emits
<1>2. CASE ~(CanFlushData(d) /\ d.mBufferedData # <<>>)
  BY <1>2 DEF FlushBufferedData, EmitsNothing
<1> QED
  BY <1>1, <1>2

LEMMA CallTypes == TypeInv /\ Call => calls' \in 0..MaxCalls /\ script' \in {"running", "stopped", "collected"}
<1> SUFFICES ASSUME TypeInv, Call PROVE calls' \in 0..MaxCalls /\ script' = script /\ script \in {"running", "stopped", "collected"}
  OBVIOUS
<1> QED
  BY CallsAssumption DEF Call, ScriptRuns, TypeInv, ChildInv, ChildTypeOK

LEMMA OneRequest ==
  ASSUME NEW r \in Requests
  PROVE  Append(<<>>, Msg(r)) \in Seq(ToParent) /\ Asks(Append(<<>>, Msg(r)), r)
<1>1. <<>> \in Seq(ToParent) /\ OnlyWrites(<<>>)
  BY NoNames DEF OnlyWrites
<1> QED
  BY <1>1, Requested

LEMMA CallTurned ==
  ASSUME TypeInv, NEW d, Turns(child, d), Calls(d), ended' \in BOOLEAN
  PROVE  Turned(child)
<1>1. FrameTypes'
  BY CallTypes DEF Calls, FrameTypes, TypeInv, ChildInv, ChildTypeOK
<1>2. emitting # "no" => d.mState \in Ready \cup Waiting
  BY DEF TypeInv, ChildInv, Turns
<1> QED
  BY <1>1, <1>2 DEF Calls, Turned

LEMMA ScriptTurned == TypeInv /\ Script => Turned(child) /\ UNCHANGED <<toChild, ipc>>
<1> SUFFICES ASSUME TypeInv, Script PROVE Turned(child) /\ UNCHANGED <<toChild, ipc>>
  OBVIOUS
<1>a. Fresh(child) /\ Turns(child, child)
  BY ChildFresh, NoNames DEF TypeInv, Turns, Fresh, OnlyWrites
<1>b. child \in ChildRecords /\ child.out = <<>> /\ Fits(child)
  BY <1>a DEF Fresh
<1>c. UNCHANGED <<toChild, ipc>> /\ ended' \in BOOLEAN
  BY DEF Script, Suspend, Resume, CallDisconnect, Close, Write, Calls, Call, ScriptRuns, TypeInv,
         ChildInv, ChildTypeOK
<1>d. kept \in Seq(Chunks) /\ emitting \in {"no", "data", "flush"}
      /\ (emitting # "no" => child.mState \in Ready \cup Waiting)
  BY DEF TypeInv, ChildInv, ChildTypeOK
<1>1. CASE Suspend
  <2>1. CASE In(child, {"TransferringData"}) /\ Calls(Sends(Goes(child, "Suspending", "Suspended"), "Suspend"))
    <3> DEFINE d == Sends(Goes(child, "Suspending", "Suspended"), "Suspend")
    <3>1. d = [child EXCEPT !.mState = "Suspending", !.mNextState = "Suspended", !.out = Append(<<>>, Msg("Suspend"))]
      BY <1>b DEF Sends, Goes, ChildRecords
    <3>2. Append(<<>>, Msg("Suspend")) \in Seq(ToParent) /\ Asks(Append(<<>>, Msg("Suspend")), "Suspend")
      BY OneRequest DEF Requests
    <3>3. Turns(child, d)
      BY <1>b, <2>1, <3>1, <3>2 DEF Turns, ChildRecords, States, Fits, In, Ready, Waiting, RequestOf
    <3> QED
      BY <1>c, <2>1, <3>3, CallTurned
  <2>2. CASE In(child, {"Suspending"}) /\ Calls([child EXCEPT !.mNextState = "Suspended"])
    <3>1. Turns(child, [child EXCEPT !.mNextState = "Suspended"])
      BY <1>b, <2>2, NoNames DEF Turns, ChildRecords, States, Fits, In, OnlyWrites
    <3> QED
      BY <1>c, <2>2, <3>1, CallTurned
  <2>3. CASE In(child, {"Resuming"}) /\ Calls([child EXCEPT !.mNextState = "Suspending"])
    <3>1. Turns(child, [child EXCEPT !.mNextState = "Suspending"])
      BY <1>b, <2>3, NoNames DEF Turns, ChildRecords, States, Fits, In, OnlyWrites
    <3> QED
      BY <1>c, <2>3, <3>1, CallTurned
  <2> QED
    BY <1>1, <2>1, <2>2, <2>3 DEF Suspend
<1>f. ASSUME NEW d, Turns(child, d), FlushBufferedData(d), Call PROVE Turned(child)
  BY <1>c, <1>d, <1>f, CallTypes, FlushTurns DEF Turned, FrameTypes
<1>2. CASE Resume
  <2>1. CASE In(child, {"Suspended"}) /\ Call
             /\ FlushBufferedData(Sends(Goes(child, "Resuming", "TransferringData"), "Resume"))
    <3> DEFINE d == Sends(Goes(child, "Resuming", "TransferringData"), "Resume")
    <3>1. d = [child EXCEPT !.mState = "Resuming", !.mNextState = "TransferringData", !.out = Append(<<>>, Msg("Resume"))]
      BY <1>b DEF Sends, Goes, ChildRecords
    <3>2. Append(<<>>, Msg("Resume")) \in Seq(ToParent) /\ Asks(Append(<<>>, Msg("Resume")), "Resume")
      BY OneRequest DEF Requests
    <3>3. Turns(child, d)
      BY <1>b, <2>1, <3>1, <3>2 DEF Turns, ChildRecords, States, Fits, In, Ready, Waiting, RequestOf
    <3> QED
      BY <1>c, <1>f, <2>1, <3>3
  <2>2. CASE In(child, {"Suspending"}) /\ Calls([child EXCEPT !.mNextState = "Resuming"])
    <3>1. Turns(child, [child EXCEPT !.mNextState = "Resuming"])
      BY <1>b, <2>2, NoNames DEF Turns, ChildRecords, States, Fits, In, OnlyWrites
    <3> QED
      BY <1>c, <2>2, <3>1, CallTurned
  <2>3. CASE Call /\ FlushBufferedData(child)
    BY <1>a, <1>c, <1>f, <2>3
  <2> QED
    BY <1>2, <2>1, <2>2, <2>3 DEF Resume
<1>3. CASE CallDisconnect
  BY <1>3, <1>a, <1>c, DisconnectTurns, CallTurned DEF CallDisconnect
<1>4. CASE Close
  <2>0. <<>> \in Seq(Chunks)
    OBVIOUS
  <2>1. CASE In(child, {"Suspended", "TransferringData", "FinishedTransferringData"})
             /\ Calls(Clears(Sends(Goes(child, "Closing", "Closed"), "Close")))
    <3> DEFINE d == Clears(Sends(Goes(child, "Closing", "Closed"), "Close"))
    <3>1. d = [child EXCEPT !.mState = "Closing", !.mNextState = "Closed", !.mBufferedData = <<>>,
                            !.out = Append(<<>>, Msg("Close"))]
      BY <1>b DEF Clears, Sends, Goes, ChildRecords
    <3>2. Append(<<>>, Msg("Close")) \in Seq(ToParent) /\ Asks(Append(<<>>, Msg("Close")), "Close")
      BY OneRequest DEF Requests
    <3>3. Turns(child, d)
      BY <1>b, <2>0, <2>1, <3>1, <3>2 DEF Turns, ChildRecords, States, Fits, In, Ready, Waiting, RequestOf
    <3> QED
      BY <1>c, <2>1, <3>3, CallTurned
  <2>2. CASE In(child, {"Suspending", "Resuming"}) /\ Calls(Clears([child EXCEPT !.mNextState = "Closing"]))
    <3>1. Turns(child, Clears([child EXCEPT !.mNextState = "Closing"]))
      BY <1>b, <2>0, <2>2, NoNames DEF Clears, Turns, ChildRecords, States, Fits, In, OnlyWrites
    <3> QED
      BY <1>c, <2>2, <3>1, CallTurned
  <2>3. CASE Calls(Clears(child))
    <3>1. Turns(child, Clears(child))
      BY <1>b, <2>0, NoNames DEF Clears, Turns, ChildRecords, Fits, OnlyWrites
    <3> QED
      BY <1>c, <2>3, <3>1, CallTurned
  <2> QED
    BY <1>4, <2>1, <2>2, <2>3 DEF Close
<1>5. CASE Write
  <2> DEFINE w == <<Carrying("Write", Head(kept))>>
             d == [child EXCEPT !.out = w]
  <2>1. Head(kept) \in Chunks /\ Tail(kept) \in Seq(Chunks)
    BY <1>5, <1>d, TailOf DEF Write
  <2>2. w \in Seq(ToParent) /\ OnlyWrites(w)
    BY <2>1, Kinds, Named DEF OnlyWrites, Names
  <2> HIDE DEF w
  <2>3. child.mState \in Ready \cup {"Suspending", "Resuming"}
    BY <1>5 DEF Write, CanWrite, In, Ready
  <2>4. Turns(child, d)
    BY <1>b, <2>2, <2>3 DEF Turns, ChildRecords, Fits
  <2>5. Becomes(d) /\ d.mState = child.mState /\ emitting' = emitting /\ kept' = Tail(kept)
        /\ calls' = calls /\ script' = script
    BY <1>5, <1>b DEF Write, w, ScriptRuns, ChildRecords
  <2>6. FrameTypes'
    BY <1>c, <1>d, <2>1, <2>5 DEF FrameTypes, TypeInv, ChildInv, ChildTypeOK
  <2> HIDE DEF d
  <2> QED
    BY <1>c, <1>d, <2>3, <2>4, <2>5, <2>6 DEF Turned
<1> QED
  BY <1>c, <1>1, <1>2, <1>3, <1>4, <1>5 DEF Script

LEMMA EventEndsTurned == TypeInv /\ EventEnds => Turned(child) /\ UNCHANGED <<toChild, ipc>>
<1> SUFFICES ASSUME TypeInv, EventEnds PROVE Turned(child)
  BY DEF EventEnds
<1>1. Fresh(child) /\ child.mState \in Ready \cup Waiting /\ kept \in Seq(Chunks)
  BY ChildFresh DEF TypeInv, ChildInv, ChildTypeOK, EventEnds
<1>2. Turns(child, MaybeStopRequest(child))
  BY <1>1, MaybeStopTurns
<1>3. /\ \E e : Turns(child, e) /\ Becomes(e) /\ (emitting' # "no" => e.mState \in Ready \cup Waiting)
      /\ emitting' \in {"no", "data", "flush"} /\ kept' \in Seq(Chunks)
  BY <1>1, <1>2, FlushTurns DEF EventEnds, EmitsNothing
<1> QED
  BY <1>3 DEF EventEnds, Turned, FrameTypes, TypeInv, ChildInv, ChildTypeOK

LEMMA CollectTurned == TypeInv /\ Collect => Turned(child) /\ UNCHANGED <<toChild, ipc>>
<1> SUFFICES ASSUME TypeInv, Collect PROVE Turned(child)
  BY DEF Collect
<1>1. Turns(child, Cleanup(child))
  BY ChildFresh, CleanupTurns DEF TypeInv
<1>2. Becomes(Cleanup(child)) /\ emitting' = "no" /\ FrameTypes'
  BY DEF Collect, EmitsNothing, FrameTypes, TypeInv, ChildInv, ChildTypeOK
<1> QED
  BY <1>1, <1>2 DEF Turned

-----------------------------------------------------------------------------
(***************************************************************************)
(* The order of each of the four queues.                                   *)
(***************************************************************************)
Answers == {"Suspended", "Resumed", "Closed", "FlushData"}
Starts == {"StartRequest", "Error"}
Ends == {"Closed", "FlushData", "Error"}
Flow == {"Data", "StopRequest"}
Asked == {"suspend", "resume"}
Resumes == {"resume", "resumeOnly"}
Stops == {"flush", "emitStop", "emitStopOnce"}
Out == {"write", "flush", "emitStop"}
Agreed == {"suspended", "resumed"}
ActorStarts == {"start", "redirected"}

\* To the child: one answer at a time, no data behind the stop, neither behind
\* what ends the protocol.
ToChildOrder(q) ==
  /\ Once(q, Answers) /\ Once(q, Starts)
  /\ NotBehind(q, {"StopRequest"}, {"Data"}) /\ NotBehind(q, Ends, Flow)

\* To the parent: one request at a time, and nothing behind what is sent last.
ToParentOrder(q) == Once(q, Requests) /\ OnlyLast(q, Lasts)

\* mQueue: one request at a time, the channel is resumed once, and nothing is
\* written behind the flush or the stop.
QueueOrder(q) == Once(q, Asked) /\ Once(q, Resumes) /\ NotBehind(q, Stops, Out)

\* actorq: one agreement at a time, one start, one flush, and no data behind the stop.
ActorOrder(q) ==
  /\ Once(q, Agreed) /\ Once(q, ActorStarts) /\ Once(q, {"disconnected"})
  /\ NotBehind(q, {"stop"}, {"data"})

Answering(q) == "Suspended" \in Names(q) \/ "Resumed" \in Names(q) \/ "Closed" \in Names(q) \/ "FlushData" \in Names(q)
Starting(q) == "StartRequest" \in Names(q) \/ "Error" \in Names(q)
Ending(q) == "Closed" \in Names(q) \/ "FlushData" \in Names(q) \/ "Error" \in Names(q)
Flowing(q) == "Data" \in Names(q) \/ "StopRequest" \in Names(q)
Requesting(q) == "Suspend" \in Names(q) \/ "Resume" \in Names(q) \/ "Close" \in Names(q) \/ "Disconnect" \in Names(q)
Asking(q) == "suspend" \in Names(q) \/ "resume" \in Names(q)
Resuming(q) == "resume" \in Names(q) \/ "resumeOnly" \in Names(q)
Stopping(q) == "flush" \in Names(q) \/ "emitStop" \in Names(q) \/ "emitStopOnce" \in Names(q)
Writing(q) == "write" \in Names(q) \/ "flush" \in Names(q) \/ "emitStop" \in Names(q)
Agreeing(q) == "suspended" \in Names(q) \/ "resumed" \in Names(q)
Beginning(q) == "start" \in Names(q) \/ "redirected" \in Names(q)

LEMMA NamesIn ==
  ASSUME NEW q
  PROVE  /\ Answering(q) <=> \E x \in Answers : x \in Names(q)
         /\ Starting(q) <=> \E x \in Starts : x \in Names(q)
         /\ Ending(q) <=> \E x \in Ends : x \in Names(q)
         /\ Flowing(q) <=> \E x \in Flow : x \in Names(q)
         /\ Requesting(q) <=> \E x \in Requests : x \in Names(q)
         /\ Asking(q) <=> \E x \in Asked : x \in Names(q)
         /\ Resuming(q) <=> \E x \in Resumes : x \in Names(q)
         /\ Stopping(q) <=> \E x \in Stops : x \in Names(q)
         /\ Writing(q) <=> \E x \in Out : x \in Names(q)
         /\ Agreeing(q) <=> \E x \in Agreed : x \in Names(q)
         /\ Beginning(q) <=> \E x \in ActorStarts : x \in Names(q)
<1>1. /\ Answering(q) <=> \E x \in Answers : x \in Names(q)
      /\ Starting(q) <=> \E x \in Starts : x \in Names(q)
      /\ Ending(q) <=> \E x \in Ends : x \in Names(q)
      /\ Flowing(q) <=> \E x \in Flow : x \in Names(q)
  BY DEF Answering, Answers, Starting, Starts, Ending, Ends, Flowing, Flow
<1>2. /\ Requesting(q) <=> \E x \in Requests : x \in Names(q)
      /\ Asking(q) <=> \E x \in Asked : x \in Names(q)
      /\ Resuming(q) <=> \E x \in Resumes : x \in Names(q)
  BY DEF Requesting, Requests, Asking, Asked, Resuming, Resumes
<1>3. /\ Stopping(q) <=> \E x \in Stops : x \in Names(q)
      /\ Writing(q) <=> \E x \in Out : x \in Names(q)
      /\ Agreeing(q) <=> \E x \in Agreed : x \in Names(q)
      /\ Beginning(q) <=> \E x \in ActorStarts : x \in Names(q)
  BY DEF Stopping, Stops, Writing, Out, Agreeing, Agreed, Beginning, ActorStarts
<1> QED
  BY <1>1, <1>2, <1>3

LEMMA ToChildTaken ==
  ASSUME NEW q \in Seq(ToChild), q # <<>>, ToChildOrder(q)
  PROVE  /\ Names(q) = Names(Tail(q)) \cup {Head(q).name}
         /\ ToChildOrder(Tail(q))
         /\ Head(q).name \in Answers => ~Answering(Tail(q))
         /\ Head(q).name \in Starts => ~Starting(Tail(q))
         /\ Head(q).name = "StopRequest" => "Data" \notin Names(Tail(q))
         /\ Head(q).name \in Ends => ~Flowing(Tail(q))
<1>1. /\ Names(q) = Names(Tail(q)) \cup {Head(q).name}
      /\ Once(Tail(q), Answers) /\ (Head(q).name \in Answers => \A x \in Answers : x \notin Names(Tail(q)))
      /\ Once(Tail(q), Starts) /\ (Head(q).name \in Starts => \A x \in Starts : x \notin Names(Tail(q)))
  BY Taken DEF ToChildOrder
<1>2. /\ NotBehind(Tail(q), {"StopRequest"}, {"Data"})
      /\ Head(q).name \in {"StopRequest"} => \A x \in {"Data"} : x \notin Names(Tail(q))
      /\ NotBehind(Tail(q), Ends, Flow)
      /\ Head(q).name \in Ends => \A x \in Flow : x \notin Names(Tail(q))
  BY Taken DEF ToChildOrder
<1> QED
  BY <1>1, <1>2, NamesIn DEF ToChildOrder

LEMMA ToChildSent ==
  ASSUME NEW q \in Seq(ToChild), NEW x \in ToChild, ToChildOrder(q),
         x.name \in Answers => ~Answering(q),
         x.name \in Starts => ~Starting(q),
         x.name = "Data" => "StopRequest" \notin Names(q),
         x.name \in Flow => ~Ending(q)
  PROVE  /\ Names(Append(q, x)) = Names(q) \cup {x.name}
         /\ ToChildOrder(Append(q, x))
<1>1. /\ Names(Append(q, x)) = Names(q) \cup {x.name}
      /\ Once(Append(q, x), Answers) /\ Once(Append(q, x), Starts)
  BY Added, NamesIn DEF ToChildOrder
<1>2. NotBehind(Append(q, x), {"StopRequest"}, {"Data"}) /\ NotBehind(Append(q, x), Ends, Flow)
  BY Added, NamesIn DEF ToChildOrder
<1> QED
  BY <1>1, <1>2 DEF ToChildOrder

LEMMA ToParentTaken ==
  ASSUME NEW q \in Seq(ToParent), q # <<>>, ToParentOrder(q)
  PROVE  /\ Names(q) = Names(Tail(q)) \cup {Head(q).name}
         /\ ToParentOrder(Tail(q))
         /\ Head(q).name \in Requests => ~Requesting(Tail(q))
         /\ Head(q).name \in Lasts => Tail(q) = <<>> /\ Names(Tail(q)) = {}
<1>1. /\ Names(q) = Names(Tail(q)) \cup {Head(q).name}
      /\ Once(Tail(q), Requests) /\ (Head(q).name \in Requests => \A x \in Requests : x \notin Names(Tail(q)))
      /\ OnlyLast(Tail(q), Lasts) /\ (Head(q).name \in Lasts => Tail(q) = <<>>)
  BY Taken DEF ToParentOrder
<1> QED
  BY <1>1, NamesIn, NoNames DEF ToParentOrder

LEMMA ToParentSent ==
  ASSUME NEW q \in Seq(ToParent), NEW w \in Seq(ToParent), ToParentOrder(q), ToParentOrder(w),
         Requesting(q) => ~Requesting(w),
         w # <<>> => \A x \in Lasts : x \notin Names(q)
  PROVE  /\ Names(q \o w) = Names(q) \cup Names(w)
         /\ ToParentOrder(q \o w)
<1>1. Names(q \o w) = Names(q) \cup Names(w) /\ Once(q \o w, Requests)
  BY Joined, NamesIn DEF ToParentOrder
<1>2. OnlyLast(q \o w, Lasts)
  <2>1. CASE w = <<>>
    BY <2>1, ConcatOf DEF ToParentOrder
  <2>2. CASE w # <<>>
    BY <2>2, Joined DEF ToParentOrder
  <2> QED
    BY <2>1, <2>2
<1> QED
  BY <1>1, <1>2 DEF ToParentOrder

LEMMA QueueTaken ==
  ASSUME NEW q \in Seq(QueueEvents), q # <<>>, QueueOrder(q)
  PROVE  /\ Names(q) = Names(Tail(q)) \cup {Head(q).name}
         /\ QueueOrder(Tail(q))
         /\ Head(q).name \in Asked => ~Asking(Tail(q))
         /\ Head(q).name \in Resumes => ~Resuming(Tail(q))
         /\ Head(q).name \in Stops => ~Writing(Tail(q))
<1>1. /\ Names(q) = Names(Tail(q)) \cup {Head(q).name}
      /\ Once(Tail(q), Asked) /\ (Head(q).name \in Asked => \A x \in Asked : x \notin Names(Tail(q)))
      /\ Once(Tail(q), Resumes) /\ (Head(q).name \in Resumes => \A x \in Resumes : x \notin Names(Tail(q)))
      /\ NotBehind(Tail(q), Stops, Out)
      /\ Head(q).name \in Stops => \A x \in Out : x \notin Names(Tail(q))
  BY Taken DEF QueueOrder
<1> QED
  BY <1>1, NamesIn DEF QueueOrder

LEMMA QueueAdded ==
  ASSUME NEW q \in Seq(QueueEvents), NEW x \in QueueEvents, QueueOrder(q),
         x.name \in Asked => ~Asking(q),
         x.name \in Resumes => ~Resuming(q),
         x.name \in Out => ~Stopping(q)
  PROVE  /\ Names(Append(q, x)) = Names(q) \cup {x.name}
         /\ QueueOrder(Append(q, x))
<1>1. /\ Names(Append(q, x)) = Names(q) \cup {x.name}
      /\ Once(Append(q, x), Asked) /\ Once(Append(q, x), Resumes)
      /\ NotBehind(Append(q, x), Stops, Out)
  BY Added, NamesIn DEF QueueOrder
<1> QED
  BY <1>1 DEF QueueOrder

LEMMA ActorTaken ==
  ASSUME NEW q \in Seq(ActorEvents), q # <<>>, ActorOrder(q)
  PROVE  /\ Names(q) = Names(Tail(q)) \cup {Head(q).name}
         /\ ActorOrder(Tail(q))
         /\ Head(q).name \in Agreed => ~Agreeing(Tail(q))
         /\ Head(q).name \in ActorStarts => ~Beginning(Tail(q))
         /\ Head(q).name = "disconnected" => "disconnected" \notin Names(Tail(q))
         /\ Head(q).name = "stop" => "data" \notin Names(Tail(q))
<1>1. /\ Names(q) = Names(Tail(q)) \cup {Head(q).name}
      /\ Once(Tail(q), Agreed) /\ (Head(q).name \in Agreed => \A x \in Agreed : x \notin Names(Tail(q)))
      /\ Once(Tail(q), ActorStarts)
      /\ Head(q).name \in ActorStarts => \A x \in ActorStarts : x \notin Names(Tail(q))
  BY Taken DEF ActorOrder
<1>2. /\ Once(Tail(q), {"disconnected"})
      /\ Head(q).name \in {"disconnected"} => \A x \in {"disconnected"} : x \notin Names(Tail(q))
      /\ NotBehind(Tail(q), {"stop"}, {"data"})
      /\ Head(q).name \in {"stop"} => \A x \in {"data"} : x \notin Names(Tail(q))
  BY Taken DEF ActorOrder
<1> QED
  BY <1>1, <1>2, NamesIn DEF ActorOrder

LEMMA ActorAdded ==
  ASSUME NEW q \in Seq(ActorEvents), NEW x \in ActorEvents, ActorOrder(q),
         x.name \in Agreed => ~Agreeing(q),
         x.name \in ActorStarts => ~Beginning(q),
         x.name = "disconnected" => "disconnected" \notin Names(q),
         x.name = "data" => "stop" \notin Names(q)
  PROVE  /\ Names(Append(q, x)) = Names(q) \cup {x.name}
         /\ ActorOrder(Append(q, x))
<1>1. /\ Names(Append(q, x)) = Names(q) \cup {x.name}
      /\ Once(Append(q, x), Agreed) /\ Once(Append(q, x), ActorStarts)
      /\ Once(Append(q, x), {"disconnected"})
      /\ NotBehind(Append(q, x), {"stop"}, {"data"})
  BY Added, NamesIn DEF ActorOrder
<1> QED
  BY <1>1 DEF ActorOrder

-----------------------------------------------------------------------------
(***************************************************************************)
(* The protocol: a child in state s, which has received the stop or not    *)
(* (r), with the queues tc to it and tp from it.                           *)
(***************************************************************************)
\* A request is in one place: on its way to the parent, in the parent's two
\* queues, or answered.
OneToken(tc, tp) ==
  /\ Requesting(tp) => ~Asking(mQueue) /\ ~Agreeing(actorq) /\ ~Answering(tc)
  /\ Asking(mQueue) => ~Agreeing(actorq) /\ ~Answering(tc)
  /\ Agreeing(actorq) => ~Answering(tc)

\* Wherever it is, the child waits for it.
Waits(s, tc, tp) == s # "Dead" =>
  /\ ("Suspend" \in Names(tp) \/ "suspend" \in Names(mQueue) \/ "suspended" \in Names(actorq)
      \/ "Suspended" \in Names(tc)) => s = "Suspending"
  /\ ("Resume" \in Names(tp) \/ "resume" \in Names(mQueue) \/ "resumed" \in Names(actorq)
      \/ "Resumed" \in Names(tc)) => s = "Resuming"
  /\ "Close" \in Names(tp) \/ "Closed" \in Names(tc) => s = "Closing"
  /\ "Disconnect" \in Names(tp) \/ "FlushData" \in Names(tc) => s = "Disconnecting"
  /\ "FlushedData" \in Names(tp) => s = "Disconnected"
  /\ "Destroy" \in Names(tp) => s = "Error"

\* The child is silent until it hears of the start, and hears of that first.
Started(s, tc, tp) ==
  /\ channel = "new" => actorq = <<>> /\ mState = "Uninitialized"
  /\ mState = "Uninitialized" =>
       /\ channel # "new" => actorq # <<>> /\ Head(actorq).name \in ActorStarts
       /\ tc = <<>> /\ mQueue = <<>> /\ s \in Unborn \cup {"Dead"}
  /\ Beginning(actorq) => mState = "Uninitialized"
  /\ s \in Unborn =>
       /\ tp = <<>>
       /\ tc # <<>> => Head(tc).name \in Starts
       /\ mState # "Uninitialized" /\ ipc = "open" => tc # <<>>
  /\ Starting(tc) => s \in Unborn
  /\ "StartRequest" \in Names(tc) /\ ipc = "open" => mState = "TransferringData"
  /\ s = "Dead" => tc = <<>> /\ ipc # "open"
  /\ ipc # "open" => tp = <<>>

\* No data behind the stop, on any way; neither behind what ends the protocol.
Flows(s, r, tc) ==
  /\ channel # "open" => oda = 0
  /\ "stop" \in Names(actorq) \/ onStop # "no" => channel = "stopped"
  /\ "StopRequest" \in Names(tc) \/ r => channel = "stopped" /\ "data" \notin Names(actorq)
  /\ r => "Data" \notin Names(tc)
  /\ Ending(tc) \/ s \in Over => ~IPCActive
  /\ s \in Over => ~Flowing(tc)

Finished ==
  mState \in {"Closed", "Disconnected"} \/ "flush" \in Names(mQueue) \/ "disconnected" \in Names(actorq)

\* While the parent waits for FlushedData it is Disconnecting, and has not flushed;
\* when it has finished, the child sends no more than that it is destroyed.
Flushes(s, tc, tp) ==
  /\ ipc = "open" /\ ("FlushData" \in Names(tc) \/ "FlushedData" \in Names(tp)) =>
       mState = "Disconnecting" /\ ~Finished
  /\ "flush" \in Names(mQueue) \/ "disconnected" \in Names(actorq) => mState = "Disconnecting"
  /\ ipc = "open" /\ Finished =>
       /\ \A name \in Names(tp) : name = "Destroy"
       /\ s \in Unborn \cup {"Closing", "Closed", "Disconnected", "Error"}

Protocol(s, r, tc, tp) ==
  /\ ToChildOrder(tc) /\ ToParentOrder(tp)
  /\ OneToken(tc, tp) /\ Waits(s, tc, tp) /\ Started(s, tc, tp)
  /\ Flows(s, r, tc) /\ Flushes(s, tc, tp)

ChildHand == Protocol(child.mState, child.mReceivedOnStop, toChild, toParent)

ChildUnseen == UNCHANGED <<mQueue, actorq, mState, channel, onStop, oda>>

LEMMA Unmoved ==
  ASSUME NEW s, NEW r, NEW tc, NEW tp, Protocol(s, r, tc, tp), ChildUnseen, ipc' = ipc,
         child'.mState = s, child'.mReceivedOnStop = r, toChild' = tc, toParent' = tp
  PROVE  ChildHand'
<1>1. ToChildOrder(toChild') /\ ToParentOrder(toParent')
  BY DEF Protocol
<1>2. OneToken(toChild, toParent)' /\ Waits(child.mState, toChild, toParent)'
  BY DEF Protocol, OneToken, Waits, ChildUnseen, Requesting, Asking, Agreeing, Answering
<1>3. Started(child.mState, toChild, toParent)'
  BY DEF Protocol, Started, ChildUnseen, Beginning, Starting
<1>4. Flows(child.mState, child.mReceivedOnStop, toChild)'
  BY DEF Protocol, Flows, IPCActive, ChildUnseen, Ending, Flowing
<1>5. Flushes(child.mState, toChild, toParent)'
  BY DEF Protocol, Flushes, Finished, ChildUnseen
<1> QED
  BY <1>1, <1>2, <1>3, <1>4, <1>5 DEF ChildHand, Protocol

\* A child that is ready has no request under way.
LEMMA ReadyWaitsForNothing ==
  ASSUME NEW s \in Ready, NEW tc, NEW tp, Waits(s, tc, tp)
  PROVE  /\ ~Requesting(tp) /\ ~Asking(mQueue) /\ ~Agreeing(actorq) /\ ~Answering(tc)
         /\ "FlushedData" \notin Names(tp) /\ "Destroy" \notin Names(tp)
<1>1. s # "Dead" /\ s # "Suspending" /\ s # "Resuming" /\ s # "Closing" /\ s # "Disconnecting"
      /\ s # "Disconnected" /\ s # "Error"
  BY DEF Ready
<1>2. ~Requesting(tp) /\ "FlushedData" \notin Names(tp) /\ "Destroy" \notin Names(tp)
  BY <1>1 DEF Waits, Requesting
<1>3. ~Asking(mQueue) /\ ~Agreeing(actorq) /\ ~Answering(tc)
  BY <1>1 DEF Waits, Asking, Agreeing, Answering
<1> QED
  BY <1>2, <1>3

\* What methods send keeps the protocol.
LEMMA Turning ==
  ASSUME NEW s, NEW t, NEW r, NEW tc \in Seq(ToChild), NEW tp \in Seq(ToParent),
         NEW w \in Seq(ToParent), NEW q, Protocol(s, r, tc, tp),
         q = tp \o (IF ipc = "open" THEN w ELSE <<>>),
         \/ /\ t = s
            /\ OnlyWrites(w)
            /\ w # <<>> => s \in Ready \cup {"Suspending", "Resuming", "Disconnecting"}
         \/ /\ s \in Ready
            /\ t \in Waiting
            /\ Asks(w, RequestOf(t))
         \/ /\ s \in Ready
            /\ t \in Ready
            /\ w = <<>>
  PROVE  Protocol(t, r, tc, q)
<1>q. (ipc # "open" \/ w = <<>> => q = tp) /\ (ipc = "open" => q = tp \o w)
  BY ConcatOf
<1>o. ToChildOrder(tc) /\ ToParentOrder(tp)
  BY DEF Protocol
<1>1. CASE t = s /\ (ipc # "open" \/ w = <<>>)
  BY <1>1, <1>q
<1>2. CASE /\ t = s /\ ipc = "open" /\ w # <<>>
           /\ OnlyWrites(w)
           /\ s \in Ready \cup {"Suspending", "Resuming", "Disconnecting"}
  <2>1. /\ ToParentOrder(w) /\ ~Requesting(w)
        /\ \A x \in Lasts : x \notin Names(tp)
    <3>1. ~Requesting(w)
      BY <1>2 DEF OnlyWrites, Requesting
    <3>2. "Close" \notin Names(tp) /\ "FlushedData" \notin Names(tp) /\ "Destroy" \notin Names(tp)
      BY <1>2 DEF Protocol, Waits, Ready
    <3> QED
      BY <1>2, <3>1, <3>2, WritesOrdered DEF ToParentOrder, Lasts
  <2>2. Names(q) = Names(tp) \cup Names(w) /\ ToParentOrder(q)
    BY <1>2, <1>q, <1>o, <2>1, ToParentSent
  <2>3. \A x : x # "Write" => (x \in Names(q) <=> x \in Names(tp))
    BY <1>2, <2>2 DEF OnlyWrites
  <2>4. Requesting(q) <=> Requesting(tp)
    BY <2>3 DEF Requesting
  <2>5. OneToken(tc, q)
    BY <2>4 DEF Protocol, OneToken
  <2>6. Waits(t, tc, q)
    BY <1>2, <2>3 DEF Protocol, Waits
  <2>7. Started(t, tc, q)
    BY <1>2 DEF Protocol, Started, Unborn, Ready
  <2>8. Flushes(t, tc, q)
    <3>1. s \notin Unborn \cup {"Closing", "Closed", "Disconnected", "Error"}
      BY <1>2 DEF Ready, Unborn
    <3> QED
      BY <1>2, <2>3, <3>1 DEF Protocol, Flushes
  <2> QED
    BY <1>2, <1>o, <2>2, <2>5, <2>6, <2>7, <2>8 DEF Protocol
<1>3. CASE s \in Ready /\ ((t \in Waiting /\ Asks(w, RequestOf(t))) \/ (t \in Ready /\ w = <<>>))
  <2>1. /\ ~Requesting(tp) /\ ~Asking(mQueue) /\ ~Agreeing(actorq) /\ ~Answering(tc)
        /\ "FlushedData" \notin Names(tp) /\ "Destroy" \notin Names(tp)
    BY <1>3, ReadyWaitsForNothing DEF Protocol
  <2>2. /\ s \notin Unborn /\ t \notin Unborn /\ t # "Dead" /\ s # "Dead"
        /\ s \notin Over /\ t \notin Over
        /\ s # "Closing"
    BY <1>3 DEF Ready, Waiting, Unborn, Over
  <2>3. \A x \in Lasts : x \notin Names(tp)
    BY <2>1 DEF Lasts, Requesting
  <2>4. ipc = "open" => ~Finished
    BY <2>2 DEF Protocol, Flushes, Over
  <2>5. /\ \A x : x \in Names(q) /\ x \in Requests =>
              /\ x = "Suspend" => t = "Suspending"
              /\ x = "Resume" => t = "Resuming"
              /\ x = "Close" => t = "Closing"
              /\ x = "Disconnect" => t = "Disconnecting"
        /\ "FlushedData" \notin Names(q) /\ "Destroy" \notin Names(q)
        /\ ToParentOrder(q)
        /\ ipc # "open" => q = <<>>
    <3>1. CASE q = tp
      BY <1>o, <2>1, <3>1 DEF Requesting, Requests, Protocol, Started
    <3>2. CASE q # tp
      <4>1. t \in Waiting /\ Asks(w, RequestOf(t)) /\ ipc = "open" /\ q = tp \o w
        BY <1>3, <1>q, <3>2
      <4>2. ToParentOrder(w)
        BY <4>1 DEF Asks, ToParentOrder
      <4>3. Names(q) = Names(tp) \cup Names(w) /\ ToParentOrder(q)
        BY <1>o, <2>1, <2>3, <4>1, <4>2, ToParentSent
      <4>4. \A x \in Names(w) : x \in {RequestOf(t), "Write"}
        BY <4>1 DEF Asks
      <4>5. /\ RequestOf(t) = "Suspend" => t = "Suspending"
            /\ RequestOf(t) = "Resume" => t = "Resuming"
            /\ RequestOf(t) = "Close" => t = "Closing"
            /\ RequestOf(t) = "Disconnect" => t = "Disconnecting"
            /\ RequestOf(t) \in Requests
        BY <4>1 DEF RequestOf, Waiting, Requests
      <4> QED
        BY <2>1, <4>1, <4>3, <4>4, <4>5 DEF Requesting, Requests
    <3> QED
      BY <3>1, <3>2
  <2>6. OneToken(tc, q)
    BY <2>1 DEF OneToken
  <2>7. Waits(t, tc, q)
    BY <2>1, <2>5 DEF Waits, Requests, Asking, Agreeing, Answering
  <2>8. Started(t, tc, q)
    BY <2>2, <2>5 DEF Protocol, Started
  <2>9. Flows(t, r, tc)
    BY <2>2 DEF Protocol, Flows
  <2>10. Flushes(t, tc, q)
    BY <2>4, <2>5 DEF Protocol, Flushes
  <2> QED
    BY <1>o, <2>5, <2>6, <2>7, <2>8, <2>9, <2>10 DEF Protocol
<1> QED
  BY <1>1, <1>2, <1>3

\* So a step that turns the actor c, with these queues, keeps it.
LEMMA TurnedHand ==
  ASSUME NEW c, Turned(c), toParent \in Seq(ToParent), toChild' \in Seq(ToChild),
         Protocol(c.mState, c.mReceivedOnStop, toChild', toParent), ChildUnseen, ipc' = ipc
  PROVE  ChildHand'
<1>1. PICK d : Turns(c, d) /\ Becomes(d)
  BY DEF Turned
<1>2. /\ d \in ChildRecords /\ d.out \in Seq(ToParent)
      /\ d.mReceivedOnStop = c.mReceivedOnStop
  BY <1>1 DEF Turns, ChildRecords
<1>3. /\ child'.mState = d.mState /\ child'.mReceivedOnStop = d.mReceivedOnStop
      /\ toParent' = toParent \o (IF ipc = "open" THEN d.out ELSE <<>>)
  BY <1>1, <1>2 DEF Becomes, ChildRecords
<1>4. Protocol(d.mState, c.mReceivedOnStop, toChild', toParent')
  <2> DEFINE s == c.mState
             t == d.mState
             r == c.mReceivedOnStop
             w == d.out
  <2>1. \/ t = s /\ OnlyWrites(w) /\ (w # <<>> => s \in Ready \cup {"Suspending", "Resuming", "Disconnecting"})
        \/ s \in Ready /\ t \in Waiting /\ Asks(w, RequestOf(t))
        \/ s \in Ready /\ t \in Ready /\ w = <<>>
    BY <1>1 DEF Turns
  <2>2. Protocol(s, r, toChild', toParent) /\ w \in Seq(ToParent)
        /\ toParent' = toParent \o (IF ipc = "open" THEN w ELSE <<>>)
    BY <1>2, <1>3
  <2> HIDE DEF s, t, r, w
  <2>3. Protocol(t, r, toChild', toParent')
    BY <2>1, <2>2, Turning
  <2> QED
    BY <2>3 DEF t, r
<1> QED
  BY <1>2, <1>3, <1>4, Unmoved

-----------------------------------------------------------------------------
(***************************************************************************)
(* The child's steps keep the types and the protocol.                      *)
(***************************************************************************)
ChildKept == ChildInv' /\ toParent' \in Seq(ToParent) /\ toChild' \in Seq(ToChild) /\ ChildHand'

LEMMA TurnedKept ==
  ASSUME NEW c, Turned(c), toParent \in Seq(ToParent), toChild' \in Seq(ToChild),
         Protocol(c.mState, c.mReceivedOnStop, toChild', toParent), ChildUnseen, ipc' = ipc
  PROVE  ChildKept
  BY TurnedTypes, TurnedHand DEF ChildKept

\* Script, the end of an event and the collection of the filter.
LEMMA OwnSteps ==
  ASSUME TypeInv, ChildHand, ChildUnseen, Script \/ EventEnds \/ Collect
  PROVE  ChildKept
<1>1. Turned(child) /\ UNCHANGED <<toChild, ipc>>
  BY ScriptTurned, EventEndsTurned, CollectTurned
<1> QED
  BY <1>1, QueueTypes, TurnedKept DEF ChildHand

\* What taking the oldest message leaves of the protocol, for the state in which
\* the child goes on.
LEMMA Heard ==
  ASSUME TypeInv, ChildHand, NEW name, Receives(name)
  PROVE  /\ toChild # <<>> /\ toChild' = Tail(toChild) /\ toChild' \in Seq(ToChild) /\ ipc' = ipc
         /\ Names(toChild) = Names(toChild') \cup {name}
         /\ ToChildOrder(toChild') /\ ToParentOrder(toParent)
         /\ name \in Answers => ~Answering(toChild')
         /\ name \in Starts => ~Starting(toChild')
         /\ name = "StopRequest" => "Data" \notin Names(toChild')
         /\ name \in Ends => ~Flowing(toChild')
         /\ child.mState \notin {"Uninitialized", "Dead"}
         /\ child.mState = "Initialized" => name \in Starts
  BY QueueTypes, ToChildTaken DEF Receives, Running, In, ChildHand, Protocol, Started, Unborn

LEMMA StartHeard ==
  ASSUME TypeInv, ChildHand, ChildUnseen, RecvStartRequest
  PROVE  ChildKept
<1> DEFINE c == [child EXCEPT !.mState = "TransferringData"]
<1>1. /\ Fresh(c) /\ c.mState = "TransferringData" /\ c.mReceivedOnStop = child.mReceivedOnStop
  BY ChildFresh DEF TypeInv, Fresh, ChildRecords, States, Fits
<1>2. Turns(c, CheckAlive(c))
  BY <1>1, CheckAliveTurns
<1>3. Turned(c)
  BY <1>2 DEF RecvStartRequest, EmitsNothing, Receives, Turned, FrameTypes, TypeInv, ChildInv, ChildTypeOK
<1>4. Protocol("TransferringData", child.mReceivedOnStop, toChild', toParent)
  <2> DEFINE s == child.mState
             r == child.mReceivedOnStop
  <2>1. /\ Names(toChild) = Names(toChild') \cup {"StartRequest"}
        /\ ToChildOrder(toChild') /\ ToParentOrder(toParent) /\ ipc' = ipc
        /\ ~Starting(toChild')
        /\ s \notin {"Uninitialized", "Dead"}
    BY Heard DEF RecvStartRequest, Starts
  <2>2. Protocol(s, r, toChild, toParent)
    BY DEF ChildHand
  <2> HIDE DEF s, r
  <2>3. s = "Initialized" /\ toParent = <<>> /\ Names(toParent) = {}
    BY <2>1, <2>2, NoNames DEF Protocol, Started, Starting, Unborn
  <2>4. OneToken(toChild', toParent) /\ Waits("TransferringData", toChild', toParent)
    BY <2>1, <2>2, <2>3 DEF Protocol, OneToken, Waits, Requesting, Asking, Agreeing, Answering
  <2>5. Started("TransferringData", toChild', toParent)
    BY <2>1, <2>2, <2>3 DEF Protocol, Started, Unborn, Starting
  <2>6. Flows("TransferringData", r, toChild')
    BY <2>1, <2>2, <2>3 DEF Protocol, Flows, Ending, Flowing, Over
  <2>7. Flushes("TransferringData", toChild', toParent)
    BY <2>1, <2>2, <2>3 DEF Protocol, Flushes, Started, Finished
  <2> QED
    BY <2>1, <2>4, <2>5, <2>6, <2>7 DEF Protocol, r
<1>5. toChild' \in Seq(ToChild) /\ ipc' = ipc /\ toParent \in Seq(ToParent)
  BY Heard, QueueTypes DEF RecvStartRequest
<1> HIDE DEF c
<1> QED
  BY <1>1, <1>3, <1>4, <1>5, TurnedKept

LEMMA StopHeard ==
  ASSUME TypeInv, ChildHand, ChildUnseen, RecvStopRequest
  PROVE  ChildKept
<1> DEFINE c == [child EXCEPT !.mReceivedOnStop = TRUE]
           s == child.mState
           r == child.mReceivedOnStop
<1>1. /\ Fresh(c) /\ c.mState = s /\ c.mReceivedOnStop = TRUE
  BY ChildFresh DEF TypeInv, Fresh, ChildRecords, States, Fits
<1>2. /\ Names(toChild) = Names(toChild') \cup {"StopRequest"}
      /\ ToChildOrder(toChild') /\ ToParentOrder(toParent) /\ ipc' = ipc
      /\ "Data" \notin Names(toChild')
      /\ s \notin {"Uninitialized", "Dead"} /\ s # "Initialized"
  BY Heard DEF RecvStopRequest, Starts
<1>3. Protocol(s, r, toChild, toParent)
  BY DEF ChildHand
<1>4. Protocol(s, TRUE, toChild', toParent) /\ s \notin Over
  <2> HIDE DEF s, r
  <2>1. OneToken(toChild', toParent) /\ Waits(s, toChild', toParent)
    BY <1>2, <1>3 DEF Protocol, OneToken, Waits, Requesting, Asking, Agreeing, Answering
  <2>2. Started(s, toChild', toParent)
    BY <1>2, <1>3, NoNames DEF Protocol, Started, Unborn, Starting
  <2>3. Flows(s, TRUE, toChild') /\ s \notin Over
    BY <1>2, <1>3 DEF Protocol, Flows, Ending, Flowing
  <2>4. Flushes(s, toChild', toParent)
    BY <1>2, <1>3 DEF Protocol, Flushes
  <2> QED
    BY <1>2, <2>1, <2>2, <2>3, <2>4 DEF Protocol
<1>5. s \in Ready \cup Waiting \cup {"Closed"}
  <2>1. s \in States
    BY DEF TypeInv, ChildInv, ChildTypeOK
  <2> HIDE DEF s
  <2> QED
    BY <1>2, <1>4, <2>1 DEF States, Ready, Waiting, Over
<1>6. Turns(c, MaybeStopRequest(c))
  BY <1>1, <1>5, MaybeStopTurns
<1>7. Turned(c)
  BY <1>6 DEF RecvStopRequest, EmitsNothing, Receives, Turned, FrameTypes, TypeInv, ChildInv, ChildTypeOK
<1>8. toChild' \in Seq(ToChild) /\ ipc' = ipc /\ toParent \in Seq(ToParent)
  BY Heard, QueueTypes DEF RecvStopRequest
<1> HIDE DEF c
<1> QED
  BY <1>1, <1>4, <1>7, <1>8, TurnedKept

LEMMA DataTurned == TypeInv /\ RecvData => Turned(child)
<1> SUFFICES ASSUME TypeInv, RecvData PROVE Turned(child)
  OBVIOUS
<1> DEFINE c == CheckAlive(child)
           n == Head(toChild).data
<1>1. Turns(child, c) /\ n \in Chunks /\ kept \in Seq(Chunks)
  BY ChildFresh, CheckAliveTurns, QueueTypes, Chunked DEF RecvData, Receives, TypeInv, ChildInv, ChildTypeOK
<1>2. c \in ChildRecords /\ c.mReceivedOnStop = child.mReceivedOnStop /\ Fits(c)
  BY <1>1 DEF Turns
<1>3. \/ Passes(c) /\ Emits(c, n, "data")
      \/ In(c, {"Suspending", "Suspended"}) /\ EmitsNothing([c EXCEPT !.mBufferedData = Append(@, n)])
      \/ In(c, {"Disconnecting"}) /\ EmitsNothing([c EXCEPT !.out = Append(@, Carrying("Write", n))])
      \/ EmitsNothing(c)
  BY DEF RecvData
<1>4. script' = script /\ calls' = calls /\ ended' = ended
  BY DEF RecvData, Receives
<1> HIDE DEF c, n
<1>f. kept' \in Seq(Chunks) /\ emitting' \in {"no", "data", "flush"} => FrameTypes'
  BY <1>4 DEF FrameTypes, TypeInv, ChildInv, ChildTypeOK
<1>5. CASE Passes(c) /\ Emits(c, n, "data")
  <2>1. Append(kept, n) \in Seq(Chunks) /\ c.mState \in Ready \cup Waiting
    BY <1>1, <1>5, AppendOf DEF Passes, CanFlushData, In, Ready, Waiting
  <2> QED
    BY <1>1, <1>5, <1>f, <2>1 DEF Emits, Turned
<1>6. CASE In(c, {"Suspending", "Suspended"}) /\ EmitsNothing([c EXCEPT !.mBufferedData = Append(@, n)])
  <2> DEFINE d == [c EXCEPT !.mBufferedData = Append(@, n)]
  <2>1. Append(c.mBufferedData, n) \in Seq(Chunks)
    BY <1>1, <1>2, AppendOf DEF ChildRecords
  <2>2. Turns(child, d)
    BY <1>1, <1>2, <2>1 DEF Turns, ChildRecords, Fits
  <2> QED
    BY <1>1, <1>6, <1>f, <2>2 DEF EmitsNothing, Turned
<1>7. CASE In(c, {"Disconnecting"}) /\ EmitsNothing([c EXCEPT !.out = Append(@, Carrying("Write", n))])
  <2> DEFINE x == Carrying("Write", n)
             w == Append(c.out, x)
             d == [c EXCEPT !.out = w]
  <2>1. x \in ToParent /\ x.name = "Write" /\ c.out \in Seq(ToParent)
    BY <1>1, <1>2, Kinds, Named DEF ChildRecords
  <2> HIDE DEF x
  <2>2. w \in Seq(ToParent) /\ Names(w) = Names(c.out) \cup {"Write"}
    BY <2>1, AppendOf, Added
  <2>3. CASE child.mState = "Disconnecting" /\ OnlyWrites(c.out)
    <3>1. OnlyWrites(w)
      BY <2>2, <2>3 DEF OnlyWrites
    <3>2. Turns(child, d)
      BY <1>2, <1>7, <2>2, <2>3, <3>1 DEF Turns, ChildRecords, Fits, In
    <3> QED
      BY <1>1, <1>7, <1>f, <3>2 DEF EmitsNothing, Turned, x
  <2>4. CASE child.mState \in Ready /\ Asks(c.out, "Disconnect")
    <3>1. Asks(w, "Disconnect")
      <4>1. "Write" \notin Requests /\ \A y \in Lasts : y \notin Names(w)
        BY <2>2, <2>4 DEF Asks, Requests, Lasts
      <4>2. Once(w, Requests)
        BY <2>1, <2>4, <4>1, Added DEF Asks
      <4>3. OnlyLast(w, Lasts)
        BY <4>1 DEF OnlyLast, Names
      <4> QED
        BY <2>2, <2>4, <4>2, <4>3 DEF Asks
    <3>2. RequestOf(d.mState) = "Disconnect" /\ d.mState = "Disconnecting" /\ d.out = w
      BY <1>2, <1>7 DEF RequestOf, ChildRecords, In
    <3>3. d \in ChildRecords /\ d.mReceivedOnStop = child.mReceivedOnStop /\ Fits(d)
      BY <1>2, <2>2 DEF ChildRecords, Fits
    <3>4. Turns(child, d)
      BY <2>4, <3>1, <3>2, <3>3 DEF Turns, Waiting
    <3> QED
      BY <1>1, <1>7, <1>f, <3>4 DEF EmitsNothing, Turned, x
  <2>5. c.mState = "Disconnecting" /\ RequestOf("Disconnecting") = "Disconnect"
    BY <1>7 DEF In, RequestOf
  <2> QED
    BY <1>1, <2>3, <2>4, <2>5 DEF Turns, Ready
<1>8. CASE EmitsNothing(c)
  BY <1>1, <1>8, <1>f DEF EmitsNothing, Turned
<1> QED
  BY <1>3, <1>5, <1>6, <1>7, <1>8

LEMMA DataHeard ==
  ASSUME TypeInv, ChildHand, ChildUnseen, RecvData
  PROVE  ChildKept
<1> DEFINE s == child.mState
           r == child.mReceivedOnStop
<1>2. /\ Names(toChild) = Names(toChild') \cup {"Data"}
      /\ ToChildOrder(toChild') /\ ToParentOrder(toParent) /\ ipc' = ipc
      /\ s \notin {"Uninitialized", "Dead"} /\ s # "Initialized"
      /\ toChild' \in Seq(ToChild)
  BY Heard DEF RecvData, Starts
<1>3. Protocol(s, r, toChild, toParent)
  BY DEF ChildHand
<1>4. Protocol(s, r, toChild', toParent)
  <2> HIDE DEF s, r
  <2>1. OneToken(toChild', toParent) /\ Waits(s, toChild', toParent)
    BY <1>2, <1>3 DEF Protocol, OneToken, Waits, Requesting, Asking, Agreeing, Answering
  <2>2. Started(s, toChild', toParent)
    BY <1>2, <1>3, NoNames DEF Protocol, Started, Unborn, Starting
  <2>3. Flows(s, r, toChild')
    BY <1>2, <1>3 DEF Protocol, Flows, Ending, Flowing
  <2>4. Flushes(s, toChild', toParent)
    BY <1>2, <1>3 DEF Protocol, Flushes
  <2> QED
    BY <1>2, <2>1, <2>2, <2>3, <2>4 DEF Protocol
<1>5. Turned(child) /\ toParent \in Seq(ToParent)
  BY DataTurned, QueueTypes
<1> QED
  BY <1>2, <1>4, <1>5, TurnedKept

\* The child goes to a state in which the protocol is over, and sends w.
LEMMA OverKept ==
  ASSUME TypeInv, NEW t \in Over, NEW next \in States, NEW filter \in BOOLEAN, NEW w \in Seq(ToParent),
         child' = [child EXCEPT !.mState = t, !.mNextState = next, !.mStreamFilter = filter],
         toParent' = toParent \o (IF ipc = "open" THEN w ELSE <<>>),
         emitting' = "no", UNCHANGED <<kept, script, calls, ended>>
  PROVE  /\ ChildInv' /\ toParent' \in Seq(ToParent)
         /\ child'.mState = t /\ child'.mReceivedOnStop = child.mReceivedOnStop
<1>1. child \in ChildRecords /\ child.out = <<>> /\ t \in States
  BY ChildFresh DEF TypeInv, Fresh, Over, States
<1>2. ChildTypeOK'
  BY <1>1 DEF ChildTypeOK, TypeInv, ChildInv
<1>3. child'.mState = t /\ child'.mReceivedOnStop = child.mReceivedOnStop
  BY <1>1 DEF ChildRecords
<1>4. Fits(child')
  BY <1>3 DEF Fits, Over
<1>5. toParent' \in Seq(ToParent)
  BY Written, QueueTypes
<1> QED
  BY <1>2, <1>3, <1>4, <1>5 DEF ChildInv

LEMMA OneSent ==
  ASSUME NEW w, NEW m \in ToParent, w = Append(<<>>, m)
  PROVE  w \in Seq(ToParent) /\ Len(w) = 1 /\ w # <<>> /\ Names(w) = {m.name}
<1>1. <<>> \in Seq(ToParent)
  OBVIOUS
<1>2. w \in Seq(ToParent) /\ w # <<>> /\ Len(w) = Len(<<>>) + 1
  BY <1>1, AppendOf
<1>3. Names(w) = Names(<<>>) \cup {m.name}
  BY <1>1, Added
<1> QED
  BY <1>2, <1>3, NoNames

LEMMA ErrorHeard ==
  ASSUME TypeInv, ChildHand, ChildUnseen, RecvError
  PROVE  ChildKept
<1> DEFINE s == child.mState
           r == child.mReceivedOnStop
           w == Append(<<>>, Msg("Destroy"))
<1>1. child \in ChildRecords /\ child.out = <<>>
  BY ChildFresh DEF TypeInv, Fresh
<1>2. /\ child' = [child EXCEPT !.mState = "Error", !.mNextState = child.mNextState, !.mStreamFilter = FALSE]
      /\ toParent' = toParent \o (IF ipc = "open" THEN w ELSE <<>>)
      /\ emitting' = "no" /\ UNCHANGED <<kept, script, calls, ended>>
  BY <1>1 DEF RecvError, EmitsNothing, Sends, Becomes, Receives, ChildRecords
<1>3. w \in Seq(ToParent) /\ Names(w) = {"Destroy"} /\ w # <<>> /\ Len(w) = 1
  <2>1. Msg("Destroy") \in ToParent /\ Msg("Destroy").name = "Destroy"
    BY Kinds, Named
  <2> QED
    BY <2>1, OneSent
<1>4. /\ Names(toChild) = Names(toChild') \cup {"Error"}
      /\ ToChildOrder(toChild') /\ ToParentOrder(toParent) /\ ipc' = ipc
      /\ ~Starting(toChild') /\ ~Flowing(toChild')
      /\ toChild' \in Seq(ToChild)
  BY Heard DEF RecvError, Starts, Ends
<1>5. Protocol(s, r, toChild, toParent)
  BY DEF ChildHand
<1>7. Protocol("Error", r, toChild', toParent')
  <2> HIDE DEF s, r, w
  <2>1. s \in Unborn /\ toParent = <<>> /\ ~IPCActive
    BY <1>4, <1>5 DEF Protocol, Started, Starting, Flows, Ending
  <2>2. toParent' = w \/ toParent' = <<>>
    BY <1>2, <1>3, <2>1, ConcatOf
  <2>3. ToParentOrder(toParent') /\ \A name \in Names(toParent') : name = "Destroy"
    <3>1. ToParentOrder(w) /\ ToParentOrder(<<>>)
      BY <1>3 DEF ToParentOrder, Once, OnlyLast
    <3> QED
      BY <1>3, <2>2, <3>1, NoNames
  <2>4. ~Requesting(toParent') /\ "FlushedData" \notin Names(toParent')
    BY <2>3 DEF Requesting
  <2>5. /\ ~Asking(mQueue) /\ ~Agreeing(actorq) /\ ~Answering(toChild)
    BY <1>5, <2>1 DEF Protocol, Waits, Unborn, Asking, Agreeing, Answering
  <2>6. ~Answering(toChild')
    BY <1>4, <2>5 DEF Answering
  <2>7. OneToken(toChild', toParent') /\ Waits("Error", toChild', toParent')
    BY <2>4, <2>5, <2>6 DEF OneToken, Waits, Requesting, Asking, Agreeing, Answering
  <2>8. ipc # "open" => toParent' = <<>>
    BY <1>2, <2>1, ConcatOf
  <2>9. Started("Error", toChild', toParent')
    BY <1>4, <1>5, <2>8, NoNames DEF Protocol, Started, Unborn, Starting
  <2>10. Flows("Error", r, toChild')
    BY <1>4, <1>5, <2>1 DEF Protocol, Flows, Flowing, Ending
  <2>11. Flushes("Error", toChild', toParent')
    BY <1>5, <2>3, <2>4, <2>6 DEF Protocol, Flushes, Answering
  <2> QED
    BY <1>4, <2>3, <2>7, <2>9, <2>10, <2>11 DEF Protocol
<1>8. /\ ChildInv' /\ toParent' \in Seq(ToParent)
      /\ child'.mState = "Error" /\ child'.mReceivedOnStop = r
  <2>1. child.mNextState \in States /\ "Error" \in Over
    BY <1>1 DEF ChildRecords, Over
  <2> QED
    BY <1>2, <1>3, <2>1, OverKept
<1> QED
  BY <1>4, <1>7, <1>8, Unmoved DEF ChildKept

LEMMA ClosedHeard ==
  ASSUME TypeInv, ChildHand, ChildUnseen, RecvAgreement, Receives("Closed")
  PROVE  ChildKept
<1> DEFINE s == child.mState
           r == child.mReceivedOnStop
<1>1. child \in ChildRecords /\ child.out = <<>> /\ Fits(child)
  BY ChildFresh DEF TypeInv, Fresh
<1>4. /\ Names(toChild) = Names(toChild') \cup {"Closed"}
      /\ ToChildOrder(toChild') /\ ToParentOrder(toParent) /\ ipc' = ipc
      /\ ~Answering(toChild') /\ ~Flowing(toChild')
      /\ toChild' \in Seq(ToChild)
      /\ s # "Dead"
  BY Heard DEF Answers, Ends
<1>5. Protocol(s, r, toChild, toParent)
  BY DEF ChildHand
<1>6. s = "Closing"
  BY <1>4, <1>5 DEF Protocol, Waits
<1>7. child.mNextState = "Closed"
  BY <1>1, <1>6 DEF Fits
<1>8. SetNextState(child) = [child EXCEPT !.mState = "Closed", !.mNextState = "Closed", !.mStreamFilter = FALSE]
  BY <1>1, <1>7 DEF SetNextState, NextSends, Goes, ChildRecords
<1>2. /\ child' = [child EXCEPT !.mState = "Closed", !.mNextState = "Closed", !.mStreamFilter = FALSE]
      /\ toParent' = toParent \o (IF ipc = "open" THEN <<>> ELSE <<>>)
      /\ emitting' = "no" /\ UNCHANGED <<kept, script, calls, ended>>
  <2> DEFINE c == SetNextState(child)
  <2>1. /\ EmitsNothing(c) /\ c.out = <<>>
        /\ [c EXCEPT !.out = <<>>] = c
    BY <1>1, <1>8 DEF RecvAgreement, In, ChildRecords
  <2> HIDE DEF c
  <2>2. child' = c /\ toParent' = toParent \o (IF ipc = "open" THEN <<>> ELSE <<>>)
        /\ emitting' = "no" /\ UNCHANGED <<kept, script, calls, ended>>
    BY <2>1 DEF EmitsNothing, Becomes, Receives
  <2> QED
    BY <1>8, <2>2 DEF c
<1>3. toParent' = toParent
  BY <1>2, QueueTypes, ConcatOf
<1>9. Protocol("Closed", r, toChild', toParent)
  <2> HIDE DEF s, r
  <2>1. /\ ~Requesting(toParent) /\ ~Asking(mQueue) /\ ~Agreeing(actorq)
        /\ "FlushedData" \notin Names(toParent) /\ "Destroy" \notin Names(toParent)
    BY <1>4, <1>5, <1>6 DEF Protocol, OneToken, Waits, Answering
  <2>2. OneToken(toChild', toParent) /\ Waits("Closed", toChild', toParent)
    BY <1>4, <2>1 DEF OneToken, Waits, Requesting, Asking, Agreeing, Answering
  <2>3. Started("Closed", toChild', toParent)
    BY <1>4, <1>5, <1>6, NoNames DEF Protocol, Started, Unborn, Starting
  <2>4. Flows("Closed", r, toChild')
    BY <1>4, <1>5 DEF Protocol, Flows, Ending, Flowing
  <2>5. Flushes("Closed", toChild', toParent)
    BY <1>4, <1>5 DEF Protocol, Flushes
  <2> QED
    BY <1>4, <2>2, <2>3, <2>4, <2>5 DEF Protocol
<1>10. /\ ChildInv' /\ toParent' \in Seq(ToParent)
       /\ child'.mState = "Closed" /\ child'.mReceivedOnStop = r
  <2>1. "Closed" \in States /\ "Closed" \in Over /\ <<>> \in Seq(ToParent)
    BY DEF States, Over
  <2> QED
    BY <1>2, <2>1, OverKept
<1> QED
  BY <1>3, <1>4, <1>9, <1>10, Unmoved DEF ChildKept

LEMMA AgreementHeard ==
  ASSUME TypeInv, ChildHand, ChildUnseen, RecvAgreement
  PROVE  ChildKept
<1>1. CASE Receives("Closed")
  BY <1>1, ClosedHeard
<1>2. ASSUME NEW name \in {"Suspended", "Resumed"}, Receives(name) PROVE ChildKept
  <2> DEFINE s == child.mState
             r == child.mReceivedOnStop
             c == [child EXCEPT !.mState = "TransferringData"]
             d == SetNextState(child)
  <2>1. Fresh(child) /\ child \in ChildRecords /\ kept \in Seq(Chunks)
    BY ChildFresh DEF TypeInv, Fresh, ChildInv, ChildTypeOK
  <2>4. /\ Names(toChild) = Names(toChild') \cup {name}
        /\ ToChildOrder(toChild') /\ ToParentOrder(toParent) /\ ipc' = ipc
        /\ ~Answering(toChild')
        /\ toChild' \in Seq(ToChild)
        /\ s # "Dead"
    BY <1>2, Heard DEF Answers
  <2>5. Protocol(s, r, toChild, toParent)
    BY DEF ChildHand
  <2>6. s \in {"Suspending", "Resuming"}
    BY <1>2, <2>4, <2>5 DEF Protocol, Waits
  <2>7. Protocol("TransferringData", r, toChild', toParent)
    <3> HIDE DEF s, r
    <3>1. Answering(toChild)
      BY <1>2, <2>4 DEF Answering
    <3>2. /\ ~Requesting(toParent) /\ ~Asking(mQueue) /\ ~Agreeing(actorq)
          /\ "FlushedData" \notin Names(toParent) /\ "Destroy" \notin Names(toParent)
      BY <2>4, <2>5, <2>6, <3>1 DEF Protocol, OneToken, Waits
    <3>3. OneToken(toChild', toParent) /\ Waits("TransferringData", toChild', toParent)
      BY <2>4, <3>2 DEF OneToken, Waits, Requesting, Asking, Agreeing, Answering
    <3>4. Started("TransferringData", toChild', toParent)
      BY <2>4, <2>5, <2>6, NoNames DEF Protocol, Started, Unborn, Starting
    <3>5. Flows("TransferringData", r, toChild')
      BY <2>4, <2>5 DEF Protocol, Flows, Ending, Flowing, Over
    <3>6. Flushes("TransferringData", toChild', toParent)
      BY <2>4, <2>5, <2>6 DEF Protocol, Flushes, Unborn
    <3> QED
      BY <2>4, <3>3, <3>4, <3>5, <3>6 DEF Protocol
  <2>8. Turns(c, d)
    BY <2>1, <2>6, NextStateTurns
  <2>9. c.mState = "TransferringData" /\ c.mReceivedOnStop = r
    BY <2>1 DEF ChildRecords
  <2>10. FlushBufferedData(d) \/ (EmitsNothing(d))
    BY DEF RecvAgreement
  <2> HIDE DEF c, d, s, r
  <2>11. /\ \E e : Turns(c, e) /\ Becomes(e) /\ (emitting' # "no" => e.mState \in Ready \cup Waiting)
         /\ emitting' \in {"no", "data", "flush"} /\ kept' \in Seq(Chunks)
    BY <2>1, <2>8, <2>10, FlushTurns DEF EmitsNothing
  <2>12. Turned(c)
    BY <1>2, <2>11 DEF Receives, Turned, FrameTypes, TypeInv, ChildInv, ChildTypeOK
  <2>13. toParent \in Seq(ToParent)
    BY QueueTypes
  <2> QED
    BY <2>4, <2>7, <2>9, <2>12, <2>13, TurnedKept
<1> QED
  BY <1>1, <1>2 DEF RecvAgreement

LEMMA FlushHeard ==
  ASSUME TypeInv, ChildHand, ChildUnseen, RecvFlushData
  PROVE  ChildKept
<1> DEFINE s == child.mState
           r == child.mReceivedOnStop
           w == Append(<<>>, Msg("FlushedData"))
<1>1. child \in ChildRecords /\ child.out = <<>> /\ Fits(child)
  BY ChildFresh DEF TypeInv, Fresh
<1>4. /\ Names(toChild) = Names(toChild') \cup {"FlushData"}
      /\ ToChildOrder(toChild') /\ ToParentOrder(toParent) /\ ipc' = ipc
      /\ ~Answering(toChild') /\ ~Flowing(toChild')
      /\ toChild' \in Seq(ToChild)
      /\ s # "Dead"
  BY Heard DEF RecvFlushData, Answers, Ends
<1>5. Protocol(s, r, toChild, toParent)
  BY DEF ChildHand
<1>6. s = "Disconnecting"
  BY <1>4, <1>5 DEF Protocol, Waits
<1>7. child.mNextState = "Disconnected"
  BY <1>1, <1>6 DEF Fits
<1>8. SetNextState(Sends(child, "FlushedData"))
        = [child EXCEPT !.mState = "Disconnected", !.mNextState = "Disconnected", !.mStreamFilter = FALSE,
                        !.out = w]
  BY <1>1, <1>7 DEF SetNextState, Sends, NextSends, Goes, ChildRecords
<1>2. /\ child' = [child EXCEPT !.mState = "Disconnected", !.mNextState = "Disconnected", !.mStreamFilter = FALSE]
      /\ toParent' = toParent \o (IF ipc = "open" THEN w ELSE <<>>)
      /\ emitting' = "no" /\ UNCHANGED <<kept, script, calls, ended>>
  <2> DEFINE c == SetNextState(Sends(child, "FlushedData"))
  <2>1. c.out = w
    BY <1>1, <1>8 DEF ChildRecords
  <2>2. [c EXCEPT !.out = <<>>]
          = [child EXCEPT !.mState = "Disconnected", !.mNextState = "Disconnected", !.mStreamFilter = FALSE]
    BY <1>1, <1>8 DEF ChildRecords
  <2> HIDE DEF w, c
  <2> QED
    BY <2>1, <2>2 DEF RecvFlushData, EmitsNothing, Becomes, Receives, c
<1>3. w \in Seq(ToParent) /\ Names(w) = {"FlushedData"} /\ w # <<>> /\ Len(w) = 1
  <2>1. Msg("FlushedData") \in ToParent /\ Msg("FlushedData").name = "FlushedData"
    BY Kinds, Named
  <2> QED
    BY <2>1, OneSent
<1>9. Protocol("Disconnected", r, toChild', toParent')
  <2> HIDE DEF s, r, w
  <2>1. /\ ~Requesting(toParent) /\ ~Asking(mQueue) /\ ~Agreeing(actorq)
        /\ "FlushedData" \notin Names(toParent) /\ "Destroy" \notin Names(toParent)
    BY <1>4, <1>5, <1>6 DEF Protocol, OneToken, Waits, Answering
  <2>2. ToParentOrder(w) /\ ~Requesting(w)
    BY <1>3 DEF ToParentOrder, Once, OnlyLast, Requesting
  <2>3. \A x \in Lasts : x \notin Names(toParent)
    BY <2>1 DEF Lasts, Requesting
  <2>4. ToParentOrder(toParent') /\ \A x \in Names(toParent') : x \in Names(toParent) \/ (x = "FlushedData" /\ ipc = "open")
    <3>1. CASE ipc = "open"
      <4>1. Names(toParent \o w) = Names(toParent) \cup Names(w) /\ ToParentOrder(toParent \o w)
        BY <1>3, <1>4, <2>2, <2>3, QueueTypes, ToParentSent
      <4> QED
        BY <1>2, <1>3, <3>1, <4>1
    <3>2. CASE ipc # "open"
      <4>1. toParent' = toParent
        BY <1>2, <3>2, QueueTypes, ConcatOf
      <4> QED
        BY <1>4, <4>1
    <3> QED
      BY <3>1, <3>2
  <2>5. ~Requesting(toParent') /\ "Destroy" \notin Names(toParent')
    BY <2>1, <2>4 DEF Requesting
  <2>6. OneToken(toChild', toParent') /\ Waits("Disconnected", toChild', toParent')
    BY <1>4, <2>1, <2>5 DEF OneToken, Waits, Requesting, Asking, Agreeing, Answering
  <2>7. ipc # "open" => toParent' = <<>>
    BY <1>2, <1>5, QueueTypes, ConcatOf DEF Protocol, Started
  <2>8. Started("Disconnected", toChild', toParent')
    BY <1>4, <1>5, <1>6, <2>7, NoNames DEF Protocol, Started, Unborn, Starting
  <2>9. Flows("Disconnected", r, toChild')
    BY <1>4, <1>5 DEF Protocol, Flows, Ending, Flowing
  <2>10. Flushes("Disconnected", toChild', toParent')
    BY <1>4, <1>5, <1>6, <2>4 DEF Protocol, Flushes, Unborn
  <2> QED
    BY <1>4, <2>4, <2>6, <2>8, <2>9, <2>10 DEF Protocol
<1>10. /\ ChildInv' /\ toParent' \in Seq(ToParent)
       /\ child'.mState = "Disconnected" /\ child'.mReceivedOnStop = r
  <2>1. "Disconnected" \in States /\ "Disconnected" \in Over
    BY DEF States, Over
  <2> QED
    BY <1>2, <1>3, <2>1, OverKept
<1> QED
  BY <1>4, <1>9, <1>10, Unmoved DEF ChildKept

LEMMA NothingOrdered == ToChildOrder(<<>>) /\ ToParentOrder(<<>>)
  BY DEF ToChildOrder, ToParentOrder, Once, NotBehind, OnlyLast

LEMMA BornKept ==
  ASSUME TypeInv, ChildHand, ChildUnseen, FinishConnect
  PROVE  ChildKept
<1> DEFINE r == child.mReceivedOnStop
<1>1. child \in ChildRecords /\ Fits(child) /\ child.mState = "Uninitialized"
  BY ChildFresh DEF TypeInv, Fresh, FinishConnect, In
<1>2. /\ child' = [child EXCEPT !.mState = "Initialized"]
      /\ UNCHANGED <<emitting, kept, script, calls, ended, toParent, toChild, ipc>>
  BY DEF FinishConnect, ipcVars
<1>3. child'.mState = "Initialized" /\ child'.mReceivedOnStop = r
  BY <1>1, <1>2 DEF ChildRecords
<1>4. emitting = "no"
  BY <1>1 DEF TypeInv, ChildInv, Ready, Waiting
<1>5. ChildInv'
  <2>1. ChildTypeOK'
    BY <1>2 DEF TypeInv, ChildInv, ChildTypeOK, States
  <2>2. Fits(child')
    BY <1>3 DEF Fits
  <2> QED
    BY <1>2, <1>4, <2>1, <2>2 DEF ChildInv
<1>6. Protocol("Uninitialized", r, toChild, toParent)
  BY <1>1 DEF ChildHand
<1>7. Protocol("Initialized", r, toChild, toParent)
  <2> HIDE DEF r
  <2>1. OneToken(toChild, toParent) /\ Waits("Initialized", toChild, toParent)
    BY <1>6 DEF Protocol, OneToken, Waits
  <2>2. Started("Initialized", toChild, toParent)
    BY <1>6 DEF Protocol, Started, Unborn
  <2>3. Flows("Initialized", r, toChild)
    BY <1>6 DEF Protocol, Flows, Over
  <2>4. Flushes("Initialized", toChild, toParent)
    BY <1>6 DEF Protocol, Flushes, Unborn
  <2> QED
    BY <1>6, <2>1, <2>2, <2>3, <2>4 DEF Protocol
<1>8. toParent' \in Seq(ToParent) /\ toChild' \in Seq(ToChild)
  BY <1>2, QueueTypes
<1> QED
  BY <1>2, <1>3, <1>5, <1>7, <1>8, Unmoved DEF ChildKept

LEMMA PageGoneKept ==
  ASSUME TypeInv, ChildHand, ChildUnseen, PageGone
  PROVE  ChildKept
<1>1. UNCHANGED <<child, emitting, kept, calls, ended, toParent, toChild, ipc>> /\ script' = "stopped"
  BY DEF PageGone, ipcVars
<1>2. ChildInv'
  BY <1>1 DEF TypeInv, ChildInv, ChildTypeOK
<1>3. toParent' \in Seq(ToParent) /\ toChild' \in Seq(ToChild)
  BY <1>1, QueueTypes
<1> QED
  BY <1>1, <1>2, <1>3, Unmoved DEF ChildKept, ChildHand

LEMMA ActorDestroyKept ==
  ASSUME TypeInv, ChildHand, ChildUnseen, ChildActorDestroy
  PROVE  ChildKept
<1> DEFINE s == child.mState
           r == child.mReceivedOnStop
<1>1. child \in ChildRecords /\ Fits(child)
  BY ChildFresh DEF TypeInv, Fresh
<1>2. /\ child' = [child EXCEPT !.mStreamFilter = FALSE] /\ toChild' = <<>> /\ ipc = "closed"
      /\ UNCHANGED <<emitting, kept, script, calls, ended, toParent, ipc>>
  BY DEF ChildActorDestroy
<1>3. child'.mState = s /\ child'.mReceivedOnStop = r
  BY <1>1, <1>2 DEF ChildRecords
<1>4. ChildInv'
  <2>1. ChildTypeOK'
    BY <1>2 DEF TypeInv, ChildInv, ChildTypeOK
  <2>2. Fits(child')
    BY <1>1, <1>2 DEF Fits, ChildRecords
  <2> QED
    BY <1>2, <1>3, <2>1, <2>2 DEF TypeInv, ChildInv
<1>5. Protocol(s, r, toChild, toParent)
  BY DEF ChildHand
<1>6. Protocol(s, r, toChild', toParent)
  <2> HIDE DEF s, r
  <2>1. Names(toChild') = {} /\ toChild' = <<>> /\ ToChildOrder(toChild') /\ ipc # "open"
    BY <1>2, NoNames, NothingOrdered
  <2>2. OneToken(toChild', toParent) /\ Waits(s, toChild', toParent)
    BY <1>5, <2>1 DEF Protocol, OneToken, Waits, Answering
  <2>3. Started(s, toChild', toParent)
    BY <1>5, <2>1 DEF Protocol, Started, Starting
  <2>4. Flows(s, r, toChild')
    BY <1>5, <2>1 DEF Protocol, Flows, Ending, Flowing
  <2>5. Flushes(s, toChild', toParent)
    BY <1>5, <2>1 DEF Protocol, Flushes
  <2> QED
    BY <1>5, <2>1, <2>2, <2>3, <2>4, <2>5 DEF Protocol
<1>7. toParent' \in Seq(ToParent) /\ toChild' \in Seq(ToChild)
  BY <1>2, QueueTypes
<1> QED
  BY <1>2, <1>3, <1>4, <1>6, <1>7, Unmoved DEF ChildKept

LEMMA DeathKept ==
  ASSUME TypeInv, ChildHand, ChildUnseen, ChildDies
  PROVE  ChildKept /\ ipc' \in {"open", "error", "closed"}
<1> DEFINE r == child.mReceivedOnStop
<1>1. child \in ChildRecords /\ Fits(child)
  BY ChildFresh DEF TypeInv, Fresh
<1>2. /\ child' = [child EXCEPT !.mState = "Dead", !.mBufferedData = <<>>]
      /\ toChild' = <<>> /\ toParent' = <<>> /\ ipc' \in {"error", "closed"} /\ emitting' = "no"
      /\ UNCHANGED <<kept, script, calls, ended>>
  BY DEF ChildDies, TypeInv, IpcTypeOK
<1>3. child'.mState = "Dead" /\ child'.mReceivedOnStop = r
  BY <1>1, <1>2 DEF ChildRecords
<1>4. ChildInv'
  <2>0. <<>> \in Seq(Chunks)
    OBVIOUS
  <2>1. ChildTypeOK'
    BY <1>2, <2>0 DEF TypeInv, ChildInv, ChildTypeOK, States
  <2>2. Fits(child')
    BY <1>3 DEF Fits
  <2> QED
    BY <1>2, <2>1, <2>2 DEF ChildInv
<1>5. Protocol(child.mState, r, toChild, toParent)
  BY DEF ChildHand
<1>6. ChildHand'
  <2>1. /\ Names(toChild') = {} /\ Names(toParent') = {}
        /\ ToChildOrder(toChild') /\ ToParentOrder(toParent')
    BY <1>2, NoNames, NothingOrdered
  <2>2. OneToken(toChild, toParent)' /\ Waits(child.mState, toChild, toParent)'
    BY <1>3, <1>5, <2>1 DEF Protocol, OneToken, Waits, ChildUnseen, Requesting, Asking, Agreeing, Answering
  <2>3. Started(child.mState, toChild, toParent)'
    BY <1>2, <1>3, <1>5, <2>1 DEF Protocol, Started, ChildUnseen, Beginning, Starting, Unborn
  <2>4. Flows(child.mState, child.mReceivedOnStop, toChild)'
    BY <1>3, <1>5, <2>1 DEF Protocol, Flows, IPCActive, ChildUnseen, Ending, Flowing, Over
  <2>5. Flushes(child.mState, toChild, toParent)'
    BY <1>2, <1>5, <2>1 DEF Protocol, Flushes, Finished, ChildUnseen
  <2> QED
    BY <2>1, <2>2, <2>3, <2>4, <2>5 DEF ChildHand, Protocol
<1> QED
  BY <1>2, <1>4, <1>6 DEF ChildKept

LEMMA ChildSteps ==
  ASSUME TypeInv, ChildHand, Child \/ ChildEnd, UNCHANGED parentVars
  PROVE  TypeInv' /\ ChildHand'
<1>1. ChildUnseen
  BY DEF parentVars, channelVars, ChildUnseen
<1>2. ChildKept
  <2>1. CASE Script \/ EventEnds \/ Collect
    BY <1>1, <2>1, OwnSteps
  <2>2. CASE Recv
    BY <1>1, <2>2, StartHeard, StopHeard, DataHeard, ErrorHeard, AgreementHeard, FlushHeard DEF Recv
  <2>3. CASE FinishConnect \/ PageGone \/ ChildActorDestroy \/ ChildDies
    BY <1>1, <2>3, BornKept, PageGoneKept, ActorDestroyKept, DeathKept
  <2> QED
    BY <2>1, <2>2, <2>3 DEF Child, ChildEnd
<1>3. ipc' \in {"open", "error", "closed"}
  <2>1. CASE ChildDies
    BY <1>1, <2>1, DeathKept
  <2>2. CASE ~ChildDies
    <3>1. ipc' = ipc
      <4>1. Script \/ EventEnds \/ Collect => ipc' = ipc
        BY ScriptTurned, EventEndsTurned, CollectTurned
      <4>2. Recv => ipc' = ipc
        BY DEF Recv, RecvStartRequest, RecvStopRequest, RecvData, RecvError, RecvAgreement,
               RecvFlushData, Receives
      <4> QED
        BY <2>2, <4>1, <4>2 DEF Child, ChildEnd, FinishConnect, PageGone, ChildActorDestroy, ipcVars
    <3> QED
      BY <3>1 DEF TypeInv, IpcTypeOK
  <2> QED
    BY <2>1, <2>2
<1>4. ParentTypes'
  BY DEF TypeInv, ParentTypes, parentVars, channelVars
<1> QED
  BY <1>2, <1>3, <1>4 DEF TypeInv, IpcTypeOK, ChildKept

-----------------------------------------------------------------------------
(***************************************************************************)
(* The parent: its stop, and its channel's suspensions.                    *)
(***************************************************************************)
\* The stop was emitted by the closed filter, or comes behind everything else that
\* could be written; it is left to OnStopRequest or to the flush.
StopInv ==
  /\ \A k \in 1..Len(output) : output[k] = 0 => k = Len(output) /\ mSentStop
  /\ mReceivedStop <=> channel = "stopped"
  /\ mReceivedStop <=> onStop # "no"
  /\ mDisconnected => mState = "Disconnected" \/ "redirected" \in Names(actorq)
  /\ mSentStop => \/ mState = "Closed"
                  \/ /\ onStop = "done"
                     /\ \/ mState = "Disconnected" \/ "disconnected" \in Names(actorq)
                        \/ "redirected" \in Names(actorq)
  /\ "emitStop" \in Names(mQueue) => mState = "Closed" /\ ~mSentStop
  /\ "emitStopOnce" \in Names(mQueue) =>
       mReceivedStop /\ (mState = "Disconnected" \/ "disconnected" \in Names(actorq))
  /\ (mSentStop \/ "emitStopOnce" \in Names(mQueue) \/ mState = "Disconnected"
      \/ "disconnected" \in Names(actorq)) => ~Writing(mQueue)

\* The channel is suspended by one who resumes it.
Suspends ==
  /\ suspends \in 0..1
  /\ "suspend" \in Names(mQueue) \/ "resumed" \in Names(actorq) => suspends = 0
  /\ Resuming(mQueue) \/ "suspended" \in Names(actorq) => suspends = 1
  /\ "resumeOnly" \in Names(mQueue) => ~IPCActive /\ ~Asking(mQueue) /\ ~Agreeing(actorq)
  /\ mState = "Suspended" => suspends = 1 /\ ~Asking(mQueue) /\ ~Agreeing(actorq)
  /\ mState = "Uninitialized" => suspends = 0 /\ ~Agreeing(actorq)
  /\ mState = "TransferringData" => suspends = 0 \/ Asking(mQueue) \/ Agreeing(actorq)
  /\ mState \in {"Disconnecting", "Disconnected"} /\ ~cancelled =>
       "suspend" \notin Names(mQueue) /\ (suspends = 0 \/ "resumeOnly" \in Names(mQueue))

Inv == TypeInv /\ ChildHand /\ QueueOrder(mQueue) /\ ActorOrder(actorq) /\ StopInv /\ Suspends

\* What a parent's step has to keep.
Kept == ChildHand' /\ QueueOrder(mQueue') /\ ActorOrder(actorq') /\ StopInv' /\ Suspends'

HandAt(s, r) ==
  /\ OneToken(toChild, toParent) /\ Waits(s, toChild, toParent) /\ Started(s, toChild, toParent)
  /\ Flows(s, r, toChild) /\ Flushes(s, toChild, toParent)

LEMMA Hands ==
  /\ ChildHand <=> /\ ToChildOrder(toChild) /\ ToParentOrder(toParent)
                   /\ HandAt(child.mState, child.mReceivedOnStop)
  BY DEF ChildHand, Protocol, HandAt

\* The actor thread takes an event.
LEMMA Acted ==
  ASSUME Inv, NEW name, Acts(name)
  PROVE  /\ Names(actorq) = Names(actorq') \cup {name}
         /\ ActorOrder(actorq')
         /\ name \in Agreed => ~Agreeing(actorq')
         /\ name \in ActorStarts => ~Beginning(actorq')
         /\ name = "disconnected" => "disconnected" \notin Names(actorq')
         /\ name = "stop" => "data" \notin Names(actorq')
         /\ channel # "new" /\ name \in Names(actorq)
         /\ name \in ActorStarts <=> mState = "Uninitialized"
         /\ UNCHANGED <<mReceivedStop, mSentStop, oda, onStop, output, channel, suspends>>
<1>1. /\ actorq # <<>> /\ Head(actorq).name = name /\ actorq' = Tail(actorq)
      /\ actorq \in Seq(ActorEvents)
  BY QueueTypes DEF Acts, Inv
<1>2. /\ Names(actorq) = Names(actorq') \cup {name}
      /\ ActorOrder(actorq')
      /\ name \in Agreed => ~Agreeing(actorq')
      /\ name \in ActorStarts => ~Beginning(actorq')
      /\ name = "disconnected" => "disconnected" \notin Names(actorq')
      /\ name = "stop" => "data" \notin Names(actorq')
  BY <1>1, ActorTaken DEF Inv
<1>3. Started(child.mState, toChild, toParent)
  BY DEF Inv, ChildHand, Protocol
<1>4. channel # "new" /\ name \in Names(actorq)
  BY <1>1, <1>2, <1>3 DEF Started
<1>5. name \in ActorStarts <=> mState = "Uninitialized"
  BY <1>1, <1>3, <1>4 DEF Started, Beginning, ActorStarts
<1> QED
  BY <1>2, <1>4, <1>5 DEF Acts, ActorFrame

LEMMA InvParts ==
  ASSUME Inv
  PROVE  /\ TypeInv /\ ToChildOrder(toChild) /\ ToParentOrder(toParent)
         /\ QueueOrder(mQueue) /\ ActorOrder(actorq)
         /\ HandAt(child.mState, child.mReceivedOnStop) /\ StopInv /\ Suspends
  BY Hands DEF Inv

\* While the parent sends, it has not flushed, and emits no stop.
LEMMA ActiveParent ==
  ASSUME Inv, IPCActive
  PROVE  /\ ~Stopping(mQueue) /\ "disconnected" \notin Names(actorq)
         /\ "redirected" \notin Names(actorq) => ~mSentStop /\ ~mDisconnected
  BY InvParts DEF IPCActive, HandAt, Flushes, StopInv, Stopping

\* What the parent sends comes behind what is on its way.
LEMMA Told ==
  ASSUME Inv, NEW m \in ToChild, NEW name, m.name = name, toChild' = Append(toChild, m),
         name \in Answers => ~Answering(toChild),
         name \in Starts => ~Starting(toChild),
         name = "Data" => "StopRequest" \notin Names(toChild),
         name \in Flow => ~Ending(toChild)
  PROVE  /\ Names(toChild') = Names(toChild) \cup {name}
         /\ ToChildOrder(toChild') /\ toChild' # <<>>
         /\ toChild # <<>> => Head(toChild') = Head(toChild)
         /\ toChild = <<>> => Head(toChild').name = name
<1>1. toChild \in Seq(ToChild) /\ ToChildOrder(toChild)
  BY InvParts, QueueTypes
<1>2. Names(toChild') = Names(toChild) \cup {name} /\ ToChildOrder(toChild')
  BY <1>1, ToChildSent
<1>3. toChild' # <<>> /\ (toChild # <<>> => Head(toChild') = Head(toChild))
      /\ (toChild = <<>> => Head(toChild') = m)
  BY <1>1, AppendOf
<1> QED
  BY <1>2, <1>3

\* Broken, which flushes what the parent has.
LEMMA Broke ==
  ASSUME Inv, NEW state \in {"Uninitialized", "TransferringData", "Suspended", "Closed",
                             "Disconnecting", "Disconnected"},
         Broken(state, mQueue),
         state \in {"TransferringData", "Suspended"} => IPCActive
  PROVE  /\ QueueOrder(mQueue')
         /\ \/ /\ state \in {"TransferringData", "Suspended"}
               /\ mState' = "Disconnecting" /\ cancelled' = TRUE
               /\ Names(mQueue') = Names(mQueue) \cup {"flush"}
            \/ /\ state \notin {"TransferringData", "Suspended"}
               /\ mState' = state /\ mQueue' = mQueue /\ cancelled' = cancelled
<1>1. CASE state \in {"TransferringData", "Suspended"}
  <2>1. /\ mQueue \in Seq(QueueEvents) /\ QueueOrder(mQueue) /\ ~Stopping(mQueue)
        /\ Event("flush") \in QueueEvents /\ Event("flush").name = "flush"
    BY <1>1, InvParts, QueueTypes, ActiveParent, Kinds, Named
  <2>2. "flush" \notin Asked /\ "flush" \notin Resumes
    BY DEF Asked, Resumes
  <2>3. mQueue' = Append(mQueue, Event("flush")) /\ mState' = "Disconnecting" /\ cancelled' = TRUE
    BY <1>1 DEF Broken
  <2> QED
    BY <1>1, <2>1, <2>2, <2>3, QueueAdded
<1>2. CASE state \notin {"TransferringData", "Suspended"}
  BY <1>2, InvParts DEF Broken
<1> QED
  BY <1>1, <1>2

LEMMA StartedKept == Inv /\ ActStart /\ UNCHANGED childVars => Kept
<1> SUFFICES ASSUME Inv, ActStart, UNCHANGED childVars PROVE Kept
  OBVIOUS
<1>1. /\ Names(actorq) = Names(actorq') \cup {"start"}
      /\ ActorOrder(actorq') /\ ~Beginning(actorq')
      /\ mState = "Uninitialized" /\ channel # "new"
      /\ UNCHANGED <<mReceivedStop, mSentStop, oda, onStop, output, channel, suspends>>
      /\ UNCHANGED <<mDisconnected, toParent, ipc>>
  BY Acted DEF ActStart, Tells, ActorStarts
<1>2. child' = child
  BY DEF childVars
<1>3. toChild = <<>> /\ mQueue = <<>> /\ Names(toChild) = {} /\ Names(mQueue) = {}
      /\ (ipc = "open" => child.mState \in Unborn /\ toParent = <<>> /\ Names(toParent) = {})
      /\ child.mState \in Unborn \cup {"Dead"} /\ ~mSentStop /\ ~mDisconnected
      /\ "disconnected" \notin Names(actorq)
  <2>1. "redirected" \notin Names(actorq) /\ IPCActive
    BY <1>1 DEF Beginning, IPCActive
  <2> QED
    BY <1>1, <2>1, InvParts, ActiveParent, NoNames DEF HandAt, Started
<1>4. CASE ipc = "open"
  <2>1. /\ toChild' = Append(toChild, Msg("StartRequest"))
        /\ mState' = "TransferringData" /\ mQueue' = mQueue /\ cancelled' = cancelled
    BY <1>4 DEF ActStart, Tells, EntersAndSends
  <2>2. /\ Names(toChild') = {"StartRequest"}
        /\ ToChildOrder(toChild') /\ toChild' # <<>> /\ Head(toChild').name \in Starts
    <3>1. "StartRequest" \notin Answers /\ "StartRequest" \notin Flow /\ "StartRequest" \in Starts
          /\ ~Starting(toChild)
      BY <1>3 DEF Answers, Flow, Starting, Starts
    <3>2. Msg("StartRequest") \in ToChild /\ Msg("StartRequest").name = "StartRequest"
      BY Kinds, Named
    <3> QED
      BY <1>3, <2>1, <3>1, <3>2, Told
  <2>3. ChildHand'
    BY <1>1, <1>2, <1>3, <1>4, <2>1, <2>2, InvParts
    DEF ChildHand, Protocol, HandAt, OneToken, Waits, Started, Flows, Flushes, Finished, IPCActive,
         Requesting, Asking, Agreeing, Answering, Beginning, Starting, Ending, Flowing, Unborn, Over
  <2>4. StopInv'
    BY <1>1, <1>3, <2>1, InvParts DEF StopInv, Writing
  <2>5. Suspends'
    BY <1>1, <1>3, <2>1, InvParts DEF Suspends, Asking, Agreeing, Resuming, IPCActive
  <2> QED
    BY <1>1, <2>1, <2>3, <2>4, <2>5, InvParts DEF Kept
<1>5. CASE ipc # "open"
  <2>1. Broken("TransferringData", mQueue) /\ toChild' = toChild
    BY <1>5 DEF ActStart, Tells, EntersAndSends
  <2>2. /\ QueueOrder(mQueue') /\ mState' = "Disconnecting" /\ cancelled' = TRUE
        /\ Names(mQueue') = Names(mQueue) \cup {"flush"}
    BY <1>1, <2>1, Broke DEF IPCActive
  <2>3. ChildHand'
    BY <1>1, <1>2, <1>3, <1>5, <2>1, <2>2, InvParts
    DEF ChildHand, Protocol, HandAt, OneToken, Waits, Started, Flows, Flushes, Finished, IPCActive,
         Requesting, Asking, Agreeing, Answering, Beginning, Starting, Ending, Flowing, Unborn, Over
  <2>4. StopInv'
    BY <1>1, <1>3, <2>2, InvParts DEF StopInv, Writing
  <2>5. Suspends'
    BY <1>1, <1>3, <2>2, InvParts DEF Suspends, Asking, Agreeing, Resuming, IPCActive
  <2> QED
    BY <1>1, <2>2, <2>3, <2>4, <2>5 DEF Kept
<1> QED
  BY <1>4, <1>5

\* The child is gone, and the parent breaks its filter, or has nothing to break.
LEMMA BrokenKept ==
  ASSUME Inv, child' = child, ipc' # "open", toChild' = toChild, toParent' = <<>>,
         UNCHANGED <<mDisconnected, mReceivedStop, mSentStop, oda, onStop, output, channel, suspends>>,
         ActorOrder(actorq'), Names(actorq') \subseteq Names(actorq),
         \A name \in {"redirected", "disconnected"} : name \in Names(actorq) => name \in Names(actorq'),
         mState = "Uninitialized" => actorq' = actorq, channel = "new" => actorq' = actorq,
         Broken(mState, mQueue)
  PROVE  Kept
<1>1. mState \in {"Uninitialized", "TransferringData", "Suspended", "Closed", "Disconnecting",
                  "Disconnected"}
  BY InvParts DEF TypeInv, ParentTypes
<1>2. /\ QueueOrder(mQueue')
      /\ \/ /\ mState \in {"TransferringData", "Suspended"}
            /\ mState' = "Disconnecting" /\ cancelled' = TRUE
            /\ Names(mQueue') = Names(mQueue) \cup {"flush"}
         \/ /\ mState \notin {"TransferringData", "Suspended"}
            /\ mState' = mState /\ mQueue' = mQueue /\ cancelled' = cancelled
  BY <1>1, Broke DEF IPCActive
<1>3. /\ toParent' = <<>> /\ Names(toParent') = {} /\ ToParentOrder(<<>>)
      /\ "redirected" \in Names(actorq') <=> "redirected" \in Names(actorq)
      /\ "disconnected" \in Names(actorq') <=> "disconnected" \in Names(actorq)
      /\ Agreeing(actorq') => Agreeing(actorq)
      /\ Beginning(actorq') => Beginning(actorq)
  BY NoNames DEF ToParentOrder, Once, OnlyLast, Agreeing, Beginning
<1>4. CASE mState \in {"TransferringData", "Suspended"}
  <2>1. /\ ~Stopping(mQueue) /\ "disconnected" \notin Names(actorq)
        /\ "redirected" \notin Names(actorq) /\ ~mSentStop /\ ~mDisconnected
    BY <1>4, InvParts, ActiveParent DEF IPCActive, HandAt, Started, Beginning
  <2>2. /\ mState' = "Disconnecting" /\ cancelled' = TRUE
        /\ Names(mQueue') = Names(mQueue) \cup {"flush"}
    BY <1>2, <1>4
  <2>3. ChildHand'
    BY <1>3, <1>4, <2>1, <2>2, InvParts DEF ChildHand, Protocol, HandAt, OneToken, Waits, Started, Flows, Flushes, Finished, IPCActive,
         Requesting, Asking, Agreeing, Answering, Beginning, Starting, Ending, Flowing, Unborn, Over
  <2>4. StopInv'
    BY <1>3, <1>4, <2>1, <2>2, InvParts DEF StopInv, Writing, Stopping
  <2>5. Suspends'
    BY <1>3, <1>4, <2>1, <2>2, InvParts DEF Suspends, Asking, Agreeing, Resuming, IPCActive
  <2> QED
    BY <1>2, <2>3, <2>4, <2>5 DEF Kept
<1>5. CASE mState \notin {"TransferringData", "Suspended"}
  <2>1. mState' = mState /\ mQueue' = mQueue /\ cancelled' = cancelled
    BY <1>2, <1>5
  <2>2. ChildHand'
    BY <1>3, <1>5, <2>1, InvParts DEF ChildHand, Protocol, HandAt, OneToken, Waits, Started, Flows, Flushes, Finished, IPCActive,
         Requesting, Asking, Agreeing, Answering, Beginning, Starting, Ending, Flowing, Unborn, Over
  <2>3. StopInv'
    BY <1>3, <1>5, <2>1, InvParts DEF StopInv, Writing
  <2>4. Suspends'
    BY <1>3, <1>5, <2>1, InvParts DEF Suspends, Asking, Agreeing, Resuming, IPCActive
  <2> QED
    BY <1>2, <2>2, <2>3, <2>4 DEF Kept
<1> QED
  BY <1>4, <1>5

LEMMA RedirectedKept == Inv /\ ActRedirected /\ UNCHANGED childVars => Kept
<1> SUFFICES ASSUME Inv, ActRedirected, UNCHANGED childVars PROVE Kept
  OBVIOUS
<1>1. /\ Names(actorq) = Names(actorq') \cup {"redirected"}
      /\ ActorOrder(actorq') /\ ~Beginning(actorq')
      /\ mState = "Uninitialized" /\ channel # "new"
      /\ UNCHANGED <<mReceivedStop, mSentStop, oda, onStop, output, channel, suspends>>
      /\ UNCHANGED <<mDisconnected, toParent, ipc>>
  BY Acted DEF ActRedirected, Tells, ActorStarts
<1>2. child' = child
  BY DEF childVars
<1>3. toChild = <<>> /\ mQueue = <<>> /\ Names(toChild) = {} /\ Names(mQueue) = {}
      /\ (ipc = "open" => child.mState \in Unborn /\ toParent = <<>> /\ Names(toParent) = {})
      /\ child.mState \in Unborn \cup {"Dead"}
      /\ "disconnected" \notin Names(actorq)
  <2>1. IPCActive
    BY <1>1 DEF IPCActive
  <2> QED
    BY <1>1, <2>1, InvParts, ActiveParent, NoNames DEF HandAt, Started
<1>4. mState' = "Disconnected" /\ mQueue' = mQueue /\ cancelled' = cancelled
      /\ \/ ipc = "open" /\ toChild' = Append(toChild, Msg("Error"))
         \/ ipc # "open" /\ toChild' = toChild
  BY DEF ActRedirected, Tells, EntersAndSends, Broken
<1>5. /\ ToChildOrder(toChild')
      /\ ipc = "open" => Names(toChild') = {"Error"} /\ toChild' # <<>> /\ Head(toChild').name \in Starts
  <2>1. Msg("Error") \in ToChild /\ Msg("Error").name = "Error"
    BY Kinds, Named
  <2>2. "Error" \notin Answers /\ "Error" \notin Flow /\ "Error" \in Starts /\ ~Starting(toChild)
    BY <1>3 DEF Answers, Flow, Starting, Starts
  <2> QED
    BY <1>3, <1>4, <2>1, <2>2, InvParts, Told
<1>6. ChildHand'
  BY <1>1, <1>2, <1>3, <1>4, <1>5, InvParts DEF ChildHand, Protocol, HandAt, OneToken, Waits, Started, Flows, Flushes, Finished, IPCActive,
         Requesting, Asking, Agreeing, Answering, Beginning, Starting, Ending, Flowing, Unborn, Over
<1>7. StopInv'
  BY <1>1, <1>3, <1>4, InvParts DEF StopInv, Writing
<1>8. Suspends'
  BY <1>1, <1>3, <1>4, InvParts DEF Suspends, Asking, Agreeing, Resuming, IPCActive
<1> QED
  BY <1>1, <1>4, <1>6, <1>7, <1>8, InvParts DEF Kept

\* The child is told of something while it transfers data or is suspended.
LEMMA ToldKept ==
  ASSUME Inv, NEW name \in {"stop", "suspended", "resumed", "data"}, Acts(name), IPCActive,
         child' = child, UNCHANGED <<mDisconnected, toParent, ipc>>,
         NEW state, NEW m, EntersAndSends(state, mQueue, m),
         state = (IF name = "suspended" THEN "Suspended" ELSE mState),
         \/ name = "stop" /\ m = Msg("StopRequest")
         \/ name = "suspended" /\ m = Msg("Suspended")
         \/ name = "resumed" /\ m = Msg("Resumed")
         \/ name = "data" /\ m \in ToChild /\ m.name = "Data" /\ mState = "TransferringData"
  PROVE  Kept
<1>1. /\ Names(actorq) = Names(actorq') \cup {name}
      /\ ActorOrder(actorq')
      /\ name \in Agreed => ~Agreeing(actorq')
      /\ name = "stop" => "data" \notin Names(actorq')
      /\ channel # "new" /\ mState \in {"TransferringData", "Suspended"}
      /\ UNCHANGED <<mReceivedStop, mSentStop, oda, onStop, output, channel, suspends>>
  BY Acted, InvParts DEF ActorStarts, TypeInv, ParentTypes, IPCActive
<1>2. CASE ipc = "open"
  <2>1. toChild' = Append(toChild, m) /\ mState' = state /\ mQueue' = mQueue /\ cancelled' = cancelled
    BY <1>2 DEF EntersAndSends
  <2>2. m \in ToChild /\ m.name \in {"StopRequest", "Suspended", "Resumed", "Data"}
        /\ (name = "stop" <=> m.name = "StopRequest") /\ (name = "suspended" <=> m.name = "Suspended")
        /\ (name = "resumed" <=> m.name = "Resumed") /\ (name = "data" <=> m.name = "Data")
    <3>1. /\ Msg("StopRequest") \in ToChild /\ Msg("StopRequest").name = "StopRequest"
          /\ Msg("Suspended") \in ToChild /\ Msg("Suspended").name = "Suspended"
          /\ Msg("Resumed") \in ToChild /\ Msg("Resumed").name = "Resumed"
      BY Kinds, Named
    <3> QED
      BY <3>1
  <2>3. /\ m.name \in Answers => name \in Agreed /\ Agreeing(actorq)
        /\ m.name \notin Starts
        /\ m.name = "Data" => "StopRequest" \notin Names(toChild) /\ ~child.mReceivedOnStop
        /\ ~Ending(toChild) /\ child.mState \notin Over /\ child.mState # "Dead"
    BY <1>1, <1>2, <2>2, InvParts DEF Answers, Agreed, Agreeing, Starts, HandAt, Flows, Started
  <2>4. m.name \in Answers => ~Answering(toChild) /\ ~Requesting(toParent) /\ ~Asking(mQueue)
    BY <2>3, InvParts DEF HandAt, OneToken
  <2>5. /\ Names(toChild') = Names(toChild) \cup {m.name}
        /\ ToChildOrder(toChild') /\ toChild' # <<>>
        /\ toChild # <<>> => Head(toChild') = Head(toChild)
    BY <2>1, <2>2, <2>3, <2>4, Told
  <2>6. /\ name = "suspended" => suspends = 1 /\ child.mState = "Suspending" /\ mState' = "Suspended"
        /\ name = "resumed" => child.mState = "Resuming" /\ mState' = mState
        /\ name = "stop" => channel = "stopped" /\ mState' = mState
        /\ name = "data" => mState' = mState
    BY <1>1, <2>1, <2>3, InvParts DEF HandAt, Waits, Suspends, Flows
  <2>7. OneToken(toChild, toParent)' /\ Waits(child.mState, toChild, toParent)'
    BY <1>1, <2>1, <2>2, <2>3, <2>4, <2>5, <2>6, InvParts
    DEF HandAt, OneToken, Waits, Requesting, Asking, Agreeing, Answering, Answers, Agreed
  <2>8. Started(child.mState, toChild, toParent)'
    BY <1>1, <1>2, <2>1, <2>2, <2>5, <2>6, InvParts
    DEF HandAt, Started, Beginning, Starting, Unborn
  <2>9. Flows(child.mState, child.mReceivedOnStop, toChild)'
    BY <1>1, <2>1, <2>2, <2>3, <2>5, <2>6, InvParts DEF HandAt, Flows, Ending, Flowing, IPCActive
  <2>10. Flushes(child.mState, toChild, toParent)'
    BY <1>1, <1>2, <2>1, <2>2, <2>5, <2>6, InvParts DEF HandAt, Flushes, Finished
  <2>11. ChildHand'
    BY <2>5, <2>7, <2>8, <2>9, <2>10, InvParts DEF ChildHand, Protocol
  <2>12. StopInv'
    BY <1>1, <2>1, <2>6, InvParts DEF StopInv, Writing
  <2>13. Suspends'
    BY <1>1, <2>1, <2>2, <2>4, <2>6, InvParts DEF Suspends, Asking, Agreeing, Resuming, IPCActive, Agreed, Answers
  <2> QED
    BY <1>1, <2>1, <2>11, <2>12, <2>13, InvParts DEF Kept
<1>3. CASE ipc # "open"
  <2>1. Broken(mState, mQueue) /\ toChild' = toChild
    BY <1>1, <1>3 DEF EntersAndSends, Broken
  <2>2. toParent' = <<>>
    BY <1>3, InvParts DEF HandAt, Started
  <2> QED
    BY <1>1, <1>3, <2>1, <2>2, BrokenKept
<1> QED
  BY <1>2, <1>3

LEMMA TellingKept ==
  Inv /\ (ActStop \/ ActSuspended \/ ActResumed \/ ActSendData) /\ UNCHANGED childVars => Kept
<1> SUFFICES ASSUME Inv, ActStop \/ ActSuspended \/ ActResumed \/ ActSendData, UNCHANGED childVars
             PROVE  Kept
  OBVIOUS
<1>1. child' = child
  BY DEF childVars
<1>2. CASE ActStop
  BY <1>1, <1>2, ToldKept DEF ActStop, Tells
<1>3. CASE ActSuspended
  BY <1>1, <1>3, ToldKept DEF ActSuspended, Tells
<1>4. CASE ActResumed
  BY <1>1, <1>4, ToldKept DEF ActResumed, Tells
<1>5. CASE ActSendData
  <2>1. /\ Carrying("Data", Head(actorq).data) \in ToChild
        /\ Carrying("Data", Head(actorq).data).name = "Data"
    BY <1>5, InvParts, QueueTypes, Chunked, Kinds, Named DEF ActSendData, Acts
  <2>2. IPCActive
    BY <1>5 DEF ActSendData, IPCActive
  <2> QED
    BY <1>1, <1>5, <2>1, <2>2, ToldKept DEF ActSendData
<1> QED
  BY <1>2, <1>3, <1>4, <1>5

\* An event is taken that changes nothing else.
LEMMA DroppedKept ==
  ASSUME Inv, NEW name, Acts(name), child' = child,
         UNCHANGED <<mState, mQueue, mDisconnected, cancelled, ipcVars>>,
         name \notin {"redirected", "start", "disconnected"},
         name \in Agreed => ~IPCActive
  PROVE  Kept
<1>1. /\ Names(actorq) = Names(actorq') \cup {name}
      /\ ActorOrder(actorq')
      /\ channel # "new" /\ mState # "Uninitialized"
      /\ UNCHANGED <<mReceivedStop, mSentStop, oda, onStop, output, channel, suspends>>
      /\ UNCHANGED <<toChild, toParent, ipc>>
  BY Acted DEF ActorStarts, ipcVars
<1>2. ChildHand'
  BY <1>1, InvParts DEF ChildHand, Protocol, HandAt, OneToken, Waits, Started, Flows, Flushes, Finished, IPCActive,
         Requesting, Asking, Agreeing, Answering, Beginning, Starting, Ending, Flowing, Unborn, Over
<1>3. StopInv'
  BY <1>1, InvParts DEF StopInv, Writing
<1>4. Suspends'
  BY <1>1, InvParts DEF Suspends, Asking, Agreeing, Resuming, IPCActive, Agreed
<1> QED
  BY <1>1, <1>2, <1>3, <1>4, InvParts DEF Kept

LEMMA UnheardKept == Inv /\ (ActUnheard \/ ActDropData) /\ UNCHANGED childVars => Kept
<1> SUFFICES ASSUME Inv, ActUnheard \/ ActDropData, UNCHANGED childVars PROVE Kept
  OBVIOUS
<1>1. child' = child
  BY DEF childVars
<1>2. CASE ActUnheard
  <2>1. PICK name \in {"redirected", "start", "stop", "suspended", "resumed"} : Acts(name)
    BY <1>2 DEF ActUnheard
  <2>2. name \notin ActorStarts
    BY <1>2, <2>1, Acted DEF ActUnheard, IPCActive
  <2> QED
    BY <1>1, <1>2, <2>1, <2>2, DroppedKept DEF ActUnheard, ActorStarts
<1>3. CASE ActDropData
  BY <1>1, <1>3, DroppedKept DEF ActDropData, Agreed
<1> QED
  BY <1>2, <1>3

LEMMA DisconnectedKept == Inv /\ ActDisconnected /\ UNCHANGED childVars => Kept
<1> SUFFICES ASSUME Inv, ActDisconnected, UNCHANGED childVars PROVE Kept
  OBVIOUS
<1>1. /\ Names(actorq) = Names(actorq') \cup {"disconnected"}
      /\ ActorOrder(actorq') /\ "disconnected" \notin Names(actorq')
      /\ UNCHANGED <<mReceivedStop, mSentStop, oda, onStop, output, channel, suspends>>
      /\ UNCHANGED <<mQueue, cancelled, toChild, toParent, ipc>>
      /\ child' = child /\ channel # "new"
  BY Acted DEF ActDisconnected, childVars, ipcVars
<1>2. mState = "Disconnecting" /\ ~Writing(mQueue)
  BY <1>1, InvParts DEF HandAt, Flushes, StopInv
<1>3. mState' = "Disconnected" /\ mDisconnected' = TRUE
  BY <1>2 DEF ActDisconnected
<1>4. ChildHand'
  BY <1>1, <1>2, <1>3, InvParts DEF ChildHand, Protocol, HandAt, OneToken, Waits, Started, Flows, Flushes, Finished, IPCActive,
         Requesting, Asking, Agreeing, Answering, Beginning, Starting, Ending, Flowing, Unborn, Over, Writing
<1>5. StopInv'
  BY <1>1, <1>2, <1>3, InvParts DEF StopInv, Writing
<1>6. Suspends'
  BY <1>1, <1>2, <1>3, InvParts DEF Suspends, Asking, Agreeing, Resuming, IPCActive
<1> QED
  BY <1>1, <1>4, <1>5, <1>6, InvParts DEF Kept

LEMMA ClosingKept == Inv /\ (ActClose \/ ActError) /\ UNCHANGED childVars => Kept
<1> SUFFICES ASSUME Inv, ActClose \/ ActError, UNCHANGED childVars PROVE Kept
  OBVIOUS
<1>1. child' = child
  BY DEF childVars
<1>2. CASE ActClose /\ ipc = "closed"
  BY <1>1, <1>2, DroppedKept DEF ActClose, ActorDestroy, Agreed
<1>3. CASE ActorDestroy /\ (ActError \/ ActClose)
  <2>1. /\ ipc' # "open" /\ toChild' = toChild /\ toParent' = <<>> /\ mDisconnected' = mDisconnected
        /\ Broken(mState, mQueue)
    BY <1>3 DEF ActorDestroy, Broken
  <2>2. /\ UNCHANGED <<mReceivedStop, mSentStop, oda, onStop, output, channel, suspends>>
        /\ ActorOrder(actorq') /\ Names(actorq') \subseteq Names(actorq)
        /\ \A name \in {"redirected", "disconnected"} :
             name \in Names(actorq) => name \in Names(actorq')
        /\ mState = "Uninitialized" => actorq' = actorq
        /\ channel = "new" => actorq' = actorq
    <3>1. CASE ActError
      BY <3>1, InvParts DEF ActError, ActorFrame
    <3>2. CASE ActClose
      <4>1. Acts("close")
        BY <3>2 DEF ActClose
      <4> QED
        BY <4>1, Acted DEF ActorStarts
    <3> QED
      BY <1>3, <3>1, <3>2
  <2> QED
    BY <1>1, <2>1, <2>2, BrokenKept
<1> QED
  BY <1>2, <1>3 DEF ActClose, ActError

\* A message of the child that the actor thread receives.
LEMMA Received ==
  ASSUME Inv, NEW name, ParentReceives(name)
  PROVE  /\ toParent \in Seq(ToParent) /\ Head(toParent) \in ToParent /\ Head(toParent).name = name
         /\ Names(toParent) = Names(toParent') \cup {name} /\ ToParentOrder(toParent')
         /\ name \in Requests => ~Requesting(toParent')
         /\ name \in Lasts => toParent' = <<>> /\ Names(toParent') = {}
         /\ ipc = "open" /\ ipc' = "open" /\ child.mState \notin Unborn /\ child.mState # "Dead"
         /\ mState # "Uninitialized" /\ channel # "new" /\ ~Beginning(actorq) /\ ~Starting(toChild)
         /\ name # "Destroy" => /\ ~Finished /\ ~mSentStop /\ ~mDisconnected /\ ~Stopping(mQueue)
         /\ UNCHANGED <<mDisconnected, mReceivedStop, mSentStop, oda, onStop, output, channel, suspends>>
<1>1. /\ toParent \in Seq(ToParent) /\ Head(toParent) \in ToParent /\ Head(toParent).name = name
      /\ toParent # <<>> /\ toParent' = Tail(toParent) /\ ToParentOrder(toParent)
      /\ ipc = "open" /\ ipc' = "open"
      /\ UNCHANGED <<mDisconnected, mReceivedStop, mSentStop, oda, onStop, output, channel, suspends>>
  BY InvParts, QueueTypes DEF ParentReceives, ActorFrame
<1>2. /\ Names(toParent) = Names(toParent') \cup {name} /\ ToParentOrder(toParent')
      /\ name \in Requests => ~Requesting(toParent')
      /\ name \in Lasts => toParent' = <<>> /\ Names(toParent') = {}
  BY <1>1, ToParentTaken
<1>3. /\ child.mState \notin Unborn /\ child.mState # "Dead" /\ mState # "Uninitialized"
      /\ channel # "new" /\ ~Beginning(actorq) /\ ~Starting(toChild)
  BY <1>1, InvParts DEF HandAt, Started
<1>4. name # "Destroy" => ~Finished /\ ~mSentStop /\ ~mDisconnected /\ ~Stopping(mQueue)
  <2>1. name # "Destroy" => ~Finished
    BY <1>1, <1>2, InvParts DEF HandAt, Flushes
  <2> QED
    BY <1>3, <2>1, InvParts DEF Finished, StopInv, Stopping, Beginning
<1> QED
  BY <1>1, <1>2, <1>3, <1>4

LEMMA WriteKept == Inv /\ RecvWrite /\ UNCHANGED childVars => Kept
<1> SUFFICES ASSUME Inv, RecvWrite, UNCHANGED childVars PROVE Kept
  OBVIOUS
<1>1. ParentReceives("Write") /\ child' = child /\ UNCHANGED <<mState, actorq, cancelled, toChild>>
  BY DEF RecvWrite, childVars
<1>2. Names(mQueue') = Names(mQueue) \cup {"write"} /\ QueueOrder(mQueue')
  <2>1. /\ mQueue' = Append(mQueue, WriteMove(Head(toParent).data))
        /\ WriteMove(Head(toParent).data) \in QueueEvents
        /\ WriteMove(Head(toParent).data).name = "write"
    BY <1>1, Received, Chunked, Kinds, Named DEF RecvWrite, Enqueues
  <2>2. "write" \notin Asked /\ "write" \notin Resumes
    BY DEF Asked, Resumes
  <2> QED
    BY <1>1, <2>1, <2>2, Received, QueueAdded, InvParts, QueueTypes
<1>3. ChildHand'
  BY <1>1, <1>2, Received, InvParts DEF ChildHand, Protocol, HandAt, OneToken, Waits, Started, Flows, Flushes, Finished, IPCActive,
         Requesting, Asking, Agreeing, Answering, Beginning, Starting, Ending, Flowing, Unborn, Over
<1>4. StopInv'
  BY <1>1, <1>2, Received, InvParts DEF StopInv, Writing, Finished
<1>5. Suspends'
  BY <1>1, <1>2, Received, InvParts DEF Suspends, Asking, Agreeing, Resuming, IPCActive
<1> QED
  BY <1>1, <1>2, <1>3, <1>4, <1>5, InvParts DEF Kept

LEMMA SuspendKept == Inv /\ RecvSuspend /\ UNCHANGED childVars => Kept
<1> SUFFICES ASSUME Inv, RecvSuspend, UNCHANGED childVars PROVE Kept
  OBVIOUS
<1>1. /\ ParentReceives("Suspend") /\ child' = child /\ mState = "TransferringData"
      /\ UNCHANGED <<mState, actorq, cancelled, toChild>>
  BY DEF RecvSuspend, childVars
<1>2. /\ ~Asking(mQueue) /\ ~Agreeing(actorq) /\ ~Answering(toChild) /\ ~Requesting(toParent')
      /\ child.mState = "Suspending"
  BY <1>1, Received, InvParts DEF HandAt, OneToken, Waits, Requesting, Requests
<1>3. Names(mQueue') = Names(mQueue) \cup {"suspend"} /\ QueueOrder(mQueue')
  <2>1. /\ mQueue' = Append(mQueue, Event("suspend")) /\ Event("suspend") \in QueueEvents
        /\ Event("suspend").name = "suspend" /\ "suspend" \notin Resumes /\ "suspend" \notin Out
    BY Kinds, Named DEF RecvSuspend, Enqueues, Resumes, Out
  <2> QED
    BY <1>2, <2>1, QueueAdded, InvParts, QueueTypes
<1>4. ChildHand'
  BY <1>1, <1>2, <1>3, Received, InvParts DEF ChildHand, Protocol, HandAt, OneToken, Waits, Started, Flows, Flushes, Finished, IPCActive,
         Requesting, Asking, Agreeing, Answering, Beginning, Starting, Ending, Flowing, Unborn, Over
<1>5. StopInv'
  BY <1>1, <1>3, Received, InvParts DEF StopInv, Writing
<1>6. Suspends'
  BY <1>1, <1>2, <1>3, Received, InvParts DEF Suspends, Asking, Agreeing, Resuming, IPCActive
<1> QED
  BY <1>1, <1>3, <1>4, <1>5, <1>6, InvParts DEF Kept

LEMMA ResumeKept == Inv /\ RecvResume /\ UNCHANGED childVars => Kept
<1> SUFFICES ASSUME Inv, RecvResume, UNCHANGED childVars PROVE Kept
  OBVIOUS
<1>1. /\ ParentReceives("Resume") /\ child' = child /\ mState = "Suspended"
      /\ mState' = "TransferringData" /\ UNCHANGED <<actorq, cancelled, toChild>>
  BY DEF RecvResume, childVars
<1>2. /\ ~Asking(mQueue) /\ ~Agreeing(actorq) /\ ~Answering(toChild) /\ ~Requesting(toParent')
      /\ child.mState = "Resuming" /\ suspends = 1 /\ ~Resuming(mQueue)
  <2>1. /\ ~Asking(mQueue) /\ ~Agreeing(actorq) /\ ~Answering(toChild) /\ ~Requesting(toParent')
        /\ child.mState = "Resuming"
    BY <1>1, Received, InvParts DEF HandAt, OneToken, Waits, Requesting, Requests
  <2> QED
    BY <1>1, <2>1, InvParts DEF Suspends, Asking, Resuming, IPCActive
<1>3. Names(mQueue') = Names(mQueue) \cup {"resume"} /\ QueueOrder(mQueue')
  <2>1. /\ mQueue' = Append(mQueue, Event("resume")) /\ Event("resume") \in QueueEvents
        /\ Event("resume").name = "resume" /\ "resume" \notin Out
    BY Kinds, Named DEF RecvResume, Enqueues, Out
  <2> QED
    BY <1>2, <2>1, QueueAdded, InvParts, QueueTypes
<1>4. ChildHand'
  BY <1>1, <1>2, <1>3, Received, InvParts DEF ChildHand, Protocol, HandAt, OneToken, Waits, Started, Flows, Flushes, Finished, IPCActive,
         Requesting, Asking, Agreeing, Answering, Beginning, Starting, Ending, Flowing, Unborn, Over
<1>5. StopInv'
  BY <1>1, <1>3, Received, InvParts DEF StopInv, Writing
<1>6. Suspends'
  BY <1>1, <1>2, <1>3, Received, InvParts DEF Suspends, Asking, Agreeing, Resuming, IPCActive
<1> QED
  BY <1>1, <1>3, <1>4, <1>5, <1>6, InvParts DEF Kept

LEMMA DisconnectKept == Inv /\ RecvDisconnect /\ UNCHANGED childVars => Kept
<1> SUFFICES ASSUME Inv, RecvDisconnect, UNCHANGED childVars PROVE Kept
  OBVIOUS
<1>1. /\ ParentReceives("Disconnect") /\ child' = child /\ mState \in {"Suspended", "TransferringData"}
      /\ mState' = "Disconnecting" /\ UNCHANGED <<actorq, cancelled>>
      /\ toChild' = Append(toChild, Msg("FlushData")) /\ mQueue' = mQueue \o ResumeFirst
  BY DEF RecvDisconnect, EntersAndSends, ParentReceives, childVars
<1>2. /\ ~Asking(mQueue) /\ ~Agreeing(actorq) /\ ~Answering(toChild) /\ ~Requesting(toParent')
      /\ child.mState = "Disconnecting" /\ ~Resuming(mQueue) /\ IPCActive
      /\ mState = "Suspended" => suspends = 1
      /\ mState = "TransferringData" => suspends = 0
  <2>1. /\ ~Asking(mQueue) /\ ~Agreeing(actorq) /\ ~Answering(toChild) /\ ~Requesting(toParent')
        /\ child.mState = "Disconnecting"
    BY <1>1, Received, InvParts DEF HandAt, OneToken, Waits, Requesting, Requests
  <2> QED
    BY <1>1, <2>1, InvParts DEF Suspends, Asking, Resuming, IPCActive
<1>3. /\ Names(mQueue') = Names(mQueue) \cup (IF mState = "Suspended" THEN {"resumeOnly"} ELSE {})
      /\ QueueOrder(mQueue')
  <2>1. CASE mState = "Suspended"
    <3>1. /\ mQueue' = Append(mQueue, Event("resumeOnly")) /\ Event("resumeOnly") \in QueueEvents
          /\ Event("resumeOnly").name = "resumeOnly" /\ "resumeOnly" \notin Out
          /\ "resumeOnly" \notin Asked
      <4>1. mQueue' = mQueue \o <<Event("resumeOnly")>> /\ mQueue \in Seq(QueueEvents)
        BY <1>1, <2>1, InvParts, QueueTypes DEF ResumeFirst
      <4>2. mQueue' = Append(mQueue, Event("resumeOnly"))
        BY <4>1
      <4> QED
        BY <4>2, Kinds, Named DEF Out, Asked
    <3> QED
      BY <1>2, <2>1, <3>1, QueueAdded, InvParts, QueueTypes
  <2>2. CASE mState # "Suspended"
    <3>1. mQueue' = mQueue
      BY <1>1, <2>2, InvParts, QueueTypes DEF ResumeFirst
    <3> QED
      BY <2>2, <3>1, InvParts
  <2> QED
    BY <2>1, <2>2
<1>4. /\ Names(toChild') = Names(toChild) \cup {"FlushData"} /\ ToChildOrder(toChild')
      /\ toChild' # <<>>
  <2>1. Msg("FlushData") \in ToChild /\ Msg("FlushData").name = "FlushData"
        /\ "FlushData" \notin Starts /\ "FlushData" \notin Flow
    BY Kinds, Named DEF Starts, Flow
  <2> QED
    BY <1>1, <1>2, <2>1, Told
<1>5. OneToken(toChild, toParent)' /\ Waits(child.mState, toChild, toParent)'
  BY <1>1, <1>2, <1>3, <1>4, Received, InvParts
  DEF HandAt, OneToken, Waits, Requesting, Asking, Agreeing, Answering
<1>6. Started(child.mState, toChild, toParent)'
  BY <1>1, <1>2, <1>3, <1>4, Received, InvParts DEF HandAt, Started, Starting, Beginning, Unborn
<1>7. Flows(child.mState, child.mReceivedOnStop, toChild)' /\ Flushes(child.mState, toChild, toParent)'
  BY <1>1, <1>2, <1>3, <1>4, Received, InvParts
  DEF HandAt, Flows, Flushes, Finished, Flowing, Ending, IPCActive
<1>8. ChildHand'
  BY <1>1, <1>4, <1>5, <1>6, <1>7, Received DEF ChildHand, Protocol
<1>9. StopInv'
  BY <1>1, <1>2, <1>3, Received, InvParts DEF StopInv, Writing
<1>10. Suspends'
  BY <1>1, <1>2, <1>3, Received, InvParts DEF Suspends, Asking, Agreeing, Resuming, IPCActive
<1> QED
  BY <1>1, <1>3, <1>8, <1>9, <1>10, InvParts DEF Kept

LEMMA IgnoredKept == Inv /\ RecvIgnored /\ UNCHANGED childVars => Kept
<1> SUFFICES ASSUME Inv, RecvIgnored, UNCHANGED childVars PROVE Kept
  OBVIOUS
<1>1. PICK name \in {"Suspend", "Resume", "Disconnect"} : ParentReceives(name)
  BY DEF RecvIgnored
<1>2. child' = child /\ UNCHANGED <<mState, mQueue, actorq, cancelled, toChild>>
  BY DEF RecvIgnored, childVars
<1>3. ChildHand'
  BY <1>1, <1>2, Received, InvParts DEF ChildHand, Protocol, HandAt, OneToken, Waits, Started, Flows, Flushes, Finished, IPCActive,
         Requesting, Asking, Agreeing, Answering, Beginning, Starting, Ending, Flowing, Unborn, Over
<1>4. StopInv'
  BY <1>1, <1>2, Received, InvParts DEF StopInv, Writing
<1>5. Suspends'
  BY <1>1, <1>2, Received, InvParts DEF Suspends, Asking, Agreeing, Resuming, IPCActive
<1> QED
  BY <1>2, <1>3, <1>4, <1>5, InvParts DEF Kept

\* The last message but one asks the parent to destroy the actor.
LEMMA Destroyed ==
  ASSUME Inv, Destroy
  PROVE  /\ Names(actorq') = Names(actorq) \cup {"close"} /\ ActorOrder(actorq')
         /\ actorq # <<>> => actorq' # <<>> /\ Head(actorq') = Head(actorq)
<1>1. actorq \in Seq(ActorEvents) /\ actorq' = Append(actorq, Event("close"))
      /\ Event("close") \in ActorEvents /\ Event("close").name = "close"
      /\ "close" \notin Agreed /\ "close" \notin ActorStarts
  BY InvParts, QueueTypes, Kinds, Named DEF Destroy, Agreed, ActorStarts
<1> QED
  BY <1>1, InvParts, ActorAdded, AppendOf

LEMMA FlushedDataKept == Inv /\ RecvFlushedData /\ UNCHANGED childVars => Kept
<1> SUFFICES ASSUME Inv, RecvFlushedData, UNCHANGED childVars PROVE Kept
  OBVIOUS
<1>1. ParentReceives("FlushedData") /\ Destroy /\ child' = child /\ UNCHANGED <<mState, cancelled, toChild>>
  BY DEF RecvFlushedData, childVars
<1>2. /\ toParent' = <<>> /\ Names(toParent') = {} /\ mState = "Disconnecting"
      /\ child.mState = "Disconnected" /\ "FlushData" \notin Names(toChild)
  BY <1>1, Received, InvParts DEF HandAt, Waits, Flushes, Lasts
<1>3. Names(mQueue') = Names(mQueue) \cup {"flush"} /\ QueueOrder(mQueue')
  <2>1. /\ mQueue' = Append(mQueue, Event("flush")) /\ Event("flush") \in QueueEvents
        /\ Event("flush").name = "flush" /\ "flush" \notin Asked /\ "flush" \notin Resumes
    BY Kinds, Named DEF RecvFlushedData, Enqueues, Asked, Resumes
  <2> QED
    BY <1>1, <2>1, Received, QueueAdded, InvParts, QueueTypes
<1>4. ChildHand'
  BY <1>1, <1>2, <1>3, Received, Destroyed, InvParts DEF ChildHand, Protocol, HandAt, OneToken, Waits, Started, Flows, Flushes, Finished, IPCActive,
         Requesting, Asking, Agreeing, Answering, Beginning, Starting, Ending, Flowing, Unborn, Over
<1>5. StopInv'
  BY <1>1, <1>2, <1>3, Received, Destroyed, InvParts DEF StopInv, Writing, Stopping, Finished
<1>6. Suspends'
  BY <1>1, <1>2, <1>3, Received, Destroyed, InvParts DEF Suspends, Asking, Agreeing, Resuming, IPCActive
<1> QED
  BY <1>1, <1>3, <1>4, <1>5, <1>6, Destroyed DEF Kept

LEMMA CloseKept == Inv /\ RecvClose /\ UNCHANGED childVars => Kept
<1> SUFFICES ASSUME Inv, RecvClose, UNCHANGED childVars PROVE Kept
  OBVIOUS
<1>1. /\ ParentReceives("Close") /\ Destroy /\ child' = child /\ mState' = "Closed"
      /\ cancelled' = cancelled /\ toChild' = Append(toChild, Msg("Closed"))
  BY DEF RecvClose, childVars
<1>2. /\ ~Asking(mQueue) /\ ~Agreeing(actorq) /\ ~Answering(toChild)
      /\ toParent' = <<>> /\ Names(toParent') = {} /\ child.mState = "Closing"
  <2>1. toParent' = <<>> /\ Names(toParent') = {} /\ "Close" \in Names(toParent)
        /\ child.mState # "Dead"
    BY <1>1, Received DEF Lasts
  <2> QED
    BY <2>1, InvParts DEF HandAt, OneToken, Waits, Requesting
<1>3. Names(mQueue') = Names(mQueue) \cup {"emitStop"} /\ QueueOrder(mQueue')
  <2>1. ~mSentStop /\ ~Stopping(mQueue)
    BY <1>1, Received
  <2>2. mQueue' = Append(mQueue, Event("emitStop"))
    BY <2>1 DEF RecvClose
  <2>3. /\ Event("emitStop") \in QueueEvents /\ Event("emitStop").name = "emitStop"
        /\ "emitStop" \notin Asked /\ "emitStop" \notin Resumes
    BY Kinds, Named DEF Asked, Resumes
  <2> QED
    BY <2>1, <2>2, <2>3, QueueAdded, InvParts, QueueTypes
<1>4. Names(toChild') = Names(toChild) \cup {"Closed"} /\ ToChildOrder(toChild') /\ toChild' # <<>>
  <2>1. Msg("Closed") \in ToChild /\ Msg("Closed").name = "Closed"
        /\ "Closed" \notin Starts /\ "Closed" \notin Flow
    BY Kinds, Named DEF Starts, Flow
  <2> QED
    BY <1>1, <1>2, <2>1, Told
<1>5. ChildHand'
  BY <1>1, <1>2, <1>3, <1>4, Received, Destroyed, InvParts DEF ChildHand, Protocol, HandAt, OneToken, Waits, Started, Flows, Flushes, Finished, IPCActive,
         Requesting, Asking, Agreeing, Answering, Beginning, Starting, Ending, Flowing, Unborn, Over
<1>6. StopInv'
  BY <1>1, <1>2, <1>3, Received, Destroyed, InvParts DEF StopInv, Writing, Stopping, Finished
<1>7. Suspends'
  BY <1>1, <1>2, <1>3, Received, Destroyed, InvParts DEF Suspends, Asking, Agreeing, Resuming, IPCActive
<1> QED
  BY <1>1, <1>3, <1>5, <1>6, <1>7, Destroyed DEF Kept

LEMMA DestroyKept == Inv /\ RecvDestroy /\ UNCHANGED childVars => Kept
<1> SUFFICES ASSUME Inv, RecvDestroy, UNCHANGED childVars PROVE Kept
  OBVIOUS
<1>1. /\ ParentReceives("Destroy") /\ Destroy /\ child' = child
      /\ UNCHANGED <<mState, mQueue, cancelled, toChild>>
  BY DEF RecvDestroy, childVars
<1>2. toParent' = <<>> /\ Names(toParent') = {}
  BY <1>1, Received DEF Lasts
<1>3. ChildHand'
  BY <1>1, <1>2, Received, Destroyed, InvParts DEF ChildHand, Protocol, HandAt, OneToken, Waits, Started, Flows, Flushes, Finished, IPCActive,
         Requesting, Asking, Agreeing, Answering, Beginning, Starting, Ending, Flowing, Unborn, Over
<1>4. StopInv'
  BY <1>1, Received, Destroyed, InvParts DEF StopInv, Writing
<1>5. Suspends'
  BY <1>1, Received, Destroyed, InvParts DEF Suspends, Asking, Agreeing, Resuming, IPCActive
<1> QED
  BY <1>1, <1>3, <1>4, <1>5, Destroyed, InvParts DEF Kept

-----------------------------------------------------------------------------
(***************************************************************************)
(* The events of mQueue, and the channel.                                  *)
(***************************************************************************)
NoStop(q) == \A k \in 1..Len(q) : q[k] # 0

\* Only the last that the listener got is the stop, and only when it was sent.
LEMMA Unstopped == Inv /\ ~mSentStop => NoStop(output) /\ output \in Seq(0..MaxChunks)
  BY InvParts DEF NoStop, StopInv, TypeInv, ParentTypes

LEMMA Emitted ==
  ASSUME NEW q \in Seq(0..MaxChunks), NoStop(q), NEW n \in 0..MaxChunks
  PROVE  /\ n # 0 => NoStop(Append(q, n))
         /\ \A k \in 1..Len(Append(q, n)) : Append(q, n)[k] = 0 => k = Len(Append(q, n))
<1>1. /\ Len(Append(q, n)) = Len(q) + 1 /\ Len(q) \in Nat
      /\ \A k \in 1..Len(q) : Append(q, n)[k] = q[k] /\ q[k] # 0
      /\ Append(q, n)[Len(q) + 1] = n
  BY AppendOf DEF NoStop
<1>2. \A k \in 1..Len(Append(q, n)) : k \in 1..Len(q) \/ k = Len(q) + 1
  BY <1>1
<1> QED
  BY <1>1, <1>2 DEF NoStop

LEMMA Flushing ==
  ASSUME NEW q \in Seq(0..MaxChunks), NoStop(q), NEW r \in Seq(Chunks)
  PROVE  NoStop(q \o r) /\ q \o r \in Seq(0..MaxChunks)
<1>1. Chunks \subseteq 0..MaxChunks /\ 0 \notin Chunks
  BY ChunksAssumption DEF Chunks
<1>2. r \in Seq(0..MaxChunks) /\ NoStop(r)
  <2>1. \A k \in 1..Len(r) : r[k] \in Chunks
    OBVIOUS
  <2>2. r \in Seq(0..MaxChunks)
    BY ChunksAssumption DEF Chunks
  <2> QED
    BY <1>1, <2>1, <2>2 DEF NoStop
<1>3. /\ q \o r \in Seq(0..MaxChunks)
      /\ Len(q \o r) = Len(q) + Len(r) /\ Len(q) \in Nat /\ Len(r) \in Nat
      /\ \A k \in 1..Len(q) : (q \o r)[k] = q[k]
      /\ \A k \in 1..Len(q \o r) : k > Len(q) => (q \o r)[k] = r[k - Len(q)] /\ k - Len(q) \in 1..Len(r)
  BY <1>2, ConcatOf
<1>4. ASSUME NEW k \in 1..Len(q \o r) PROVE (q \o r)[k] # 0
  <2>1. CASE k > Len(q)
    BY <1>2, <1>3, <2>1 DEF NoStop
  <2>2. CASE ~(k > Len(q))
    <3>1. k \in 1..Len(q)
      BY <1>3, <2>2
    <3> QED
      BY <1>3, <3>1 DEF NoStop
  <2> QED
    BY <2>1, <2>2
<1> QED
  BY <1>3, <1>4 DEF NoStop

LEMMA Ran ==
  ASSUME Inv, NEW name, Runs(name)
  PROVE  /\ mQueue \in Seq(QueueEvents) /\ Head(mQueue) \in QueueEvents /\ Head(mQueue).name = name
         /\ Names(mQueue) = Names(Tail(mQueue)) \cup {name} /\ QueueOrder(Tail(mQueue))
         /\ Tail(mQueue) \in Seq(QueueEvents)
         /\ name \in Asked => ~Asking(Tail(mQueue))
         /\ name \in Resumes => ~Resuming(Tail(mQueue))
         /\ name \in Stops => ~Writing(Tail(mQueue))
         /\ mState # "Uninitialized" /\ channel # "new" /\ ~Beginning(actorq)
         /\ ~MainFree => name \in {"write", "flush"}
         /\ UNCHANGED <<mState, mDisconnected, mReceivedStop, oda, onStop, channel, cancelled,
                        toChild, toParent, ipc>>
<1>1. /\ mQueue # <<>> /\ mQueue \in Seq(QueueEvents) /\ Head(mQueue).name = name
      /\ ~MainFree => name \in {"write", "flush"}
      /\ UNCHANGED <<mState, mDisconnected, mReceivedStop, oda, onStop, channel, cancelled,
                     toChild, toParent, ipc>>
  BY InvParts, QueueTypes DEF Runs, QueueFrame, ipcVars
<1>2. mState # "Uninitialized" /\ channel # "new" /\ ~Beginning(actorq)
  BY <1>1, InvParts DEF HandAt, Started
<1> QED
  BY <1>1, <1>2, InvParts, QueueTypes, QueueTaken

LEMMA RunWriteKept == Inv /\ RunWrite /\ UNCHANGED childVars => Kept
<1> SUFFICES ASSUME Inv, RunWrite, UNCHANGED childVars PROVE Kept
  OBVIOUS
<1>1. /\ Runs("write") /\ child' = child /\ mQueue' = Tail(mQueue)
      /\ output' = Append(output, Head(mQueue).data)
      /\ UNCHANGED <<mSentStop, actorq, suspends>>
  BY DEF RunWrite, childVars
<1>2. ~mSentStop
  BY <1>1, Ran, InvParts DEF StopInv, Writing
<1>3. NoStop(output')
  <2>1. Head(mQueue).data \in 0..MaxChunks /\ Head(mQueue).data # 0
    BY <1>1, Ran, Chunked, ChunksAssumption DEF Chunks
  <2> QED
    BY <1>1, <1>2, <2>1, Unstopped, Emitted
<1>4. ChildHand'
  BY <1>1, Ran, InvParts DEF ChildHand, Protocol, HandAt, OneToken, Waits, Started, Flows, Flushes, Finished, IPCActive,
         Requesting, Asking, Agreeing, Answering, Beginning, Starting, Ending, Flowing, Unborn, Over
<1>5. StopInv'
  BY <1>1, <1>2, <1>3, Ran, InvParts DEF StopInv, Writing, NoStop
<1>6. Suspends'
  BY <1>1, Ran, InvParts DEF Suspends, Asking, Agreeing, Resuming, IPCActive
<1> QED
  BY <1>1, <1>4, <1>5, <1>6, Ran, InvParts DEF Kept

LEMMA RunFlushKept == Inv /\ RunFlush /\ UNCHANGED childVars => Kept
<1> SUFFICES ASSUME Inv, RunFlush, UNCHANGED childVars PROVE Kept
  OBVIOUS
<1>1. /\ Runs("flush") /\ child' = child /\ output' = output \o mBufferedData
      /\ mQueue' = Tail(mQueue) \o StopIfReceived \o <<Event("leaveGroup")>>
      /\ actorq' = Append(actorq, Event("disconnected"))
      /\ UNCHANGED <<mSentStop, suspends>>
  BY DEF RunFlush, childVars
<1>2. /\ ~mSentStop /\ "disconnected" \notin Names(actorq) /\ mState = "Disconnecting"
      /\ ~Writing(Tail(mQueue))
  BY <1>1, Ran, InvParts DEF HandAt, Flushes, StopInv, Writing, Stops
<1>3. NoStop(output')
  <2>1. mBufferedData \in Seq(Chunks)
    BY InvParts DEF TypeInv, ParentTypes
  <2> QED
    BY <1>1, <1>2, <2>1, Unstopped, Flushing
<1>4. /\ Names(actorq') = Names(actorq) \cup {"disconnected"} /\ ActorOrder(actorq')
      /\ actorq # <<>> => actorq' # <<>> /\ Head(actorq') = Head(actorq)
  <2>1. /\ Event("disconnected") \in ActorEvents /\ Event("disconnected").name = "disconnected"
        /\ "disconnected" \notin Agreed /\ "disconnected" \notin ActorStarts
    BY Kinds, Named DEF Agreed, ActorStarts
  <2>2. actorq \in Seq(ActorEvents) /\ ActorOrder(actorq)
    BY InvParts, QueueTypes
  <2> QED
    BY <1>1, <1>2, <2>1, <2>2, ActorAdded, AppendOf
<1>5. /\ QueueOrder(mQueue')
      /\ Names(mQueue') = Names(Tail(mQueue)) \cup {"leaveGroup"}
                          \cup (IF mReceivedStop THEN {"emitStopOnce"} ELSE {})
  <2>1. /\ Event("emitStopOnce") \in QueueEvents /\ Event("emitStopOnce").name = "emitStopOnce"
        /\ Event("leaveGroup") \in QueueEvents /\ Event("leaveGroup").name = "leaveGroup"
        /\ \A name \in {"emitStopOnce", "leaveGroup"} :
             name \notin Asked /\ name \notin Resumes /\ name \notin Out
    BY Kinds, Named DEF Asked, Resumes, Out
  <2> DEFINE q == IF mReceivedStop THEN Append(Tail(mQueue), Event("emitStopOnce")) ELSE Tail(mQueue)
  <2>2. /\ q \in Seq(QueueEvents) /\ QueueOrder(q)
        /\ Names(q) = Names(Tail(mQueue)) \cup (IF mReceivedStop THEN {"emitStopOnce"} ELSE {})
    <3>1. Tail(mQueue) \in Seq(QueueEvents) /\ QueueOrder(Tail(mQueue))
      BY <1>1, Ran
    <3>2. CASE mReceivedStop
      <4> DEFINE x == Event("emitStopOnce")
      <4>1. x \in QueueEvents /\ x.name = "emitStopOnce"
            /\ x.name \notin Asked /\ x.name \notin Resumes /\ x.name \notin Out
        BY <2>1
      <4> HIDE DEF x
      <4>2. /\ Append(Tail(mQueue), x) \in Seq(QueueEvents) /\ QueueOrder(Append(Tail(mQueue), x))
            /\ Names(Append(Tail(mQueue), x)) = Names(Tail(mQueue)) \cup {"emitStopOnce"}
        <5>1. Append(Tail(mQueue), x) \in Seq(QueueEvents)
          BY <3>1, <4>1, AppendOf
        <5>2. /\ QueueOrder(Append(Tail(mQueue), x))
              /\ Names(Append(Tail(mQueue), x)) = Names(Tail(mQueue)) \cup {x.name}
          BY <3>1, <4>1, QueueAdded
        <5> QED
          BY <4>1, <5>1, <5>2
      <4> QED
        BY <3>2, <4>2 DEF x
    <3>3. CASE ~mReceivedStop
      BY <3>1, <3>3
    <3> QED
      BY <3>2, <3>3
  <2>3. mQueue' = Append(q, Event("leaveGroup"))
    <3>1. Tail(mQueue) \in Seq(QueueEvents)
      BY <1>1, Ran
    <3>2. CASE mReceivedStop
      <4>1. mQueue' = Tail(mQueue) \o <<Event("emitStopOnce")>> \o <<Event("leaveGroup")>>
        BY <1>1, <1>2, <3>2 DEF StopIfReceived
      <4> QED
        BY <3>1, <3>2, <4>1, <2>1
    <3>3. CASE ~mReceivedStop
      <4>1. mQueue' = Tail(mQueue) \o <<>> \o <<Event("leaveGroup")>>
        BY <1>1, <3>3 DEF StopIfReceived
      <4> QED
        BY <3>1, <3>3, <4>1, <2>1
    <3> QED
      BY <3>2, <3>3
  <2> HIDE DEF q
  <2> QED
    BY <2>1, <2>2, <2>3, QueueAdded
<1>6. ChildHand'
  BY <1>1, <1>2, <1>4, <1>5, Ran, InvParts DEF ChildHand, Protocol, HandAt, OneToken, Waits, Started, Flows, Flushes, Finished, IPCActive,
         Requesting, Asking, Agreeing, Answering, Beginning, Starting, Ending, Flowing, Unborn, Over
<1>7. StopInv'
  <2>1. \A k \in 1..Len(output') : output'[k] # 0
    BY <1>3 DEF NoStop
  <2>2. ~Writing(mQueue') /\ "emitStop" \notin Names(mQueue')
    BY <1>2, <1>5 DEF Writing
  <2>3. /\ "emitStopOnce" \in Names(mQueue') => mReceivedStop
        /\ mReceivedStop' = mReceivedStop /\ mSentStop' = mSentStop /\ mState' = mState
        /\ mDisconnected' = mDisconnected /\ channel' = channel /\ onStop' = onStop
        /\ "redirected" \in Names(actorq) => "redirected" \in Names(actorq')
        /\ "disconnected" \in Names(actorq')
    BY <1>1, <1>4, <1>5, Ran, InvParts DEF StopInv
  <2> QED
    BY <1>2, <2>1, <2>2, <2>3, InvParts DEF StopInv, Writing
<1>8. Suspends'
  <2>1. /\ \A name \in {"suspend", "resume", "resumeOnly"} :
             name \in Names(mQueue') <=> name \in Names(mQueue)
        /\ \A name \in {"suspended", "resumed"} :
             name \in Names(actorq') <=> name \in Names(actorq)
        /\ mState' = mState /\ suspends' = suspends /\ cancelled' = cancelled
    <3>1. /\ Names(mQueue) = Names(Tail(mQueue)) \cup {"flush"}
          /\ mState' = mState /\ cancelled' = cancelled
      BY <1>1, Ran
    <3>2. Names(mQueue') \subseteq Names(Tail(mQueue)) \cup {"leaveGroup", "emitStopOnce"}
          /\ Names(Tail(mQueue)) \subseteq Names(mQueue')
      BY <1>5
    <3> QED
      BY <1>1, <1>4, <3>1, <3>2
  <2> QED
    BY <2>1, InvParts DEF Suspends, Asking, Agreeing, Resuming, IPCActive
<1> QED
  BY <1>4, <1>5, <1>6, <1>7, <1>8 DEF Kept

LEMMA RunEmitStopKept == Inv /\ RunEmitStop /\ UNCHANGED childVars => Kept
<1> SUFFICES ASSUME Inv, RunEmitStop, UNCHANGED childVars PROVE Kept
  OBVIOUS
<1>1. PICK name \in {"emitStop", "emitStopOnce"} : Runs(name) /\ (name = "emitStopOnce" => ~mSentStop)
  BY DEF RunEmitStop
<1>2. /\ child' = child /\ mQueue' = Tail(mQueue) /\ output' = Append(output, 0) /\ mSentStop' = TRUE
      /\ UNCHANGED <<actorq, suspends>>
  BY DEF RunEmitStop, EmitStopRequest, childVars
<1>3. /\ ~mSentStop /\ ~Writing(Tail(mQueue))
      /\ name = "emitStop" => mState = "Closed"
      /\ name = "emitStopOnce" => onStop = "done"
                                  /\ (mState = "Disconnected" \/ "disconnected" \in Names(actorq))
  BY <1>1, Ran, InvParts DEF StopInv, Stops, MainFree
<1>4. \A k \in 1..Len(output') : output'[k] = 0 => k = Len(output')
  BY <1>2, <1>3, Unstopped, ChunksAssumption, Emitted
<1>5. ChildHand'
  BY <1>1, <1>2, Ran, InvParts DEF ChildHand, Protocol, HandAt, OneToken, Waits, Started, Flows, Flushes, Finished, IPCActive,
         Requesting, Asking, Agreeing, Answering, Beginning, Starting, Ending, Flowing, Unborn, Over
<1>6. StopInv'
  BY <1>1, <1>2, <1>3, <1>4, Ran, InvParts DEF StopInv, Writing
<1>7. Suspends'
  BY <1>1, <1>2, Ran, InvParts DEF Suspends, Asking, Agreeing, Resuming, IPCActive
<1> QED
  BY <1>1, <1>2, <1>5, <1>6, <1>7, Ran, InvParts DEF Kept

LEMMA RunSilentKept == Inv /\ (RunStopSent \/ RunLeaveGroup) /\ UNCHANGED childVars => Kept
<1> SUFFICES ASSUME Inv, RunStopSent \/ RunLeaveGroup, UNCHANGED childVars PROVE Kept
  OBVIOUS
<1>1. PICK name \in {"emitStopOnce", "leaveGroup"} : Runs(name)
  BY DEF RunStopSent, RunLeaveGroup
<1>2. /\ child' = child /\ mQueue' = Tail(mQueue) /\ output' = output /\ mSentStop' = mSentStop
      /\ UNCHANGED <<actorq, suspends>>
  BY DEF RunStopSent, RunLeaveGroup, childVars
<1>3. ChildHand'
  BY <1>1, <1>2, Ran, InvParts DEF ChildHand, Protocol, HandAt, OneToken, Waits, Started, Flows, Flushes, Finished, IPCActive,
         Requesting, Asking, Agreeing, Answering, Beginning, Starting, Ending, Flowing, Unborn, Over
<1>4. StopInv'
  BY <1>1, <1>2, Ran, InvParts DEF StopInv, Writing
<1>5. Suspends'
  BY <1>1, <1>2, Ran, InvParts DEF Suspends, Asking, Agreeing, Resuming, IPCActive
<1> QED
  BY <1>1, <1>2, <1>3, <1>4, <1>5, Ran, InvParts DEF Kept

\* The channel was suspended, or resumed, and the actor hears of it.
LEMMA RunSuspendKept == Inv /\ RunSuspend /\ UNCHANGED childVars => Kept
<1> SUFFICES ASSUME Inv, RunSuspend, UNCHANGED childVars PROVE Kept
  OBVIOUS
<1>1. /\ Runs("suspend") /\ child' = child /\ mQueue' = Tail(mQueue)
      /\ suspends' = suspends + 1 /\ actorq' = Append(actorq, Event("suspended"))
      /\ UNCHANGED <<mSentStop, output>>
  BY DEF RunSuspend, childVars
<1>2. /\ suspends = 0 /\ ~Agreeing(actorq) /\ ~Answering(toChild) /\ ~Requesting(toParent)
      /\ ~Asking(Tail(mQueue)) /\ (child.mState # "Dead" => child.mState = "Suspending")
      /\ ~Resuming(mQueue) /\ mState # "Suspended"
  BY <1>1, Ran, InvParts DEF HandAt, OneToken, Waits, Suspends, Asking, Asked
<1>3. /\ Names(actorq') = Names(actorq) \cup {"suspended"} /\ ActorOrder(actorq')
      /\ actorq # <<>> => actorq' # <<>> /\ Head(actorq') = Head(actorq)
  <2>1. /\ Event("suspended") \in ActorEvents /\ Event("suspended").name = "suspended"
        /\ "suspended" \notin ActorStarts
    BY Kinds, Named DEF ActorStarts
  <2> QED
    BY <1>1, <1>2, <2>1, InvParts, QueueTypes, ActorAdded, AppendOf
<1>4. ChildHand'
  BY <1>1, <1>2, <1>3, Ran, InvParts DEF ChildHand, Protocol, HandAt, OneToken, Waits, Started, Flows, Flushes, Finished, IPCActive,
         Requesting, Asking, Agreeing, Answering, Beginning, Starting, Ending, Flowing, Unborn, Over
<1>5. StopInv'
  BY <1>1, <1>3, Ran, InvParts DEF StopInv, Writing
<1>6. Suspends'
  BY <1>1, <1>2, <1>3, Ran, InvParts DEF Suspends, Asking, Agreeing, Resuming, IPCActive
<1> QED
  BY <1>1, <1>3, <1>4, <1>5, <1>6, Ran DEF Kept

LEMMA RunResumeKept == Inv /\ RunResume /\ UNCHANGED childVars => Kept
<1> SUFFICES ASSUME Inv, RunResume, UNCHANGED childVars PROVE Kept
  OBVIOUS
<1>1. /\ child' = child /\ mQueue' = Tail(mQueue) /\ suspends' = suspends - 1
      /\ UNCHANGED <<mSentStop, output>>
  BY DEF RunResume, childVars
<1>2. CASE Runs("resume") /\ actorq' = Append(actorq, Event("resumed"))
  <2>1. /\ suspends' = 0 /\ ~Agreeing(actorq) /\ ~Answering(toChild) /\ ~Requesting(toParent)
        /\ ~Asking(Tail(mQueue)) /\ (child.mState # "Dead" => child.mState = "Resuming")
        /\ ~Resuming(Tail(mQueue)) /\ mState # "Suspended"
    BY <1>1, <1>2, Ran, InvParts DEF HandAt, OneToken, Waits, Suspends, Asking, Asked, Resuming, Resumes
  <2>2. /\ Names(actorq') = Names(actorq) \cup {"resumed"} /\ ActorOrder(actorq')
        /\ actorq # <<>> => actorq' # <<>> /\ Head(actorq') = Head(actorq)
    <3>1. /\ Event("resumed") \in ActorEvents /\ Event("resumed").name = "resumed"
          /\ "resumed" \notin ActorStarts
      BY Kinds, Named DEF ActorStarts
    <3> QED
      BY <1>2, <2>1, <3>1, InvParts, QueueTypes, ActorAdded, AppendOf
  <2>3. ChildHand'
    BY <1>1, <1>2, <2>1, <2>2, Ran, InvParts DEF ChildHand, Protocol, HandAt, OneToken, Waits, Started, Flows, Flushes, Finished, IPCActive,
         Requesting, Asking, Agreeing, Answering, Beginning, Starting, Ending, Flowing, Unborn, Over
  <2>4. StopInv'
    BY <1>1, <1>2, <2>2, Ran, InvParts DEF StopInv, Writing
  <2>5. Suspends'
    BY <1>1, <1>2, <2>1, <2>2, Ran, InvParts DEF Suspends, Asking, Agreeing, Resuming, IPCActive
  <2> QED
    BY <1>1, <1>2, <2>2, <2>3, <2>4, <2>5, Ran DEF Kept
<1>3. CASE Runs("resumeOnly") /\ actorq' = actorq
  <2>1. /\ suspends' = 0 /\ ~Agreeing(actorq) /\ ~Asking(mQueue)
        /\ ~Resuming(Tail(mQueue)) /\ ~IPCActive
    BY <1>1, <1>3, Ran, InvParts DEF Suspends, Asking, Resuming, Resumes
  <2>2. ChildHand'
    BY <1>1, <1>3, Ran, InvParts DEF ChildHand, Protocol, HandAt, OneToken, Waits, Started, Flows, Flushes, Finished, IPCActive,
         Requesting, Asking, Agreeing, Answering, Beginning, Starting, Ending, Flowing, Unborn, Over
  <2>3. StopInv'
    BY <1>1, <1>3, Ran, InvParts DEF StopInv, Writing
  <2>4. Suspends'
    BY <1>1, <1>3, <2>1, Ran, InvParts DEF Suspends, Asking, Agreeing, Resuming, IPCActive
  <2> QED
    BY <1>1, <1>3, <2>2, <2>3, <2>4, Ran, InvParts DEF Kept
<1> QED
  BY <1>2, <1>3 DEF RunResume

LEMMA NewChannelKept == Inv /\ (OnStartRequest \/ OnStartRedirected) /\ UNCHANGED childVars => Kept
<1> SUFFICES ASSUME Inv, OnStartRequest \/ OnStartRedirected, UNCHANGED childVars PROVE Kept
  OBVIOUS
<1>1. /\ child' = child /\ channel = "new" /\ channel' = "open"
      /\ UNCHANGED <<mState, mQueue, suspends, toParent, toChild, ipc, mReceivedStop, mSentStop,
                     oda, onStop, output, cancelled>>
  BY DEF OnStartRequest, OnStartRedirected, ListenerFrame, childVars
<1>2. PICK name \in ActorStarts : /\ actorq' = Append(actorq, Event(name))
                                  /\ name = "start" => mDisconnected' = mDisconnected
  BY DEF OnStartRequest, OnStartRedirected, ActorStarts
<1>3. actorq = <<>> /\ Names(actorq) = {} /\ mState = "Uninitialized"
  BY <1>1, InvParts, NoNames DEF HandAt, Started
<1>4. /\ Names(actorq') = {name} /\ ActorOrder(actorq') /\ actorq' # <<>>
      /\ Head(actorq').name = name
  <2>1. /\ Event(name) \in ActorEvents /\ Event(name).name = name /\ name \notin Agreed
        /\ ~Beginning(actorq) /\ name # "disconnected" /\ name # "data"
    BY <1>3, Kinds, Named DEF ActorStarts, Agreed, Beginning
  <2>2. actorq \in Seq(ActorEvents) /\ ActorOrder(actorq)
    BY InvParts, QueueTypes
  <2>3. Names(actorq') = Names(actorq) \cup {name} /\ ActorOrder(actorq')
    BY <1>2, <2>1, <2>2, ActorAdded
  <2>4. actorq' # <<>> /\ Head(actorq') = Event(name)
    BY <1>2, <1>3, <2>1, <2>2, AppendOf
  <2> QED
    BY <1>3, <2>1, <2>3, <2>4
<1>5. ChildHand'
  BY <1>1, <1>2, <1>3, <1>4, InvParts
  DEF ActorStarts, ChildHand, Protocol, HandAt, OneToken, Waits, Started, Flows, Flushes, Finished, IPCActive,
         Requesting, Asking, Agreeing, Answering, Beginning, Starting, Ending, Flowing, Unborn, Over
<1>6. StopInv'
  BY <1>1, <1>2, <1>3, <1>4, InvParts DEF ActorStarts, StopInv, Writing
<1>7. Suspends'
  BY <1>1, <1>2, <1>3, <1>4, InvParts DEF ActorStarts, Suspends, Asking, Agreeing, Resuming, IPCActive
<1> QED
  BY <1>1, <1>4, <1>5, <1>6, <1>7, InvParts DEF Kept

LEMMA DeliveredKept == Inv /\ (OnDataPassed \/ OnDataAvailable) /\ UNCHANGED childVars => Kept
<1> SUFFICES ASSUME Inv, OnDataPassed \/ OnDataAvailable, UNCHANGED childVars PROVE Kept
  OBVIOUS
<1>1. /\ child' = child /\ channel = "open"
      /\ UNCHANGED <<mState, mQueue, suspends, toParent, toChild, ipc, mReceivedStop, mSentStop,
                     mDisconnected, actorq, channel, onStop, cancelled>>
  BY DEF OnDataPassed, OnDataAvailable, Delivers, ListenerFrame, childVars
<1>2. ChildHand'
  BY <1>1, InvParts DEF ChildHand, Protocol, HandAt, OneToken, Waits, Started, Flows, Flushes, Finished, IPCActive,
         Requesting, Asking, Agreeing, Answering, Beginning, Starting, Ending, Flowing, Unborn, Over
<1>3. StopInv'
  <2>1. CASE OnDataAvailable
    <3>1. output' = output
      BY <2>1 DEF OnDataAvailable
    <3> QED
      BY <1>1, <3>1, InvParts DEF StopInv, Writing
  <2>2. CASE OnDataPassed
    <3>1. ~mSentStop
      BY <1>1, <2>2, InvParts DEF OnDataPassed, StopInv, HandAt, Started, Beginning
    <3>2. mBufferedData \in Seq(Chunks) /\ delivered + 1 \in 0..MaxChunks /\ delivered + 1 # 0
      BY <2>2, InvParts, ChunksAssumption DEF OnDataPassed, Delivers, TypeInv, ParentTypes
    <3>3. NoStop(output \o mBufferedData) /\ output \o mBufferedData \in Seq(0..MaxChunks)
      BY <3>1, <3>2, Unstopped, Flushing
    <3>4. output' = Append(output \o mBufferedData, delivered + 1)
      <4>1. output' = output \o mBufferedData \o <<delivered + 1>>
        BY <2>2 DEF OnDataPassed
      <4> QED
        BY <3>2, <3>3, <4>1
    <3>5. \A k \in 1..Len(output') : output'[k] # 0
      BY <3>2, <3>3, <3>4, Emitted DEF NoStop
    <3> QED
      BY <1>1, <3>1, <3>5, InvParts DEF StopInv, Writing
  <2> QED
    BY <2>1, <2>2
<1>4. Suspends'
  BY <1>1, InvParts DEF Suspends, Asking, Agreeing, Resuming, IPCActive
<1> QED
  BY <1>1, <1>2, <1>3, <1>4, InvParts DEF Kept

LEMMA StoppedKept == Inv /\ OnStopRequest /\ UNCHANGED childVars => Kept
<1> SUFFICES ASSUME Inv, OnStopRequest, UNCHANGED childVars PROVE Kept
  OBVIOUS
<1>1. /\ child' = child /\ channel = "open" /\ channel' = "stopped" /\ oda = 0 /\ oda' = 0
      /\ mReceivedStop' = TRUE /\ onStop' \in {"set", "late"}
      /\ UNCHANGED <<mState, mQueue, suspends, toParent, toChild, ipc, mSentStop,
                     mDisconnected, actorq, output, cancelled>>
  BY DEF OnStopRequest, ListenerFrame, childVars
<1>2. ChildHand'
  BY <1>1, InvParts DEF ChildHand, Protocol, HandAt, OneToken, Waits, Started, Flows, Flushes, Finished, IPCActive,
         Requesting, Asking, Agreeing, Answering, Beginning, Starting, Ending, Flowing, Unborn, Over
<1>3. StopInv'
  BY <1>1, InvParts DEF StopInv, Writing
<1>4. Suspends'
  BY <1>1, InvParts DEF Suspends, Asking, Agreeing, Resuming, IPCActive
<1> QED
  BY <1>1, <1>2, <1>3, <1>4, InvParts DEF Kept

\* The channel's threads go on with a chunk.
LEMMA DataKept ==
  Inv /\ (OnDataBuffered \/ OnDataClosed \/ OnDataDispatched) /\ UNCHANGED childVars => Kept
<1> SUFFICES ASSUME Inv, OnDataBuffered \/ OnDataClosed \/ OnDataDispatched, UNCHANGED childVars
             PROVE  Kept
  OBVIOUS
<1>1. /\ child' = child /\ oda # 0 /\ oda' = 0
      /\ UNCHANGED <<mState, mQueue, suspends, toParent, toChild, ipc, mReceivedStop, mSentStop,
                     mDisconnected, onStop, output, channel>>
  BY DEF OnDataBuffered, OnDataClosed, OnDataDispatched, OdaFrame, ListenerFrame, childVars
<1>2. channel = "open" /\ "stop" \notin Names(actorq)
  BY <1>1, InvParts DEF HandAt, Flows
<1>3. /\ ActorOrder(actorq')
      /\ Names(actorq) \subseteq Names(actorq') /\ Names(actorq') \subseteq Names(actorq) \cup {"data"}
      /\ actorq # <<>> => actorq' # <<>> /\ Head(actorq') = Head(actorq)
  <2>1. CASE OnDataBuffered \/ OnDataClosed
    <3>1. actorq' = actorq
      BY <2>1 DEF OnDataBuffered, OnDataClosed
    <3> QED
      BY <3>1, InvParts
  <2>2. CASE OnDataDispatched
    <3>1. /\ actorq' = Append(actorq, DoSendData(oda)) /\ DoSendData(oda) \in ActorEvents
          /\ DoSendData(oda).name = "data" /\ "data" \notin Agreed /\ "data" \notin ActorStarts
      <4>1. oda \in Chunks
        BY <1>1, InvParts, ChunksAssumption DEF TypeInv, ParentTypes, Chunks
      <4> QED
        BY <2>2, <4>1, Kinds, Named DEF OnDataDispatched, Agreed, ActorStarts
    <3>2. actorq \in Seq(ActorEvents) /\ ActorOrder(actorq)
      BY InvParts, QueueTypes
    <3>3. /\ Names(actorq') = Names(actorq) \cup {"data"} /\ ActorOrder(actorq')
          /\ actorq # <<>> => actorq' # <<>> /\ Head(actorq') = Head(actorq)
      BY <1>2, <3>1, <3>2, ActorAdded, AppendOf
    <3> QED
      BY <3>3
  <2> QED
    BY <2>1, <2>2
<1>4. cancelled' = cancelled \/ cancelled' = TRUE
  BY DEF OnDataBuffered, OnDataClosed, OnDataDispatched
<1>5. ChildHand'
  BY <1>1, <1>2, <1>3, InvParts DEF ChildHand, Protocol, HandAt, OneToken, Waits, Started, Flows, Flushes, Finished, IPCActive,
         Requesting, Asking, Agreeing, Answering, Beginning, Starting, Ending, Flowing, Unborn, Over
<1>6. StopInv'
  BY <1>1, <1>2, <1>3, InvParts DEF StopInv, Writing
<1>7. Suspends'
  BY <1>1, <1>3, <1>4, InvParts DEF Suspends, Asking, Agreeing, Resuming, IPCActive
<1> QED
  BY <1>1, <1>3, <1>5, <1>6, <1>7, InvParts DEF Kept

LEMMA StopPassedKept == Inv /\ OnStopPassed /\ UNCHANGED childVars => Kept
<1> SUFFICES ASSUME Inv, OnStopPassed, UNCHANGED childVars PROVE Kept
  OBVIOUS
<1>1. /\ child' = child /\ onStop \in {"set", "late"} /\ onStop' = "done" /\ mDisconnected
      /\ output' = Append(output, 0) /\ mSentStop' = TRUE
      /\ UNCHANGED <<mState, mQueue, suspends, toParent, toChild, ipc, mReceivedStop, oda,
                     mDisconnected, actorq, channel, cancelled>>
  BY DEF OnStopPassed, OnStopFrame, EmitStopRequest, ListenerFrame, childVars
<1>2. /\ ~mSentStop /\ mState # "Closed" /\ (mState = "Disconnected" \/ "redirected" \in Names(actorq))
      /\ ~Writing(mQueue) /\ "emitStop" \notin Names(mQueue)
  <2>1. mState = "Disconnected" \/ ("redirected" \in Names(actorq) /\ mState = "Uninitialized" /\ mQueue = <<>>)
    BY <1>1, InvParts DEF StopInv, HandAt, Started, Beginning
  <2>2. ~Writing(mQueue)
    BY <2>1, InvParts, NoNames DEF StopInv, Writing
  <2> QED
    BY <1>1, <2>1, <2>2, InvParts DEF StopInv, Writing
<1>3. \A k \in 1..Len(output') : output'[k] = 0 => k = Len(output')
  BY <1>1, <1>2, Unstopped, ChunksAssumption, Emitted
<1>4. ChildHand'
  BY <1>1, InvParts DEF ChildHand, Protocol, HandAt, OneToken, Waits, Started, Flows, Flushes, Finished, IPCActive,
         Requesting, Asking, Agreeing, Answering, Beginning, Starting, Ending, Flowing, Unborn, Over
<1>5. StopInv'
  BY <1>1, <1>2, <1>3, InvParts DEF StopInv, Writing
<1>6. Suspends'
  BY <1>1, InvParts DEF Suspends, Asking, Agreeing, Resuming, IPCActive
<1> QED
  BY <1>1, <1>4, <1>5, <1>6, InvParts DEF Kept

LEMMA StopDispatchedKept == Inv /\ OnStopDispatched /\ UNCHANGED childVars => Kept
<1> SUFFICES ASSUME Inv, OnStopDispatched, UNCHANGED childVars PROVE Kept
  OBVIOUS
<1>1. /\ child' = child /\ onStop \in {"set", "late"} /\ onStop' = "done" /\ ~mDisconnected
      /\ actorq' = Append(actorq, Event("stop"))
      /\ UNCHANGED <<mState, mQueue, suspends, toParent, toChild, ipc, mReceivedStop, mSentStop, oda,
                     mDisconnected, output, channel, cancelled>>
  BY DEF OnStopDispatched, OnStopFrame, ListenerFrame, childVars
<1>2. channel = "stopped"
  BY <1>1, InvParts DEF HandAt, Flows
<1>3. /\ Names(actorq') = Names(actorq) \cup {"stop"} /\ ActorOrder(actorq')
      /\ actorq # <<>> => actorq' # <<>> /\ Head(actorq') = Head(actorq)
  <2>1. /\ Event("stop") \in ActorEvents /\ Event("stop").name = "stop"
        /\ "stop" \notin Agreed /\ "stop" \notin ActorStarts
    BY Kinds, Named DEF Agreed, ActorStarts
  <2>2. actorq \in Seq(ActorEvents) /\ ActorOrder(actorq)
    BY InvParts, QueueTypes
  <2> QED
    BY <1>1, <2>1, <2>2, ActorAdded, AppendOf
<1>4. ChildHand'
  BY <1>1, <1>2, <1>3, InvParts DEF ChildHand, Protocol, HandAt, OneToken, Waits, Started, Flows, Flushes, Finished, IPCActive,
         Requesting, Asking, Agreeing, Answering, Beginning, Starting, Ending, Flowing, Unborn, Over
<1>5. StopInv'
  BY <1>1, <1>2, <1>3, InvParts DEF StopInv, Writing
<1>6. Suspends'
  BY <1>1, <1>3, InvParts DEF Suspends, Asking, Agreeing, Resuming, IPCActive
<1> QED
  BY <1>1, <1>3, <1>4, <1>5, <1>6, InvParts DEF Kept

LEMMA ParentSteps == Inv /\ Parent /\ UNCHANGED childVars => TypeInv' /\ Kept
<1> SUFFICES ASSUME Inv, Parent, UNCHANGED childVars PROVE TypeInv' /\ Kept
  OBVIOUS
<1>1. TypeInv'
  <2>1. ParentTypes' /\ IpcTypeOK'
    BY InvParts, ActorThreadTypes, QueueThreadsTypes, ListenerTypes DEF Parent
  <2>2. ChildInv'
    <3>1. UNCHANGED <<child, emitting, kept, script, calls, ended>>
      BY DEF childVars
    <3> QED
      BY <3>1, InvParts DEF TypeInv, ChildInv, ChildTypeOK, Fits
  <2> QED
    BY <2>1, <2>2 DEF TypeInv
<1>2. CASE ActorThread
  <2>1. ActRedirected \/ ActStart \/ ActDisconnected => Kept
    BY RedirectedKept, StartedKept, DisconnectedKept
  <2>2. ActStop \/ ActSuspended \/ ActResumed \/ ActSendData \/ ActUnheard \/ ActDropData => Kept
    BY TellingKept, UnheardKept
  <2>3. ActClose \/ ActError => Kept
    BY ClosingKept
  <2>4. RecvWrite \/ RecvSuspend \/ RecvResume \/ RecvDisconnect => Kept
    BY WriteKept, SuspendKept, ResumeKept, DisconnectKept
  <2>5. RecvIgnored \/ RecvFlushedData \/ RecvClose \/ RecvDestroy => Kept
    BY IgnoredKept, FlushedDataKept, CloseKept, DestroyKept
  <2> QED
    BY <1>1, <1>2, <2>1, <2>2, <2>3, <2>4, <2>5 DEF ActorThread
<1>3. CASE QueueThreads
  <2>1. RunWrite \/ RunFlush \/ RunEmitStop => Kept
    BY RunWriteKept, RunFlushKept, RunEmitStopKept
  <2>2. RunStopSent \/ RunLeaveGroup \/ RunSuspend \/ RunResume => Kept
    BY RunSilentKept, RunSuspendKept, RunResumeKept
  <2> QED
    BY <1>1, <1>3, <2>1, <2>2 DEF QueueThreads
<1>4. CASE Channel \/ Listener
  <2>1. OnStartRequest \/ OnStartRedirected \/ OnDataPassed \/ OnDataAvailable \/ OnStopRequest => Kept
    BY NewChannelKept, DeliveredKept, StoppedKept
  <2>2. OnDataBuffered \/ OnDataClosed \/ OnDataDispatched \/ OnStopPassed \/ OnStopDispatched => Kept
    BY DataKept, StopPassedKept, StopDispatchedKept
  <2> QED
    BY <1>1, <1>4, <2>1, <2>2 DEF Channel, Listener
<1> QED
  BY <1>1, <1>2, <1>3, <1>4 DEF Parent

LEMMA ChildStepKept == Inv /\ (Child \/ ChildEnd) /\ UNCHANGED parentVars => TypeInv' /\ Kept
<1> SUFFICES ASSUME Inv, Child \/ ChildEnd, UNCHANGED parentVars PROVE TypeInv' /\ Kept
  OBVIOUS
<1>1. TypeInv' /\ ChildHand'
  BY ChildSteps DEF Inv
<1>2. UNCHANGED <<mQueue, actorq, mState, mDisconnected, mReceivedStop, mSentStop, onStop, output,
                  channel, suspends, cancelled>>
  BY DEF parentVars, channelVars
<1>3. StopInv'
  BY <1>2, InvParts DEF StopInv, Writing
<1>4. Suspends'
  BY <1>2, InvParts DEF Suspends, Asking, Agreeing, Resuming, IPCActive
<1> QED
  BY <1>1, <1>2, <1>3, <1>4, InvParts DEF Kept

LEMMA InvInit == Init => Inv
<1> SUFFICES ASSUME Init PROVE Inv
  OBVIOUS
<1>1. TypeInv
  <2>1. 0 \in 0..MaxChunks /\ 0 \in 0..MaxCalls /\ 0 \in Int
    BY ChunksAssumption, CallsAssumption
  <2>2. /\ <<>> \in Seq(Chunks) /\ <<>> \in Seq(QueueEvents) /\ <<>> \in Seq(ActorEvents)
        /\ <<>> \in Seq(0..MaxChunks) /\ <<>> \in Seq(ToParent) /\ <<>> \in Seq(ToChild)
    OBVIOUS
  <2>3. ParentTypes /\ IpcTypeOK
    BY <2>1, <2>2 DEF Init, IpcInit, ParentInit, ParentTypes, IpcTypeOK
  <2>4. ChildInv
    BY <2>1, <2>2 DEF Init, ChildInit, ChildInv, ChildTypeOK, Fits, States
  <2> QED
    BY <2>3, <2>4 DEF TypeInv
<1>2. Names(toChild) = {} /\ Names(toParent) = {} /\ Names(mQueue) = {} /\ Names(actorq) = {}
  BY NoNames DEF Init, IpcInit, ParentInit
<1>3. /\ ToChildOrder(toChild) /\ ToParentOrder(toParent) /\ QueueOrder(mQueue) /\ ActorOrder(actorq)
  BY DEF Init, IpcInit, ParentInit, ToChildOrder, ToParentOrder, QueueOrder, ActorOrder,
         Once, NotBehind, OnlyLast
<1>4. ChildHand
  BY <1>2, <1>3 DEF Init, IpcInit, ParentInit, ChildInit, ChildHand, Protocol, HandAt, OneToken, Waits, Started, Flows, Flushes, Finished, IPCActive,
         Requesting, Asking, Agreeing, Answering, Beginning, Starting, Ending, Flowing, Unborn, Over
<1>5. StopInv /\ Suspends
  BY <1>2 DEF Init, ParentInit, StopInv, Writing, Suspends, Asking, Agreeing, Resuming, IPCActive
<1> QED
  BY <1>1, <1>3, <1>4, <1>5 DEF Inv

LEMMA InvStep == Inv /\ [Next]_vars => Inv'
<1> SUFFICES ASSUME Inv, [Next]_vars PROVE Inv'
  OBVIOUS
<1>1. CASE Next
  BY <1>1, ParentSteps, ChildStepKept DEF Next, Kept, Inv
<1>2. CASE UNCHANGED vars
  <2>1. TypeInv'
    BY <1>2, InvParts DEF vars, ipcVars, childVars, parentVars, channelVars, TypeInv, IpcTypeOK,
                          ParentTypes, ChildInv, ChildTypeOK, Fits
  <2>2. UNCHANGED parentVars /\ UNCHANGED childVars /\ UNCHANGED ipcVars
    BY <1>2 DEF vars
  <2>3. ChildHand'
    BY <2>2, Unmoved, InvParts DEF Inv, ChildHand, ChildUnseen, parentVars, channelVars, childVars, ipcVars
  <2>4. QueueOrder(mQueue') /\ ActorOrder(actorq')
    BY <2>2, InvParts DEF parentVars
  <2>5. StopInv'
    BY <2>2, InvParts DEF parentVars, channelVars, StopInv, Writing
  <2>6. Suspends'
    BY <2>2, InvParts DEF parentVars, channelVars, Suspends, Asking, Agreeing, Resuming, IPCActive
  <2> QED
    BY <2>1, <2>3, <2>4, <2>5, <2>6 DEF Inv
<1> QED
  BY <1>1, <1>2

LEMMA InvAlways == Spec => []Inv
<1>1. Init => Inv
  BY InvInit
<1>2. Inv /\ [Next]_vars => Inv'
  BY InvStep
<1> QED
  BY <1>1, <1>2, PTL DEF Spec

-----------------------------------------------------------------------------
(***************************************************************************)
(* Theorems.                                                               *)
(***************************************************************************)
\* The state of parent, child and queues is of the kind the code declares; the
\* channel's suspend count, which Resume decrements, never becomes negative.
THEOREM FilterTypes == Spec => []TypeOK
<1>1. Inv => TypeOK
  <2> SUFFICES ASSUME Inv PROVE TypeOK
    OBVIOUS
  <2>1. suspends \in Nat
    BY InvParts DEF Suspends
  <2> QED
    BY <2>1, InvParts DEF TypeOK, TypeInv, ChildInv, ParentTypes, ParentTypeOK
<1> QED
  BY <1>1, InvAlways, PTL

\* The channel's listener gets OnStopRequest at most once and nothing behind it:
\* OnStopRequest, RecvClose's event and the flush's event never both emit it, and
\* no queued write or buffered chunk comes after it.
THEOREM StopComesLast == Spec => []StopIsLast
<1>1. Inv => StopIsLast
  BY InvParts DEF StopInv, StopIsLast
<1> QED
  BY <1>1, InvAlways, PTL

\* Each side's handlers find what they assert: an answer of the parent finds the
\* child waiting for it, data comes to a child that can take it and never after the
\* stop, and FlushedData finds the parent Disconnecting, however the threads of
\* the parent and the two processes interleave.
THEOREM HandlersFindTheirState == Spec => []HandshakesMatch
<1>1. Inv => HandshakesMatch
  <2> SUFFICES ASSUME Inv PROVE HandshakesMatch
    OBVIOUS
  <2>1. ASSUME toChild # <<>>, emitting = "no", ~In(child, {"Uninitialized", "Dead"})
        PROVE  Expected(Head(toChild))
    <3>1. /\ Head(toChild) \in ToChild /\ Head(toChild).name \in Names(toChild)
          /\ child.mState \in States /\ child.mState # "Dead" /\ child.mState # "Uninitialized"
      <4>1. Head(toChild) \in ToChild /\ Head(toChild).name \in Names(toChild)
        BY <2>1, InvParts, QueueTypes, ToChildTaken
      <4> QED
        BY <2>1, <4>1, InvParts DEF In, TypeInv, ChildInv, ChildTypeOK
    <3>2. CASE Head(toChild).name \in {"StartRequest", "Suspended", "Resumed", "Closed", "FlushData"}
      BY <3>1, <3>2, InvParts DEF Expected, In, HandAt, Waits, Started, Starting, Unborn
    <3>3. CASE Head(toChild).name = "Data"
      <4>1. ~child.mReceivedOnStop /\ child.mState \notin Over
        BY <3>1, <3>3, InvParts DEF HandAt, Flows, Flowing
      <4>2. child.mState \notin Unborn
        BY <2>1, <3>3, InvParts DEF HandAt, Started, Starts
      <4>3. child.mState # "FinishedTransferringData"
        BY <3>1, <4>1, InvParts DEF TypeInv, ChildInv, Fits
      <4> QED
        BY <3>1, <3>3, <4>1, <4>2, <4>3 DEF Expected, In, States, Over, Unborn
    <3>4. CASE Head(toChild).name \notin {"StartRequest", "Suspended", "Resumed", "Closed",
                                          "FlushData", "Data"}
      BY <3>4 DEF Expected
    <3> QED
      BY <3>2, <3>3, <3>4
  <2>2. ASSUME toParent # <<>>, Head(toParent).name = "FlushedData"
        PROVE  mState = "Disconnecting"
    <3>1. "FlushedData" \in Names(toParent) /\ ipc = "open"
      BY <2>2, InvParts, QueueTypes, ToParentTaken DEF HandAt, Started
    <3> QED
      BY <3>1, InvParts DEF HandAt, Flushes
  <2> QED
    BY <2>1, <2>2 DEF HandshakesMatch
<1> QED
  BY <1>1, InvAlways, PTL

\* Every suspension of the channel is undone or known of: it is suspended at most
\* once, and while it is, the actor is Suspended or will be told, or a resume is
\* queued, unless the filter was closed or broken.
THEOREM ChannelIsResumed == Spec => []ChannelNotStranded
<1>1. Inv => ChannelNotStranded
  <2> SUFFICES ASSUME Inv PROVE ChannelNotStranded
    OBVIOUS
  <2>1. /\ \A name : QueueWill(name) <=> name \in Names(mQueue)
        /\ \A name : ActorWill(name) <=> name \in Names(actorq)
    BY DEF QueueWill, ActorWill, Names
  <2>2. mState \in {"Uninitialized", "TransferringData", "Suspended", "Closed", "Disconnecting",
                    "Disconnected"}
    BY InvParts DEF TypeInv, ParentTypes
  <2> QED
    BY <2>1, <2>2, InvParts DEF ChannelNotStranded, Suspends, Asking, Agreeing
<1> QED
  BY <1>1, InvAlways, PTL
=============================================================================
