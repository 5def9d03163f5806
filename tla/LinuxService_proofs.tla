------------------------- MODULE LinuxService_proofs -------------------------
(***************************************************************************)
(* The Linux port keeps what it promises its clients, for every value of   *)
(* the constants: a removed callback stays quiet, since calls, the table   *)
(* and the posts of the main thread's queue keep an order; and the port    *)
(* implements WatchService.                                                *)
(***************************************************************************)
EXTENDS LinuxWatcher_proofs

-----------------------------------------------------------------------------
(***************************************************************************)
(* A removed callback stays quiet.                                         *)
(***************************************************************************)
PairOf(r) == <<r.path, r.cb>>

SuccessesIn(q) ==
    {r \in Calls : \E n \in 1..Len(q) : q[n].kind = "success" /\ q[n].call = r}

\* The calls of a queue stand in the order in which they were made.
Increasing(q) ==
    \A m, n \in 1..Len(q) :
        m < n /\ q[m] \in Calls /\ q[n] \in Calls => q[m].id < q[n].id

\* A post that calls x's callback; one that answers the latest call on x, a removal.
Carries(m, x) == m.kind = "change" /\ m.path = x[1] /\ x[2] \in m.cbs
Answers(m, x) == /\ m.kind = "success"
                 /\ m.call.op = "remove"
                 /\ PairOf(m.call) = x
                 /\ m.call.id = lastCall[x]

\* Calls are executed in the order of their ids, and answered after that.
CallOrder ==
    /\ Increasing(ioq)
    /\ \A r \in CallsIn(ioq) : r.id <= calls /\ r.id <= lastCall[PairOf(r)]
    /\ \A s \in SuccessesIn(mainq) : s.id <= calls
    /\ \A s \in SuccessesIn(mainq), r \in CallsIn(ioq) : s.id < r.id

NoOrphans ==
    \A p \in Paths : mWatchedResourcesByPath[p] = NoWd => mChangeCallbacksTable[p] = {}

\* Behind the answer to the removal of x no post carries x, and the table has no x.
AnswerOrder ==
    \A k \in 1..Len(mainq), x \in Pairs : Answers(mainq[k], x) =>
        /\ x[2] \notin mChangeCallbacksTable[x[1]]
        /\ \A n \in 1..Len(mainq) : k < n => ~Carries(mainq[n], x)

QuietInv ==
    \A x \in quiet :
        /\ x[2] \notin mChangeCallbacksTable[x[1]]
        /\ \A r \in CallsIn(ioq) : PairOf(r) # x
        /\ \A n \in 1..Len(mainq) : ~Carries(mainq[n], x)

RemovalInv == CallOrder /\ NoOrphans /\ AnswerOrder /\ QuietInv

-----------------------------------------------------------------------------
(***************************************************************************)
(* Queues.                                                                 *)
(***************************************************************************)
LEMMA CallTypes ==
  ASSUME NEW r \in Calls
  PROVE  /\ r.id \in Nat /\ PairOf(r) \in Pairs
         /\ r # RunTask /\ r # DeactivateTask
  BY WatcherAssumption DEF Calls, CallIds, PairOf, Pairs, RunTask, DeactivateTask

\* Appending a runnable that is no call, and taking the oldest one.
LEMMA CallsInProperties ==
  ASSUME NEW q \in Seq(Tasks)
  PROVE  /\ \A t \in {RunTask, DeactivateTask} :
              CallsIn(Append(q, t)) = CallsIn(q) /\ (Increasing(q) => Increasing(Append(q, t)))
         /\ q # <<>> => CallsIn(Tail(q)) \subseteq CallsIn(q)
         /\ q # <<>> /\ Increasing(q) => Increasing(Tail(q))
         /\ q # <<>> /\ Head(q) \in Calls => Head(q) \in CallsIn(q)
         /\ q # <<>> /\ Increasing(q) /\ Head(q) \in Calls =>
              \A r \in CallsIn(Tail(q)) : Head(q).id < r.id
<1>1. ASSUME NEW t \in {RunTask, DeactivateTask}
      PROVE  CallsIn(Append(q, t)) = CallsIn(q) /\ (Increasing(q) => Increasing(Append(q, t)))
  <2>1. t \notin Calls /\ t \in Tasks
    BY CallTypes DEF Tasks
  <2>2. /\ Len(Append(q, t)) = Len(q) + 1 /\ Len(q) \in Nat
        /\ Append(q, t)[Len(q) + 1] = t
        /\ \A n \in 1..Len(q) : Append(q, t)[n] = q[n]
    BY <2>1
  <2>3. CallsIn(Append(q, t)) = CallsIn(q)
    BY <2>1, <2>2 DEF CallsIn
  <2>4. Increasing(q) => Increasing(Append(q, t))
    BY <2>1, <2>2 DEF Increasing
  <2> QED
    BY <2>3, <2>4
<1>2. ASSUME q # <<>>
      PROVE  /\ CallsIn(Tail(q)) \subseteq CallsIn(q)
             /\ Increasing(q) => Increasing(Tail(q))
             /\ Head(q) \in Calls => Head(q) \in CallsIn(q)
             /\ Increasing(q) /\ Head(q) \in Calls =>
                  \A r \in CallsIn(Tail(q)) : Head(q).id < r.id
  <2>1. /\ Len(Tail(q)) = Len(q) - 1 /\ Len(q) \in Nat /\ Len(q) >= 1
        /\ Head(q) = q[1]
        /\ \A n \in 1..Len(Tail(q)) : Tail(q)[n] = q[n + 1]
    BY <1>2
  <2>2. CallsIn(Tail(q)) \subseteq CallsIn(q)
    BY <2>1 DEF CallsIn
  <2>3. Increasing(q) => Increasing(Tail(q))
    BY <2>1 DEF Increasing
  <2>4. Head(q) \in Calls => Head(q) \in CallsIn(q)
    BY <2>1 DEF CallsIn
  <2>5. ASSUME Increasing(q), Head(q) \in Calls, NEW r \in CallsIn(Tail(q))
        PROVE  Head(q).id < r.id
    <3>1. PICK n \in 1..Len(Tail(q)) : Tail(q)[n] = r
      BY DEF CallsIn
    <3>2. /\ q[n + 1] = r /\ n + 1 \in 1..Len(q) /\ 1 \in 1..Len(q) /\ 1 < n + 1
          /\ r \in Calls
      BY <2>1, <3>1 DEF CallsIn
    <3> QED
      BY <2>1, <2>5, <3>2 DEF Increasing
  <2> QED
    BY <2>2, <2>3, <2>4, <2>5
<1> QED
  BY <1>1, <1>2

LEMMA CallAppended ==
  ASSUME NEW q \in Seq(Tasks), NEW r \in Calls
  PROVE  /\ CallsIn(Append(q, r)) = CallsIn(q) \cup {r}
         /\ Increasing(q) /\ (\A s \in CallsIn(q) : s.id < r.id) => Increasing(Append(q, r))
<1>1. /\ Len(Append(q, r)) = Len(q) + 1 /\ Len(q) \in Nat
      /\ Append(q, r)[Len(q) + 1] = r
      /\ \A n \in 1..Len(q) : Append(q, r)[n] = q[n]
  BY DEF Tasks
<1>2. CallsIn(Append(q, r)) = CallsIn(q) \cup {r}
  BY <1>1 DEF CallsIn
<1>3. ASSUME Increasing(q), \A s \in CallsIn(q) : s.id < r.id
      PROVE  Increasing(Append(q, r))
  <2>1. \A m \in 1..Len(q) : q[m] \in Calls => q[m].id < r.id
    BY <1>3 DEF CallsIn
  <2> QED
    BY <1>1, <1>3, <2>1 DEF Increasing
<1> QED
  BY <1>2, <1>3

\* Posts: a change or an error adds no success; a success adds its call.
LEMMA SuccessesInProperties ==
  ASSUME NEW q \in Seq(Posts), NEW m \in Posts
  PROVE  /\ m.kind # "success" => SuccessesIn(Append(q, m)) = SuccessesIn(q)
         /\ m.kind = "success" => SuccessesIn(Append(q, m)) = SuccessesIn(q) \cup {m.call}
         /\ q # <<>> => SuccessesIn(Tail(q)) \subseteq SuccessesIn(q)
<1>1. /\ Len(Append(q, m)) = Len(q) + 1 /\ Len(q) \in Nat
      /\ Append(q, m)[Len(q) + 1] = m
      /\ \A n \in 1..Len(q) : Append(q, m)[n] = q[n]
  OBVIOUS
<1>2. m.kind # "success" => SuccessesIn(Append(q, m)) = SuccessesIn(q)
  BY <1>1 DEF SuccessesIn
<1>3. ASSUME m.kind = "success"
      PROVE  SuccessesIn(Append(q, m)) = SuccessesIn(q) \cup {m.call}
  <2>1. m.call \in Calls
    BY <1>3 DEF Posts, Changes, Errors, Successes
  <2> QED
    BY <1>1, <1>3, <2>1 DEF SuccessesIn
<1>4. ASSUME q # <<>> PROVE SuccessesIn(Tail(q)) \subseteq SuccessesIn(q)
  <2>1. /\ Len(Tail(q)) = Len(q) - 1 /\ Len(q) \in Nat /\ Len(q) >= 1
        /\ \A n \in 1..Len(Tail(q)) : Tail(q)[n] = q[n + 1]
    BY <1>4
  <2> QED
    BY <2>1 DEF SuccessesIn
<1> QED
  BY <1>2, <1>3, <1>4

-----------------------------------------------------------------------------
(***************************************************************************)
(* The steps of the IO thread.                                             *)
(***************************************************************************)
\* What a step of the IO thread may post.
Fits(m) ==
    /\ m.kind = "change" => m.cbs \subseteq mChangeCallbacksTable[m.path]
    /\ m.kind = "success" =>
        /\ m.call.id <= calls
        /\ \A r \in CallsIn(ioq') : m.call.id < r.id
        /\ m.call.op = "remove" => m.call.cb \notin mChangeCallbacksTable'[m.call.path]

\* A pair that a call waits for has no answer under way.
LEMMA WaitingUnanswered ==
  ASSUME TypeInv, RemovalInv, NEW r \in CallsIn(ioq), NEW k \in 1..Len(mainq)
  PROVE  ~Answers(mainq[k], PairOf(r))
<1>1. mainq \in Seq(Posts) /\ r \in Calls
  BY DEF TypeInv, TypeOK, QueueTypeOK, CallsIn
<1>2. lastCall \in [Pairs -> 0..MaxCalls]
  BY DEF TypeInv, TypeOK, ServiceTypeOK
<1> SUFFICES ASSUME Answers(mainq[k], PairOf(r)) PROVE FALSE
  OBVIOUS
<1>3. mainq[k] \in Posts
  BY <1>1
<1>4. mainq[k].kind = "success" /\ mainq[k].call.id = lastCall[PairOf(r)]
  BY DEF Answers
<1>5. mainq[k].call \in Calls
  BY <1>3, <1>4 DEF Posts, Changes, Errors, Successes
<1>6. mainq[k].call \in SuccessesIn(mainq)
  BY <1>4, <1>5 DEF SuccessesIn
<1>7. mainq[k].call.id < r.id /\ r.id <= lastCall[PairOf(r)]
  BY <1>6 DEF RemovalInv, CallOrder
<1>8. mainq[k].call.id \in Nat /\ r.id \in Nat
  BY <1>1, <1>5, CallTypes
<1> QED
  BY <1>4, <1>7, <1>8

LEMMA RemovalFrame ==
  ASSUME TypeInv, RemovalInv, NoOrphans',
         UNCHANGED <<calls, lastCall, quiet>>,
         CallsIn(ioq') \subseteq CallsIn(ioq), Increasing(ioq'),
         \A y \in Pairs : y[2] \in mChangeCallbacksTable'[y[1]] =>
             \/ y[2] \in mChangeCallbacksTable[y[1]]
             \/ \E r \in CallsIn(ioq) : PairOf(r) = y,
         \/ mainq' = mainq
         \/ \E m \in Posts : mainq' = Append(mainq, m) /\ Fits(m)
  PROVE  RemovalInv'
<1>0. mainq \in Seq(Posts) /\ quiet \subseteq Pairs
  BY DEF TypeInv, TypeOK, QueueTypeOK, ServiceTypeOK
<1>a. ASSUME NEW y \in Pairs, NEW k \in 1..Len(mainq), Answers(mainq[k], y)
      PROVE  /\ y[2] \notin mChangeCallbacksTable'[y[1]]
             /\ y[2] \notin mChangeCallbacksTable[y[1]]
  <2>1. y[2] \notin mChangeCallbacksTable[y[1]]
    BY <1>a DEF RemovalInv, AnswerOrder
  <2>2. \A r \in CallsIn(ioq) : PairOf(r) # y
    BY <1>a, WaitingUnanswered
  <2> QED
    BY <2>1, <2>2
<1>q. ASSUME NEW x \in quiet
      PROVE  /\ x[2] \notin mChangeCallbacksTable'[x[1]]
             /\ x[2] \notin mChangeCallbacksTable[x[1]]
             /\ \A r \in CallsIn(ioq') : PairOf(r) # x
  BY <1>0 DEF RemovalInv, QuietInv
<1>1. CASE mainq' = mainq
  <2>1. CallOrder'
    BY <1>1 DEF RemovalInv, CallOrder, Increasing, CallsIn, SuccessesIn, PairOf
  <2>2. AnswerOrder'
    BY <1>1, <1>a DEF RemovalInv, AnswerOrder, Answers, Carries, PairOf
  <2>3. QuietInv'
    BY <1>1, <1>q DEF RemovalInv, QuietInv, Carries, CallsIn, PairOf
  <2> QED
    BY <2>1, <2>2, <2>3 DEF RemovalInv
<1>2. ASSUME NEW m \in Posts, mainq' = Append(mainq, m), Fits(m) PROVE RemovalInv'
  <2>0. /\ Len(mainq') = Len(mainq) + 1 /\ Len(mainq) \in Nat
        /\ mainq'[Len(mainq) + 1] = m
        /\ \A n \in 1..Len(mainq) : mainq'[n] = mainq[n]
    BY <1>0, <1>2
  <2>1. CallOrder'
    <3>1. \A s \in SuccessesIn(mainq') :
            \/ s \in SuccessesIn(mainq)
            \/ m.kind = "success" /\ s = m.call
      BY <1>0, <1>2, SuccessesInProperties
    <3>2. \A s \in SuccessesIn(mainq') : s.id <= calls
      BY <1>2, <3>1 DEF RemovalInv, CallOrder, Fits
    <3>3. \A s \in SuccessesIn(mainq'), r \in CallsIn(ioq') : s.id < r.id
      BY <1>2, <3>1 DEF RemovalInv, CallOrder, Fits
    <3>4. \A r \in CallsIn(ioq') : r.id <= calls /\ r.id <= lastCall[PairOf(r)]
      BY DEF RemovalInv, CallOrder
    <3> QED
      BY <3>2, <3>3, <3>4 DEF CallOrder, Increasing, CallsIn, SuccessesIn, PairOf
  <2>2. AnswerOrder'
    <3> SUFFICES ASSUME NEW k \in 1..Len(mainq'), NEW x \in Pairs, Answers(mainq'[k], x)
                 PROVE  /\ x[2] \notin mChangeCallbacksTable'[x[1]]
                        /\ \A n \in 1..Len(mainq') : k < n => ~Carries(mainq'[n], x)
      BY DEF AnswerOrder, Answers, Carries, PairOf
    <3>1. CASE k \in 1..Len(mainq)
      <4>1. Answers(mainq[k], x)
        BY <2>0, <3>1
      <4>2. x[2] \notin mChangeCallbacksTable'[x[1]] /\ x[2] \notin mChangeCallbacksTable[x[1]]
        BY <1>a, <3>1, <4>1
      <4>3. ~Carries(m, x)
        BY <1>2, <4>2 DEF Fits, Carries
      <4>4. \A n \in 1..Len(mainq) : k < n => ~Carries(mainq[n], x)
        BY <3>1, <4>1 DEF RemovalInv, AnswerOrder
      <4>5. ASSUME NEW n \in 1..Len(mainq'), k < n PROVE ~Carries(mainq'[n], x)
        <5>1. CASE n \in 1..Len(mainq)
          BY <2>0, <4>4, <4>5, <5>1
        <5>2. CASE n = Len(mainq) + 1
          BY <2>0, <4>3, <5>2
        <5> QED
          BY <2>0, <5>1, <5>2
      <4> QED
        BY <4>2, <4>5
    <3>2. CASE k = Len(mainq) + 1
      <4>1. Answers(m, x)
        BY <2>0, <3>2
      <4>2. m.call.cb \notin mChangeCallbacksTable'[m.call.path]
        BY <1>2, <4>1 DEF Answers, Fits
      <4>3. m.call.path = x[1] /\ m.call.cb = x[2]
        BY <4>1 DEF Answers, PairOf
      <4>4. \A n \in 1..Len(mainq') : ~(k < n)
        BY <2>0, <3>2
      <4> QED
        BY <4>2, <4>3, <4>4
    <3> QED
      BY <2>0, <3>1, <3>2
  <2>3. QuietInv'
    <3> SUFFICES ASSUME NEW x \in quiet, NEW n \in 1..Len(mainq')
                 PROVE  ~Carries(mainq'[n], x)
      BY <1>q DEF QuietInv, Carries, CallsIn, PairOf
    <3>1. CASE n \in 1..Len(mainq)
      BY <2>0, <3>1 DEF RemovalInv, QuietInv
    <3>2. CASE n = Len(mainq) + 1
      <4>1. ~Carries(m, x)
        BY <1>2, <1>q DEF Fits, Carries
      <4> QED
        BY <2>0, <3>2, <4>1
    <3> QED
      BY <2>0, <3>1, <3>2
  <2> QED
    BY <2>1, <2>2, <2>3 DEF RemovalInv
<1> QED
  BY <1>1, <1>2

\* Only a watched path has callbacks.
LEMMA NoOrphansStep ==
  ASSUME TypeInv, NoOrphans, [Next]_vars
  PROVE  NoOrphans'
<1> DEFINE r == Current
<1>0. /\ mWatchedResourcesByPath \in [Paths -> Wds \cup {NoWd}]
      /\ mChangeCallbacksTable \in [Paths -> SUBSET Cbs]
      /\ NoWd \notin Wds
  BY DEF TypeInv, TypeOK, TableTypeOK, Wds, NoWd
<1>1. CASE ~RegistryStep
  BY <1>1, RegistryFrame DEF NoOrphans, tableVars
<1>2. CASE AddKnown
  <2>1. /\ r.path \in Paths /\ mWatchedResourcesByPath[r.path] # NoWd
        /\ mChangeCallbacksTable' = [mChangeCallbacksTable EXCEPT ![r.path] = @ \cup {r.cb}]
        /\ UNCHANGED mWatchedResourcesByPath
    BY <1>2, RegistryCall DEF AddKnown, AppendCallbacks
  <2> HIDE DEF r
  <2> QED
    BY <1>0, <2>1 DEF NoOrphans
<1>3. CASE AddWatched
  <2>1. /\ r.path \in Paths
        /\ mChangeCallbacksTable' = [mChangeCallbacksTable EXCEPT ![r.path] = @ \cup {r.cb}]
        /\ \E w \in Wds :
             mWatchedResourcesByPath' = [mWatchedResourcesByPath EXCEPT ![r.path] = w]
    BY <1>3, RegistryCall DEF AddWatched, AppendCallbacks
  <2> HIDE DEF r
  <2> QED
    BY <1>0, <2>1 DEF NoOrphans
<1>4. CASE RemoveOne \/ RemoveAborted
  <2>1. /\ r.path \in Paths
        /\ mChangeCallbacksTable' = [mChangeCallbacksTable EXCEPT ![r.path] = @ \ {r.cb}]
        /\ UNCHANGED mWatchedResourcesByPath
    BY <1>4, RegistryCall DEF RemoveOne, RemoveAborted, RemoveCallbacks
  <2> HIDE DEF r
  <2> QED
    BY <1>0, <2>1 DEF NoOrphans
<1>5. CASE RemoveLast
  <2>1. /\ r.path \in Paths
        /\ mChangeCallbacksTable[r.path] = {r.cb}
        /\ mChangeCallbacksTable' = [mChangeCallbacksTable EXCEPT ![r.path] = @ \ {r.cb}]
        /\ mWatchedResourcesByPath' = [mWatchedResourcesByPath EXCEPT ![r.path] = NoWd]
    BY <1>5, RegistryCall DEF RemoveLast, LastCallback, RemoveCallbacks, Unindex
  <2> HIDE DEF r
  <2> QED
    BY <1>0, <2>1 DEF NoOrphans
<1>6. CASE DeactivateRunnable
  BY <1>6 DEF DeactivateRunnable, NoOrphans
<1> QED
  BY <1>1, <1>2, <1>3, <1>4, <1>5, <1>6 DEF RegistryStep

\* The call being executed is older than all that wait behind it.
LEMMA CurrentCall ==
  ASSUME TypeInv, RemovalInv, NEW op \in {"add", "remove"}, Takes(op), Ends
  PROVE  /\ Current \in CallsIn(ioq) /\ Current.id <= calls /\ Current.op = op
         /\ Current.path \in Paths /\ Current.cb \in Cbs
         /\ Success(Current) \in Posts /\ Failure(Current) \in Posts
         /\ CallsIn(ioq') \subseteq CallsIn(ioq) /\ Increasing(ioq')
         /\ \A r \in CallsIn(ioq') : Current.id < r.id
         /\ UNCHANGED <<calls, lastCall, quiet>>
<1>1. Current \in Calls
  BY TakesProperties
<1>2. ioq \in Seq(Tasks) /\ ioq # <<>> /\ ioq' = Tail(ioq) /\ Current = Head(ioq)
      /\ Current.op = op
  BY DEF TypeInv, TypeOK, QueueTypeOK, Takes, Ends, Current
<1>3. Increasing(ioq)
  BY DEF RemovalInv, CallOrder
<1>4. /\ Current \in CallsIn(ioq)
      /\ CallsIn(ioq') \subseteq CallsIn(ioq) /\ Increasing(ioq')
      /\ \A r \in CallsIn(ioq') : Current.id < r.id
  BY <1>1, <1>2, <1>3, CallsInProperties
<1>5. Current.id <= calls
  BY <1>4 DEF RemovalInv, CallOrder
<1>6. Success(Current) \in Posts /\ Failure(Current) \in Posts
  BY <1>1 DEF Success, Failure, Posts, Successes, Errors
<1>7. UNCHANGED <<calls, lastCall, quiet>>
  BY DEF Ends, CallVars, mainVars
<1>8. Current.path \in Paths /\ Current.cb \in Cbs
  BY <1>1 DEF Calls
<1> QED
  BY <1>2, <1>4, <1>5, <1>6, <1>7, <1>8

LEMMA AddRemoval ==
  ASSUME TypeInv, RemovalInv, NoOrphans', AddPathRunnable
  PROVE  RemovalInv'
<1>1. Takes("add") /\ Ends
  BY DEF AddPathRunnable, AddMissing, AddKnown, AddRefused, AddWatched, Adds
<1> DEFINE r == Current
<1>2. /\ r \in CallsIn(ioq) /\ r.id <= calls /\ r.op = "add"
      /\ r.path \in Paths /\ r.cb \in Cbs
      /\ Success(r) \in Posts /\ Failure(r) \in Posts
      /\ CallsIn(ioq') \subseteq CallsIn(ioq) /\ Increasing(ioq')
      /\ \A s \in CallsIn(ioq') : r.id < s.id
      /\ UNCHANGED <<calls, lastCall, quiet>>
  BY <1>1, CurrentCall
<1>3. \/ UNCHANGED mChangeCallbacksTable
      \/ mChangeCallbacksTable' = [mChangeCallbacksTable EXCEPT ![r.path] = @ \cup {r.cb}]
  BY DEF AddPathRunnable, AddMissing, AddKnown, AddRefused, AddWatched, AppendCallbacks,
         tableVars
<1>4. mainq' = mainq \/ mainq' = Append(mainq, Success(r)) \/ mainq' = Append(mainq, Failure(r))
  BY DEF AddPathRunnable, AddMissing, AddKnown, AddRefused, AddWatched, Report
<1> HIDE DEF r
<1>5. Fits(Success(r)) /\ Fits(Failure(r))
  BY <1>2 DEF Fits, Success, Failure
<1>6. ASSUME NEW y \in Pairs, y[2] \in mChangeCallbacksTable'[y[1]]
      PROVE  y[2] \in mChangeCallbacksTable[y[1]] \/ \E s \in CallsIn(ioq) : PairOf(s) = y
  <2>1. mChangeCallbacksTable \in [Paths -> SUBSET Cbs]
    BY DEF TypeInv, TypeOK, TableTypeOK
  <2>2. y[2] \in mChangeCallbacksTable[y[1]] \/ y = <<r.path, r.cb>>
    BY <1>2, <1>3, <1>6, <2>1 DEF Pairs
  <2> QED
    BY <1>2, <2>2 DEF PairOf
<1> QED
  BY <1>2, <1>4, <1>5, <1>6, RemovalFrame

LEMMA RemoveRemoval ==
  ASSUME TypeInv, RemovalInv, NoOrphans', RemovePathRunnable
  PROVE  RemovalInv'
<1>1. Takes("remove") /\ Ends
  BY DEF RemovePathRunnable, RemoveUnwatched, RemoveUnregistered, RemoveOne,
         RemoveAborted, RemoveLast, Removes
<1> DEFINE r == Current
<1>2. /\ r \in CallsIn(ioq) /\ r.id <= calls
      /\ r.path \in Paths /\ r.cb \in Cbs
      /\ Success(r) \in Posts
      /\ CallsIn(ioq') \subseteq CallsIn(ioq) /\ Increasing(ioq')
      /\ \A s \in CallsIn(ioq') : r.id < s.id
      /\ UNCHANGED <<calls, lastCall, quiet>>
  BY <1>1, CurrentCall
<1>3. \/ UNCHANGED mChangeCallbacksTable
      \/ mChangeCallbacksTable' = [mChangeCallbacksTable EXCEPT ![r.path] = @ \ {r.cb}]
  BY DEF RemovePathRunnable, RemoveUnwatched, RemoveUnregistered, RemoveOne,
         RemoveAborted, RemoveLast, RemoveCallbacks, tableVars
<1>4. mainq' = mainq \/ mainq' = Append(mainq, Success(r))
  BY DEF RemovePathRunnable, RemoveUnwatched, RemoveUnregistered, RemoveOne,
         RemoveAborted, RemoveLast, Report
<1>t. mChangeCallbacksTable \in [Paths -> SUBSET Cbs]
  BY DEF TypeInv, TypeOK, TableTypeOK
<1>5. mainq' = mainq \/ r.cb \notin mChangeCallbacksTable'[r.path]
  <2>1. CASE RemoveUnwatched
    <3>1. mWatchedResourcesByPath[r.path] = NoWd /\ UNCHANGED mChangeCallbacksTable
      BY <2>1 DEF RemoveUnwatched, HasEntry, tableVars
    <3> QED
      BY <1>2, <3>1 DEF RemovalInv, NoOrphans
  <2>2. CASE RemoveUnregistered
    BY <2>2 DEF RemoveUnregistered
  <2>3. CASE RemoveOne \/ RemoveAborted \/ RemoveLast
    <3>1. mChangeCallbacksTable' = [mChangeCallbacksTable EXCEPT ![r.path] = @ \ {r.cb}]
      BY <2>3 DEF RemoveOne, RemoveAborted, RemoveLast, RemoveCallbacks
    <3> HIDE DEF r
    <3> QED
      BY <1>2, <1>t, <3>1
  <2> QED
    BY <2>1, <2>2, <2>3 DEF RemovePathRunnable
<1> HIDE DEF r
<1>6. mainq' = mainq \/ Fits(Success(r))
  BY <1>2, <1>5 DEF Fits, Success
<1>7. \A y \in Pairs : y[2] \in mChangeCallbacksTable'[y[1]] =>
                         y[2] \in mChangeCallbacksTable[y[1]]
  BY <1>2, <1>3, <1>t DEF Pairs
<1> QED
  BY <1>2, <1>4, <1>6, <1>7, RemovalFrame

\* Run posts changes only, to callbacks of the table.
LEMMA RunRemoval ==
  ASSUME TypeInv, RemovalInv, NoOrphans', Run
  PROVE  RemovalInv'
<1>1. RunFrame
  BY DEF Run, RunInShutdown, RunNothing, RunBegin, RunLoad, RunStore, ReadNothing,
         ReadEvent, ReadCutShort, SkipUnmasked, StaleEvent, SkipRefused,
         DispatchChange, DispatchChangeFails, ProcessLoop, RunEnd, InRun
<1>2. UNCHANGED <<calls, lastCall, quiet, mChangeCallbacksTable>>
  BY <1>1 DEF RunFrame, mainVars, tableVars
<1>3. CallsIn(ioq') \subseteq CallsIn(ioq) /\ Increasing(ioq')
  <2>1. \/ ioq' = ioq \/ ioq' = Reschedule(ioq)
        \/ ioq # <<>> /\ ioq' = Tail(ioq)
        \/ ioq # <<>> /\ ioq' = Reschedule(Tail(ioq))
    BY DEF Run, RunInShutdown, RunNothing, RunBegin, RunLoad, RunStore, ReadNothing,
           ReadEvent, ReadCutShort, SkipUnmasked, StaleEvent, SkipRefused,
           DispatchChange, DispatchChangeFails, ProcessLoop, PopEvent, RunEnd, Takes
  <2>2. ioq \in Seq(Tasks) /\ (ioq # <<>> => Tail(ioq) \in Seq(Tasks))
    BY DEF TypeInv, TypeOK, QueueTypeOK
  <2>3. Increasing(ioq)
    BY DEF RemovalInv, CallOrder
  <2> QED
    BY <2>1, <2>2, <2>3, CallsInProperties DEF Reschedule
<1>4. mainq' = mainq \/ \E m \in Posts : mainq' = Append(mainq, m) /\ Fits(m)
  <2>1. CASE DispatchChange \/ DispatchChangeFails
    <3>1. DescriptorValid
      BY <2>1 DEF DispatchChange, DispatchChangeFails
    <3>2. EventPath \in Paths
      BY <3>1 DEF DescriptorValid, EventPath, TypeInv, TypeOK, TableTypeOK
    <3>3. mChangeCallbacksTable[EventPath] \in SUBSET Cbs
      BY <3>2 DEF TypeInv, TypeOK, TableTypeOK
    <3>4. PICK cbs \in SUBSET mChangeCallbacksTable[EventPath] : PostChange(cbs)
      BY <2>1 DEF DispatchChange, DispatchChangeFails
    <3> DEFINE m == [kind |-> "change", path |-> EventPath, cbs |-> cbs,
                     name |-> IF Event.kind = "entry" THEN "entry" ELSE "unset"]
    <3>5. mainq' = IF cbs = {} THEN mainq ELSE Append(mainq, m)
      BY <3>4 DEF PostChange
    <3>6. cbs # {} => m \in Posts
      BY <3>2, <3>3 DEF Posts, Changes
    <3>7. Fits(m)
      BY DEF Fits
    <3> HIDE DEF m
    <3> QED
      BY <3>5, <3>6, <3>7
  <2>2. CASE ~(DispatchChange \/ DispatchChangeFails)
    BY <2>2 DEF Run, RunInShutdown, RunNothing, RunBegin, RunLoad, RunStore, ReadNothing,
           ReadEvent, ReadCutShort, SkipUnmasked, StaleEvent, SkipRefused, RunEnd
  <2> QED
    BY <2>1, <2>2
<1> QED
  BY <1>2, <1>3, <1>4, RemovalFrame

-----------------------------------------------------------------------------
(***************************************************************************)
(* The steps of the main thread.                                           *)
(***************************************************************************)
\* A new call has an id above all others, and takes its pair out of quiet.
LEMMA DispatchRemoval ==
  ASSUME TypeInv, RemovalInv, NoOrphans', NEW op \in {"add", "remove"}, NEW p \in Paths,
         NEW c \in Cbs, NEW e \in Errs, DispatchCall(op, p, c, e)
  PROVE  RemovalInv'
<1> DEFINE r == [op |-> op, id |-> calls + 1, path |-> p, cb |-> c, err |-> e]
<1>0. /\ mainq \in Seq(Posts) /\ ioq \in Seq(Tasks) /\ calls \in Nat
      /\ lastCall \in [Pairs -> 0..MaxCalls]
  BY WatcherAssumption DEF TypeInv, TypeOK, QueueTypeOK, ServiceTypeOK
<1>1. /\ ioq' = Append(ioq, r) /\ calls' = calls + 1
      /\ lastCall' = [lastCall EXCEPT ![<<p, c>>] = calls + 1]
      /\ quiet' = quiet \ {<<p, c>>}
      /\ UNCHANGED <<mainq, mChangeCallbacksTable>>
  BY DEF DispatchCall, tableVars
<1>2. r \in Calls /\ PairOf(r) = <<p, c>> /\ r.id = calls + 1 /\ <<p, c>> \in Pairs
  <2>1. calls + 1 \in CallIds
    BY WatcherAssumption DEF DispatchCall, TypeInv, TypeOK, ServiceTypeOK, CallIds
  <2> QED
    BY <2>1 DEF Calls, PairOf, Pairs
<1> HIDE DEF r
<1>3. \A s \in CallsIn(ioq) : s.id < r.id /\ s.id \in Nat /\ s \in Calls
  BY <1>0, <1>2, CallTypes DEF RemovalInv, CallOrder, CallsIn
<1>4. CallsIn(ioq') = CallsIn(ioq) \cup {r} /\ Increasing(ioq')
  BY <1>0, <1>1, <1>2, <1>3, CallAppended DEF RemovalInv, CallOrder
<1>5. \A s \in SuccessesIn(mainq) : s.id <= calls /\ s.id < r.id /\ s.id \in Nat
  BY <1>0, <1>2, CallTypes DEF RemovalInv, CallOrder, SuccessesIn
<1>6. CallOrder'
  <2>1. SuccessesIn(mainq)' = SuccessesIn(mainq)
    BY <1>1 DEF SuccessesIn
  <2>2. \A s \in CallsIn(ioq') : s.id <= calls'
    BY <1>0, <1>1, <1>2, <1>3, <1>4
  <2>3. \A s \in CallsIn(ioq') : s.id <= lastCall'[PairOf(s)]
    <3>1. ASSUME NEW s \in CallsIn(ioq) PROVE s.id <= lastCall'[PairOf(s)]
      <4>1. s.id <= lastCall[PairOf(s)] /\ PairOf(s) \in Pairs
        BY <1>3, CallTypes DEF RemovalInv, CallOrder
      <4>2. CASE PairOf(s) = <<p, c>>
        BY <1>0, <1>1, <1>2, <1>3, <4>2
      <4>3. CASE PairOf(s) # <<p, c>>
        BY <1>0, <1>1, <4>1, <4>3
      <4> QED
        BY <4>2, <4>3
    <3>2. r.id <= lastCall'[PairOf(r)]
      BY <1>0, <1>1, <1>2
    <3> QED
      BY <1>4, <3>1, <3>2
  <2>4. \A s \in SuccessesIn(mainq) : s.id <= calls'
    BY <1>0, <1>1, <1>5
  <2>5. \A s \in SuccessesIn(mainq), q \in CallsIn(ioq') : s.id < q.id
    BY <1>4, <1>5 DEF RemovalInv, CallOrder
  <2> QED
    BY <1>4, <2>1, <2>2, <2>3, <2>4, <2>5 DEF CallOrder, CallsIn, PairOf
<1>7. ASSUME NEW k \in 1..Len(mainq), NEW x \in Pairs, Answers(mainq[k], x)'
      PROVE  Answers(mainq[k], x)
  <2>1. /\ mainq[k].kind = "success" /\ mainq[k].call.op = "remove"
        /\ PairOf(mainq[k].call) = x /\ mainq[k].call.id = lastCall'[x]
    BY <1>1, <1>7 DEF Answers, PairOf
  <2>2. mainq[k].call \in Calls
    BY <1>0, <2>1 DEF Posts, Changes, Errors, Successes
  <2>3. mainq[k].call \in SuccessesIn(mainq)
    BY <2>1, <2>2 DEF SuccessesIn
  <2>4. mainq[k].call.id < r.id /\ mainq[k].call.id \in Nat
    BY <1>5, <2>3
  <2>5. x # <<p, c>>
    BY <1>0, <1>1, <1>2, <2>1, <2>4
  <2>6. lastCall'[x] = lastCall[x]
    BY <1>0, <1>1, <2>5
  <2> QED
    BY <2>1, <2>6 DEF Answers
<1>8. AnswerOrder'
  BY <1>1, <1>7 DEF RemovalInv, AnswerOrder, Carries
<1>9. QuietInv'
  <2>1. \A x \in quiet' : \A s \in CallsIn(ioq') : PairOf(s) # x
    BY <1>1, <1>2, <1>4 DEF RemovalInv, QuietInv
  <2> QED
    BY <1>1, <2>1 DEF RemovalInv, QuietInv, Carries, PairOf, CallsIn
<1> QED
  BY <1>6, <1>8, <1>9 DEF RemovalInv

\* Taking the oldest post keeps the order of the others.
LEMMA TailRemoval ==
  ASSUME TypeInv, RemovalInv, mainq # <<>>, mainq' = Tail(mainq),
         UNCHANGED <<ioq, calls, lastCall, mChangeCallbacksTable>>
  PROVE  /\ CallOrder' /\ AnswerOrder'
         /\ \A x \in Pairs : (\A n \in 1..Len(mainq) : 1 < n => ~Carries(mainq[n], x)) =>
                               \A n \in 1..Len(mainq') : ~Carries(mainq'[n], x)
<1>0. mainq \in Seq(Posts)
  BY DEF TypeInv, TypeOK, QueueTypeOK
<1>1. /\ Len(mainq') = Len(mainq) - 1 /\ Len(mainq) \in Nat /\ Len(mainq) >= 1
      /\ \A n \in 1..Len(mainq') : mainq'[n] = mainq[n + 1] /\ n + 1 \in 1..Len(mainq)
  BY <1>0
<1>2. SuccessesIn(mainq') \subseteq SuccessesIn(mainq)
  BY <1>1 DEF SuccessesIn
<1>3. CallOrder'
  BY <1>2 DEF RemovalInv, CallOrder, Increasing, CallsIn, SuccessesIn, PairOf
<1>4. AnswerOrder'
  <2> SUFFICES ASSUME NEW k \in 1..Len(mainq'), NEW x \in Pairs, Answers(mainq'[k], x)
               PROVE  /\ x[2] \notin mChangeCallbacksTable[x[1]]
                      /\ \A n \in 1..Len(mainq') : k < n => ~Carries(mainq'[n], x)
    BY DEF AnswerOrder, Answers, Carries, PairOf
  <2>1. Answers(mainq[k + 1], x) /\ k + 1 \in 1..Len(mainq)
    BY <1>1
  <2>2. /\ x[2] \notin mChangeCallbacksTable[x[1]]
        /\ \A n \in 1..Len(mainq) : k + 1 < n => ~Carries(mainq[n], x)
    BY <2>1 DEF RemovalInv, AnswerOrder
  <2>3. ASSUME NEW n \in 1..Len(mainq'), k < n PROVE ~Carries(mainq'[n], x)
    <3>1. mainq'[n] = mainq[n + 1] /\ n + 1 \in 1..Len(mainq) /\ k + 1 < n + 1
      BY <1>1, <2>3
    <3> QED
      BY <2>2, <3>1
  <2> QED
    BY <2>2, <2>3
<1>5. ASSUME NEW x \in Pairs, \A n \in 1..Len(mainq) : 1 < n => ~Carries(mainq[n], x),
             NEW n \in 1..Len(mainq')
      PROVE  ~Carries(mainq'[n], x)
  <2>1. mainq'[n] = mainq[n + 1] /\ n + 1 \in 1..Len(mainq) /\ 1 < n + 1
    BY <1>1
  <2> QED
    BY <1>5, <2>1
<1> QED
  BY <1>3, <1>4, <1>5

\* One callback of the oldest post runs: the post carries less, or is gone.
LEMMA ChangeRemoval ==
  ASSUME TypeInv, RemovalInv, NoOrphans', NEW c \in Cbs, DeliverChange(c)
  PROVE  RemovalInv'
<1>0. mainq \in Seq(Posts) /\ mainq # <<>> /\ quiet \subseteq Pairs
  BY DEF TypeInv, TypeOK, QueueTypeOK, ServiceTypeOK, DeliverChange
<1>1. UNCHANGED <<ioq, calls, lastCall, mChangeCallbacksTable, quiet>>
  BY DEF DeliverChange, Delivered, tableVars
<1>2. CASE mainq' = Tail(mainq)
  <2>1. QuietInv'
    BY <1>0, <1>1, <1>2, TailRemoval DEF RemovalInv, QuietInv, Carries, CallsIn, PairOf
  <2> QED
    BY <1>0, <1>1, <1>2, <2>1, TailRemoval DEF RemovalInv
<1>3. CASE mainq' # Tail(mainq)
  <2> DEFINE m == mainq[1]
             rest == [m EXCEPT !.cbs = m.cbs \ {c}]
  <2>1. mainq' = [mainq EXCEPT ![1] = rest]
    BY <1>3 DEF DeliverChange, Delivered
  <2>2. m \in Changes
    <3>1. m = Head(mainq) /\ m \in Posts
      BY <1>0
    <3> QED
      BY <3>1 DEF DeliverChange, Posts, Changes, Successes, Errors
  <2>3. rest.kind = "change" /\ rest.path = m.path /\ rest.cbs \subseteq m.cbs
        /\ m.kind = "change"
    BY <2>2 DEF Changes
  <2> HIDE DEF rest
  <2>4. /\ Len(mainq') = Len(mainq) /\ 1 \in 1..Len(mainq) /\ mainq'[1] = rest
        /\ \A n \in 1..Len(mainq) : n # 1 => mainq'[n] = mainq[n]
    BY <1>0, <2>1
  <2>5. \A n \in 1..Len(mainq), x \in Pairs : Carries(mainq'[n], x) => Carries(mainq[n], x)
    BY <2>3, <2>4 DEF Carries
  <2>6. \A n \in 1..Len(mainq), x \in Pairs : Answers(mainq'[n], x) => Answers(mainq[n], x)
    BY <2>3, <2>4 DEF Answers
  <2>7. SuccessesIn(mainq') \subseteq SuccessesIn(mainq)
    BY <2>3, <2>4 DEF SuccessesIn
  <2>8. CallOrder'
    BY <1>1, <2>7 DEF RemovalInv, CallOrder, Increasing, CallsIn, SuccessesIn, PairOf
  <2>9. AnswerOrder'
    BY <1>1, <2>4, <2>5, <2>6 DEF RemovalInv, AnswerOrder, Answers, Carries, PairOf
  <2>10. QuietInv'
    BY <1>0, <1>1, <2>4, <2>5 DEF RemovalInv, QuietInv, Carries, CallsIn, PairOf
  <2> QED
    BY <2>8, <2>9, <2>10 DEF RemovalInv
<1> QED
  BY <1>2, <1>3

\* The answer to the latest call on a pair, a removal, runs: the pair is quiet.
LEMMA AnswerRemoval ==
  ASSUME TypeInv, RemovalInv, NoOrphans', DeliverSuccess \/ DeliverError
  PROVE  RemovalInv'
<1> DEFINE r == mainq[1].call
           x == PairOf(r)
<1>0. mainq \in Seq(Posts) /\ mainq # <<>> /\ quiet \subseteq Pairs
  BY DEF TypeInv, TypeOK, QueueTypeOK, ServiceTypeOK, DeliverSuccess, DeliverError
<1>1. /\ UNCHANGED <<ioq, calls, lastCall, mChangeCallbacksTable>>
      /\ mainq' = Tail(mainq)
  BY DEF DeliverSuccess, DeliverError, Delivered, tableVars
<1>2. Head(mainq) = mainq[1] /\ 1 \in 1..Len(mainq)
  BY <1>0
<1>3. CallOrder' /\ AnswerOrder'
  BY <1>0, <1>1, TailRemoval
<1>4. ASSUME NEW y \in quiet
      PROVE  /\ y[2] \notin mChangeCallbacksTable'[y[1]]
             /\ \A s \in CallsIn(ioq') : PairOf(s) # y
             /\ \A n \in 1..Len(mainq') : ~Carries(mainq'[n], y)
  <2>1. y \in Pairs
    BY <1>0
  <2> QED
    BY <1>0, <1>1, <2>1, TailRemoval DEF RemovalInv, QuietInv
<1>5. CASE quiet' = quiet
  BY <1>3, <1>4, <1>5 DEF RemovalInv, QuietInv, Carries, CallsIn, PairOf
<1>6. CASE quiet' # quiet
  <2>1. /\ mainq[1].kind = "success" /\ r.op = "remove" /\ r.id = lastCall[x]
        /\ quiet' = quiet \cup {x}
    BY <1>2, <1>6 DEF DeliverSuccess, DeliverError, PairOf
  <2>2. mainq[1] \in Posts
    BY <1>0, <1>2
  <2>3. r \in Calls
    BY <2>1, <2>2 DEF Posts, Changes, Errors, Successes
  <2>4. Answers(mainq[1], x) /\ x \in Pairs
    BY <2>1, <2>3, CallTypes DEF Answers
  <2> HIDE DEF x
  <2>5. /\ x[2] \notin mChangeCallbacksTable[x[1]]
        /\ \A n \in 1..Len(mainq) : 1 < n => ~Carries(mainq[n], x)
    BY <1>2, <2>4 DEF RemovalInv, AnswerOrder
  <2>6. \A n \in 1..Len(mainq') : ~Carries(mainq'[n], x)
    BY <1>0, <1>1, <2>4, <2>5, TailRemoval
  <2>7. \A s \in CallsIn(ioq') : PairOf(s) # x
    BY <1>1, <1>2, <2>4, WaitingUnanswered
  <2> QED
    BY <1>1, <1>3, <1>4, <2>1, <2>5, <2>6, <2>7
    DEF RemovalInv, QuietInv, Carries, CallsIn, PairOf
<1> QED
  BY <1>5, <1>6

\* Steps that only start or end the service, or do not concern it.
LEMMA OtherRemoval ==
  ASSUME TypeInv, RemovalInv, NoOrphans',
         \/ ServiceInit \/ Uninit \/ Signals \/ FileSystem \/ DeactivateRunnable
         \/ UNCHANGED vars
  PROVE  RemovalInv'
<1>0. ioq \in Seq(Tasks) /\ Increasing(ioq)
  BY DEF TypeInv, TypeOK, QueueTypeOK, RemovalInv, CallOrder
<1>1. UNCHANGED <<calls, lastCall, quiet, mainq>>
  BY DEF ServiceInit, Uninit, Signals, SignalLoad, SignalStore, FileSystem, watcherVars,
         DeactivateRunnable, Ends, CallVars, mainVars, historyVars, vars
<1>2. \A y \in Pairs : y[2] \in mChangeCallbacksTable'[y[1]] =>
                         y[2] \in mChangeCallbacksTable[y[1]]
  <2>1. CASE DeactivateRunnable
    BY <2>1 DEF DeactivateRunnable, Pairs
  <2>2. CASE ~DeactivateRunnable
    BY <2>2 DEF ServiceInit, Uninit, Signals, SignalLoad, SignalStore, FileSystem,
           watcherVars, tableVars, vars
  <2> QED
    BY <2>1, <2>2
<1>3. CallsIn(ioq') \subseteq CallsIn(ioq) /\ Increasing(ioq')
  <2>1. CASE ServiceInit
    <3>1. ioq' = ioq \/ ioq' = <<RunTask>>
      BY <2>1 DEF ServiceInit
    <3>2. RunTask \notin Calls
      BY CallTypes
    <3>3. CallsIn(<<RunTask>>) = {} /\ Increasing(<<RunTask>>)
      BY <3>2 DEF CallsIn, Increasing
    <3> QED
      BY <1>0, <3>1, <3>3
  <2>2. CASE Uninit
    BY <1>0, <2>2, CallsInProperties DEF Uninit
  <2>3. CASE DeactivateRunnable
    <3>1. ioq # <<>> /\ ioq' = Tail(ioq)
      BY <2>3 DEF DeactivateRunnable, Takes, Ends
    <3> QED
      BY <1>0, <3>1, CallsInProperties
  <2>4. CASE Signals \/ FileSystem \/ UNCHANGED vars
    <3>1. ioq' = ioq
      BY <2>4 DEF Signals, SignalLoad, SignalStore, FileSystem, watcherVars, vars
    <3> QED
      BY <1>0, <3>1
  <2> QED
    BY <2>1, <2>2, <2>3, <2>4
<1> QED
  BY <1>1, <1>2, <1>3, RemovalFrame

LEMMA RemovalStep ==
  ASSUME TypeInv, RemovalInv, [Next]_vars
  PROVE  RemovalInv'
<1>0. NoOrphans'
  BY NoOrphansStep DEF RemovalInv
<1>1. ASSUME NEW p \in Paths, NEW c \in Cbs, NEW e \in Errs,
             AddPath(p, c, e) \/ RemovePath(p, c, e)
      PROVE  RemovalInv'
  BY <1>0, <1>1, DispatchRemoval DEF AddPath, RemovePath
<1>2. CASE DeliverNext
  BY <1>0, <1>2, ChangeRemoval, AnswerRemoval DEF DeliverNext
<1>3. CASE Run
  BY <1>0, <1>3, RunRemoval
<1>4. CASE AddPathRunnable
  BY <1>0, <1>4, AddRemoval
<1>5. CASE RemovePathRunnable
  BY <1>0, <1>5, RemoveRemoval
<1>6. CASE \/ ServiceInit \/ Uninit \/ Signals \/ FileSystem \/ DeactivateRunnable
           \/ UNCHANGED vars
  BY <1>0, <1>6, OtherRemoval
<1> QED
  BY <1>1, <1>2, <1>3, <1>4, <1>5, <1>6 DEF Next, MainThread, IOThread

LEMMA AlwaysRemovalInv == Spec => []RemovalInv
<1>1. Init => RemovalInv
  BY DEF Init, RemovalInv, CallOrder, NoOrphans, AnswerOrder, QuietInv, Increasing, CallsIn,
         SuccessesIn
<1>2. TypeInv /\ RemovalInv /\ [Next]_vars => RemovalInv'
  BY RemovalStep
<1> QED
  BY <1>1, <1>2, AlwaysTypeInv, PTL DEF Spec

\* A client whose removal was answered, and which did not register again, has no
\* change of that path under way to it, whatever calls, changes and failures of
\* other clients the two queues carried in between.
THEOREM RemovedStaysQuiet == Spec => []QuietAfterRemoval
<1>1. RemovalInv => QuietAfterRemoval
  BY DEF RemovalInv, QuietInv, QuietAfterRemoval, Carries
<1> QED
  BY <1>1, AlwaysRemovalInv, PTL

-----------------------------------------------------------------------------
(***************************************************************************)
(* Before Init has made the IO thread nothing is queued for it.            *)
(***************************************************************************)
Opened == initialised # "ok" => ~mIOThread /\ ioq = <<>> /\ io = "idle"

LEMMA OpenedStep == Opened /\ [Next]_vars => Opened'
<1> SUFFICES ASSUME Opened, [Next]_vars PROVE Opened'
  OBVIOUS
<1>1. CASE ServiceInit
  BY <1>1 DEF ServiceInit, runVars, Opened
<1>2. CASE \/ \E p \in Paths, c \in Cbs, e \in Errs : AddPath(p, c, e) \/ RemovePath(p, c, e)
           \/ Uninit
  BY <1>2 DEF AddPath, RemovePath, DispatchCall, Uninit, Opened
<1>3. CASE DeliverNext
  BY <1>3 DEF DeliverNext, DeliverChange, DeliverSuccess, DeliverError, Delivered, runVars, Opened
<1>4. CASE Signals
  BY <1>4 DEF Signals, SignalLoad, SignalStore, runVars, mainVars, Opened
<1>5. CASE Run
  BY <1>5 DEF Run, RunInShutdown, RunNothing, RunBegin, RunLoad, RunStore, ReadNothing, ReadEvent,
       ReadCutShort, SkipUnmasked, StaleEvent, SkipRefused, DispatchChange,
       DispatchChangeFails, RunEnd, InRun, ProcessLoop, Takes, RunFrame, mainVars, Opened
<1>6. CASE AddPathRunnable
  BY <1>6 DEF AddPathRunnable, AddMissing, AddKnown, AddRefused, AddWatched, Adds, Takes, Ends,
       CallVars, mainVars, runVars, Opened
<1>7. CASE RemovePathRunnable
  BY <1>7 DEF RemovePathRunnable, RemoveUnwatched, RemoveUnregistered, RemoveOne, RemoveAborted,
       RemoveLast, Removes, Takes, Ends, CallVars, mainVars, runVars, Opened
<1>8. CASE DeactivateRunnable
  BY <1>8 DEF DeactivateRunnable, Takes, Ends, CallVars, mainVars, runVars, Opened
<1>9. CASE FileSystem \/ UNCHANGED vars
  BY <1>9 DEF FileSystem, watcherVars, vars, mainVars, runVars, Opened
<1> QED
  BY <1>1, <1>2, <1>3, <1>4, <1>5, <1>6, <1>7, <1>8, <1>9 DEF Next, MainThread, IOThread

LEMMA AlwaysOpened == Spec => []Opened
<1>1. Init => Opened
  BY DEF Init, Opened
<1> QED
  BY <1>1, OpenedStep, PTL DEF Spec

-----------------------------------------------------------------------------
(***************************************************************************)
(* One step of the port is one step of the service, or none.               *)
(***************************************************************************)
Inv == TypeInv /\ Opened /\ ShutdownInv /\ RemovalInv

ServiceStep == [Service!Next]_(Service!serviceVars)

serviceFrame == <<initialised, mIOThread, calls, mChangeCallbacksTable, mainq>>

\* Nothing that the service shows changes.
LEMMA Stutters ==
  ASSUME UNCHANGED serviceFrame, CallsIn(ioq') = CallsIn(ioq), Alive' = Alive
  PROVE  ServiceStep
<1>1. UNCHANGED <<ServiceState, RegisteredPairs, calls, mainq>>
  BY DEF serviceFrame, ServiceState, RegisteredPairs
<1>2. UNCHANGED CallsIn(ioq)
  BY DEF CallsIn
<1> QED
  BY <1>1, <1>2 DEF ServiceStep, Service!serviceVars

LEMMA RequestsTaken ==
  ASSUME NEW q \in Seq(Tasks), q # <<>>
  PROVE  CallsIn(q) = CallsIn(Tail(q)) \cup ({Head(q)} \cap Calls) /\ Tail(q) \in Seq(Tasks)
<1> DEFINE s == Tail(q)
<1>1. /\ Head(q) = q[1] /\ Len(s) = Len(q) - 1 /\ Len(q) \in Nat \ {0}
      /\ \A n \in 1..Len(s) : s[n] = q[n + 1] /\ n + 1 \in 1..Len(q)
      /\ s \in Seq(Tasks)
  OBVIOUS
<1> HIDE DEF s
<1>2. \A n \in 1..Len(q) : n = 1 \/ (n - 1 \in 1..Len(s) /\ q[n] = s[n - 1])
  <2> SUFFICES ASSUME NEW n \in 1..Len(q), n # 1 PROVE n - 1 \in 1..Len(s) /\ q[n] = s[n - 1]
    OBVIOUS
  <2>1. n - 1 \in 1..Len(s) /\ (n - 1) + 1 = n
    BY <1>1
  <2> QED
    BY <1>1, <2>1
<1>3. 1 \in 1..Len(q)
  BY <1>1
<1>5. ASSUME NEW y PROVE y \in CallsIn(q) <=> y \in CallsIn(s) \/ (y = Head(q) /\ y \in Calls)
  <2>1. (\E n \in 1..Len(q) : y = q[n]) <=> (\E n \in 1..Len(s) : y = s[n]) \/ y = Head(q)
    BY <1>1, <1>2, <1>3
  <2> QED
    BY <2>1 DEF CallsIn
<1>6. CallsIn(q) = CallsIn(s) \cup ({Head(q)} \cap Calls)
  BY <1>5
<1> QED
  BY <1>1, <1>6 DEF s

LEMMA RunTaken ==
  ASSUME NEW q \in Seq(Tasks), q # <<>>, Head(q).op = "run"
  PROVE  CallsIn(Tail(q)) = CallsIn(q) /\ CallsIn(Append(Tail(q), RunTask)) = CallsIn(q)
<1>1. CallsIn(q) = CallsIn(Tail(q)) \cup ({Head(q)} \cap Calls) /\ Tail(q) \in Seq(Tasks)
  BY RequestsTaken
<1>2. {Head(q)} \cap Calls = {}
  BY DEF Calls
<1>3. CallsIn(Append(Tail(q), RunTask)) = CallsIn(Tail(q))
  BY <1>1, CallsInProperties
<1> QED
  BY <1>1, <1>2, <1>3

LEMMA InitService == Init => Service!Init
<1> SUFFICES ASSUME Init PROVE Service!Init
  OBVIOUS
<1>1. ServiceState = "new" /\ calls = 0 /\ mainq = <<>> /\ Alive
  BY DEF Init, ServiceState, Alive
<1>2. RegisteredPairs = {}
  BY DEF Init, RegisteredPairs
<1>3. CallsIn(ioq) = {}
  BY DEF Init, CallsIn
<1> QED
  BY <1>1, <1>2, <1>3 DEF Service!Init

LEMMA MainThreadService == Inv /\ MainThread => ServiceStep
<1> SUFFICES ASSUME Inv, MainThread PROVE ServiceStep
  OBVIOUS
<1>t. ioq \in Seq(Tasks) /\ calls \in 0..MaxCalls /\ MaxCalls \in Nat /\ Opened
  BY WatcherAssumption DEF Inv, TypeInv, TypeOK, QueueTypeOK, ServiceTypeOK
<1>1. CASE ServiceInit
  <2>1. /\ initialised = "no"
        /\ UNCHANGED <<calls, mainq, mChangeCallbacksTable, crash>>
        /\ \/ initialised' = "ok" /\ mIOThread' = TRUE /\ ioq' = <<RunTask>>
           \/ initialised' = "failed" /\ UNCHANGED <<mIOThread, ioq>>
    BY <1>1 DEF ServiceInit, tableVars
  <2>2. ~mIOThread /\ ioq = <<>>
    BY <1>t, <2>1 DEF Opened
  <2>3. CallsIn(ioq) = {} /\ CallsIn(<<RunTask>>) = {}
    <3>1. RunTask \notin Calls
      BY CallTypes
    <3> QED
      BY <2>2, <3>1 DEF CallsIn
  <2>4. ASSUME initialised' = "ok", mIOThread' = TRUE, ioq' = <<RunTask>> PROVE ServiceStep
    <3>1. ServiceState = "new" /\ ServiceState' = "open"
      BY <2>1, <2>2, <2>4 DEF ServiceState
    <3>2. RegisteredPairs' = RegisteredPairs /\ Alive' = Alive
      BY <2>1 DEF RegisteredPairs, Alive
    <3>3. UNCHANGED CallsIn(ioq)
      BY <2>3, <2>4 DEF CallsIn
    <3>4. Service!Open
      BY <2>1, <3>1, <3>2, <3>3 DEF Service!Open
    <3> QED
      BY <3>4 DEF ServiceStep, Service!Next
  <2>5. ASSUME initialised' = "failed", UNCHANGED <<mIOThread, ioq>> PROVE ServiceStep
    <3>1. ServiceState = "new" /\ ServiceState' = "new"
      BY <2>1, <2>2, <2>5 DEF ServiceState
    <3>2. RegisteredPairs' = RegisteredPairs /\ Alive' = Alive
      BY <2>1 DEF RegisteredPairs, Alive
    <3>3. UNCHANGED CallsIn(ioq)
      BY <2>5 DEF CallsIn
    <3> QED
      BY <2>1, <3>1, <3>2, <3>3 DEF ServiceStep, Service!serviceVars
  <2> QED
    BY <2>1, <2>4, <2>5
<1>2. CASE \E p \in Paths, c \in Cbs, e \in Errs : AddPath(p, c, e) \/ RemovePath(p, c, e)
  <2>1. PICK op \in {"add", "remove"}, p \in Paths, c \in Cbs, e \in Errs : DispatchCall(op, p, c, e)
    BY <1>2 DEF AddPath, RemovePath
  <2>2. PICK r : r = [op |-> op, id |-> calls + 1, path |-> p, cb |-> c, err |-> e]
    OBVIOUS
  <2>3. calls < MaxCalls /\ calls + 1 \in 1..MaxCalls
    BY <1>t, <2>1 DEF DispatchCall
  <2>4. r \in Calls /\ r.id = calls + 1
    BY <2>2, <2>3 DEF Calls, CallIds
  <2>5. /\ Alive /\ mIOThread /\ calls' = calls + 1 /\ ioq' = Append(ioq, r)
        /\ UNCHANGED <<crash, initialised, mIOThread, mainq, mChangeCallbacksTable>>
    BY <2>1, <2>2 DEF DispatchCall, tableVars
  <2>6. ServiceState = "open" /\ ServiceState' = "open" /\ RegisteredPairs' = RegisteredPairs
        /\ Alive' = Alive
    BY <2>5 DEF ServiceState, RegisteredPairs, Alive
  <2>7. CallsIn(Append(ioq, r)) = CallsIn(ioq) \cup {r}
    BY <1>t, <2>4, CallAppended
  <2>8. (CallsIn(ioq))' = CallsIn(ioq) \cup {r}
    BY <2>5, <2>7 DEF CallsIn
  <2>9. Service!Call(r)
    BY <2>4, <2>5, <2>6, <2>8 DEF Service!Call
  <2>10. r \in Service!Calls
    BY <2>4 DEF Calls, CallIds, Service!Calls
  <2> QED
    BY <2>9, <2>10 DEF ServiceStep, Service!Next
<1>3. CASE Uninit
  <2>1. /\ Alive /\ mIOThread /\ mIOThread' = FALSE /\ ioq' = Append(ioq, DeactivateTask)
        /\ UNCHANGED <<crash, initialised, calls, mainq, mChangeCallbacksTable>>
    BY <1>3 DEF Uninit, tableVars
  <2>2. ServiceState = "open" /\ ServiceState' = "closed" /\ RegisteredPairs' = RegisteredPairs
        /\ Alive' = Alive
    BY <1>t, <2>1 DEF ServiceState, RegisteredPairs, Alive, Opened
  <2>3. CallsIn(Append(ioq, DeactivateTask)) = CallsIn(ioq)
    BY <1>t, CallsInProperties
  <2>4. UNCHANGED CallsIn(ioq)
    BY <2>1, <2>3 DEF CallsIn
  <2>5. Service!Close
    BY <2>1, <2>2, <2>4 DEF Service!Close
  <2> QED
    BY <2>5 DEF ServiceStep, Service!Next
<1> QED
  BY <1>1, <1>2, <1>3 DEF MainThread

LEMMA DeliverService == Inv /\ DeliverNext => ServiceStep
<1> SUFFICES ASSUME Inv, DeliverNext PROVE ServiceStep
  OBVIOUS
<1>1. /\ Alive /\ mainq # <<>>
      /\ \/ Head(mainq).kind # "change" /\ mainq' = Tail(mainq)
         \/ /\ Head(mainq).kind = "change"
            /\ \E c \in Head(mainq).cbs :
                  mainq' = IF Head(mainq).cbs = {c} THEN Tail(mainq)
                           ELSE [mainq EXCEPT ![1].cbs = @ \ {c}]
  <2>1. CASE \E c \in Cbs : DeliverChange(c)
    BY <2>1, Zenon DEF DeliverChange, Delivered
  <2>2. CASE DeliverSuccess \/ DeliverError
    BY <2>2 DEF DeliverSuccess, DeliverError, Delivered
  <2> QED
    BY <2>1, <2>2, Zenon DEF DeliverNext
<1>2. UNCHANGED <<crash, initialised, mIOThread, calls, ioq, mChangeCallbacksTable>>
  BY DEF DeliverNext, DeliverChange, DeliverSuccess, DeliverError, Delivered, tableVars
<1>3. UNCHANGED <<ServiceState, calls, CallsIn(ioq), RegisteredPairs, Alive>>
  BY <1>2 DEF ServiceState, CallsIn, RegisteredPairs, Alive
<1>4. Service!Deliver
  BY <1>1, <1>3, Zenon DEF Service!Deliver
<1> QED
  BY <1>4 DEF ServiceStep, Service!Next

LEMMA PostService ==
  ASSUME Inv, DescriptorValid, ProcessLoop, Alive' = Alive,
         UNCHANGED <<initialised, mIOThread, calls, ioq, mChangeCallbacksTable>>,
         NEW cbs \in SUBSET mChangeCallbacksTable[EventPath], PostChange(cbs)
  PROVE  ServiceStep
<1>1. UNCHANGED <<ServiceState, CallsIn(ioq), RegisteredPairs>>
  BY DEF ServiceState, CallsIn, RegisteredPairs
<1>2. CASE cbs = {}
  BY <1>1, <1>2 DEF PostChange, ServiceStep, Service!serviceVars
<1>3. CASE cbs # {}
  <2>1. /\ mWatchedResourcesByHandle \in [Wds -> Paths \cup {NoPath}]
        /\ mChangeCallbacksTable \in [Paths -> SUBSET Cbs]
    BY DEF Inv, TypeInv, TypeOK, TableTypeOK
  <2>2. EventPath \in Paths
    BY <2>1 DEF DescriptorValid, EventPath
  <2>3. cbs \in (SUBSET Cbs) \ {{}}
    BY <1>3, <2>1, <2>2
  <2>4. PICK m : m = [kind |-> "change", path |-> EventPath, cbs |-> cbs,
                      name |-> IF Event.kind = "entry" THEN "entry" ELSE "unset"]
    OBVIOUS
  <2>5. m \in Changes /\ m.path = EventPath /\ m.cbs = cbs
    BY <2>2, <2>3, <2>4 DEF Changes
  <2>6. mainq' = Append(mainq, m)
    BY <1>3, <2>4 DEF PostChange
  <2>7. \A c \in cbs : <<EventPath, c>> \in RegisteredPairs
    BY <2>1, <2>2 DEF RegisteredPairs
  <2>8. Alive
    BY DEF ProcessLoop, InRun
  <2>9. Service!Announce(m)
    BY <1>1, <2>5, <2>6, <2>7, <2>8 DEF Service!Announce
  <2> QED
    BY <2>5, <2>9 DEF ServiceStep, Service!Next
<1> QED
  BY <1>2, <1>3

LEMMA RunService == Inv /\ Run => ServiceStep
<1> SUFFICES ASSUME Inv, Run PROVE ServiceStep
  OBVIOUS
<1>t. ioq \in Seq(Tasks)
  BY DEF Inv, TypeInv, TypeOK, QueueTypeOK
<1>f. UNCHANGED <<initialised, mIOThread, calls, mChangeCallbacksTable>>
  BY DEF Run, RunInShutdown, RunNothing, RunBegin, RunLoad, RunStore, ReadNothing, ReadEvent,
       ReadCutShort, SkipUnmasked, StaleEvent, SkipRefused, DispatchChange,
       DispatchChangeFails, RunEnd, InRun, ProcessLoop, RunFrame, mainVars, tableVars
<1>s. ASSUME mainq' = mainq, crash' = crash, CallsIn(ioq') = CallsIn(ioq) PROVE ServiceStep
  BY <1>f, <1>s, Stutters DEF serviceFrame, Alive
<1>1. CASE RunInShutdown \/ RunNothing \/ RunBegin
  <2>1. /\ mainq' = mainq /\ crash' = crash /\ ioq # <<>> /\ Head(ioq).op = "run"
        /\ ioq' = Tail(ioq) \/ ioq' = Append(Tail(ioq), RunTask)
    BY <1>1 DEF RunInShutdown, RunNothing, RunBegin, Takes, Reschedule
  <2> QED
    BY <1>s, <1>t, <2>1, RunTaken
<1>2. CASE \/ RunLoad \/ RunStore \/ ReadNothing \/ ReadEvent \/ ReadCutShort
           \/ SkipUnmasked \/ SkipRefused
  BY <1>2, <1>s DEF RunLoad, RunStore, ReadNothing, ReadEvent, ReadCutShort, SkipUnmasked,
                    SkipRefused, PopEvent
<1>3. CASE DispatchChange
  <2>1. DescriptorValid /\ ProcessLoop /\ PostChange(mChangeCallbacksTable[EventPath])
        /\ UNCHANGED <<ioq, crash>>
    BY <1>3 DEF DispatchChange, PopEvent
  <2> QED
    BY <1>f, <2>1, PostService DEF Alive
<1>4. CASE DispatchChangeFails
  <2>1. /\ DescriptorValid /\ ProcessLoop /\ UNCHANGED <<ioq, crash>>
        /\ \E posted \in SUBSET mChangeCallbacksTable[EventPath] : PostChange(posted)
    BY <1>4 DEF DispatchChangeFails
  <2>2. PICK posted \in SUBSET mChangeCallbacksTable[EventPath] : PostChange(posted)
    BY <2>1
  <2> QED
    BY <1>f, <2>1, <2>2, PostService DEF Alive
<1>5. CASE RunEnd
  <2>1. CallsIn(Append(ioq, RunTask)) = CallsIn(ioq)
    BY <1>t, CallsInProperties
  <2> QED
    BY <1>5, <1>s, <2>1 DEF RunEnd, Reschedule
<1>6. CASE StaleEvent
  <2>1. Alive /\ ~Alive' /\ UNCHANGED <<ioq, mainq>>
    BY <1>6 DEF StaleEvent, ProcessLoop, InRun, Alive
  <2>2. UNCHANGED <<ServiceState, calls, CallsIn(ioq), RegisteredPairs, mainq>>
    BY <1>f, <2>1 DEF ServiceState, CallsIn, RegisteredPairs
  <2>3. Service!Die
    BY <2>1, <2>2 DEF Service!Die
  <2> QED
    BY <2>3 DEF ServiceStep, Service!Next
<1> QED
  BY <1>1, <1>2, <1>3, <1>4, <1>5, <1>6 DEF Run

LEMMA CallService == Inv /\ (AddPathRunnable \/ RemovePathRunnable) => ServiceStep
<1> SUFFICES ASSUME Inv, AddPathRunnable \/ RemovePathRunnable PROVE ServiceStep
  OBVIOUS
<1>a. /\ Takes("add") \/ Takes("remove")
      /\ Ends /\ ioq' = Tail(ioq)
      /\ UNCHANGED <<initialised, mIOThread, calls>>
  BY DEF AddPathRunnable, AddMissing, AddKnown, AddRefused, AddWatched, Adds,
         RemovePathRunnable, RemoveUnwatched, RemoveUnregistered, RemoveOne, RemoveAborted,
         RemoveLast, Removes, Ends, CallVars, mainVars
<1>t. /\ ioq \in Seq(Tasks) /\ Current \in Calls /\ Alive /\ ioq # <<>> /\ Current = Head(ioq)
      /\ mChangeCallbacksTable \in [Paths -> SUBSET Cbs] /\ NoOrphans /\ Increasing(ioq)
  BY <1>a, TakesProperties DEF Inv, TypeInv, TypeOK, QueueTypeOK, TableTypeOK, RemovalInv, CallOrder,
                               Takes, Current
<1> DEFINE r == Current
<1>r. r \in Service!Calls /\ r.path \in Paths /\ r.cb \in Cbs
  BY <1>t DEF Calls, CallIds, Service!Calls
<1>c. /\ Current \in CallsIn(ioq)
      /\ \A s \in CallsIn(ioq) : Current.id <= s.id
      /\ CallsIn(Tail(ioq)) = CallsIn(ioq) \ {Current}
  <2>1. CallsIn(ioq) = CallsIn(Tail(ioq)) \cup {Current}
    BY <1>t, RequestsTaken
  <2>2. \A s \in CallsIn(Tail(ioq)) : Current.id < s.id /\ s \in Calls
    BY <1>t, CallsInProperties DEF CallsIn
  <2>3. Current.id \in Nat /\ \A s \in Calls : s.id \in Nat
    BY <1>t, CallTypes
  <2>4. Current \notin CallsIn(Tail(ioq))
    BY <2>2, <2>3
  <2>5. \A s \in CallsIn(ioq) : Current.id <= s.id
    BY <2>1, <2>2, <2>3
  <2> QED
    BY <2>1, <2>4, <2>5
<1>q. (CallsIn(ioq))' = CallsIn(ioq) \ {Current}
  BY <1>a, <1>c DEF CallsIn
<1>s. ServiceState' = ServiceState
  BY <1>a DEF ServiceState
<1>x. Alive' = Alive => Service!Executes(Current)
  BY <1>a, <1>c, <1>q, <1>s, <1>t DEF Service!Executes
<1>ok. Report(Success(Current)) => Service!Answers(Service!Success(Current))
  BY DEF Report, Success, Service!Answers, Service!Success
<1>er. Report(Failure(Current)) => Service!Answers(Service!Failure(Current))
  BY DEF Report, Failure, Service!Answers, Service!Failure
<1>no. mainq' = mainq => /\ Service!Answers(Service!Success(Current))
                         /\ Service!Answers(Service!Failure(Current))
  BY DEF Service!Answers
<1>op. /\ AddPathRunnable => Current.op = "add"
       /\ RemovePathRunnable => Current.op = "remove"
  BY <1>t DEF AddPathRunnable, AddMissing, AddKnown, AddRefused, AddWatched, Adds,
         RemovePathRunnable, RemoveUnwatched, RemoveUnregistered, RemoveOne, RemoveAborted,
         RemoveLast, Removes, Takes
\* What happens to the registered pairs.
<1>p. ASSUME mChangeCallbacksTable' = [mChangeCallbacksTable EXCEPT ![r.path] = @ \cup {r.cb}]
      PROVE  RegisteredPairs' = RegisteredPairs \cup {<<r.path, r.cb>>}
  <2> HIDE DEF r
  <2>1. \A p \in Paths : mChangeCallbacksTable'[p] =
            IF p = r.path THEN mChangeCallbacksTable[p] \cup {r.cb} ELSE mChangeCallbacksTable[p]
    BY <1>p, <1>t, <1>r
  <2>2. \A p \in Paths, c \in Cbs : <<p, c>> \in RegisteredPairs <=> c \in mChangeCallbacksTable[p]
    BY DEF RegisteredPairs
  <2>3. \A p \in Paths, c \in Cbs : <<p, c>> \in RegisteredPairs' <=> c \in mChangeCallbacksTable'[p]
    BY DEF RegisteredPairs
  <2>4. RegisteredPairs \subseteq Paths \X Cbs /\ RegisteredPairs' \subseteq Paths \X Cbs
    BY DEF RegisteredPairs
  <2>5. \A p \in Paths, c \in Cbs :
          <<p, c>> \in RegisteredPairs' <=> <<p, c>> \in RegisteredPairs \/ (p = r.path /\ c = r.cb)
    BY <2>1, <2>2, <2>3
  <2> QED
    BY <1>r, <2>4, <2>5
<1>m. ASSUME mChangeCallbacksTable' = [mChangeCallbacksTable EXCEPT ![r.path] = @ \ {r.cb}]
      PROVE  RegisteredPairs' = RegisteredPairs \ {<<r.path, r.cb>>}
  <2> HIDE DEF r
  <2>1. \A p \in Paths : mChangeCallbacksTable'[p] =
            IF p = r.path THEN mChangeCallbacksTable[p] \ {r.cb} ELSE mChangeCallbacksTable[p]
    BY <1>m, <1>t, <1>r
  <2>2. \A p \in Paths, c \in Cbs : <<p, c>> \in RegisteredPairs <=> c \in mChangeCallbacksTable[p]
    BY DEF RegisteredPairs
  <2>3. \A p \in Paths, c \in Cbs : <<p, c>> \in RegisteredPairs' <=> c \in mChangeCallbacksTable'[p]
    BY DEF RegisteredPairs
  <2>4. RegisteredPairs \subseteq Paths \X Cbs /\ RegisteredPairs' \subseteq Paths \X Cbs
    BY DEF RegisteredPairs
  <2>5. \A p \in Paths, c \in Cbs :
          <<p, c>> \in RegisteredPairs' <=> <<p, c>> \in RegisteredPairs /\ ~(p = r.path /\ c = r.cb)
    BY <2>1, <2>2, <2>3
  <2> QED
    BY <1>r, <2>4, <2>5
<1>u. mChangeCallbacksTable' = mChangeCallbacksTable => RegisteredPairs' = RegisteredPairs
  BY DEF RegisteredPairs
<1>1. CASE AddMissing \/ AddRefused
  <2>1. /\ mainq' = mainq \/ Report(Failure(Current))
        /\ mChangeCallbacksTable' = mChangeCallbacksTable /\ Alive' = Alive
    BY <1>1 DEF AddMissing, AddRefused, Adds, tableVars, Alive
  <2>2. Service!AddFails(Current)
    BY <1>1, <1>no, <1>er, <1>op, <1>u, <1>x, <2>1 DEF Service!AddFails, AddPathRunnable
  <2> QED
    BY <1>r, <2>2 DEF ServiceStep, Service!Next
<1>2. CASE AddKnown \/ AddWatched
  <2>1. /\ mainq' = mainq \/ Report(Success(Current))
        /\ mChangeCallbacksTable' = [mChangeCallbacksTable EXCEPT ![r.path] = @ \cup {r.cb}]
        /\ Alive' = Alive
    BY <1>2 DEF AddKnown, AddWatched, AppendCallbacks, Adds, Alive
  <2>2. Service!AddRegisters(Current)
    BY <1>2, <1>no, <1>ok, <1>op, <1>p, <1>x, <2>1 DEF Service!AddRegisters, AddPathRunnable
  <2> QED
    BY <1>r, <2>2 DEF ServiceStep, Service!Next
<1>4. CASE RemoveUnwatched
  <2>1. /\ Report(Success(Current)) /\ mChangeCallbacksTable' = mChangeCallbacksTable /\ Alive' = Alive
        /\ mWatchedResourcesByPath[Current.path] = NoWd
    BY <1>4 DEF RemoveUnwatched, HasEntry, tableVars, Alive
  <2>2. mChangeCallbacksTable[Current.path] = {}
    BY <1>r, <1>t, <2>1 DEF NoOrphans
  <2>3. <<Current.path, Current.cb>> \notin RegisteredPairs
    BY <2>2 DEF RegisteredPairs
  <2>4. Service!RemoveUnregisters(Current)
    BY <1>4, <1>ok, <1>op, <1>u, <1>x, <2>1, <2>3 DEF Service!RemoveUnregisters, RemovePathRunnable
  <2> QED
    BY <1>r, <2>4 DEF ServiceStep, Service!Next
<1>5. CASE RemoveOne \/ RemoveAborted \/ RemoveLast
  <2>1. /\ mainq' = mainq \/ Report(Success(Current))
        /\ mChangeCallbacksTable' = [mChangeCallbacksTable EXCEPT ![r.path] = @ \ {r.cb}]
        /\ Alive' = Alive
    BY <1>5 DEF RemoveOne, RemoveAborted, RemoveLast, RemoveCallbacks, Alive
  <2>4. Service!RemoveUnregisters(Current)
    BY <1>5, <1>no, <1>ok, <1>op, <1>m, <1>x, <2>1 DEF Service!RemoveUnregisters, RemovePathRunnable
  <2> QED
    BY <1>r, <2>4 DEF ServiceStep, Service!Next
<1>6. CASE RemoveUnregistered
  <2>1. mainq' = mainq /\ ~Alive' /\ mChangeCallbacksTable' = mChangeCallbacksTable
    BY <1>6 DEF RemoveUnregistered, tableVars, Alive
  <2>2. Service!Die
    BY <1>a, <1>q, <1>s, <1>t, <1>u, <2>1 DEF Service!Die
  <2> QED
    BY <2>2 DEF ServiceStep, Service!Next
<1> QED
  BY <1>1, <1>2, <1>4, <1>5, <1>6 DEF AddPathRunnable, RemovePathRunnable

LEMMA DeactivateService == Inv /\ DeactivateRunnable => ServiceStep
<1> SUFFICES ASSUME Inv, DeactivateRunnable PROVE ServiceStep
  OBVIOUS
<1>1. /\ Alive /\ ioq # <<>> /\ Head(ioq).op = "deactivate" /\ ioq' = Tail(ioq)
      /\ mChangeCallbacksTable' = [p \in Paths |-> {}]
      /\ crash' = crash \/ crash' = "deactivated"
      /\ UNCHANGED <<initialised, mIOThread, calls, mainq>>
  BY DEF DeactivateRunnable, Takes, Ends, CallVars, mainVars
<1>2. ioq \in Seq(Tasks) /\ Opened /\ ShutdownInv
  BY DEF Inv, TypeInv, TypeOK, QueueTypeOK
<1>3. ~mIOThread /\ initialised = "ok"
  <2>1. Head(ioq) = ioq[1] /\ 1 \in 1..Len(ioq)
    BY <1>1, <1>2
  <2> QED
    BY <1>1, <1>2, <2>1 DEF Opened, ShutdownInv, NoShutdown
<1>4. NoCalls(Tail(ioq)) /\ Tail(ioq) \in Seq(Tasks)
  BY <1>1, <1>2, OrderedProperties DEF ShutdownInv
<1>5. CallsIn(Tail(ioq)) = {}
  BY <1>4 DEF NoCalls, CallsIn, Calls
<1>6. CallsIn(ioq) = {}
  <2>1. {Head(ioq)} \cap Calls = {}
    BY <1>1 DEF Calls
  <2> QED
    BY <1>1, <1>2, <1>5, <2>1, RequestsTaken
<1>8. (CallsIn(ioq))' = CallsIn(ioq)
  BY <1>1, <1>5, <1>6 DEF CallsIn
<1>9. ServiceState = "closed" /\ ServiceState' = "closed"
  BY <1>1, <1>3 DEF ServiceState
<1>10. RegisteredPairs' = {}
  BY <1>1 DEF RegisteredPairs
<1>11. CASE crash' = crash
  <2>1. Service!Shutdown
    BY <1>1, <1>6, <1>8, <1>9, <1>10, <1>11 DEF Service!Shutdown, Alive
  <2> QED
    BY <2>1 DEF ServiceStep, Service!Next
<1>12. CASE crash' = "deactivated"
  <2>1. Service!Die
    BY <1>1, <1>8, <1>9, <1>10, <1>12 DEF Service!Die, Alive
  <2> QED
    BY <2>1 DEF ServiceStep, Service!Next
<1> QED
  BY <1>1, <1>11, <1>12

LEMMA StepService == Inv /\ [Next]_vars => ServiceStep
<1> SUFFICES ASSUME Inv, [Next]_vars PROVE ServiceStep
  OBVIOUS
<1>1. CASE FileSystem \/ Signals \/ UNCHANGED vars
  <2>1. UNCHANGED <<serviceFrame, ioq, crash>>
    BY <1>1 DEF FileSystem, Signals, SignalLoad, SignalStore, watcherVars, vars, mainVars, tableVars,
                serviceFrame
  <2> QED
    BY <2>1, Stutters DEF Alive
<1> QED
  BY <1>1, MainThreadService, DeliverService, RunService, CallService, DeactivateService
     DEF Next, IOThread

\* The Linux port implements the service: its calls take effect in their order, an
\* unwatched path has no callback to be told, what is posted goes to callbacks
\* that are registered, and nothing comes after the shutdown.
THEOREM LinuxImplementsService == Spec => ImplementsService
<1>1. TypeInv /\ Opened /\ ShutdownInv /\ RemovalInv => Inv
  BY DEF Inv
<1>2. Inv /\ [Next]_vars => [Service!Next]_(Service!serviceVars)
  BY StepService DEF ServiceStep
<1>3. Spec => []Inv
  BY <1>1, AlwaysTypeInv, AlwaysOpened, AlwaysShutdownInv, AlwaysRemovalInv, PTL
<1> QED
  BY <1>2, <1>3, InitService, PTL DEF Spec, ImplementsService, Service!Spec
=============================================================================
