-------------------------- MODULE MacService_proofs --------------------------
(***************************************************************************)
(* The macOS port implements WatchService, for every value of the          *)
(* constants.                                                              *)
(***************************************************************************)
EXTENDS MacWatcher_proofs

-----------------------------------------------------------------------------
(***************************************************************************)
(* The queue of the IO thread: the calls in it are in the order in which   *)
(* they were made, and none is behind the runnable of the shutdown.        *)
(***************************************************************************)
GoodQueue(q, made, open) ==
  /\ \A n \in 1..Len(q) : q[n] \in Calls => q[n].id <= made
  /\ \A m, n \in 1..Len(q) : m < n /\ q[m] \in Calls /\ q[n] \in Calls => q[m].id < q[n].id
  /\ \A m, n \in 1..Len(q) : m < n /\ q[m] = DeactivateTask => q[n] \notin Calls
  /\ open => \A n \in 1..Len(q) : q[n] # DeactivateTask

Opened == initialised = "ok" \/ (~mIOThread /\ \A n \in 1..Len(ioq) : ioq[n] = RunTask)

QueueInv == Opened /\ GoodQueue(ioq, calls, mIOThread)

LEMMA TaskKinds ==
  /\ RunTask \notin Calls /\ DeactivateTask \notin Calls /\ RunTask # DeactivateTask
  /\ RunTask \in Tasks /\ DeactivateTask \in Tasks /\ Calls \subseteq Tasks
<1>1. \A r \in Calls : r.op \in {"add", "remove"}
  BY DEF Calls
<1>2. RunTask.op = "run" /\ DeactivateTask.op = "deactivate"
  BY DEF RunTask, DeactivateTask
<1> QED
  BY <1>1, <1>2 DEF Tasks

LEMMA QueueTaken ==
  ASSUME NEW q \in Seq(Tasks), q # <<>>, NEW made, NEW open, GoodQueue(q, made, open)
  PROVE  GoodQueue(Tail(q), made, open)
<1> DEFINE s == Tail(q)
<1>1. /\ Len(s) = Len(q) - 1 /\ Len(q) \in Nat \ {0}
      /\ \A n \in 1..Len(s) : s[n] = q[n + 1] /\ n + 1 \in 1..Len(q)
  BY TailOfQueue
<1> HIDE DEF s
<1>2. \A n \in 1..Len(s) : s[n] \in Calls => s[n].id <= made
  BY <1>1 DEF GoodQueue
<1>3. \A m, n \in 1..Len(s) : m < n => m + 1 < n + 1
  OBVIOUS
<1>4. \A m, n \in 1..Len(s) : m < n /\ s[m] \in Calls /\ s[n] \in Calls => s[m].id < s[n].id
  BY <1>1, <1>3 DEF GoodQueue
<1>5. \A m, n \in 1..Len(s) : m < n /\ s[m] = DeactivateTask => s[n] \notin Calls
  BY <1>1, <1>3 DEF GoodQueue
<1>6. open => \A n \in 1..Len(s) : s[n] # DeactivateTask
  BY <1>1 DEF GoodQueue
<1>7. GoodQueue(s, made, open)
  BY <1>2, <1>4, <1>5, <1>6 DEF GoodQueue
<1> QED
  BY <1>7 DEF s

LEMMA QueueAppended ==
  ASSUME NEW q \in Seq(Tasks), NEW made \in Nat, NEW open \in BOOLEAN, GoodQueue(q, made, open),
         NEW x \in Tasks, NEW made2 \in Nat, NEW open2 \in BOOLEAN,
         \/ x = RunTask /\ made2 = made /\ open2 = open
         \/ x = DeactivateTask /\ made2 = made /\ ~open2
         \/ x \in Calls /\ x.id = made + 1 /\ made2 = made + 1 /\ open /\ open2
  PROVE  GoodQueue(Append(q, x), made2, open2)
<1> DEFINE s == Append(q, x)
<1>1. /\ Len(s) = Len(q) + 1 /\ Len(q) \in Nat
      /\ \A n \in 1..Len(q) : s[n] = q[n]
      /\ s[Len(q) + 1] = x
  BY AppendedQueue
<1> HIDE DEF s
<1>2. \A n \in 1..Len(s) : n \in 1..Len(q) \/ n = Len(q) + 1
  BY <1>1
<1>3. \A m, n \in 1..Len(s) : m < n => m \in 1..Len(q)
  BY <1>1
<1>t. \A r \in Calls : r.id \in Nat
  BY WatcherAssumption DEF Calls
<1>4. \A n \in 1..Len(s) : s[n] \in Calls => s[n].id <= made2
  <2> SUFFICES ASSUME NEW n \in 1..Len(s), s[n] \in Calls PROVE s[n].id <= made2
    OBVIOUS
  <2>1. CASE n \in 1..Len(q)
    <3>1. s[n].id <= made /\ s[n].id \in Nat
      BY <1>1, <1>t, <2>1 DEF GoodQueue
    <3> QED
      BY <3>1
  <2>2. CASE n = Len(q) + 1
    BY <1>1, <1>t, <2>2, TaskKinds
  <2> QED
    BY <1>2, <2>1, <2>2
<1>5. \A m, n \in 1..Len(s) : m < n /\ s[m] \in Calls /\ s[n] \in Calls => s[m].id < s[n].id
  <2> SUFFICES ASSUME NEW m \in 1..Len(s), NEW n \in 1..Len(s), m < n,
                      s[m] \in Calls, s[n] \in Calls
               PROVE  s[m].id < s[n].id
    OBVIOUS
  <2>1. m \in 1..Len(q) /\ s[m] = q[m] /\ q[m].id <= made /\ q[m].id \in Nat
    BY <1>1, <1>3, <1>t DEF GoodQueue
  <2>2. CASE n \in 1..Len(q)
    BY <1>1, <2>1, <2>2 DEF GoodQueue
  <2>3. CASE n = Len(q) + 1
    BY <1>1, <2>1, <2>3, TaskKinds
  <2> QED
    BY <1>2, <2>2, <2>3
<1>6. \A m, n \in 1..Len(s) : m < n /\ s[m] = DeactivateTask => s[n] \notin Calls
  <2> SUFFICES ASSUME NEW m \in 1..Len(s), NEW n \in 1..Len(s), m < n,
                      s[m] = DeactivateTask
               PROVE  s[n] \notin Calls
    OBVIOUS
  <2>1. m \in 1..Len(q) /\ q[m] = DeactivateTask
    BY <1>1, <1>3
  <2>2. CASE n \in 1..Len(q)
    BY <1>1, <2>1, <2>2 DEF GoodQueue
  <2>3. CASE n = Len(q) + 1
    BY <1>1, <2>1, <2>3, TaskKinds DEF GoodQueue
  <2> QED
    BY <1>2, <2>2, <2>3
<1>7. open2 => \A n \in 1..Len(s) : s[n] # DeactivateTask
  BY <1>1, <1>2, TaskKinds DEF GoodQueue
<1>8. GoodQueue(s, made2, open2)
  BY <1>4, <1>5, <1>6, <1>7 DEF GoodQueue
<1> QED
  BY <1>8 DEF s

(***************************************************************************)
(* What a step does to the queue.                                          *)
(***************************************************************************)
Starts ==
  /\ initialised = "no" /\ calls' = calls
  /\ \/ initialised' = "ok" /\ mIOThread' = TRUE /\ ioq' = <<RunTask>>
     \/ initialised' = "failed" /\ UNCHANGED <<mIOThread, ioq>>

Takings ==
  /\ UNCHANGED mainVars
  /\ ioq # <<>>
  /\ \/ ioq' = Tail(ioq)
     \/ Current = RunTask /\ ioq' = Append(Tail(ioq), RunTask)

Called(r) ==
  /\ mIOThread /\ UNCHANGED <<mIOThread, initialised>>
  /\ r.id = calls + 1 /\ calls' = calls + 1 /\ ioq' = Append(ioq, r)

Closes ==
  /\ mIOThread /\ mIOThread' = FALSE /\ UNCHANGED <<calls, initialised>>
  /\ ioq' = Append(ioq, DeactivateTask)

Reposts == UNCHANGED mainVars /\ ioq' = Append(ioq, RunTask)

QueueStep ==
  \/ UNCHANGED <<mainVars, ioq>>
  \/ Starts \/ Takings \/ Closes \/ Reposts
  \/ \E r \in Calls : Called(r)

LEMMA QueueSteps == TypeInv /\ [Next]_vars => QueueStep
<1> SUFFICES ASSUME TypeInv, [Next]_vars PROVE QueueStep
  OBVIOUS
<1>t. ioq \in Seq(Tasks) /\ calls \in 0..MaxCalls /\ MaxCalls \in Nat
  BY WatcherAssumption DEF TypeInv, TypeOK, QueueTypeOK, ServiceTypeOK
<1>1. CASE ServiceInit
  BY <1>1 DEF ServiceInit, QueueStep, Starts
<1>2. CASE \E p \in Paths, c \in Cbs, e \in Errs : AddPath(p, c, e) \/ RemovePath(p, c, e)
  <2>1. PICK op \in {"add", "remove"}, p \in Paths, c \in Cbs, e \in Errs : DispatchCall(op, p, c, e)
    BY <1>2 DEF AddPath, RemovePath
  <2>2. PICK r : r = [op |-> op, id |-> calls + 1, path |-> p, cb |-> c, err |-> e]
    OBVIOUS
  <2>3. calls < MaxCalls /\ calls + 1 \in 1..MaxCalls
    BY <1>t, <2>1 DEF DispatchCall
  <2>4. r \in Calls /\ r.id = calls + 1
    BY <2>2, <2>3 DEF Calls
  <2>5. Called(r)
    BY <2>1, <2>2, <2>4 DEF DispatchCall, DispatchToIO, Called
  <2> QED
    BY <2>4, <2>5 DEF QueueStep
<1>3. CASE Uninit
  BY <1>3 DEF Uninit, DispatchToIO, QueueStep, Closes
<1>4. CASE DeliverNext
  BY <1>4 DEF DeliverNext, DeliverChange, DeliverSuccess, Delivered, QueueStep
<1>5. CASE Run
  <2>1. UNCHANGED mainVars
    BY <1>5 DEF Run, RunInShutdown, RunNothing, RunBegin, RunEvent, SkipUnwatched, DispatchChange,
              DispatchChangeFails, RunPop, RunEnd, InRun, RunFrame
  <2>2. CASE RunInShutdown \/ RunBegin
    BY <2>1, <2>2 DEF RunInShutdown, RunBegin, IOTakes, QueueStep, Takings
  <2>3. CASE RunNothing
    <3>1. ioq # <<>> /\ Head(ioq).op = "run" /\ ioq' = Append(Tail(ioq), RunTask)
      BY <2>3 DEF RunNothing, IOTakes, Reschedule
    <3>2. Head(ioq) = RunTask
      BY <1>t, <3>1, TailOfQueue DEF Tasks, Calls, DeactivateTask
    <3> QED
      BY <2>1, <3>1, <3>2 DEF QueueStep, Takings, Current
  <2>4. CASE RunEvent \/ SkipUnwatched \/ DispatchChange \/ DispatchChangeFails \/ RunPop
    BY <2>1, <2>4 DEF RunEvent, SkipUnwatched, DispatchChange, DispatchChangeFails, RunPop, QueueStep
  <2>5. CASE RunEnd
    BY <2>1, <2>5 DEF RunEnd, Reschedule, QueueStep, Reposts
  <2> QED
    BY <1>5, <2>2, <2>3, <2>4, <2>5 DEF Run
<1>6. CASE AddPathRunnable \/ RemovePathRunnable
  <2>1. ioq # <<>> /\ ioq' = Tail(ioq) /\ UNCHANGED mainVars
    BY <1>6 DEF AddPathRunnable, Adds, AddMissing, AddKnown, AddFirst, AddFirstFails, AddNext,
           AddDispatchFails, AddNoRunLoop, RemovePathRunnable, Removes, RemoveUnwatched, RemoveUnregistered,
           RemoveOne, RemoveLast, RemoveDispatchFails, RemoveNoRunLoop, Ends, IOTakes
  <2> QED
    BY <2>1 DEF QueueStep, Takings
<1>7. CASE DeactivateRunnable
  BY <1>7 DEF DeactivateRunnable, IOTakes, QueueStep, Takings
<1>8. CASE FSE \/ FileSystem \/ UNCHANGED vars
  BY <1>8 DEF FSE, FileSystem, vars, watcherVars, QueueStep
<1> QED
  BY <1>1, <1>2, <1>3, <1>4, <1>5, <1>6, <1>7, <1>8 DEF Next, MainThread, IOThread

LEMMA QueueKept == TypeInv /\ TypeInv' /\ QueueInv /\ QueueStep => QueueInv'
<1> SUFFICES ASSUME TypeInv, TypeInv', QueueInv, QueueStep PROVE QueueInv'
  OBVIOUS
<1>t. /\ ioq \in Seq(Tasks) /\ calls \in Nat /\ calls' \in Nat
      /\ mIOThread \in BOOLEAN /\ mIOThread' \in BOOLEAN
  BY WatcherAssumption DEF TypeInv, TypeOK, QueueTypeOK, ServiceTypeOK
<1>g. GoodQueue(ioq, calls, mIOThread)
  BY DEF QueueInv
\* What has to be shown of the next state.
<1>q. ASSUME NEW q, NEW made, NEW open, ioq' = q, calls' = made, mIOThread' = open,
             GoodQueue(q, made, open), Opened'
      PROVE  QueueInv'
  BY <1>q DEF QueueInv, GoodQueue
<1>1. CASE UNCHANGED <<mainVars, ioq>>
  BY <1>1 DEF mainVars, QueueInv, Opened, GoodQueue
<1>2. CASE Starts
  <2>1. CASE initialised' = "ok" /\ mIOThread' = TRUE /\ ioq' = <<RunTask>> /\ calls' = calls
    <3>1. GoodQueue(<<RunTask>>, calls, TRUE)
      BY TaskKinds DEF GoodQueue
    <3> QED
      BY <1>q, <2>1, <3>1 DEF Opened
  <2>2. CASE initialised = "no" /\ initialised' = "failed" /\ UNCHANGED <<mIOThread, ioq, calls>>
    BY <2>2 DEF QueueInv, Opened, GoodQueue
  <2> QED
    BY <1>2, <2>1, <2>2 DEF Starts
<1>3. CASE Takings
  <2>1. ioq # <<>> /\ calls' = calls /\ mIOThread' = mIOThread /\ initialised' = initialised
    BY <1>3 DEF Takings, mainVars
  <2>2. Tail(ioq) \in Seq(Tasks) /\ GoodQueue(Tail(ioq), calls, mIOThread)
    BY <1>g, <1>t, <2>1, QueueTaken, TailOfQueue
  <2>3. /\ Len(Tail(ioq)) = Len(ioq) - 1
        /\ \A n \in 1..Len(Tail(ioq)) : Tail(ioq)[n] = ioq[n + 1] /\ n + 1 \in 1..Len(ioq)
    BY <1>t, <2>1, TailOfQueue
  <2>4. (\A n \in 1..Len(ioq) : ioq[n] = RunTask) => \A n \in 1..Len(Tail(ioq)) : Tail(ioq)[n] = RunTask
    BY <2>3
  <2>5. ASSUME ioq' = Tail(ioq) PROVE QueueInv'
    <3>1. Opened'
      BY <2>1, <2>4, <2>5 DEF QueueInv, Opened
    <3> QED
      BY <1>q, <2>1, <2>2, <2>5, <3>1
  <2>6. ASSUME ioq' = Append(Tail(ioq), RunTask) PROVE QueueInv'
    <3>1. /\ Len(ioq') = Len(Tail(ioq)) + 1 /\ Len(Tail(ioq)) \in Nat
          /\ \A n \in 1..Len(Tail(ioq)) : ioq'[n] = Tail(ioq)[n]
          /\ ioq'[Len(Tail(ioq)) + 1] = RunTask
      BY <2>2, <2>6, AppendedQueue, TaskKinds
    <3>2. (\A n \in 1..Len(ioq) : ioq[n] = RunTask) => \A n \in 1..Len(ioq') : ioq'[n] = RunTask
      BY <2>4, <3>1
    <3>3. Opened'
      BY <2>1, <3>2 DEF QueueInv, Opened
    <3>4. GoodQueue(Append(Tail(ioq), RunTask), calls, mIOThread)
      BY <1>t, <2>2, QueueAppended, TaskKinds
    <3> QED
      BY <1>q, <2>1, <2>6, <3>3, <3>4
  <2> QED
    BY <1>3, <2>5, <2>6 DEF Takings
<1>4. CASE Closes
  <2>1. /\ mIOThread /\ mIOThread' = FALSE /\ calls' = calls /\ initialised' = initialised
        /\ ioq' = Append(ioq, DeactivateTask)
    BY <1>4 DEF Closes
  <2>2. GoodQueue(Append(ioq, DeactivateTask), calls, FALSE)
    BY <1>g, <1>t, QueueAppended, TaskKinds
  <2>3. Opened'
    BY <2>1 DEF QueueInv, Opened
  <2> QED
    BY <1>q, <2>1, <2>2, <2>3
<1>5. CASE Reposts
  <2>1. /\ calls' = calls /\ mIOThread' = mIOThread /\ initialised' = initialised
        /\ ioq' = Append(ioq, RunTask)
    BY <1>5 DEF Reposts, mainVars
  <2>2. GoodQueue(Append(ioq, RunTask), calls, mIOThread)
    BY <1>g, <1>t, QueueAppended, TaskKinds
  <2>3. /\ Len(ioq') = Len(ioq) + 1 /\ Len(ioq) \in Nat
        /\ \A n \in 1..Len(ioq) : ioq'[n] = ioq[n]
        /\ ioq'[Len(ioq) + 1] = RunTask
    BY <1>t, <2>1, AppendedQueue, TaskKinds
  <2>4. (\A n \in 1..Len(ioq) : ioq[n] = RunTask) => \A n \in 1..Len(ioq') : ioq'[n] = RunTask
    BY <2>3
  <2>5. Opened'
    BY <2>1, <2>4 DEF QueueInv, Opened
  <2> QED
    BY <1>q, <2>1, <2>2, <2>5
<1>6. CASE \E r \in Calls : Called(r)
  <2>1. PICK r \in Calls : Called(r)
    BY <1>6
  <2>2. /\ mIOThread /\ mIOThread' = mIOThread /\ initialised' = initialised
        /\ r.id = calls + 1 /\ calls' = calls + 1 /\ ioq' = Append(ioq, r)
    BY <2>1 DEF Called
  <2>3. GoodQueue(Append(ioq, r), calls + 1, mIOThread)
    BY <1>g, <1>t, <2>2, QueueAppended, TaskKinds
  <2>4. Opened'
    BY <2>2 DEF QueueInv, Opened
  <2> QED
    BY <1>q, <2>2, <2>3, <2>4
<1> QED
  BY <1>1, <1>2, <1>3, <1>4, <1>5, <1>6 DEF QueueStep

LEMMA QueueInvariant == Spec => []QueueInv
<1>1. Init => QueueInv
  <2> SUFFICES ASSUME Init PROVE QueueInv
    OBVIOUS
  <2>1. ioq = <<>> /\ mIOThread = FALSE
    BY DEF Init
  <2>2. \A n \in 1..Len(ioq) : FALSE
    BY <2>1
  <2> QED
    BY <2>1, <2>2 DEF QueueInv, Opened, GoodQueue
<1>2. TypeInv /\ TypeInv' /\ QueueInv /\ [Next]_vars => QueueInv'
  BY QueueSteps, QueueKept
<1> QED
  BY <1>1, <1>2, TypesHold, PTL DEF Spec
-----------------------------------------------------------------------------
(***************************************************************************)
(* The calls that the queue still holds.                                   *)
(***************************************************************************)
LEMMA RequestsAppended ==
  ASSUME NEW q \in Seq(Tasks), NEW x \in Tasks
  PROVE  CallsIn(Append(q, x)) = CallsIn(q) \cup ({x} \cap Calls)
<1> DEFINE s == Append(q, x)
<1>1. /\ Len(s) = Len(q) + 1 /\ Len(q) \in Nat
      /\ \A n \in 1..Len(q) : s[n] = q[n]
      /\ s[Len(q) + 1] = x
  BY AppendedQueue
<1> HIDE DEF s
<1>2. \A n \in 1..Len(s) : n \in 1..Len(q) \/ n = Len(q) + 1
  BY <1>1
<1>3. \A n \in 1..Len(q) : n \in 1..Len(s)
  BY <1>1
<1>4. Len(q) + 1 \in 1..Len(s)
  BY <1>1
<1>5. ASSUME NEW y PROVE y \in CallsIn(s) <=> y \in CallsIn(q) \/ (y = x /\ y \in Calls)
  <2>1. (\E n \in 1..Len(s) : y = s[n]) <=> (\E n \in 1..Len(q) : y = q[n]) \/ y = x
    BY <1>1, <1>2, <1>3, <1>4
  <2> QED
    BY <2>1 DEF CallsIn
<1>6. CallsIn(s) = CallsIn(q) \cup ({x} \cap Calls)
  BY <1>5
<1> QED
  BY <1>6 DEF s

\* A runnable that is not a call changes nothing.
LEMMA NoRequest ==
  ASSUME NEW q \in Seq(Tasks)
  PROVE  /\ CallsIn(Append(q, RunTask)) = CallsIn(q)
         /\ CallsIn(Append(q, DeactivateTask)) = CallsIn(q)
<1>1. \A S : \A x : x \notin Calls => S \cup ({x} \cap Calls) = S
  OBVIOUS
<1> QED
  BY <1>1, RequestsAppended, TaskKinds

LEMMA RequestsTaken ==
  ASSUME NEW q \in Seq(Tasks), q # <<>>
  PROVE  /\ CallsIn(q) = CallsIn(Tail(q)) \cup ({Head(q)} \cap Calls)
         /\ Tail(q) \in Seq(Tasks)
<1> DEFINE s == Tail(q)
<1>1. /\ Head(q) = q[1] /\ Len(s) = Len(q) - 1 /\ Len(q) \in Nat \ {0}
      /\ \A n \in 1..Len(s) : s[n] = q[n + 1] /\ n + 1 \in 1..Len(q)
      /\ s \in Seq(Tasks)
  BY TailOfQueue
<1> HIDE DEF s
<1>2. \A n \in 1..Len(q) : n = 1 \/ (n - 1 \in 1..Len(s) /\ q[n] = s[n - 1])
  <2> SUFFICES ASSUME NEW n \in 1..Len(q), n # 1 PROVE n - 1 \in 1..Len(s) /\ q[n] = s[n - 1]
    OBVIOUS
  <2>1. n - 1 \in 1..Len(s) /\ (n - 1) + 1 = n
    BY <1>1
  <2> QED
    BY <1>1, <2>1
<1>3. 1 \in 1..Len(q)
  BY <1>1
<1>5. ASSUME NEW y PROVE y \in CallsIn(q) <=> y \in CallsIn(s) \/ (y = Head(q) /\ y \in Calls)
  <2>1. (\E n \in 1..Len(q) : y = q[n]) <=> (\E n \in 1..Len(s) : y = s[n]) \/ y = Head(q)
    BY <1>1, <1>2, <1>3
  <2> QED
    BY <2>1 DEF CallsIn
<1>6. CallsIn(q) = CallsIn(s) \cup ({Head(q)} \cap Calls)
  BY <1>5
<1> QED
  BY <1>1, <1>6 DEF s

LEMMA RequestsExecuted ==
  ASSUME NEW q \in Seq(Tasks), q # <<>>, Head(q) \in Calls, NEW made, NEW open,
         GoodQueue(q, made, open)
  PROVE  /\ Head(q) \in CallsIn(q)
         /\ \A s \in CallsIn(q) : Head(q).id <= s.id
         /\ CallsIn(Tail(q)) = CallsIn(q) \ {Head(q)}
<1>1. /\ Head(q) = q[1] /\ Len(q) \in Nat \ {0} /\ 1 \in 1..Len(q)
      /\ Len(Tail(q)) = Len(q) - 1
      /\ \A n \in 1..Len(Tail(q)) : Tail(q)[n] = q[n + 1] /\ n + 1 \in 1..Len(q)
  BY TailOfQueue
<1>2. CallsIn(q) = CallsIn(Tail(q)) \cup {Head(q)}
  BY RequestsTaken
<1>3. \A s \in CallsIn(Tail(q)) : \E n \in 1..Len(q) : 1 < n /\ s = q[n] /\ s \in Calls
  <2> SUFFICES ASSUME NEW n \in 1..Len(Tail(q)), Tail(q)[n] \in Calls
               PROVE  \E k \in 1..Len(q) : 1 < k /\ Tail(q)[n] = q[k] /\ Tail(q)[n] \in Calls
    BY DEF CallsIn
  <2>1. 1 < n + 1 /\ n + 1 \in 1..Len(q) /\ Tail(q)[n] = q[n + 1]
    BY <1>1
  <2> QED
    BY <2>1
<1>4. \A s \in CallsIn(Tail(q)) : Head(q).id < s.id /\ s \in Calls
  BY <1>1, <1>3 DEF GoodQueue
<1>t. \A r \in Calls : r.id \in Nat
  BY WatcherAssumption DEF Calls
<1>5. Head(q) \notin CallsIn(Tail(q))
  BY <1>4, <1>t
<1>6. \A s \in CallsIn(q) : Head(q).id <= s.id
  BY <1>2, <1>4, <1>t
<1> QED
  BY <1>2, <1>5, <1>6

-----------------------------------------------------------------------------
(***************************************************************************)
(* One step of the port is one step of the service, or none.               *)
(***************************************************************************)
Inv == TypeInv /\ QueueInv /\ (Alive => EntryInv)

ServiceStep == [Service!Next]_(Service!serviceVars)

serviceFrame == <<initialised, mIOThread, calls, mChangeCallbacksTable, mainq>>

\* Nothing that the service shows changes.
LEMMA Stutters ==
  ASSUME UNCHANGED serviceFrame, CallsIn(ioq') = CallsIn(ioq), Alive' = Alive
  PROVE  ServiceStep
<1>1. UNCHANGED <<ServiceState, RegisteredPairs, calls, mainq>>
  BY DEF serviceFrame, ServiceState, RegisteredPairs
<1>2. UNCHANGED CallsIn(ioq)
  BY DEF CallsIn
<1> QED
  BY <1>1, <1>2 DEF ServiceStep, Service!serviceVars

LEMMA InitService == Init => Service!Init
<1> SUFFICES ASSUME Init PROVE Service!Init
  OBVIOUS
<1>1. ServiceState = "new" /\ calls = 0 /\ mainq = <<>> /\ Alive
  BY DEF Init, TaskInit, ServiceState, Alive
<1>2. RegisteredPairs = {}
  BY DEF Init, RegisteredPairs
<1>3. CallsIn(ioq) = {}
  BY DEF Init, CallsIn
<1> QED
  BY <1>1, <1>2, <1>3 DEF Service!Init

LEMMA MainThreadService == Inv /\ MainThread => ServiceStep
<1> SUFFICES ASSUME Inv, MainThread PROVE ServiceStep
  OBVIOUS
<1>t. /\ ioq \in Seq(Tasks) /\ calls \in 0..MaxCalls /\ MaxCalls \in Nat /\ Opened
      /\ RunTask \notin Calls /\ DeactivateTask \notin Calls
  BY WatcherAssumption, TaskKinds DEF Inv, TypeInv, TypeOK, QueueTypeOK, ServiceTypeOK, QueueInv
<1>1. CASE ServiceInit
  <2>1. /\ initialised = "no"
        /\ UNCHANGED <<calls, mainq, mChangeCallbacksTable, crash>>
        /\ \/ initialised' = "ok" /\ mIOThread' = TRUE /\ ioq' = <<RunTask>>
           \/ initialised' = "failed" /\ UNCHANGED <<mIOThread, ioq>>
    BY <1>1 DEF ServiceInit, tableVars
  <2>2. ~mIOThread /\ \A n \in 1..Len(ioq) : ioq[n] = RunTask
    BY <1>t, <2>1 DEF Opened
  <2>3. CallsIn(ioq) = {} /\ CallsIn(<<RunTask>>) = {}
    BY <1>t, <2>2 DEF CallsIn
  <2>4. ASSUME initialised' = "ok", mIOThread' = TRUE, ioq' = <<RunTask>> PROVE ServiceStep
    <3>1. ServiceState = "new" /\ ServiceState' = "open"
      BY <2>1, <2>2, <2>4 DEF ServiceState
    <3>2. RegisteredPairs' = RegisteredPairs /\ Alive' = Alive
      BY <2>1 DEF RegisteredPairs, Alive
    <3>3. UNCHANGED CallsIn(ioq)
      BY <2>3, <2>4 DEF CallsIn
    <3>4. Service!Open
      BY <2>1, <3>1, <3>2, <3>3 DEF Service!Open
    <3> QED
      BY <3>4 DEF ServiceStep, Service!Next
  <2>5. ASSUME initialised' = "failed", UNCHANGED <<mIOThread, ioq>> PROVE ServiceStep
    <3>1. ServiceState = "new" /\ ServiceState' = "new"
      BY <2>1, <2>2, <2>5 DEF ServiceState
    <3>2. RegisteredPairs' = RegisteredPairs /\ Alive' = Alive
      BY <2>1 DEF RegisteredPairs, Alive
    <3>3. UNCHANGED CallsIn(ioq)
      BY <2>5 DEF CallsIn
    <3> QED
      BY <2>1, <3>1, <3>2, <3>3 DEF ServiceStep, Service!serviceVars
  <2> QED
    BY <2>1, <2>4, <2>5
<1>2. CASE \E p \in Paths, c \in Cbs, e \in Errs : AddPath(p, c, e) \/ RemovePath(p, c, e)
  <2>1. PICK op \in {"add", "remove"}, p \in Paths, c \in Cbs, e \in Errs : DispatchCall(op, p, c, e)
    BY <1>2 DEF AddPath, RemovePath
  <2>2. PICK r : r = [op |-> op, id |-> calls + 1, path |-> p, cb |-> c, err |-> e]
    OBVIOUS
  <2>3. calls < MaxCalls /\ calls + 1 \in 1..MaxCalls
    BY <1>t, <2>1 DEF DispatchCall
  <2>4. r \in Calls /\ r.id = calls + 1
    BY <2>2, <2>3 DEF Calls
  <2>5. /\ Alive /\ mIOThread /\ calls' = calls + 1 /\ ioq' = Append(ioq, r)
        /\ UNCHANGED <<crash, initialised, mIOThread, mainq, mChangeCallbacksTable>>
    BY <2>1, <2>2 DEF DispatchCall, DispatchToIO, AddPath, RemovePath, tableVars
  <2>6. ServiceState = "open" /\ ServiceState' = "open" /\ RegisteredPairs' = RegisteredPairs
        /\ Alive' = Alive
    BY <2>5 DEF ServiceState, RegisteredPairs, Alive
  <2>7. CallsIn(Append(ioq, r)) = CallsIn(ioq) \cup {r}
    BY <1>t, <2>4, TaskKinds, RequestsAppended
  <2>8. (CallsIn(ioq))' = CallsIn(ioq) \cup {r}
    BY <2>5, <2>7 DEF CallsIn
  <2>9. Service!Call(r)
    BY <2>4, <2>5, <2>6, <2>8 DEF Service!Call
  <2>10. r \in Service!Calls
    BY <2>4 DEF Calls, Service!Calls
  <2> QED
    BY <2>9, <2>10 DEF ServiceStep, Service!Next
<1>3. CASE Uninit
  <2>1. /\ Alive /\ mIOThread /\ mIOThread' = FALSE /\ ioq' = Append(ioq, DeactivateTask)
        /\ UNCHANGED <<crash, initialised, calls, mainq, mChangeCallbacksTable>>
    BY <1>3 DEF Uninit, DispatchToIO, tableVars
  <2>2. ServiceState = "open" /\ ServiceState' = "closed" /\ RegisteredPairs' = RegisteredPairs
        /\ Alive' = Alive
    BY <1>t, <2>1 DEF ServiceState, RegisteredPairs, Alive, Opened
  <2>3. CallsIn(Append(ioq, DeactivateTask)) = CallsIn(ioq)
    BY <1>t, TaskKinds, RequestsAppended
  <2>4. UNCHANGED CallsIn(ioq)
    BY <2>1, <2>3 DEF CallsIn
  <2>5. Service!Close
    BY <2>1, <2>2, <2>4 DEF Service!Close
  <2> QED
    BY <2>5 DEF ServiceStep, Service!Next
<1> QED
  BY <1>1, <1>2, <1>3 DEF MainThread
LEMMA DeliverService == Inv /\ DeliverNext => ServiceStep
<1> SUFFICES ASSUME Inv, DeliverNext PROVE ServiceStep
  OBVIOUS
<1>1. /\ Alive /\ mainq # <<>>
      /\ \/ Head(mainq).kind # "change" /\ mainq' = Tail(mainq)
         \/ /\ Head(mainq).kind = "change"
            /\ \E c \in Head(mainq).cbs :
                  mainq' = IF Head(mainq).cbs = {c} THEN Tail(mainq)
                           ELSE [mainq EXCEPT ![1].cbs = @ \ {c}]
  BY Zenon DEF DeliverNext, DeliverChange, DeliverSuccess, Delivered
<1>2. UNCHANGED <<crash, initialised, mIOThread, calls, ioq, mChangeCallbacksTable>>
  BY DEF DeliverNext, DeliverChange, DeliverSuccess, Delivered, mainVars, tableVars
<1>3. UNCHANGED <<ServiceState, calls, CallsIn(ioq), RegisteredPairs, Alive>>
  BY <1>2 DEF ServiceState, CallsIn, RegisteredPairs, Alive
<1>4. Service!Deliver
  BY <1>1, <1>3, Zenon DEF Service!Deliver
<1> QED
  BY <1>4 DEF ServiceStep, Service!Next

LEMMA PostService ==
  ASSUME Inv, NextPath \in mWatchedResourcesByPath, io = "paths", Alive, Alive' = Alive,
         UNCHANGED <<initialised, mIOThread, calls, ioq, mChangeCallbacksTable>>,
         NEW cbs \in SUBSET mChangeCallbacksTable[NextPath], PostChange(cbs)
  PROVE  ServiceStep
<1>1. UNCHANGED <<ServiceState, CallsIn(ioq), RegisteredPairs>>
  BY DEF ServiceState, CallsIn, RegisteredPairs
<1>2. CASE cbs = {}
  BY <1>1, <1>2 DEF PostChange, ServiceStep, Service!serviceVars
<1>3. CASE cbs # {}
  <2>1. /\ mSavedEvents \in Seq(EventIds) /\ mSavedEvents # <<>>
        /\ mWatchedResourcesByPath \subseteq Paths
        /\ mChangeCallbacksTable \in [Paths -> SUBSET Cbs]
    BY DEF Inv, TypeInv, TypeOK, TaskTypeOK, TableTypeOK
  <2>2. Event \in EventIds /\ NextPath \in Paths /\ cbs \in (SUBSET Cbs) \ {{}}
    BY <1>3, <2>1, TailOfQueue DEF Event
  <2>3. PICK m : m = [kind |-> "change", event |-> Event, path |-> NextPath, cbs |-> cbs]
    OBVIOUS
  <2>4. m \in Changes /\ m.path = NextPath /\ m.cbs = cbs
    BY <2>2, <2>3 DEF Changes
  <2>5. mainq' = Append(mainq, m)
    BY <1>3, <2>3 DEF PostChange
  <2>6. \A c \in cbs : <<NextPath, c>> \in RegisteredPairs
    BY <2>1, <2>2 DEF RegisteredPairs
  <2>7. Service!Announce(m)
    BY <1>1, <2>4, <2>5, <2>6 DEF Service!Announce
  <2> QED
    BY <2>4, <2>7 DEF ServiceStep, Service!Next
<1> QED
  BY <1>2, <1>3

LEMMA RunService == Inv /\ Run => ServiceStep
<1> SUFFICES ASSUME Inv, Run PROVE ServiceStep
  OBVIOUS
<1>t. ioq \in Seq(Tasks) /\ RunTask \in Tasks /\ RunTask \notin Calls
  BY TaskKinds DEF Inv, TypeInv, TypeOK, QueueTypeOK
<1>f. UNCHANGED <<crash, initialised, mIOThread, calls, mChangeCallbacksTable>> /\ Alive' = Alive
  BY DEF Run, RunInShutdown, RunNothing, RunBegin, RunEvent, SkipUnwatched, DispatchChange,
         DispatchChangeFails, RunPop, RunEnd, InRun, RunFrame, mainVars, tableVars, Alive
<1>s. ASSUME mainq' = mainq, CallsIn(ioq') = CallsIn(ioq) PROVE ServiceStep
  BY <1>f, <1>s, Stutters DEF serviceFrame
<1>1. CASE RunInShutdown \/ RunNothing \/ RunBegin
  <2>1. /\ mainq' = mainq /\ ioq # <<>> /\ Head(ioq).op = "run"
        /\ ioq' = Tail(ioq) \/ ioq' = Append(Tail(ioq), RunTask)
    BY <1>1 DEF RunInShutdown, RunNothing, RunBegin, IOTakes, Reschedule
  <2>2. Head(ioq) \notin Calls
    BY <2>1 DEF Calls
  <2>3. CallsIn(Tail(ioq)) = CallsIn(ioq) /\ Tail(ioq) \in Seq(Tasks)
    <3>1. CallsIn(ioq) = CallsIn(Tail(ioq)) \cup ({Head(ioq)} \cap Calls) /\ Tail(ioq) \in Seq(Tasks)
      BY <1>t, <2>1, RequestsTaken
    <3>2. {Head(ioq)} \cap Calls = {}
      BY <2>2
    <3> QED
      BY <3>1, <3>2
  <2>4. CallsIn(Append(Tail(ioq), RunTask)) = CallsIn(ioq)
    BY <2>3, NoRequest
  <2> QED
    BY <1>s, <2>1, <2>3, <2>4
<1>2. CASE RunEvent \/ SkipUnwatched \/ RunPop
  BY <1>2, <1>s DEF RunEvent, SkipUnwatched, RunPop
<1>3. CASE DispatchChange
  BY <1>3, <1>f, PostService DEF DispatchChange, InRun
<1>4. CASE DispatchChangeFails
  <2>1. PICK posted \in SUBSET mChangeCallbacksTable[NextPath] : PostChange(posted)
    BY <1>4 DEF DispatchChangeFails
  <2> QED
    BY <1>4, <1>f, <2>1, PostService DEF DispatchChangeFails, InRun
<1>5. CASE RunEnd
  <2>1. CallsIn(Append(ioq, RunTask)) = CallsIn(ioq)
    BY <1>t, NoRequest
  <2> QED
    BY <1>5, <1>s, <2>1 DEF RunEnd, Reschedule
<1> QED
  BY <1>1, <1>2, <1>3, <1>4, <1>5 DEF Run

LEMMA CallService == Inv /\ (AddPathRunnable \/ RemovePathRunnable) => ServiceStep
<1> SUFFICES ASSUME Inv, AddPathRunnable \/ RemovePathRunnable PROVE ServiceStep
  OBVIOUS
<1>a. /\ IOTakes("add") \/ IOTakes("remove")
      /\ ioq' = Tail(ioq)
      /\ UNCHANGED <<initialised, mIOThread, calls>>
  BY DEF AddPathRunnable, Adds, AddMissing, AddKnown, AddFirst, AddFirstFails, AddNext,
         AddDispatchFails, AddNoRunLoop, RemovePathRunnable, Removes, RemoveUnwatched, RemoveUnregistered,
         RemoveOne, RemoveLast, RemoveDispatchFails, RemoveNoRunLoop, Ends, mainVars
<1>t. /\ ioq \in Seq(Tasks) /\ Current \in Calls /\ Alive /\ ioq # <<>> /\ Current = Head(ioq)
      /\ mChangeCallbacksTable \in [Paths -> SUBSET Cbs] /\ EntryInv
      /\ GoodQueue(ioq, calls, mIOThread)
  BY <1>a, CurrentType DEF Inv, TypeInv, TypeOK, QueueTypeOK, TableTypeOK, QueueInv, IOTakes, Current
<1> DEFINE r == Current
<1>r. r \in Service!Calls /\ r.path \in Paths /\ r.cb \in Cbs
  BY <1>t DEF Calls, Service!Calls
<1>c. /\ Current \in CallsIn(ioq)
      /\ \A s \in CallsIn(ioq) : Current.id <= s.id
      /\ CallsIn(Tail(ioq)) = CallsIn(ioq) \ {Current}
  BY <1>t, RequestsExecuted
<1>q. (CallsIn(ioq))' = CallsIn(ioq) \ {Current}
  BY <1>a, <1>c DEF CallsIn
<1>s. ServiceState' = ServiceState
  BY <1>a DEF ServiceState
<1>x. Alive' = Alive => Service!Executes(Current)
  BY <1>a, <1>c, <1>q, <1>s, <1>t DEF Service!Executes
<1>ok. ReportSuccess => Service!Answers(Service!Success(Current))
  BY DEF ReportSuccess, Success, Service!Answers, Service!Success
<1>no. mainq' = mainq => /\ Service!Answers(Service!Success(Current))
                         /\ Service!Answers(Service!Failure(Current))
  BY DEF Service!Answers
<1>op. /\ AddPathRunnable => Current.op = "add"
       /\ RemovePathRunnable => Current.op = "remove"
  BY <1>t DEF AddPathRunnable, Adds, AddMissing, AddKnown, AddFirst, AddFirstFails, AddNext,
         AddDispatchFails, AddNoRunLoop, RemovePathRunnable, Removes, RemoveUnwatched, RemoveUnregistered,
         RemoveOne, RemoveLast, RemoveDispatchFails, RemoveNoRunLoop, IOTakes
\* What happens to the registered pairs.
<1>p. AppendCallbacks(Current) => RegisteredPairs' = RegisteredPairs \cup {<<Current.path, Current.cb>>}
  <2> SUFFICES ASSUME AppendCallbacks(Current)
               PROVE  RegisteredPairs' = RegisteredPairs \cup {<<Current.path, Current.cb>>}
    OBVIOUS
  <2>1. \A p \in Paths : mChangeCallbacksTable'[p] =
            IF p = r.path THEN mChangeCallbacksTable[p] \cup {r.cb} ELSE mChangeCallbacksTable[p]
    BY <1>t, <1>r DEF AppendCallbacks
  <2>2. \A p \in Paths, c \in Cbs : <<p, c>> \in RegisteredPairs <=> c \in mChangeCallbacksTable[p]
    BY DEF RegisteredPairs
  <2>3. \A p \in Paths, c \in Cbs : <<p, c>> \in RegisteredPairs' <=> c \in mChangeCallbacksTable'[p]
    BY DEF RegisteredPairs
  <2>4. RegisteredPairs \subseteq Paths \X Cbs /\ RegisteredPairs' \subseteq Paths \X Cbs
    BY DEF RegisteredPairs
  <2>5. \A p \in Paths, c \in Cbs :
          <<p, c>> \in RegisteredPairs' <=> <<p, c>> \in RegisteredPairs \/ (p = r.path /\ c = r.cb)
    BY <2>1, <2>2, <2>3
  <2> HIDE DEF r
  <2>6. RegisteredPairs' = RegisteredPairs \cup {<<r.path, r.cb>>}
    BY <1>r, <2>4, <2>5
  <2> QED
    BY <2>6 DEF r
<1>m. RemoveCallbacks(Current) => RegisteredPairs' = RegisteredPairs \ {<<Current.path, Current.cb>>}
  <2> SUFFICES ASSUME RemoveCallbacks(Current)
               PROVE  RegisteredPairs' = RegisteredPairs \ {<<Current.path, Current.cb>>}
    OBVIOUS
  <2>1. \A p \in Paths : mChangeCallbacksTable'[p] =
            IF p = r.path THEN mChangeCallbacksTable[p] \ {r.cb} ELSE mChangeCallbacksTable[p]
    BY <1>t, <1>r DEF RemoveCallbacks
  <2>2. \A p \in Paths, c \in Cbs : <<p, c>> \in RegisteredPairs <=> c \in mChangeCallbacksTable[p]
    BY DEF RegisteredPairs
  <2>3. \A p \in Paths, c \in Cbs : <<p, c>> \in RegisteredPairs' <=> c \in mChangeCallbacksTable'[p]
    BY DEF RegisteredPairs
  <2>4. RegisteredPairs \subseteq Paths \X Cbs /\ RegisteredPairs' \subseteq Paths \X Cbs
    BY DEF RegisteredPairs
  <2>5. \A p \in Paths, c \in Cbs :
          <<p, c>> \in RegisteredPairs' <=> <<p, c>> \in RegisteredPairs /\ ~(p = r.path /\ c = r.cb)
    BY <2>1, <2>2, <2>3
  <2> HIDE DEF r
  <2>6. RegisteredPairs' = RegisteredPairs \ {<<r.path, r.cb>>}
    BY <1>r, <2>4, <2>5
  <2> QED
    BY <2>6 DEF r
<1>u. mChangeCallbacksTable' = mChangeCallbacksTable => RegisteredPairs' = RegisteredPairs
  BY DEF RegisteredPairs
<1> HIDE DEF r
<1>1. CASE AddMissing \/ AddFirstFails \/ AddDispatchFails
  <2>1. mainq' = mainq /\ mChangeCallbacksTable' = mChangeCallbacksTable /\ Alive' = Alive
    BY <1>1 DEF AddMissing, AddFirstFails, AddDispatchFails, tableVars, Alive
  <2>2. Service!AddFails(Current)
    BY <1>1, <1>no, <1>op, <1>u, <1>x, <2>1 DEF Service!AddFails, AddPathRunnable
  <2> QED
    BY <1>r, <2>2 DEF ServiceStep, Service!Next, r
<1>2. CASE AddKnown
  <2>1. mainq' = mainq /\ AppendCallbacks(Current) /\ Alive' = Alive
    BY <1>2 DEF AddKnown, Alive
  <2>2. Service!AddRegisters(Current)
    BY <1>2, <1>no, <1>op, <1>p, <1>x, <2>1 DEF Service!AddRegisters, AddPathRunnable
  <2> QED
    BY <1>r, <2>2 DEF ServiceStep, Service!Next, r
<1>3. CASE AddFirst \/ AddNext
  <2>1. ReportSuccess /\ AppendCallbacks(Current) /\ Alive' = Alive
    BY <1>3 DEF AddFirst, AddNext, AddEntry, Alive
  <2>2. Service!AddRegisters(Current)
    BY <1>3, <1>ok, <1>op, <1>p, <1>x, <2>1 DEF Service!AddRegisters, AddPathRunnable
  <2> QED
    BY <1>r, <2>2 DEF ServiceStep, Service!Next, r
<1>4. CASE RemoveUnwatched
  <2>1. /\ ReportSuccess /\ mChangeCallbacksTable' = mChangeCallbacksTable /\ Alive' = Alive
        /\ Current.path \notin mWatchedResourcesByPath
    BY <1>4 DEF RemoveUnwatched, HasEntry, tableVars, Alive
  <2>2. mChangeCallbacksTable[Current.path] = {}
    BY <1>r, <1>t, <2>1 DEF EntryInv, r
  <2>3. <<Current.path, Current.cb>> \notin RegisteredPairs
    BY <2>2 DEF RegisteredPairs
  <2>4. Service!RemoveUnregisters(Current)
    BY <1>4, <1>ok, <1>op, <1>u, <1>x, <2>1, <2>3 DEF Service!RemoveUnregisters, RemovePathRunnable
  <2> QED
    BY <1>r, <2>4 DEF ServiceStep, Service!Next, r
<1>5. CASE RemoveOne \/ RemoveLast
  <2>1. ReportSuccess /\ RemoveCallbacks(Current) /\ Alive' = Alive
    BY <1>5 DEF RemoveOne, RemoveLast, Alive
  <2>4. Service!RemoveUnregisters(Current)
    BY <1>5, <1>ok, <1>op, <1>m, <1>x, <2>1 DEF Service!RemoveUnregisters, RemovePathRunnable
  <2> QED
    BY <1>r, <2>4 DEF ServiceStep, Service!Next, r
<1>7. CASE RemoveDispatchFails
  <2>1. mainq' = mainq /\ RemoveCallbacks(Current) /\ Alive' = Alive
    BY <1>7 DEF RemoveDispatchFails, Alive
  <2>2. Service!RemoveUnregisters(Current)
    BY <1>7, <1>no, <1>op, <1>m, <1>x, <2>1 DEF Service!RemoveUnregisters, RemovePathRunnable
  <2> QED
    BY <1>r, <2>2 DEF ServiceStep, Service!Next, r
<1>6. CASE AddNoRunLoop \/ RemoveUnregistered \/ RemoveNoRunLoop
  <2>1. /\ mainq' = mainq /\ ~Alive'
        /\ mChangeCallbacksTable' = mChangeCallbacksTable \/ RemoveCallbacks(Current)
    BY <1>6 DEF AddNoRunLoop, RemoveUnregistered, RemoveNoRunLoop, tableVars, Alive
  <2>2. RegisteredPairs' \subseteq RegisteredPairs
    BY <1>m, <1>u, <2>1
  <2>3. Service!Die
    BY <1>a, <1>q, <1>s, <1>t, <2>1, <2>2 DEF Service!Die
  <2> QED
    BY <2>3 DEF ServiceStep, Service!Next
<1> QED
  BY <1>1, <1>2, <1>3, <1>4, <1>5, <1>6, <1>7 DEF AddPathRunnable, RemovePathRunnable

LEMMA DeactivateService == Inv /\ DeactivateRunnable => ServiceStep
<1> SUFFICES ASSUME Inv, DeactivateRunnable PROVE ServiceStep
  OBVIOUS
<1>1. /\ Alive /\ ioq # <<>> /\ Head(ioq).op = "deactivate" /\ ioq' = Tail(ioq)
      /\ mChangeCallbacksTable' = [p \in Paths |-> {}]
      /\ UNCHANGED <<crash, initialised, mIOThread, calls, mainq>>
  BY DEF DeactivateRunnable, IOTakes, mainVars
<1>2. ioq \in Seq(Tasks) /\ Opened /\ GoodQueue(ioq, calls, mIOThread)
  BY DEF Inv, TypeInv, TypeOK, QueueTypeOK, QueueInv
<1>3. /\ Head(ioq) \in Tasks /\ Head(ioq) = ioq[1] /\ 1 \in 1..Len(ioq) /\ Len(ioq) \in Nat
  BY <1>1, <1>2, TailOfQueue
<1>4. Head(ioq) = DeactivateTask /\ DeactivateTask \notin Calls /\ RunTask # DeactivateTask
  BY <1>1, <1>3, TaskKinds DEF Tasks, Calls, RunTask
<1>5. ~mIOThread /\ initialised = "ok"
  BY <1>2, <1>3, <1>4 DEF GoodQueue, Opened
<1>6. CallsIn(ioq) = {}
  <2>1. \A n \in 1..Len(ioq) : n = 1 \/ 1 < n
    OBVIOUS
  <2>2. \A n \in 1..Len(ioq) : ioq[n] \notin Calls
    BY <1>2, <1>3, <1>4, <2>1 DEF GoodQueue
  <2> QED
    BY <2>2 DEF CallsIn
<1>7. CallsIn(Tail(ioq)) = {}
  BY <1>1, <1>2, <1>6, RequestsTaken
<1>8. (CallsIn(ioq))' = CallsIn(ioq)
  BY <1>1, <1>6, <1>7 DEF CallsIn
<1>9. ServiceState = "closed" /\ ServiceState' = "closed" /\ Alive' = Alive
  BY <1>1, <1>5 DEF ServiceState, Alive
<1>10. RegisteredPairs' = {}
  BY <1>1 DEF RegisteredPairs
<1>11. Service!Shutdown
  BY <1>1, <1>6, <1>8, <1>9, <1>10 DEF Service!Shutdown
<1> QED
  BY <1>11 DEF ServiceStep, Service!Next

LEMMA FseService == Inv /\ FSE => ServiceStep
<1> SUFFICES ASSUME Inv, FSE PROVE ServiceStep
  OBVIOUS
<1>1. UNCHANGED <<serviceFrame, ioq>>
  BY DEF FSE, watcherVars, mainVars, tableVars, serviceFrame
<1>2. CASE Alive' = Alive
  BY <1>1, <1>2, Stutters
<1>3. CASE Alive' # Alive
  <2>1. FseAddReleased
    BY <1>3 DEF FSE, FseThread, FseRun, EnterRunLoop, LeaveRunLoop, StreamCallback, CallbackLock,
              CallbackPush, CallbackUnlock, FseAddPath, FseRemovePath, FseRemoveLast, Alive
  <2>2. Alive /\ ~Alive'
    BY <2>1 DEF FseAddReleased, Takes, Alive
  <2>3. UNCHANGED <<ServiceState, calls, CallsIn(ioq), RegisteredPairs, mainq>>
    BY <1>1 DEF serviceFrame, ServiceState, CallsIn, RegisteredPairs
  <2>4. Service!Die
    BY <2>2, <2>3 DEF Service!Die
  <2> QED
    BY <2>4 DEF ServiceStep, Service!Next
<1> QED
  BY <1>2, <1>3

LEMMA StepService == Inv /\ [Next]_vars => ServiceStep
<1> SUFFICES ASSUME Inv, [Next]_vars PROVE ServiceStep
  OBVIOUS
<1>1. CASE FileSystem
  <2>1. UNCHANGED <<serviceFrame, ioq, crash>>
    BY <1>1 DEF FileSystem, watcherVars, mainVars, tableVars, serviceFrame
  <2> QED
    BY <2>1, Stutters DEF Alive
<1>2. CASE UNCHANGED vars
  <2>1. UNCHANGED <<serviceFrame, ioq, crash>>
    BY <1>2 DEF vars, watcherVars, mainVars, tableVars, serviceFrame
  <2> QED
    BY <2>1, Stutters DEF Alive
<1> QED
  BY <1>1, <1>2, MainThreadService, DeliverService, RunService, CallService, DeactivateService,
     FseService DEF Next, IOThread

\* The macOS port implements the service: its calls take effect in their order, an
\* unwatched path has no callback to be told, what is posted goes to callbacks
\* that are registered, and nothing comes after the shutdown.
THEOREM MacImplementsService == Spec => ImplementsService
<1>1. TypeInv /\ QueueInv /\ (Alive => EntryInv) => Inv
  BY DEF Inv
<1>2. Inv /\ [Next]_vars => [Service!Next]_(Service!serviceVars)
  BY StepService DEF ServiceStep
<1>3. Spec => []Inv
  BY <1>1, TypesHold, QueueInvariant, EntryInvariant, PTL
<1> QED
  BY <1>2, <1>3, InitService, PTL DEF Spec, ImplementsService, Service!Spec
=============================================================================
