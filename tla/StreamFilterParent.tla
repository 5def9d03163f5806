------------------------- MODULE StreamFilterParent -------------------------
(***************************************************************************)
(* StreamFilterParent.cpp: the listener that a stream filter puts between  *)
(* a channel and the channel's listener.                                   *)
(*                                                                         *)
(* Three threads use it: the main thread (OnStartRequest, OnStopRequest),  *)
(* the thread that delivers the data (OnDataAvailable), which is the main  *)
(* thread or, once the channel is retargeted, a thread pool, and the actor *)
(* thread, which alone changes mState.  mQueue runs the events for the     *)
(* first two in one order; actorq is the event queue of the third.         *)
(***************************************************************************)
EXTENDS PStreamFilter

CONSTANT
    MayRetarget,   \* whether the channel may deliver its data on other threads
    MayRedirect    \* whether another request may start than that of the channel

ASSUME ParentAssumption == MayRetarget \in BOOLEAN /\ MayRedirect \in BOOLEAN

VARIABLES
    mState, mDisconnected, mReceivedStop, mSentStop,
    mBufferedData, \* chunks that came in while Disconnecting
    mQueue,        \* events for the main thread and for the delivery thread
    actorq,        \* events for the actor thread
    oda,           \* the chunk in an OnDataAvailable that found mDisconnected false, or 0
    onStop,        \* OnStopRequest: "no", "set" or "late" (mReceivedStop is set, before or
                   \* after the last flush), "done"
    grouped,       \* whether the filter is in the load group
    output,        \* what mOrigListener got: chunks, and 0 for OnStopRequest
    \* The channel.
    channel,       \* "new", "open" or "stopped"
    delivered,     \* chunks delivered so far
    suspends,      \* its suspend count
    cancelled,
    retargeted,
    stopMissed     \* history: OnStopRequest came between the flush and mDisconnected

channelVars == <<channel, delivered, suspends, cancelled, retargeted>>
parentVars == <<mState, mDisconnected, mReceivedStop, mSentStop, mBufferedData, mQueue,
                actorq, oda, onStop, grouped, output, channelVars, stopMissed>>

IPCActive == mState \notin {"Closed", "Disconnecting", "Disconnected"}

Event(name) == Msg(name)
WriteMove(n) == Carrying("write", n)
DoSendData(n) == Carrying("data", n)

QueueEvents ==
    {Event(name) : name \in {"emitStop", "emitStopOnce", "suspend", "resume", "resumeOnly",
                             "flush", "leaveGroup"}}
    \cup {WriteMove(n) : n \in Chunks}
ActorEvents ==
    {Event(name) : name \in {"redirected", "start", "stop", "suspended", "resumed",
                             "disconnected", "close"}}
    \cup {DoSendData(n) : n \in Chunks}

ParentInit ==
    /\ mState = "Uninitialized"
    /\ mDisconnected = FALSE
    /\ mReceivedStop = FALSE
    /\ mSentStop = FALSE
    /\ mBufferedData = <<>>
    /\ mQueue = <<>>
    /\ actorq = <<>>
    /\ oda = 0
    /\ onStop = "no"
    /\ grouped = FALSE
    /\ output = <<>>
    /\ channel = "new"
    /\ delivered = 0
    /\ suspends = 0
    /\ cancelled = FALSE
    /\ retargeted = FALSE
    /\ stopMissed = FALSE

(***************************************************************************)
(* The actor thread: events of actorq.                                     *)
(***************************************************************************)
\* Broken, for an actor in this state with this queue of events.
Broken(state, queue) ==
    IF state \in {"Initialized", "TransferringData", "Suspended"}
    THEN /\ mState' = "Disconnecting"
         /\ cancelled' = TRUE
         /\ mQueue' = Append(queue, Event("flush"))
    ELSE /\ mState' = state
         /\ mQueue' = queue
         /\ UNCHANGED cancelled

\* The actor enters the state and sends; CheckResult: a message that cannot be
\* sent breaks the filter.
EntersAndSends(state, queue, message) ==
    \/ /\ ipc = "open"
       /\ toChild' = Append(toChild, message)
       /\ mState' = state
       /\ mQueue' = queue
       /\ UNCHANGED cancelled
    \/ /\ ipc # "open"
       /\ Broken(state, queue)
       /\ UNCHANGED toChild

ActorFrame ==
    UNCHANGED <<mReceivedStop, mSentStop, mBufferedData, oda, onStop, grouped, output,
                channel, delivered, suspends, retargeted, stopMissed>>

Acts(name) ==
    /\ actorq # <<>>
    /\ Head(actorq).name = name
    /\ actorq' = Tail(actorq)
    /\ ActorFrame

\* What a closure does while the child is to be told.
Tells(name, state, message) ==
    /\ Acts(name)
    /\ IPCActive
    /\ EntersAndSends(state, mQueue, Msg(message))
    /\ UNCHANGED <<mDisconnected, toParent, ipc>>

ActRedirected == Tells("redirected", "Disconnected", "Error")
ActStart == Tells("start", "TransferringData", "StartRequest")
ActStop == Tells("stop", mState, "StopRequest")
ActSuspended == Tells("suspended", "Suspended", "Suspended")
ActResumed == Tells("resumed", mState, "Resumed")

\* The child is not told any more.
ActUnheard ==
    /\ \E name \in {"redirected", "start", "stop", "suspended", "resumed"} : Acts(name)
    /\ ~IPCActive
    /\ UNCHANGED <<mState, mQueue, mDisconnected, cancelled, ipcVars>>

ActDisconnected ==
    /\ Acts("disconnected")
    /\ \/ /\ mState # "Closed"
          /\ mState' = "Disconnected"
          /\ mDisconnected' = TRUE
       \/ /\ mState = "Closed"
          /\ UNCHANGED <<mState, mDisconnected>>
    /\ UNCHANGED <<mQueue, cancelled, ipcVars>>

\* DoSendData sends what comes in time.
ActSendData ==
    /\ Acts("data")
    /\ mState = "TransferringData"
    /\ EntersAndSends(mState, mQueue, Carrying("Data", Head(actorq).data))
    /\ UNCHANGED <<mDisconnected, toParent, ipc>>

ActDropData ==
    /\ Acts("data")
    /\ mState # "TransferringData"
    /\ UNCHANGED <<mState, mQueue, mDisconnected, cancelled, ipcVars>>

\* ActorDestroy: nothing is received any more.
ActorDestroy ==
    /\ ipc' = "closed"
    /\ toParent' = <<>>
    /\ IF mState \in {"Disconnected", "Closed"}
       THEN UNCHANGED <<mState, mQueue, cancelled>>
       ELSE Broken(mState, mQueue)
    /\ UNCHANGED <<mDisconnected, toChild>>

ActClose ==
    /\ Acts("close")
    /\ \/ ipc # "closed" /\ ActorDestroy
       \/ ipc = "closed" /\ UNCHANGED <<mState, mQueue, mDisconnected, cancelled, ipcVars>>

\* The IPC layer notices that the child is gone.
ActError ==
    /\ ipc = "error"
    /\ ActorDestroy
    /\ UNCHANGED actorq
    /\ ActorFrame

(***************************************************************************)
(* The actor thread: messages from the child.                              *)
(***************************************************************************)
ParentReceives(name) ==
    /\ ipc = "open"
    /\ toParent # <<>>
    /\ Head(toParent).name = name
    /\ toParent' = Tail(toParent)
    /\ ActorFrame
    /\ UNCHANGED <<mDisconnected, ipc>>

Enqueues(event) == mQueue' = Append(mQueue, event)
Destroy == actorq' = Append(actorq, Event("close"))

RecvWrite ==
    /\ ParentReceives("Write")
    /\ Enqueues(WriteMove(Head(toParent).data))
    /\ UNCHANGED <<mState, actorq, cancelled, toChild>>

\* Suspended is entered when the channel is.
RecvSuspend ==
    /\ ParentReceives("Suspend")
    /\ mState = "TransferringData"
    /\ Enqueues(Event("suspend"))
    /\ UNCHANGED <<mState, actorq, cancelled, toChild>>

\* TransferringData is entered before the channel resumes.
RecvResume ==
    /\ ParentReceives("Resume")
    /\ mState = "Suspended"
    /\ mState' = "TransferringData"
    /\ Enqueues(Event("resume"))
    /\ UNCHANGED <<actorq, cancelled, toChild>>

\* Mutants of ResumeFirst: the channel stays suspended; it is resumed in any case.
ResumeNot == <<>>
ResumeAlways == <<Event("resumeOnly")>>

\* A channel that is suspended is resumed.
ResumeFirst == IF mState = "Suspended" THEN <<Event("resumeOnly")>> ELSE <<>>

RecvDisconnect ==
    /\ ParentReceives("Disconnect")
    /\ mState \in {"Suspended", "TransferringData"}
    /\ EntersAndSends("Disconnecting", mQueue \o ResumeFirst, Msg("FlushData"))
    /\ UNCHANGED actorq

\* A request that comes at another time is ignored.
RecvIgnored ==
    /\ \/ ParentReceives("Suspend") /\ mState # "TransferringData"
       \/ ParentReceives("Resume") /\ mState # "Suspended"
       \/ ParentReceives("Disconnect") /\ mState \notin {"Suspended", "TransferringData"}
    /\ UNCHANGED <<mState, mQueue, actorq, cancelled, toChild>>

RecvFlushedData ==
    /\ ParentReceives("FlushedData")
    /\ Destroy
    /\ Enqueues(Event("flush"))
    /\ UNCHANGED <<mState, cancelled, toChild>>

RecvClose ==
    /\ ParentReceives("Close")
    /\ mState' = "Closed"
    /\ mQueue' = IF mSentStop THEN mQueue ELSE Append(mQueue, Event("emitStop"))
    /\ toChild' = Append(toChild, Msg("Closed"))
    /\ Destroy
    /\ UNCHANGED <<cancelled>>

RecvDestroy ==
    /\ ParentReceives("Destroy")
    /\ Destroy
    /\ UNCHANGED <<mState, mQueue, cancelled, toChild>>

ActorThread ==
    \/ ActRedirected \/ ActStart \/ ActStop \/ ActSuspended \/ ActResumed \/ ActUnheard
    \/ ActDisconnected \/ ActSendData \/ ActDropData \/ ActClose \/ ActError
    \/ RecvWrite \/ RecvSuspend \/ RecvResume \/ RecvDisconnect \/ RecvIgnored
    \/ RecvFlushedData \/ RecvClose \/ RecvDestroy

(***************************************************************************)
(* mQueue.  Its events run one after another, each on its thread.          *)
(***************************************************************************)
MainFree == onStop \in {"no", "done"} /\ (retargeted \/ oda = 0)

QueueFrame ==
    UNCHANGED <<mState, mDisconnected, mReceivedStop, oda, onStop, channel, delivered,
                cancelled, retargeted, stopMissed, ipcVars>>

\* Only the delivery thread of a retargeted channel is another than main.
Runs(name) ==
    /\ mQueue # <<>>
    /\ Head(mQueue).name = name
    /\ MainFree \/ (retargeted /\ name \in {"write", "flush"})
    /\ QueueFrame

EmitStopRequest ==
    /\ mSentStop' = TRUE
    /\ output' = Append(output, 0)
    /\ grouped' = (grouped /\ mDisconnected)

RunWrite ==
    /\ Runs("write")
    /\ output' = Append(output, Head(mQueue).data)
    /\ mQueue' = Tail(mQueue)
    /\ UNCHANGED <<mSentStop, mBufferedData, actorq, grouped, suspends>>

\* Mutant of StopIfReceived: the flush leaves the stop to OnStopRequest.
StopNot == <<>>

\* A stop that came before the flush is passed on behind it.
StopIfReceived == IF mReceivedStop /\ ~mSentStop THEN <<Event("emitStopOnce")>> ELSE <<>>

\* FlushBufferedData and the rest of FinishDisconnect.  It holds mBufferMutex;
\* what it misses of a stop that comes in its middle, it misses of one after it.
RunFlush ==
    /\ Runs("flush")
    /\ output' = output \o mBufferedData
    /\ mBufferedData' = <<>>
    /\ mQueue' = Tail(mQueue) \o StopIfReceived \o <<Event("leaveGroup")>>
    /\ actorq' = Append(actorq, Event("disconnected"))
    /\ UNCHANGED <<mSentStop, grouped, suspends>>

\* Mutant of RunEmitStop: the event does not check mSentStop again.
RunEmitStopAgain ==
    /\ Runs("emitStop") \/ Runs("emitStopOnce")
    /\ EmitStopRequest
    /\ mQueue' = Tail(mQueue)
    /\ UNCHANGED <<mBufferedData, actorq, suspends>>

\* The events of RecvClose and of FlushBufferedData.
RunEmitStop ==
    /\ Runs("emitStop") \/ (Runs("emitStopOnce") /\ ~mSentStop)
    /\ EmitStopRequest
    /\ mQueue' = Tail(mQueue)
    /\ UNCHANGED <<mBufferedData, actorq, suspends>>

RunStopSent ==
    /\ Runs("emitStopOnce")
    /\ mSentStop
    /\ mQueue' = Tail(mQueue)
    /\ UNCHANGED <<mSentStop, mBufferedData, actorq, grouped, output, suspends>>

RunLeaveGroup ==
    /\ Runs("leaveGroup")
    /\ grouped' = FALSE
    /\ mQueue' = Tail(mQueue)
    /\ UNCHANGED <<mSentStop, mBufferedData, actorq, output, suspends>>

RunSuspend ==
    /\ Runs("suspend")
    /\ suspends' = suspends + 1
    /\ actorq' = Append(actorq, Event("suspended"))
    /\ mQueue' = Tail(mQueue)
    /\ UNCHANGED <<mSentStop, mBufferedData, grouped, output>>

RunResume ==
    /\ \/ Runs("resume") /\ actorq' = Append(actorq, Event("resumed"))
       \/ Runs("resumeOnly") /\ UNCHANGED actorq
    /\ suspends' = suspends - 1
    /\ mQueue' = Tail(mQueue)
    /\ UNCHANGED <<mSentStop, mBufferedData, grouped, output>>

QueueThreads ==
    \/ RunWrite \/ RunFlush \/ RunEmitStop \/ RunStopSent \/ RunLeaveGroup
    \/ RunSuspend \/ RunResume

(***************************************************************************)
(* The listener's methods, called by the channel.                          *)
(***************************************************************************)
ListenerFrame ==
    UNCHANGED <<mState, mQueue, suspends, toParent, toChild, ipc>>

OnStartRequest ==
    /\ channel = "new"
    /\ channel' = "open"
    /\ retargeted' \in {FALSE, MayRetarget}
    /\ grouped' = TRUE
    /\ actorq' = Append(actorq, Event("start"))
    /\ UNCHANGED <<mDisconnected, mReceivedStop, mSentStop, mBufferedData, oda, onStop, output,
                   delivered, cancelled, stopMissed>>
    /\ ListenerFrame

\* The request that starts is another one: it is not filtered.
OnStartRedirected ==
    /\ MayRedirect
    /\ channel = "new"
    /\ channel' = "open"
    /\ retargeted' \in {FALSE, MayRetarget}
    /\ mDisconnected' = TRUE
    /\ actorq' = Append(actorq, Event("redirected"))
    /\ UNCHANGED <<mReceivedStop, mSentStop, mBufferedData, oda, onStop, grouped, output,
                   delivered, cancelled, stopMissed>>
    /\ ListenerFrame

Delivers ==
    /\ channel = "open"
    /\ suspends = 0
    /\ oda = 0
    /\ ~cancelled
    /\ delivered < MaxChunks
    /\ delivered' = delivered + 1
    /\ UNCHANGED <<mDisconnected, mReceivedStop, mSentStop, actorq, onStop, grouped, channel,
                   cancelled, retargeted, stopMissed>>
    /\ ListenerFrame

\* OnDataAvailable, disconnected: behind what is buffered.
OnDataPassed ==
    /\ Delivers
    /\ mDisconnected
    /\ output' = output \o mBufferedData \o <<delivered + 1>>
    /\ mBufferedData' = <<>>
    /\ UNCHANGED oda

\* OnDataAvailable, which reads mState later than mDisconnected.
OnDataAvailable ==
    /\ Delivers
    /\ ~mDisconnected
    /\ oda' = delivered + 1
    /\ UNCHANGED <<mBufferedData, output>>

OdaFrame ==
    /\ oda' = 0
    /\ UNCHANGED <<mDisconnected, mReceivedStop, mSentStop, onStop, grouped, output, channel,
                   delivered, retargeted, stopMissed>>
    /\ ListenerFrame

OnDataBuffered ==
    /\ oda # 0
    /\ mState = "Disconnecting"
    /\ mBufferedData' = Append(mBufferedData, oda)
    /\ OdaFrame
    /\ UNCHANGED <<actorq, cancelled>>

\* An error for the channel, which cancels itself.
OnDataClosed ==
    /\ oda # 0
    /\ mState = "Closed"
    /\ cancelled' = TRUE
    /\ OdaFrame
    /\ UNCHANGED <<mBufferedData, actorq>>

OnDataDispatched ==
    /\ oda # 0
    /\ mState \notin {"Disconnecting", "Closed"}
    /\ actorq' = Append(actorq, DoSendData(oda))
    /\ OdaFrame
    /\ UNCHANGED <<mBufferedData, cancelled>>

Flushed == \E k \in 1..Len(actorq) : actorq[k] = Event("disconnected")

\* OnStopRequest sets mReceivedStop, and then reads mDisconnected.
OnStopRequest ==
    /\ channel = "open"
    /\ suspends = 0
    /\ oda = 0
    /\ channel' = "stopped"
    /\ mReceivedStop' = TRUE
    /\ onStop' = IF Flushed THEN "late" ELSE "set"
    /\ UNCHANGED <<mDisconnected, mSentStop, mBufferedData, actorq, oda, grouped, output,
                   delivered, cancelled, retargeted, stopMissed>>
    /\ ListenerFrame

OnStopFrame ==
    /\ onStop \in {"set", "late"}
    /\ onStop' = "done"
    /\ UNCHANGED <<mDisconnected, mReceivedStop, mBufferedData, oda, channel, delivered,
                   cancelled, retargeted>>
    /\ ListenerFrame

OnStopPassed ==
    /\ OnStopFrame
    /\ mDisconnected
    /\ EmitStopRequest
    /\ UNCHANGED <<actorq, stopMissed>>

OnStopDispatched ==
    /\ OnStopFrame
    /\ ~mDisconnected
    /\ actorq' = Append(actorq, Event("stop"))
    /\ stopMissed' = (onStop = "late")
    /\ UNCHANGED <<mSentStop, grouped, output>>

\* What the channel begins; what its thread then has to finish.
Channel ==
    \/ OnStartRequest \/ OnStartRedirected \/ OnDataPassed \/ OnDataAvailable \/ OnStopRequest
Listener ==
    \/ OnDataBuffered \/ OnDataClosed \/ OnDataDispatched \/ OnStopPassed \/ OnStopDispatched

ParentTypeOK ==
    /\ mState \in {"Uninitialized", "TransferringData", "Suspended", "Closed", "Disconnecting",
                   "Disconnected"}
    /\ mDisconnected \in BOOLEAN /\ mReceivedStop \in BOOLEAN /\ mSentStop \in BOOLEAN
    /\ mBufferedData \in Seq(Chunks)
    /\ mQueue \in Seq(QueueEvents)
    /\ actorq \in Seq(ActorEvents)
    /\ oda \in 0..MaxChunks
    /\ onStop \in {"no", "set", "late", "done"}
    /\ grouped \in BOOLEAN
    /\ output \in Seq(0..MaxChunks)
    /\ channel \in {"new", "open", "stopped"}
    /\ delivered \in 0..MaxChunks
    /\ suspends \in Nat
    /\ cancelled \in BOOLEAN /\ retargeted \in BOOLEAN /\ stopMissed \in BOOLEAN
=============================================================================
