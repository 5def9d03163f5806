-------------------------- MODULE StreamFilterChild --------------------------
(***************************************************************************)
(* StreamFilterChild.cpp: the extension's side of a stream filter, on the  *)
(* main thread of the extension's process.                                 *)
(*                                                                         *)
(* Script calls suspend, resume, disconnect, close and write, between two  *)
(* messages or from inside an event of the filter.  So a handler that      *)
(* fires data events is cut there: EmitData and the loop around it go on   *)
(* when the event returns (EventEnds).                                     *)
(*                                                                         *)
(* The fields of the actor are one record, and its methods are operators   *)
(* on it; "out" collects what a method sends.                              *)
(***************************************************************************)
EXTENDS PStreamFilter

CONSTANT
    MaxCalls    \* bound: calls that script makes, other than write

ASSUME CallsAssumption == MaxCalls \in Nat

VARIABLES
    child,     \* the StreamFilterChild
    emitting,  \* "no", or in an event for data, fired by RecvData ("data") or by
               \* FlushBufferedData ("flush")
    kept,      \* the chunks that script was given and has not written back
    script,    \* "running", "stopped" (the page is gone) or "collected" (the filter)
    calls,     \* calls that script made so far, other than write
    ended      \* history: whether script called disconnect or close

childVars == <<child, emitting, kept, script, calls, ended>>

States == {"Uninitialized", "Initialized", "TransferringData", "FinishedTransferringData",
           "Suspending", "Suspended", "Resuming", "Closing", "Closed", "Disconnecting",
           "Disconnected", "Error", "Dead"}

ChildInit ==
    /\ child = [mState |-> "Uninitialized", mNextState |-> "Uninitialized",
                mReceivedOnStop |-> FALSE, mBufferedData |-> <<>>, mStreamFilter |-> TRUE,
                out |-> <<>>]
    /\ emitting = "no"
    /\ kept = <<>>
    /\ script = "running"
    /\ calls = 0
    /\ ended = FALSE

(***************************************************************************)
(* Methods.                                                                *)
(***************************************************************************)
In(c, states) == c.mState \in states
Awaits(c, states) == c.mNextState \in states
Goes(c, state, next) == [c EXCEPT !.mState = state, !.mNextState = next]
Sends(c, name) == [c EXCEPT !.out = Append(@, Msg(name))]

WriteBufferedData(c) ==
    [c EXCEPT !.out = @ \o [k \in 1..Len(c.mBufferedData) |-> Carrying("Write", c.mBufferedData[k])],
              !.mBufferedData = <<>>]

\* Disconnect, as far as it does not throw.
CanDisconnectNow(c) == In(c, {"Suspended", "TransferringData", "FinishedTransferringData"})
CanDisconnectLater(c) == In(c, {"Suspending", "Resuming"}) /\ Awaits(c, {"Suspended", "Resuming"})

Disconnect(c) ==
    IF CanDisconnectNow(c)
    THEN Sends(WriteBufferedData(Goes(c, "Disconnecting", "Disconnected")), "Disconnect")
    ELSE IF CanDisconnectLater(c) THEN [c EXCEPT !.mNextState = "Disconnecting"]
    ELSE c

Cleanup(c) ==
    IF In(c, {"Closing", "Closed", "Error", "Disconnecting", "Disconnected"}) THEN c
    ELSE Disconnect(c)

\* CheckAlive of StreamFilter.cpp: a filter whose page is gone forgets its actor.
CheckAlive(c) ==
    IF c.mStreamFilter /\ script # "running"
    THEN [Cleanup(c) EXCEPT !.mStreamFilter = FALSE]
    ELSE c

\* What SetNextState sends when it enters a state, and what it waits for then.
NextSends == [Suspending |-> "Suspend", Resuming |-> "Resume", Closing |-> "Close",
              Disconnecting |-> "Disconnect"]
NextNext == [Suspending |-> "Suspended", Resuming |-> "TransferringData", Closing |-> "Closed",
             Disconnecting |-> "Disconnected"]

SetNextState(c) ==
    LET s == c.mNextState IN
    IF s \in DOMAIN NextSends THEN Sends(Goes(c, s, NextNext[s]), NextSends[s])
    ELSE IF s \in {"FinishedTransferringData", "Closed", "Disconnected", "Error"}
    THEN [Goes(c, s, s) EXCEPT !.mStreamFilter = FALSE]
    ELSE Goes(c, s, s)

\* Mutant of StopsIn: Suspending and Resuming are left without waiting.
StopsAtOnce(c) ==
    IF In(c, {"Disconnecting", "Closing", "Closed"}) THEN c
    ELSE [c EXCEPT !.mState = "FinishedTransferringData", !.mStreamFilter = FALSE]

\* MaybeStopRequest's switch: the stop event, now or when the parent has answered.
StopsIn(c) ==
    IF In(c, {"Suspending", "Resuming"}) THEN [c EXCEPT !.mNextState = "FinishedTransferringData"]
    ELSE IF In(c, {"Disconnecting", "Closing", "Closed"}) THEN c
    ELSE [c EXCEPT !.mState = "FinishedTransferringData", !.mStreamFilter = FALSE]

MaybeStopRequest(c) ==
    IF c.mReceivedOnStop /\ c.mBufferedData = <<>> THEN StopsIn(CheckAlive(c)) ELSE c

CanFlushData(c) == In(c, {"TransferringData", "Resuming"})

(***************************************************************************)
(* Steps.                                                                  *)
(***************************************************************************)
Running == ~In(child, {"Dead"})

\* The actor becomes c, and what c collected is sent.
Becomes(c) ==
    /\ child' = [c EXCEPT !.out = <<>>]
    /\ toParent' = toParent \o (IF ipc = "open" THEN c.out ELSE <<>>)

\* EmitData, up to the event for chunk n; without a filter there is none.
Emits(c, n, place) ==
    /\ emitting' = place
    /\ Becomes(c)
    /\ kept' = IF c.mStreamFilter THEN Append(kept, n) ELSE kept

EmitsNothing(c) == emitting' = "no" /\ Becomes(c) /\ UNCHANGED kept

\* FlushBufferedData, at the head of its loop.
FlushBufferedData(c) ==
    IF CanFlushData(c) /\ c.mBufferedData # <<>>
    THEN Emits([c EXCEPT !.mBufferedData = Tail(@)], Head(c.mBufferedData), "flush")
    ELSE EmitsNothing(c)

EventEnds ==
    /\ Running
    /\ \/ emitting = "flush" /\ FlushBufferedData(MaybeStopRequest(child))
       \/ emitting = "data" /\ EmitsNothing(MaybeStopRequest(child))
    /\ UNCHANGED <<script, calls, ended, toChild, ipc>>

(***************************************************************************)
(* What script calls, as far as it does not throw and changes something.   *)
(***************************************************************************)
ScriptRuns ==
    /\ Running
    /\ script = "running"
    /\ emitting # "no" => child.mStreamFilter
    /\ UNCHANGED <<script, toChild, ipc>>

Call ==
    /\ ScriptRuns
    /\ calls < MaxCalls
    /\ calls' = calls + 1

Calls(c) ==
    /\ Call
    /\ c # child
    /\ Becomes(c)
    /\ UNCHANGED <<emitting, kept>>

Suspend ==
    \/ /\ In(child, {"TransferringData"})
       /\ Calls(Sends(Goes(child, "Suspending", "Suspended"), "Suspend"))
    \/ /\ In(child, {"Suspending"})
       /\ Awaits(child, {"Resuming"})
       /\ Calls([child EXCEPT !.mNextState = "Suspended"])
    \/ /\ In(child, {"Resuming"})
       /\ Awaits(child, {"TransferringData"})
       /\ Calls([child EXCEPT !.mNextState = "Suspending"])

Resume ==
    \/ /\ In(child, {"Suspended"})
       /\ Call
       /\ FlushBufferedData(Sends(Goes(child, "Resuming", "TransferringData"), "Resume"))
    \/ /\ In(child, {"Suspending"})
       /\ Awaits(child, {"Suspended"})
       /\ Calls([child EXCEPT !.mNextState = "Resuming"])
    \/ /\ CanFlushData(child)
       /\ emitting # "flush"
       /\ child.mBufferedData # <<>>
       /\ Call
       /\ FlushBufferedData(child)

CallDisconnect == Calls(Disconnect(child))

\* What is buffered is not wanted any more.
Clears(c) == [c EXCEPT !.mBufferedData = <<>>]

Close ==
    \/ /\ In(child, {"Suspended", "TransferringData", "FinishedTransferringData"})
       /\ Calls(Clears(Sends(Goes(child, "Closing", "Closed"), "Close")))
    \/ /\ In(child, {"Suspending", "Resuming"})
       /\ Calls(Clears([child EXCEPT !.mNextState = "Closing"]))
    \/ /\ In(child, {"Closing", "Closed"})
       /\ Calls(Clears(child))

CanWrite ==
    \/ In(child, {"Suspended", "TransferringData", "FinishedTransferringData"})
    \/ In(child, {"Suspending", "Resuming"}) /\ Awaits(child, {"Suspended", "TransferringData"})

Write ==
    /\ ScriptRuns
    /\ kept # <<>>
    /\ CanWrite
    /\ Becomes([child EXCEPT !.out = <<Carrying("Write", Head(kept))>>])
    /\ kept' = Tail(kept)
    /\ UNCHANGED <<emitting, calls, ended>>

Script ==
    \/ (Suspend \/ Resume) /\ UNCHANGED ended
    \/ (CallDisconnect \/ Close) /\ ended' = TRUE
    \/ Write

(***************************************************************************)
(* Messages from the parent.                                               *)
(***************************************************************************)
Receives(name) ==
    /\ Running
    /\ emitting = "no"
    /\ ~In(child, {"Uninitialized"})
    /\ toChild # <<>>
    /\ Head(toChild).name = name
    /\ toChild' = Tail(toChild)
    /\ UNCHANGED <<script, calls, ended, ipc>>

RecvStartRequest ==
    /\ Receives("StartRequest")
    /\ EmitsNothing(CheckAlive([child EXCEPT !.mState = "TransferringData"]))

RecvStopRequest ==
    /\ Receives("StopRequest")
    /\ EmitsNothing(MaybeStopRequest([child EXCEPT !.mReceivedOnStop = TRUE]))

\* Mutant of Passes: data passes again once resume was called.
PassesEarly(c) == CanFlushData(c) \/ (In(c, {"Suspending"}) /\ Awaits(c, {"Resuming"}))

\* Data goes to script at once.
Passes(c) == CanFlushData(c)

\* No other state receives data: see HandshakesMatch.
RecvData ==
    LET c == CheckAlive(child)
        n == Head(toChild).data
    IN  /\ Receives("Data")
        /\ \/ Passes(c) /\ Emits(c, n, "data")
           \/ /\ In(c, {"Suspending", "Suspended"})
              /\ ~Passes(c)
              /\ EmitsNothing([c EXCEPT !.mBufferedData = Append(@, n)])
           \/ /\ In(c, {"Disconnecting"})
              /\ EmitsNothing([c EXCEPT !.out = Append(@, Carrying("Write", n))])
           \/ In(c, {"Closing"}) /\ EmitsNothing(c)

RecvError ==
    /\ Receives("Error")
    /\ EmitsNothing(Sends([child EXCEPT !.mState = "Error", !.mStreamFilter = FALSE], "Destroy"))

\* Mutant of RecvAgreement: TransferringData is entered without a flush.
RecvAgreementOnly ==
    /\ \E name \in {"Suspended", "Resumed", "Closed"} : Receives(name)
    /\ EmitsNothing(SetNextState(child))

\* The parent agrees; entering TransferringData, SetNextState flushes.
RecvAgreement ==
    /\ \E name \in {"Suspended", "Resumed", "Closed"} : Receives(name)
    /\ LET c == SetNextState(child)
       IN  IF In(c, {"TransferringData"}) THEN FlushBufferedData(c) ELSE EmitsNothing(c)

RecvFlushData ==
    /\ Receives("FlushData")
    /\ EmitsNothing(SetNextState(Sends(child, "FlushedData")))

Recv ==
    \/ RecvStartRequest \/ RecvStopRequest \/ RecvData \/ RecvError
    \/ RecvAgreement \/ RecvFlushData

(***************************************************************************)
(* Begin and end.                                                          *)
(***************************************************************************)
\* FinishConnect binds the actor, which is when it can receive.
FinishConnect ==
    /\ In(child, {"Uninitialized"})
    /\ child' = [child EXCEPT !.mState = "Initialized"]
    /\ UNCHANGED <<emitting, kept, script, calls, ended, ipcVars>>

\* The page of the extension goes away; CheckAlive will see it.
PageGone ==
    /\ Running
    /\ script = "running"
    /\ emitting = "no"
    /\ script' = "stopped"
    /\ UNCHANGED <<child, emitting, kept, calls, ended, ipcVars>>

\* The actor does not hold the filter any more, and it is collected.
Collect ==
    /\ Running
    /\ script # "collected"
    /\ ~child.mStreamFilter
    /\ script' = "collected"
    /\ EmitsNothing(Cleanup(child))
    /\ emitting = "no"
    /\ UNCHANGED <<calls, ended, toChild, ipc>>

\* ActorDestroy: what was not received is lost.
ChildActorDestroy ==
    /\ Running
    /\ emitting = "no"
    /\ ipc = "closed"
    /\ child.mStreamFilter \/ toChild # <<>>
    /\ child' = [child EXCEPT !.mStreamFilter = FALSE]
    /\ toChild' = <<>>
    /\ UNCHANGED <<emitting, kept, script, calls, ended, toParent, ipc>>

\* The process of the extension dies.
ChildDies ==
    /\ Running
    /\ child' = [child EXCEPT !.mState = "Dead", !.mBufferedData = <<>>]
    /\ toChild' = <<>>
    /\ toParent' = <<>>
    /\ ipc' = IF ipc = "open" THEN "error" ELSE ipc
    /\ emitting' = "no"
    /\ UNCHANGED <<kept, script, calls, ended>>

ChildTypeOK ==
    /\ child \in [mState : States, mNextState : States, mReceivedOnStop : BOOLEAN,
                  mBufferedData : Seq(Chunks), mStreamFilter : BOOLEAN,
                  out : {<<>>}]
    /\ emitting \in {"no", "data", "flush"}
    /\ kept \in Seq(Chunks)
    /\ script \in {"running", "stopped", "collected"}
    /\ calls \in 0..MaxCalls
    /\ ended \in BOOLEAN
=============================================================================
