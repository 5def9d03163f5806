------------------------------ MODULE FSEvents ------------------------------
(***************************************************************************)
(* The part of macOS that NativeFileWatcherMac.cpp runs against: the log   *)
(* of file system events, and an event stream over it.  None of this code  *)
(* is in the repository; it is modelled from the calls the watcher makes.  *)
(*                                                                         *)
(* A path is the sequence of its components.                               *)
(***************************************************************************)
EXTENDS Integers, Sequences, FiniteSets

CONSTANTS
    Paths,      \* the directories that clients name
    Files,      \* the files and directories that change
    Flags,      \* which of AllFlags an event may have
    SinceNow,   \* kFSEventStreamEventIdSinceNow
    MaxEvents   \* bound: events

AllFlags == {"ItemIsFile", "ItemIsDir", "MustScanSubDirs"}
EventIds == 1..MaxEvents

ASSUME FSEventsAssumption ==
    /\ Paths \subseteq Seq(STRING)
    /\ Files \subseteq Seq(STRING)
    /\ Flags \subseteq AllFlags
    /\ SinceNow \notin Nat
    /\ MaxEvents \in Nat

VARIABLES
    log,         \* the events so far; the id of an event is its position
    streamState, \* what mEventStreamRef leads to: "none", "created", "started", "released"
    streamPaths, \* the paths the stream was created with
    sinceWhen,   \* its sinceWhen attribute: the latest event it reported
    position     \* what a started stream has got past in the log

streamVars == <<streamState, streamPaths, sinceWhen, position>>
fseventsVars == <<log, streamVars>>

FSEventsInit ==
    /\ log = <<>>
    /\ streamState = "none"
    /\ streamPaths = {}
    /\ sinceWhen = SinceNow
    /\ position = 0

\* The environment changes a file below one or several paths, or none.
Touch(f, flag) ==
    /\ Len(log) < MaxEvents
    /\ log' = Append(log, [path |-> f, flag |-> flag])
    /\ UNCHANGED streamVars

FsNext == \E f \in Files, flag \in Flags : Touch(f, flag)

Under(f, p) == Len(p) <= Len(f) /\ SubSeq(f, 1, Len(p)) = p

\* What the started stream has still to report.
Pending ==
    {n \in EventIds : /\ n > position
                      /\ n <= Len(log)
                      /\ \E p \in streamPaths : Under(log[n].path, p)}

(***************************************************************************)
(* The stream.                                                             *)
(***************************************************************************)
StreamCreate(paths, since) ==
    /\ streamState' = "created"
    /\ streamPaths' = paths
    /\ sinceWhen' = since
    /\ UNCHANGED position

StreamRelease ==
    /\ streamState' = "released"
    /\ streamPaths' = {}
    /\ UNCHANGED <<sinceWhen, position>>

\* FSEventStreamStart: "now" is this moment; an event id is where to go on.
StreamStart ==
    /\ streamState' = "started"
    /\ position' = IF sinceWhen = SinceNow THEN Len(log) ELSE sinceWhen
    /\ UNCHANGED <<streamPaths, sinceWhen>>

\* The events up to the n-th are reported in one call of the callback, just
\* before which the attribute is brought up to date.
StreamReports(n) ==
    /\ streamState = "started"
    /\ n \in Pending
    /\ sinceWhen' = n
    /\ position' = n
    /\ UNCHANGED <<streamState, streamPaths>>

FSEventsTypeOK ==
    /\ log \in Seq([path : Files, flag : AllFlags])
    /\ Len(log) <= MaxEvents
    /\ streamState \in {"none", "created", "started", "released"}
    /\ streamPaths \in SUBSET Paths
    /\ sinceWhen \in EventIds \cup {SinceNow}
    /\ position \in 0..MaxEvents
=============================================================================
