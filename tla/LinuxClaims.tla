---------------------------- MODULE LinuxClaims -----------------------------
(***************************************************************************)
(* What the comments, the interface documentation and the tests say of the *)
(* Linux watcher and the code does not do.  Each is refuted by a run.      *)
(***************************************************************************)
EXTENDS LinuxWatcher

\* NativeFileWatcherLnx.cpp:749: the descriptor of an event is never null.  An
\* event that is queued when its watch is removed is still read afterwards.
EventDescriptorValid == crash # "stale_event"

\* NativeFileWatcherLnx.cpp:323-327: all available events are read and stored
\* safely.  One read returns several of them, and only the first is stored, so
\* that the callbacks of the others never hear of their change.
EveryChangeReaches ==
    \A p \in Paths \ MayRefuse, c \in Cbs :
        (\E n \in 1..Len(kq) : ChangeOf(kq[n], p, c))
        ~> (ChangePosted(p, c) \/ c \notin mChangeCallbacksTable[p]
            \/ ~Alive \/ runFailed \/ cutShort)
=============================================================================
