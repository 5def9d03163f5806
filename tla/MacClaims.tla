----------------------------- MODULE MacClaims -----------------------------
(***************************************************************************)
(* What the documentation says of the macOS port and the code does not do. *)
(***************************************************************************)
EXTENDS MacWatcher

\* nsINativeFileWatcher.idl:59 and 71: AddPath "Watches the passed path for
\* changes", and its success callback is invoked "when the file watcher starts
\* watching the resource": a path that has an entry gets into a started stream.
AddedPathIsWatched ==
    \A p \in Paths :
        p \in mWatchedResourcesByPath
        ~> (\/ p \in streamPaths /\ streamState = "started"
            \/ p \notin mWatchedResourcesByPath
            \/ ~Alive)
=============================================================================
