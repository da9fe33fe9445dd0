---------------------------- MODULE MCHttpServer ----------------------------
(* Small instances of HttpServer. *)
EXTENDS HttpServer, TLC

\* A garbage collection beside a handler that drops the mutex, or after a read that
\* failed, loses writes (see Disagreements in the README).
MCMixes == {{"write", "bulk", "gc"}, {"write", "bulk", "reindex", "embed", "unread"}}

Symmetric == Permutations(Proc \ {Server})
=============================================================================
