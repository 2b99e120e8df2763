------------------------------ MODULE Informer ------------------------------
(***************************************************************************)
(* How the controllers see the Kubernetes API server.                      *)
(*                                                                         *)
(* mgr.GetClient() (src/cmd/main.go) reads from informer caches and writes *)
(* to the API server.  There is one informer per kind.  A kind is modelled *)
(* by the list of its versions that the informer has not gone past yet:    *)
(* the first one is what a cached Get or List returns, the last one is     *)
(* what the API server holds, and the ones between are watch events on     *)
(* their way.  Every version maps the names of the kind to objects.        *)
(*                                                                         *)
(* client-go, controller-runtime and the API server are not part of the    *)
(* repository: this module is external, and modelled from the way the two  *)
(* reconcilers use the client.                                             *)
(***************************************************************************)
EXTENDS Naturals, Sequences

\* The histories of a kind whose versions are elements of S: never empty.
History(S) == Seq(S) \ {<<>>}

\* What a cached read returns.
Cached(h) == h[1]

\* What the API server holds.
Actual(h) == h[Len(h)]

\* The versions that somebody may still read.
Versions(h) == {h[i] : i \in DOMAIN h}

\* The informer has seen every version.
Synced(h) == Len(h) = 1

\* The API server accepts version s.  A write that changes nothing keeps the
\* resourceVersion and sends no watch event.
Commit(h, s) == IF s = Actual(h) THEN h ELSE Append(h, s)

\* The informer takes the next watch event into its cache ...
Deliver(h) == Tail(h)

\* ... which concerns these objects.
Changed(h) == {n \in DOMAIN Cached(h) : h[2][n] # h[1][n]}

\* A new process lists the kind before it watches it.
Relist(h) == <<Actual(h)>>

\* Optimistic concurrency: an Update that carries the cached resourceVersion
\* of n is accepted only if nobody has written n since.  Objects are compared
\* by value: when a later version has the same value, the write has the same
\* outcome as a write that carries the later resourceVersion.
UpToDate(h, n) == Actual(h)[n] = Cached(h)[n]

=============================================================================
