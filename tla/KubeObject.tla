------------------------------ MODULE KubeObject ------------------------------
(***************************************************************************)
(* What a reconciler sees of one Kubernetes object.                        *)
(*                                                                         *)
(* The API server keeps the latest version.  The manager's client reads    *)
(* from an informer cache, which receives the versions one watch event at  *)
(* a time and in order.  Both are one value here: the non-empty sequence   *)
(* of the versions from the one the cache holds to the one the server      *)
(* stores.  A write appends, a watch event drops the head, and a relist    *)
(* (a restarted manager) keeps only the last version.                      *)
(*                                                                         *)
(* External: this is the behaviour of the API server and of client-go that *)
(* the code under src/ relies on, not code of src/.                        *)
(***************************************************************************)
EXTENDS Naturals, Sequences

\* The sequences of versions over a set of object values.
History(Object) == Seq(Object) \ {<<>>}

\* What r.Get returns through the cache.
Observed(h) == h[1]

\* What the API server would return.
Stored(h) == h[Len(h)]

\* The cache has seen every write.
InSync(h) == Len(h) = 1

\* Watch events not delivered yet.
Lag(h) == Len(h) - 1

\* One write accepted by the API server.
Written(h, version) == Append(h, version)

\* One watch event delivered to the cache.
Delivered(h) == Tail(h)

\* A new informer lists the objects.
Relisted(h) == <<Stored(h)>>
=============================================================================
