----------------------------- MODULE PublishedKey -----------------------------
(***************************************************************************)
(* What the API key managers of a Headscale promise to whoever reads the   *)
(* Secret, the operator above all (getAPIKey in internal/controller):      *)
(* whenever there is a key in the Secret, the server accepts it; a key is  *)
(* withdrawn from the server only when it is not, or no longer, the one in *)
(* the Secret; the expiration written next to the key is the key's.        *)
(*                                                                         *)
(* ApiKeyManager implements this specification.                            *)
(***************************************************************************)
EXTENDS Naturals

VARIABLES
  inForce,    \* the keys the server accepts, until they expire
  published,  \* what the Secret says
  next        \* the next id the server hands out

vars == <<inForce, published, next>>

\* The Secret is not there.
Nothing == [id |-> 0, expires |-> 0]

Init == inForce = {} /\ published = Nothing /\ next = 1

\* The server issues a key; it is in force before anybody can publish it.
Issue ==
  /\ \E k \in inForce' \ inForce : k.id = next /\ inForce' = inForce \cup {k}
  /\ next' = next + 1
  /\ UNCHANGED published

\* Readers go from one key in force to another in one step.
Publish ==
  /\ published' \in inForce
  /\ UNCHANGED <<inForce, next>>

\* A key that is not published stops being accepted.
Revoke ==
  /\ \E k \in inForce :
       k.id # published.id /\ inForce' = {j \in inForce : j.id # k.id}
  /\ UNCHANGED <<published, next>>

\* Somebody else deletes the Secret, or makes its annotation unreadable.
Withdraw == published' = Nothing /\ UNCHANGED <<inForce, next>>
Spoil == published' = [published EXCEPT !.expires = 0] /\ UNCHANGED <<inForce, next>>

Next == Issue \/ Publish \/ Revoke \/ Withdraw \/ Spoil

Spec == Init /\ [][Next]_vars
=============================================================================
