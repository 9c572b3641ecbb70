----------------------------- MODULE MCHeadscale -----------------------------
(* Small instances of Headscale for TLC.                                   *)
EXTENDS Headscale

CONSTANTS s1, s2

Managed(config, s) == [manage |-> TRUE, secret |-> s, config |-> config,
                       policy |-> TRUE]

\* The API key managed; a config the server refuses, with another Secret and
\* a policy that does not parse; another good one with management given up.
Variety == {Managed("fine", s1),
            [Managed("noServerURL", s2) EXCEPT !.policy = FALSE],
            [Managed("alsoFine", s1) EXCEPT !.manage = FALSE]}

\* An edit and a failure, or a change by hand.
EditAndFault == {[gens |-> 2, faults |-> 1, admin |-> 0],
                 [gens |-> 1, faults |-> 0, admin |-> 1]}
=============================================================================
