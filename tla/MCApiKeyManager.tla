-------------------------- MODULE MCApiKeyManager --------------------------
(* Small instances of ApiKeyManager for TLC.                               *)
EXTENDS ApiKeyManager, TLC

CONSTANTS m1, m2

\* One sidecar over several rotations with three failures; two that race for
\* the first keys and the first rotations with two failures.
OneOrTwo == {[managers |-> 1, faults |-> 3, time |-> 14],
             [managers |-> 2, faults |-> 2, time |-> 5]}

\* One sidecar and no failure.
Undisturbed == {[managers |-> 1, faults |-> 0, time |-> 20]}

\* No instance's failures cost as much as the buffer, so that KeyNeverLapses is owed.
ASSUME FailuresAffordable == Affordable

\* Two sidecars over one database are interchangeable.
Sidecars == Permutations({m1, m2})
=============================================================================
