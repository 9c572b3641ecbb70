------------------------------ MODULE MCAccounts ------------------------------
(* Small instances of Accounts for TLC.                                    *)
EXTENDS Accounts, TLC

CONSTANTS k1, s1

\* A single key.
OneSecret == (k1 :> s1)

\* A failed call, a lost answer or a restart.
One == {[objects |-> 1, lag |-> 0, faults |-> 1, edits |-> 0, admin |-> 0]}

\* None.
Calm == {[objects |-> 1, lag |-> 0, faults |-> 0, edits |-> 0, admin |-> 0]}
=============================================================================
