------------------------ MODULE MCHeadscalePreAuthKey ------------------------
(* Small instances of HeadscalePreAuthKey for TLC.                         *)
EXTENDS HeadscalePreAuthKey, TLC

CONSTANTS k1, k2, s1

\* Two objects with one Secret.
SharedSecret == (k1 :> s1 @@ k2 :> s1)

\* A single object.
OneSecret == (k1 :> s1)

\* One object with caches in step, through a failure, an edit and a change by
\* hand; one with caches that are behind, and a failure or an edit; two of one
\* Secret, with caches in step and a failure.
Mixed == {[objects |-> 1, lag |-> 0, faults |-> 1, edits |-> 1, admin |-> 1],
          [objects |-> 1, lag |-> 1, faults |-> 1, edits |-> 0, admin |-> 0],
          [objects |-> 1, lag |-> 1, faults |-> 0, edits |-> 1, admin |-> 0],
          [objects |-> 2, lag |-> 0, faults |-> 1, edits |-> 0, admin |-> 0]}

\* One object, and caches that are behind by two events.
OneBehind == {[objects |-> 1, lag |-> 2, faults |-> 0, edits |-> 0, admin |-> 0]}
=============================================================================
