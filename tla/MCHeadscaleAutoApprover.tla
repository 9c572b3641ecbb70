----------------------- MODULE MCHeadscaleAutoApprover -----------------------
(* Small instances of HeadscaleAutoApprover for TLC.                       *)
EXTENDS HeadscaleAutoApprover, TLC

CONSTANTS a1, a2, h1, h2

\* One object with any two of a failure, an edit and a change by hand; two
\* objects with one of them.
Mixed == {[objects |-> 1, faults |-> 1, edits |-> 1, admin |-> 0],
          [objects |-> 1, faults |-> 1, edits |-> 0, admin |-> 1],
          [objects |-> 1, faults |-> 0, edits |-> 1, admin |-> 1],
          [objects |-> 2, faults |-> 1, edits |-> 0, admin |-> 0],
          [objects |-> 2, faults |-> 0, edits |-> 1, admin |-> 0],
          [objects |-> 2, faults |-> 0, edits |-> 0, admin |-> 1]}

\* One object with a failure and a change by hand.
OneStale == {[objects |-> 1, faults |-> 1, edits |-> 0, admin |-> 1]}
=============================================================================
