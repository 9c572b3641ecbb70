--------------------------- MODULE MCHeadscaleUser ---------------------------
(* Small instances of HeadscaleUser for TLC.                               *)
EXTENDS HeadscaleUser, TLC

CONSTANTS u1, u2, n1

\* Two objects that ask for the same username.
SameName == (u1 :> n1 @@ u2 :> n1)

\* One object through a failure, an edit and two changes by hand; two with a
\* failure or a change by hand.
OneOrTwo == {[objects |-> 1, faults |-> 1, edits |-> 1, admin |-> 2],
             [objects |-> 2, faults |-> 1, edits |-> 0, admin |-> 0],
             [objects |-> 2, faults |-> 0, edits |-> 0, admin |-> 1]}

\* One object and an edit.
OneEdit == {[objects |-> 1, faults |-> 0, edits |-> 1, admin |-> 0]}

\* A single object.
OneName == (u1 :> n1)
=============================================================================
