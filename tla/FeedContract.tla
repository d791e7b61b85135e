---------------------------- MODULE FeedContract ----------------------------
(***************************************************************************)
(* What the live feed of a channel or topic promises its session, without  *)
(* cursors, dedup sets or subscriptions: of the rows posted at the         *)
(* deployment, the session is handed some, each at most once, in the order *)
(* they were posted, and none that it was given as history when the feed   *)
(* was opened.                                                             *)
(***************************************************************************)
EXTENDS Naturals, Sequences

VARIABLES
    posted,     \* how many rows there are
    shown,      \* the rows up to this one came as history
    inbox       \* the numbers of the rows handed to the session, in order

contractVars == <<posted, shown, inbox>>

Init == posted = 0 /\ shown = 0 /\ inbox = <<>>

Post ==
    /\ posted' = posted + 1
    /\ UNCHANGED <<shown, inbox>>

\* The session joins, and is given what was posted up to some row.
Join ==
    /\ shown' \in 0 .. posted
    /\ UNCHANGED <<posted, inbox>>

Increasing(s) == \A i \in 1 .. Len(s) - 1 : s[i] < s[i + 1]

\* The session is handed further rows.
HandOver ==
    /\ Len(inbox') > Len(inbox)
    /\ SubSeq(inbox', 1, Len(inbox)) = inbox
    /\ \A i \in Len(inbox) + 1 .. Len(inbox') : inbox'[i] \in shown + 1 .. posted
    /\ Increasing(inbox')
    /\ UNCHANGED <<posted, shown>>

Next == Post \/ Join \/ HandOver

Spec == Init /\ [][Next]_contractVars
=============================================================================
