------------------------------ MODULE Mailbox ------------------------------
(***************************************************************************)
(* What the publication of control cycles promises its one consumer: a     *)
(* publication takes effect at one instant, and a take returns the whole   *)
(* of the latest one.  Takes may skip publications and repeat one.         *)
(***************************************************************************)
EXTENDS Naturals

CONSTANT Fields     \* the parts of a publication

VARIABLES
    latest,     \* number of the last publication, 0 before the first
    taken       \* the last publication taken: for each field, its number

mailVars == <<latest, taken>>

Whole(n) == [f \in Fields |-> n]

Init == latest = 0 /\ taken = Whole(0)

Publish == latest' = latest + 1 /\ UNCHANGED taken
Take == taken' = Whole(latest) /\ UNCHANGED latest

Next == Publish \/ Take

Spec == Init /\ [][Next]_mailVars
=============================================================================
