----------------------------- MODULE LaggingCopy -----------------------------
(***************************************************************************)
(* What a message stream promises: a copy of a growing original that may   *)
(* be behind it, is never ahead of it and never goes back, except that it  *)
(* may be forgotten as a whole and then started again.                     *)
(***************************************************************************)
EXTENDS Naturals

CONSTANTS Ids, MaxSize

VARIABLES
    original, \* per entry how much of it was said
    copy      \* per entry how much of it is shown

Sizes == [Ids -> 0..MaxSize]

Nothing == [i \in Ids |-> 0]

Covers(a, b) == \A i \in Ids : a[i] >= b[i]

Init == original = Nothing /\ copy = Nothing

Say ==
    /\ original' \in Sizes /\ Covers(original', original)
    /\ UNCHANGED copy

CatchUp ==
    /\ copy' \in Sizes
    /\ Covers(copy', copy) /\ Covers(original, copy')
    /\ UNCHANGED original

Forget ==
    /\ copy' = Nothing
    /\ UNCHANGED original

Next == Say \/ CatchUp \/ Forget

Spec == Init /\ [][Next]_<<original, copy>>
=============================================================================
