----------------------------- MODULE EventFeed -----------------------------
(***************************************************************************)
(* What the emitter promises its subscribers: the files it has noticed are *)
(* announced in the order of their creation and without gaps; when it      *)
(* fails, the ones it had not announced yet are forgotten.                 *)
(***************************************************************************)
EXTENDS Integers, Sequences

CONSTANT File

VARIABLES
    noticed,    \* the files noticed and not forgotten, in order
    announced   \* the files announced, each once, in the order of their first announcement

vars == <<noticed, announced>>

Init == noticed = <<>> /\ announced = <<>>

Notice ==
    /\ \E f \in File : noticed' = Append(noticed, f)
    /\ UNCHANGED announced

Announce ==
    /\ Len(announced) < Len(noticed)
    /\ announced' = Append(announced, noticed[Len(announced) + 1])
    /\ UNCHANGED noticed

Forget ==
    /\ noticed' = announced
    /\ UNCHANGED announced

Next == Notice \/ Announce \/ Forget

Spec == Init /\ [][Next]_vars

=============================================================================
