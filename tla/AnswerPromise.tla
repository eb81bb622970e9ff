--------------------------- MODULE AnswerPromise ---------------------------
(***************************************************************************)
(* What the way from the model to the page promises about an answer of     *)
(* Answer chunks: the page is given the chunks in order, each once, and it *)
(* takes the answer for complete only if it was given all of them.         *)
(***************************************************************************)
EXTENDS Naturals, Sequences

CONSTANT Answer

VARIABLES
    given,      \* the chunks given to the page
    verdict     \* what the page takes the answer for

vars == <<given, verdict>>

Init == given = <<>> /\ verdict = "pending"

GiveNext == Len(given) < Answer /\ given' = Append(given, Len(given) + 1)

Give == verdict = "pending" /\ GiveNext /\ UNCHANGED verdict

Complete ==
    /\ verdict = "pending"
    /\ Len(given) = Answer
    /\ verdict' = "complete"
    /\ UNCHANGED given

\* The end of a broken stream may push out a last chunk.
Incomplete ==
    /\ verdict = "pending"
    /\ verdict' = "incomplete"
    /\ UNCHANGED given \/ GiveNext

Next == Give \/ Complete \/ Incomplete

Spec == Init /\ [][Next]_vars
=============================================================================
