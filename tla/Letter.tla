------------------------------- MODULE Letter -------------------------------
(***************************************************************************)
(* What mailer::send promises about a letter: it is reported as sent only  *)
(* when the mail server took it.  One that is reported as failed may have  *)
(* been taken, or may still be.  Instead of a report there may be an       *)
(* exception, but only for a letter that was taken.                        *)
(***************************************************************************)
CONSTANT None

VARIABLES
    taken,      \* the server took the letter
    result      \* "sent", "unsent", "thrown", or None: not known yet

letter == <<taken, result>>

Init == taken = FALSE /\ result = None

Take ==
    /\ ~ taken /\ result \in {None, "unsent"}
    /\ taken' = TRUE /\ UNCHANGED result

Succeed ==
    /\ taken /\ result = None
    /\ result' \in {"sent", "thrown"} /\ UNCHANGED taken

Fail ==
    /\ result = None
    /\ result' = "unsent" /\ UNCHANGED taken

Next == Take \/ Succeed \/ Fail

Spec == Init /\ [][Next]_letter
=============================================================================
