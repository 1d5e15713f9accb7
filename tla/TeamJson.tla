------------------------------ MODULE TeamJson ------------------------------
(***************************************************************************)
(* TeamStatus::getJson: the lists of solved challenges in the answer to    *)
(* GET /team/status.  A list of solutions is given by the kinds of its     *)
(* challenges in order: TRUE for a flash challenge; the i-th is shown as i.*)
(***************************************************************************)
EXTENDS Integers, Sequences

Hole == 0       \* an element of a JSON array that was never assigned

\* array[n] = x of cppcms::json: the array grows to hold its n-th element.
PutAt(array, n, x) ==
    [i \in 1 .. (IF n > Len(array) THEN n ELSE Len(array)) |->
        IF i = n THEN x ELSE IF i <= Len(array) THEN array[i] ELSE Hole]

\* Mutant of ShowSolve: the flash list is filled at chall_index, too.
ShowSolveAt(object, i, flash) ==
    IF flash
    THEN [object EXCEPT !.flashch_solved = PutAt(@, i, i), !.flashchall_index = @ + 1]
    ELSE [object EXCEPT !.solved = PutAt(@, i, i)]

\* One turn of the loop over the solutions.
ShowSolve(object, i, flash) ==
    IF flash
    THEN [object EXCEPT !.flashch_solved = PutAt(@, object.flashchall_index + 1, i),
                        !.flashchall_index = @ + 1]
    ELSE [object EXCEPT !.solved = PutAt(@, i, i)]

NoSolves == [solved |-> <<>>, flashch_solved |-> <<>>, flashchall_index |-> 0]

\* The object after each turn.
Turns(list) ==
    LET object[i \in 0 .. Len(list)] ==
            IF i = 0 THEN NoSolves ELSE ShowSolve(object[i - 1], i, list[i])
    IN  object

GetJson(list) == Turns(list)[Len(list)]

\* object.save() throws when an element has no value.
Saves(object) ==
    /\ \A i \in DOMAIN object.solved : object.solved[i] # Hole
    /\ \A i \in DOMAIN object.flashch_solved : object.flashch_solved[i] # Hole

\* The solves of one kind.
OfKind(list, flash) == {i \in DOMAIN list : list[i] = flash}

\* Sequence s holds the numbers in N, each once and in their order.
InOrder(s, N) ==
    /\ {s[i] : i \in DOMAIN s} = N
    /\ \A i, j \in DOMAIN s : i < j => s[i] < s[j]

HasHole(list) == \E i, j \in DOMAIN list : i < j /\ list[i] /\ ~ list[j]
=============================================================================
