------------------------------ MODULE Accounts ------------------------------
(***************************************************************************)
(* What registration promises, without workers, caches, retries or lost    *)
(* replies: a name and an address belong to one team; a team is confirmed  *)
(* with the code that was mailed to its address; its password changes with *)
(* the last token issued for its address, once it was mailed there, and    *)
(* once for each token.                                                    *)
(***************************************************************************)
CONSTANTS Names, Emails, Codes, None

VARIABLES
    teams,      \* registered teams: name, address and confirmation code
    posted,     \* letters on their way: an address and a code
    confirmed,  \* codes of the teams that are confirmed
    valid,      \* the reset token of an address, or None
    spent       \* tokens that have changed a password

accounts == <<teams, posted, confirmed, valid, spent>>

Unposted(c) == \A e \in Emails : <<e, c>> \notin posted

Init ==
    /\ teams = {} /\ posted = {} /\ confirmed = {} /\ spent = {}
    /\ valid = [e \in Emails |-> None]

Register(n, e, c) ==
    /\ \A r \in teams : r.name # n /\ r.email # e /\ r.code # c
    /\ Unposted(c)
    /\ teams' = teams \cup {[name |-> n, email |-> e, code |-> c]}
    /\ UNCHANGED <<posted, confirmed, valid, spent>>

Issue(e, c) ==
    /\ Unposted(c) /\ c \notin spent
    /\ \E r \in teams : r.email = e
    /\ valid' = [valid EXCEPT ![e] = c]
    /\ UNCHANGED <<teams, posted, confirmed, spent>>

\* A letter goes to the address its code was made for.
Post(e, c) ==
    /\ Unposted(c)
    /\ \E r \in teams : r.email = e
    /\ \A r \in teams : r.code = c => r.email = e
    /\ posted' = posted \cup {<<e, c>>}
    /\ UNCHANGED <<teams, confirmed, valid, spent>>

Confirm(r) ==
    /\ <<r.email, r.code>> \in posted
    /\ r.code \notin confirmed
    /\ confirmed' = confirmed \cup {r.code}
    /\ UNCHANGED <<teams, posted, valid, spent>>

ChangePassword(e) ==
    /\ <<e, valid[e]>> \in posted /\ valid[e] \notin spent
    /\ spent' = spent \cup {valid[e]}
    /\ valid' = [valid EXCEPT ![e] = None]
    /\ UNCHANGED <<teams, posted, confirmed>>

Next ==
    \/ \E n \in Names, e \in Emails, c \in Codes : Register(n, e, c)
    \/ \E e \in Emails, c \in Codes : Issue(e, c) \/ Post(e, c)
    \/ \E r \in teams : Confirm(r)
    \/ \E e \in Emails : ChangePassword(e)

Spec == Init /\ [][Next]_accounts
=============================================================================
