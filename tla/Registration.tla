---------------------------- MODULE Registration ----------------------------
(***************************************************************************)
(* The registration daemon: the handlers subscribe, confirm,               *)
(* init_password_reset and password_reset, the functions of dbcontroller   *)
(* and the two of mailer that they call.                                   *)
(*                                                                         *)
(* Workers share the cache and the table `team', whose rows have a unique  *)
(* name and a unique e-mail address.  A statement is repeated as long as   *)
(* its connection is lost (handleError), and may have done its work when   *)
(* that happens.  The server may go on with one after the daemon died; the *)
(* worker of then waits for it ("stray") beside those of the new daemon.   *)
(* Names and addresses stand for forms that are valid.                     *)
(***************************************************************************)
EXTENDS Integers, FiniteSets

CONSTANTS
    Workers,    \* worker threads
    Names,      \* team names
    Emails,     \* e-mail addresses
    Addresses,  \* IP addresses
    Codes,      \* what randstr draws from; each is drawn once (bound)
    MaxTeams,   \* MAX_TEAMS_PER_IP
    None        \* NULL, and "not in the cache"

Rows == [name : Names, email : Emails, ip : Addresses, code : Codes]

\* Only a subscription has a name and an IP address that matter.
Requests ==
    [kind : {"subscribe"}, name : Names, email : Emails, ip : Addresses, code : Codes]
        \cup [kind : {"init", "reset"}, email : Emails, code : Codes]
        \cup [kind : {"confirm"}, code : Codes]

NoRow == [name |-> None]

ASSUME RegistrationAssumption ==
    /\ MaxTeams \in Nat
    /\ Names \cap Emails = {}
    /\ None \notin Requests \cup Codes \cup {"t", "f"}
    /\ None \notin {"spammer", "taken", "error", "unsent", "nothing", "done", "ok", "ko"}

VARIABLES
    teams,       \* table team, the columns that registration looks at
    confirmed,   \* confirmcodes of the rows with a confirmip
    token,       \* column reset_token of the row of an e-mail address
    recent,      \* addresses whose reset_timestamp is less than an hour old
    posted,      \* letters the mail server took: an address and a code
    spam,        \* cache keys ipspammer_<ip>
    taken,       \* cache keys exists_name_ and exists_email_ that are "t"
    tried,       \* cache keys confirmkey_<code>
    pc,          \* where a worker is in its request
    req,         \* its request, with the code that was drawn for it
    hit,         \* the row checkDuplicates found, or NoRow
    yes,         \* the result of its last statement
    res,         \* its answer
    issued,      \* history: codes that were drawn
    spent,       \* history: tokens that changed a password
    crowded,     \* history: addresses that registered twice at the same time
    broken,      \* history: workers whose statement failed in this request
    undelivered  \* history: tokens whose letter was not sent

table   == <<teams, confirmed, token, recent, posted>>
cache   == <<spam, taken, tried>>
worker  == <<pc, req, hit, yes, res>>
history == <<issued, spent, crowded, broken, undelivered>>
vars    == <<table, cache, worker, history>>

RowOf(t) == [name |-> req[t].name, email |-> req[t].email, ip |-> req[t].ip,
             code |-> req[t].code]
Goto(t, l)   == pc' = [pc EXCEPT ![t] = l]
Answer(t, r) == Goto(t, "reply") /\ res' = [res EXCEPT ![t] = r]
Mailed == {m[2] : m \in posted}

Init ==
    /\ teams = {} /\ confirmed = {} /\ recent = {} /\ posted = {}
    /\ token = [e \in Emails |-> None]
    /\ spam = [ip \in Addresses |-> None] /\ taken = {} /\ tried = {}
    /\ pc = [t \in Workers |-> "idle"]
    /\ req = [t \in Workers |-> None]
    /\ hit = [t \in Workers |-> NoRow]
    /\ yes = [t \in Workers |-> FALSE]
    /\ res = [t \in Workers |-> None]
    /\ issued = {} /\ spent = {} /\ crowded = {} /\ broken = {} /\ undelivered = {}
-----------------------------------------------------------------------------
(* subscribe: isSpammer, checkDuplicates, insert.                          *)

Start(t, q, l) ==
    /\ pc[t] = "idle"
    /\ Goto(t, l)
    /\ req' = [req EXCEPT ![t] = q]
    /\ UNCHANGED <<table, cache, hit, yes, res, spent, broken, undelivered>>

Subscribing(t) == req[t] # None /\ req[t].kind = "subscribe"

Subscribe(t) ==
    \E n \in Names, e \in Emails, ip \in Addresses, c \in Codes \ issued :
        /\ Start(t, [kind |-> "subscribe", name |-> n, email |-> e, ip |-> ip,
                     code |-> c], "spam")
        /\ issued' = issued \cup {c}
        /\ crowded' = IF \E u \in Workers : Subscribing(u) /\ req[u].ip = ip
                      THEN crowded \cup {ip} ELSE crowded

LookUpSpam(t) ==
    /\ pc[t] = "spam"
    /\ \/ spam[req[t].ip] = "t" /\ Answer(t, "spammer")
       \/ spam[req[t].ip] = "f" /\ Goto(t, "form") /\ UNCHANGED res
       \/ spam[req[t].ip] = None /\ Goto(t, "count") /\ UNCHANGED res
    /\ UNCHANGED <<table, cache, req, hit, yes, history>>

\* SELECT COUNT(*) FROM team WHERE ip=:ip
CountTeams(t) ==
    /\ pc[t] = "count"
    /\ Goto(t, "keepcount")
    /\ yes' = [yes EXCEPT ![t] =
                 Cardinality({r \in teams : r.ip = req[t].ip}) > MaxTeams]
    /\ UNCHANGED <<table, cache, req, hit, res, history>>

KeepCount(t) ==
    /\ pc[t] = "keepcount"
    /\ spam' = [spam EXCEPT ![req[t].ip] = IF yes[t] THEN "t" ELSE "f"]
    /\ \/ yes[t] /\ Answer(t, "spammer")
       \/ ~ yes[t] /\ Goto(t, "form") /\ UNCHANGED res
    /\ UNCHANGED <<table, taken, tried, req, hit, yes, history>>

\* validate: a name or an address that is known to be taken ends here.
LookUpTaken(t) ==
    /\ pc[t] = "form"
    /\ IF taken \cap {req[t].name, req[t].email} # {}
       THEN Answer(t, "taken")
       ELSE Goto(t, "duplicates") /\ UNCHANGED res
    /\ UNCHANGED <<table, cache, req, hit, yes, history>>

Clashes(t) ==
    {r \in teams : r.name = req[t].name \/ r.email = req[t].email}

\* SELECT name,email FROM team WHERE name=:nomesquadra or email=:email: the
\* first row is looked at.
FindDuplicates(t) ==
    /\ pc[t] = "duplicates"
    /\ Goto(t, "keepduplicates")
    /\ \/ \E r \in Clashes(t) : hit' = [hit EXCEPT ![t] = r]
       \/ Clashes(t) = {} /\ hit' = [hit EXCEPT ![t] = NoRow]
    /\ UNCHANGED <<table, cache, req, yes, res, history>>

\* Mutant of KeepDuplicates: both keys get "t", whichever the row has.
KeepDuplicatesAlike(t) ==
    /\ pc[t] = "keepduplicates"
    /\ LET both == {req[t].name, req[t].email}
       IN  taken' = IF hit[t] = NoRow THEN taken \ both ELSE taken \cup both
    /\ IF hit[t] = NoRow
       THEN Goto(t, "insert") /\ UNCHANGED res
       ELSE Answer(t, "taken")
    /\ UNCHANGED <<table, spam, tried, req, hit, yes, history>>

\* Both keys are stored anew: "t" for what the row has, "f" else.
KeepDuplicates(t) ==
    /\ pc[t] = "keepduplicates"
    /\ LET both == {req[t].name, req[t].email}
           has  == IF hit[t] = NoRow THEN {} ELSE {hit[t].name, hit[t].email}
       IN  taken' = (taken \ both) \cup (both \cap has)
    /\ IF hit[t] = NoRow
       THEN Goto(t, "insert") /\ UNCHANGED res
       ELSE Answer(t, "taken")
    /\ UNCHANGED <<table, spam, tried, req, hit, yes, history>>

\* INSERT INTO team: refused when the name or the address has a row.
InsertRow(t) ==
    /\ teams' = IF Clashes(t) = {} THEN teams \cup {RowOf(t)} ELSE teams
    /\ UNCHANGED <<confirmed, token, recent, posted, spent>>

Insert(t) ==
    /\ pc[t] = "insert"
    /\ InsertRow(t)
    /\ yes' = [yes EXCEPT ![t] = Clashes(t) = {}]
    /\ Goto(t, "inserted")
    /\ UNCHANGED <<cache, req, hit, res, issued, crowded, broken, undelivered>>

\* Mutants of Inserted: the rows affected are not looked at; the count of the
\* address stays in the cache.
InsertedBlind(t) ==
    /\ pc[t] = "inserted"
    /\ taken' = taken \ {req[t].name, req[t].email}
    /\ spam' = [spam EXCEPT ![req[t].ip] = None]
    /\ Goto(t, "mail") /\ UNCHANGED res
    /\ UNCHANGED <<table, tried, req, hit, yes, history>>

InsertedKeepsCount(t) ==
    /\ pc[t] = "inserted"
    /\ taken' = taken \ {req[t].name, req[t].email}
    /\ IF yes[t] THEN Goto(t, "mail") /\ UNCHANGED res ELSE Answer(t, "error")
    /\ UNCHANGED <<table, spam, tried, req, hit, yes, history>>

\* The three keys are dropped, whatever became of the INSERT.
Inserted(t) ==
    /\ pc[t] = "inserted"
    /\ taken' = taken \ {req[t].name, req[t].email}
    /\ spam' = [spam EXCEPT ![req[t].ip] = None]
    /\ IF yes[t] THEN Goto(t, "mail") /\ UNCHANGED res ELSE Answer(t, "error")
    /\ UNCHANGED <<table, tried, req, hit, yes, history>>
-----------------------------------------------------------------------------
(* sendConfirmEmail and sendPasswordRecoveryEmail, with the outcomes that  *)
(* Letter allows; SmtpClient has the dialogue.  A letter that the server   *)
(* takes after it was reported as failed counts as taken at once.          *)

PostLetter(t) == posted' = posted \cup {<<req[t].email, req[t].code>>}

SendMail(t) ==
    /\ pc[t] = "mail"
    /\ PostLetter(t)
    /\ Answer(t, "done")
    /\ UNCHANGED <<teams, confirmed, token, recent, cache, req, hit, yes, history>>

\* The dialogue with the mail server ends early, perhaps with the letter taken.
MailFails(t) ==
    /\ pc[t] = "mail"
    /\ PostLetter(t) \/ UNCHANGED posted
    /\ Answer(t, "unsent")
    /\ undelivered' = undelivered \cup {req[t].code}
    /\ UNCHANGED <<teams, confirmed, token, recent, cache, req, hit, yes, issued,
                   spent, crowded, broken>>
\* QUIT cannot be written: nobody catches what quit throws, and the handler ends
\* without an answer, although the letter was taken.
MailEscapes(t) ==
    /\ pc[t] = "mail"
    /\ PostLetter(t)
    /\ Answer(t, "nothing")
    /\ UNCHANGED <<teams, confirmed, token, recent, cache, req, hit, yes, history>>
-----------------------------------------------------------------------------
(* confirm: somebody follows the link of a letter.                         *)

ConfirmLink(t) ==
    /\ \E c \in Mailed : Start(t, [kind |-> "confirm", code |-> c], "key")
    /\ UNCHANGED <<issued, crowded>>

\* Mutant of LookUpKey: the key is stored before the row is looked at.
LookUpKeyAndKeep(t) ==
    /\ pc[t] = "key"
    /\ IF req[t].code \in tried
       THEN Answer(t, "ko")
       ELSE Goto(t, "confirm") /\ UNCHANGED res
    /\ tried' = tried \cup {req[t].code}
    /\ UNCHANGED <<table, spam, taken, req, hit, yes, history>>

LookUpKey(t) ==
    /\ pc[t] = "key"
    /\ IF req[t].code \in tried
       THEN Answer(t, "ko")
       ELSE Goto(t, "confirm") /\ UNCHANGED res
    /\ UNCHANGED <<table, cache, req, hit, yes, history>>

Unconfirmed(c) == c \notin confirmed /\ \E r \in teams : r.code = c

\* UPDATE team SET confirmip=... WHERE confirmcode=:code AND confirmip is null
ConfirmRow(t) ==
    /\ confirmed' = IF Unconfirmed(req[t].code) THEN confirmed \cup {req[t].code}
                                                ELSE confirmed
    /\ UNCHANGED <<teams, token, recent, posted, spent>>

Confirm(t) ==
    /\ pc[t] = "confirm"
    /\ ConfirmRow(t)
    /\ yes' = [yes EXCEPT ![t] = Unconfirmed(req[t].code)]
    /\ Goto(t, "keepkey")
    /\ UNCHANGED <<cache, req, hit, res, issued, crowded, broken, undelivered>>

KeepKey(t) ==
    /\ pc[t] = "keepkey"
    /\ tried' = tried \cup {req[t].code}
    /\ Answer(t, IF yes[t] THEN "ok" ELSE "ko")
    /\ UNCHANGED <<table, spam, taken, req, hit, yes, history>>
-----------------------------------------------------------------------------
(* init_password_reset and password_reset.                                 *)

InitReset(t) ==
    \E e \in Emails, c \in Codes \ issued :
        /\ Start(t, [kind |-> "init", email |-> e, code |-> c], "token")
        /\ issued' = issued \cup {c}
        /\ UNCHANGED crowded

Registered(e) == \E r \in teams : r.email = e

\* UPDATE team SET reset_token=:token, reset_timestamp=NOW() WHERE email=:email
TokenRow(t) ==
    LET e == req[t].email IN
    /\ token' = IF Registered(e) THEN [token EXCEPT ![e] = req[t].code] ELSE token
    /\ recent' = IF Registered(e) THEN recent \cup {e} ELSE recent
    /\ UNCHANGED <<teams, confirmed, posted, spent>>

\* Mutant of SetToken: the condition before the mail is turned round.
SetTokenUnmailed(t) ==
    /\ pc[t] = "token"
    /\ TokenRow(t)
    /\ Answer(t, "done")
    /\ UNCHANGED <<cache, req, hit, yes, issued, crowded, broken, undelivered>>

\* No row, no letter, but "done" all the same.
SetToken(t) ==
    /\ pc[t] = "token"
    /\ TokenRow(t)
    /\ IF Registered(req[t].email) THEN Goto(t, "mail") /\ UNCHANGED res
                                   ELSE Answer(t, "done")
    /\ UNCHANGED <<cache, req, hit, yes, issued, crowded, broken, undelivered>>

\* Somebody types a new password on the page of a letter, or on one of
\* another team's address.
ResetLink(t) ==
    /\ \E c \in Mailed, e \in Emails :
          Start(t, [kind |-> "reset", email |-> e, code |-> c], "password")
    /\ UNCHANGED <<issued, crowded>>

Matches(t) == token[req[t].email] = req[t].code /\ req[t].email \in recent

\* Mutants of PasswordRow: reset_token becomes an empty text, or stays.
PasswordRowEmpty(t) ==
    /\ spent' = IF Matches(t) THEN spent \cup {req[t].code} ELSE spent
    /\ token' = IF Matches(t) THEN [token EXCEPT ![req[t].email] = ""] ELSE token
    /\ UNCHANGED <<teams, confirmed, recent, posted>>

PasswordRowOnly(t) ==
    /\ spent' = IF Matches(t) THEN spent \cup {req[t].code} ELSE spent
    /\ UNCHANGED <<teams, confirmed, token, recent, posted>>

\* UPDATE team SET password=..., reset_token=NULL WHERE email=:email AND
\* reset_token=:token AND reset_timestamp > DATE_SUB(NOW(), INTERVAL 1 HOUR)
PasswordRow(t) ==
    /\ spent' = IF Matches(t) THEN spent \cup {req[t].code} ELSE spent
    /\ token' = IF Matches(t) THEN [token EXCEPT ![req[t].email] = None] ELSE token
    /\ UNCHANGED <<teams, confirmed, recent, posted>>

SetPassword(t) ==
    /\ pc[t] = "password"
    /\ PasswordRow(t)
    /\ Answer(t, IF Matches(t) THEN "done" ELSE "error")
    /\ UNCHANGED <<cache, req, hit, yes, issued, crowded, broken, undelivered>>
-----------------------------------------------------------------------------
Reply(t) ==
    /\ pc[t] = "reply"
    /\ Goto(t, "idle")
    /\ req' = [req EXCEPT ![t] = None]
    /\ res' = [res EXCEPT ![t] = None]
    /\ hit' = [hit EXCEPT ![t] = NoRow]
    /\ yes' = [yes EXCEPT ![t] = FALSE]
    /\ broken' = broken \ {t}
    /\ UNCHANGED <<table, cache, issued, spent, crowded, undelivered>>

Writing == {"insert", "confirm", "token", "password"}

\* The statement of a request that writes.
Statement(t) ==
    \/ req[t].kind = "subscribe" /\ InsertRow(t)
    \/ req[t].kind = "confirm" /\ ConfirmRow(t)
    \/ req[t].kind = "init" /\ TokenRow(t)
    \/ req[t].kind = "reset" /\ PasswordRow(t)

\* The connection is lost when a statement has done its work: it is repeated.
\* When it has not, or only reads, nothing has changed.
LoseReply(t) ==
    /\ pc[t] \in Writing
    /\ Statement(t)
    /\ UNCHANGED <<cache, worker, issued, crowded, broken, undelivered>>

\* The server runs a statement of a daemon that died; nobody reads its result.
StrayRuns(t) ==
    /\ pc[t] = "stray"
    /\ Statement(t)
    /\ Answer(t, "nothing")
    /\ UNCHANGED <<cache, req, hit, yes, issued, crowded, broken, undelivered>>

\* Any other error ends the loop without a result.
DbError(t) ==
    /\ \/ pc[t] = "count" /\ Answer(t, "spammer") /\ UNCHANGED <<yes, undelivered>>
       \/ pc[t] = "duplicates" /\ Answer(t, "taken") /\ UNCHANGED <<yes, undelivered>>
       \/ /\ pc[t] = "insert" /\ Goto(t, "inserted")
          /\ yes' = [yes EXCEPT ![t] = FALSE] /\ UNCHANGED <<res, undelivered>>
       \/ pc[t] = "confirm" /\ Answer(t, "ko") /\ UNCHANGED <<yes, undelivered>>
       \/ /\ pc[t] = "token" /\ Answer(t, "done") /\ UNCHANGED yes
          /\ undelivered' = undelivered \cup {req[t].code}
       \/ pc[t] = "password" /\ Answer(t, "error") /\ UNCHANGED <<yes, undelivered>>
    /\ broken' = broken \cup {t}
    /\ UNCHANGED <<table, cache, req, hit, issued, spent, crowded>>

\* An hour passes.
TokenAges ==
    /\ \E e \in recent : recent' = recent \ {e}
    /\ UNCHANGED <<teams, confirmed, token, posted, cache, worker, history>>

\* DEFAULT_CACHE_TIMEOUT passes, or the cache is full.
Expire ==
    /\ \/ \E ip \in Addresses :
             /\ spam[ip] # None /\ spam' = [spam EXCEPT ![ip] = None]
             /\ UNCHANGED <<taken, tried>>
       \/ \E x \in taken : taken' = taken \ {x} /\ UNCHANGED <<spam, tried>>
       \/ \E c \in tried : tried' = tried \ {c} /\ UNCHANGED <<spam, taken>>
    /\ UNCHANGED <<table, worker, history>>

\* The daemon dies and is started again with an empty cache; of the statements at
\* the server, those in S are still to run.
Restart ==
    /\ spam' = [ip \in Addresses |-> None] /\ taken' = {} /\ tried' = {}
    /\ \E S \in SUBSET {t \in Workers : pc[t] \in Writing \cup {"stray"}} :
         /\ pc' = [t \in Workers |-> IF t \in S THEN "stray" ELSE "idle"]
         /\ req' = [t \in Workers |-> IF t \in S THEN req[t] ELSE None]
    /\ hit' = [t \in Workers |-> NoRow]
    /\ yes' = [t \in Workers |-> FALSE]
    /\ res' = [t \in Workers |-> None]
    /\ broken' = {}
    /\ undelivered' = undelivered \cup
         {req[t].code : t \in {u \in Workers : pc[u] \in {"token", "mail"}}}
    /\ UNCHANGED <<table, issued, spent, crowded>>

Receive(t) == Subscribe(t) \/ ConfirmLink(t) \/ InitReset(t) \/ ResetLink(t)

Work(t) ==
    \/ LookUpSpam(t) \/ CountTeams(t) \/ KeepCount(t) \/ LookUpTaken(t)
    \/ FindDuplicates(t) \/ KeepDuplicates(t) \/ Insert(t) \/ Inserted(t)
    \/ SendMail(t)
    \/ LookUpKey(t) \/ Confirm(t) \/ KeepKey(t)
    \/ SetToken(t) \/ SetPassword(t) \/ StrayRuns(t) \/ Reply(t)

Fails(t) == LoseReply(t) \/ DbError(t) \/ MailFails(t) \/ MailEscapes(t)

Progress == TokenAges \/ \E t \in Workers : Receive(t) \/ Work(t)
Fault    == Expire \/ Restart \/ \E t \in Workers : Fails(t)

Next == Progress \/ Fault

Spec == Init /\ [][Next]_vars
-----------------------------------------------------------------------------
(* Properties.                                                             *)

\* The values the variables range over.
TypeOK ==
    /\ teams \subseteq Rows /\ confirmed \subseteq Codes
    /\ token \in [Emails -> Codes \cup {None}] /\ recent \subseteq Emails
    /\ posted \subseteq Emails \X Codes
    /\ spam \in [Addresses -> {"t", "f", None}]
    /\ taken \subseteq Names \cup Emails /\ tried \subseteq Codes
    /\ pc \in [Workers -> {"idle", "spam", "count", "keepcount", "form", "duplicates",
                           "keepduplicates", "insert", "inserted", "mail", "key",
                           "confirm", "keepkey", "token", "password", "stray", "reply"}]
    /\ req \in [Workers -> Requests \cup {None}]
    /\ hit \in [Workers -> Rows \cup {NoRow}]
    /\ yes \in [Workers -> BOOLEAN]
    /\ res \in [Workers -> {None, "spammer", "taken", "error", "unsent", "nothing", "done",
                            "ok", "ko"}]
    /\ issued \subseteq Codes /\ spent \subseteq Codes /\ crowded \subseteq Addresses
    /\ broken \subseteq Workers /\ undelivered \subseteq Codes

\* main.cpp:165-175, register.js:85 "We sent you an e-mail to confirm the
\* registration".  A subscription that is answered done has its own row, and the
\* letter with the code of that row went to its address.
DoneIsKept ==
    \A t \in Workers : Subscribing(t) /\ res[t] = "done" =>
        RowOf(t) \in teams /\ <<req[t].email, req[t].code>> \in posted

\* main.cpp:165-166.  "Looks like you're already registered" is said of a name or
\* an address that is registered, unless the database failed.
TakenJustified ==
    /\ \A x \in taken : \E r \in teams : x \in {r.name, r.email}
    /\ \A t \in Workers : res[t] = "taken" /\ t \notin broken => Clashes(t) # {}

\* dbcontroller.cpp:90-118 and 197-199.  One registration after the other, at most
\* one team more than MAX_TEAMS_PER_IP comes from an address, although the count
\* is cached and replies may be lost.
AddressBound ==
    \A ip \in Addresses \ crowded :
        Cardinality({r \in teams : r.ip = ip}) <= MaxTeams + 1

\* dbcontroller.cpp:232-258.  The link of a team's letter leads to "ko" only when
\* the team is confirmed already, or the database failed.
KoJustified ==
    \A t \in Workers : res[t] = "ko" /\ t \notin broken =>
        ~ Unconfirmed(req[t].code)

\* dbcontroller.cpp:203-213, main.cpp:108.  A token that would change a password
\* has been mailed to its address, or is about to be, unless its letter failed or
\* the daemon died before it: no other path voids a team's older link for nothing.
ValidTokenMailed ==
    \A e \in Emails : token[e] # None =>
        \/ <<e, token[e]>> \in posted
        \/ token[e] \in undelivered
        \/ \E t \in Workers : pc[t] \in {"token", "mail"} /\ req[t].kind = "init"
                                /\ req[t].code = token[e] /\ req[t].email = e

\* The daemon keeps the promises of Accounts.
Abstract == INSTANCE Accounts WITH
    teams <- {[name |-> r.name, email |-> r.email, code |-> r.code] : r \in teams},
    valid <- token

KeepsAccounts == Abstract!Spec

-----------------------------------------------------------------------------
(* What a constant says and the code does not do.                           *)

\* dbcontroller.cpp:21: MAX_TEAMS_PER_IP.
AtMostMaxTeams ==
    \A ip \in Addresses \ crowded :
        Cardinality({r \in teams : r.ip = ip}) <= MaxTeams
=============================================================================
