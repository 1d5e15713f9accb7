------------------------------ MODULE Session ------------------------------
(***************************************************************************)
(* Requests that carry a session: login, logout and the pages of a team    *)
(* (teamstatus; teamsubmit is the same up to its verifier, see Submission),*)
(* with dbcontroller::login, logIP and getInstance.                        *)
(*                                                                         *)
(* A session lives in a cookie of the browser only.  Each worker thread    *)
(* has its own dbcontroller, made when it is first needed; a lost          *)
(* connection is opened anew, without the session variables of the old     *)
(* one.  The cache and the tables team and ipteams are shared.             *)
(***************************************************************************)
EXTENDS TeamJson

CONSTANTS
    Workers,    \* worker threads
    Browsers,
    Teams,
    Addresses,  \* IP addresses
    Passwords,
    Lists,      \* lists of solutions a team may have (see TeamJson)
    None        \* NULL, and "not in the cache"

\* The session variables @idt and @isactive of a connection.
UserVars == [idt : Teams \cup {None}, isactive : BOOLEAN]
Unset    == [idt |-> None, isactive |-> FALSE]

\* A request: what it asks for, who sends it with which cookie, and what a login
\* says.  One that is "refused" has another method than its handler wants.
Requests ==
    [kind : {"login"}, from : Browsers, ip : Addresses, cookie : Teams \cup {None},
     team : Teams, password : Passwords]
        \cup [kind : {"logout", "status", "refused"}, from : Browsers, ip : Addresses,
              cookie : Teams \cup {None}]

\* None is no team, no request and no answer.
ASSUME SessionAssumption ==
    /\ None \notin Teams \cup Requests
    /\ None \notin {"refused", "notauth", "nothing", "error", "wrong", "unconfirmed",
                    "in", "out", "page", "none", "active"}
    /\ Lists \subseteq Seq(BOOLEAN)

VARIABLES
    password,   \* column password of table team
    confirmed,  \* teams with a confirm_timestamp
    ipteams,    \* table ipteams
    seen,       \* cache keys teamip_<team>
    cookie,     \* the session a browser carries
    opened,     \* workers that have a dbcontroller
    vars,       \* session variables of a worker's connection
    pc,         \* where a worker is in its request
    req,        \* its request
    ips,        \* the addresses its SELECT returned
    res,        \* its answer
    list,       \* the solutions of the team it shows
    earned,     \* history: <<browser, team>>, see Access
    found,      \* history: what a worker's call of verify_login found
    left,       \* history: browsers that left their session undisturbed
    unlogged    \* history: workers whose INSERT of the address failed

tables  == <<password, confirmed, ipteams>>
worker  == <<pc, req, ips, res, list>>
history == <<earned, found, left, unlogged>>
sessionVars == <<tables, seen, cookie, opened, vars, worker, history>>

Goto(w, l)   == pc' = [pc EXCEPT ![w] = l]
Answer(w, r) == Goto(w, "reply") /\ res' = [res EXCEPT ![w] = r]

Init ==
    /\ password \in [Teams -> Passwords] /\ confirmed \in SUBSET Teams
    /\ ipteams = {} /\ seen = [t \in Teams |-> None]
    /\ cookie = [b \in Browsers |-> None]
    /\ opened = {} /\ vars = [w \in Workers |-> Unset]
    /\ pc = [w \in Workers |-> "idle"] /\ req = [w \in Workers |-> None]
    /\ ips = [w \in Workers |-> {}] /\ res = [w \in Workers |-> None]
    /\ list = [w \in Workers |-> <<>>]
    /\ earned = {} /\ found = [w \in Workers |-> None]
    /\ left = {} /\ unlogged = {}
-----------------------------------------------------------------------------
(* Requests, and the connection they need.                                 *)

Start(w, q) ==
    /\ pc[w] = "idle"
    /\ req' = [req EXCEPT ![w] = q]
    /\ CASE q.kind = "refused" -> Answer(w, "refused")
         [] q.kind \in {"logout", "status"} /\ q.cookie = None -> Answer(w, "notauth")
         [] OTHER -> Goto(w, "open") /\ UNCHANGED res
    /\ UNCHANGED <<tables, seen, cookie, opened, vars, ips, list, history>>

Receive(w) ==
    \E b \in Browsers, ip \in Addresses :
        \/ \E k \in {"logout", "status", "refused"} :
               Start(w, [kind |-> k, from |-> b, ip |-> ip, cookie |-> cookie[b]])
        \/ \E t \in Teams, p \in Passwords :
               Start(w, [kind |-> "login", from |-> b, ip |-> ip, cookie |-> cookie[b],
                         team |-> t, password |-> p])

\* getInstance
Open(w) ==
    /\ pc[w] = "open"
    /\ opened' = opened \cup {w}
    /\ Goto(w, IF req[w].kind = "login" THEN "call" ELSE "lookip")
    /\ UNCHANGED <<tables, seen, cookie, vars, req, ips, res, list, history>>

\* The constructor throws; neither handler nor library makes an answer of it.
OpenFails(w) ==
    /\ pc[w] = "open" /\ w \notin opened
    /\ Answer(w, "nothing")
    /\ UNCHANGED <<tables, seen, cookie, opened, vars, req, ips, list, history>>
-----------------------------------------------------------------------------
(* login                                                                   *)

\* What verify_login finds in table team for a name and a password.
Found(q) ==
    IF password[q.team] # q.password THEN "none"
    ELSE IF q.team \in confirmed THEN "active" ELSE "unconfirmed"

\* Mutants of VerifyLogin: the team is active by its name alone; where no row is
\* found, the variables are not set.
VerifyLoginByName(w) ==
    vars' = [vars EXCEPT ![w] =
        [idt |-> IF Found(req[w]) = "none" THEN None ELSE req[w].team,
         isactive |-> req[w].team \in confirmed]]

VerifyLoginInto(w) ==
    vars' = [vars EXCEPT ![w] =
        IF Found(req[w]) = "none" THEN @
        ELSE [idt |-> req[w].team, isactive |-> Found(req[w]) = "active"]]

\* SELECT id, confirm_timestamp INTO idt, ts; both parameters start as NULL.
VerifyLogin(w) ==
    vars' = [vars EXCEPT ![w] =
        IF Found(req[w]) = "none" THEN Unset
        ELSE [idt |-> req[w].team, isactive |-> Found(req[w]) = "active"]]

Call(w) ==
    /\ pc[w] = "call"
    /\ VerifyLogin(w)
    /\ Goto(w, "select")
    /\ found' = [found EXCEPT ![w] = Found(req[w])]
    /\ earned' = IF Found(req[w]) = "active"
                 THEN earned \cup {<<req[w].from, req[w].team>>} ELSE earned
    /\ UNCHANGED <<tables, seen, cookie, opened, req, ips, res, list, left, unlogged>>

\* Mutant of CallFails: the result of doQuery is not looked at.
CallFailsUnnoticed(w) ==
    /\ pc[w] = "call"
    /\ Goto(w, "select") /\ UNCHANGED <<vars, res>>
    /\ UNCHANGED <<tables, seen, cookie, opened, req, ips, list, history>>

\* An error, or as many lost connections as doQuery has turns.
CallFails(w) ==
    /\ pc[w] = "call"
    /\ Answer(w, "error")
    /\ vars' \in {vars, [vars EXCEPT ![w] = Unset]}
    /\ UNCHANGED <<tables, seen, cookie, opened, req, ips, list, history>>

\* What the row of the session variables leads to.
Select(w) ==
    /\ pc[w] = "select"
    /\ \/ vars[w].idt = None /\ Answer(w, "wrong")
       \/ vars[w].idt # None /\ ~ vars[w].isactive /\ Answer(w, "unconfirmed")
       \/ vars[w].idt # None /\ vars[w].isactive /\ Answer(w, "in")
    /\ UNCHANGED <<tables, seen, cookie, opened, vars, req, ips, list, history>>

\* Mutant of SelectFails: the query is repeated over a new connection.
SelectFailsUnnoticed(w) ==
    /\ pc[w] = "select"
    /\ vars' = [vars EXCEPT ![w] = Unset]
    /\ UNCHANGED <<tables, seen, cookie, opened, worker, history>>

\* This query is not repeated: it needs the connection of the call.
SelectFails(w) ==
    /\ pc[w] = "select"
    /\ Answer(w, "error")
    /\ vars' \in {vars, [vars EXCEPT ![w] = Unset]}
    /\ UNCHANGED <<tables, seen, cookie, opened, req, ips, list, history>>
-----------------------------------------------------------------------------
(* logIP                                                                   *)

\* Mutant of LookUpIp: any entry will do.
LookUpIpAny(w) ==
    /\ pc[w] = "lookip"
    /\ Goto(w, IF seen[req[w].cookie] # None THEN "serve" ELSE "insertip")
    /\ UNCHANGED <<tables, seen, cookie, opened, vars, req, ips, res, list, history>>

LookUpIp(w) ==
    /\ pc[w] = "lookip"
    /\ LET s == seen[req[w].cookie]
       IN  Goto(w, IF s # None /\ req[w].ip \in s THEN "serve" ELSE "insertip")
    /\ UNCHANGED <<tables, seen, cookie, opened, vars, req, ips, res, list, history>>

Row(w) == <<req[w].cookie, req[w].ip>>

\* INSERT IGNORE INTO ipteams
InsertIp(w) ==
    /\ pc[w] = "insertip"
    /\ ipteams' = ipteams \cup {Row(w)}
    /\ Goto(w, "listips")
    /\ UNCHANGED <<password, confirmed, seen, cookie, opened, vars, req, ips, res, list,
                   history>>

\* Mutant of InsertFails: the address goes to the cache all the same.
InsertFailsKept(w) ==
    /\ pc[w] = "insertip"
    /\ seen' = [seen EXCEPT ![req[w].cookie] = IF @ = None THEN {req[w].ip}
                                                          ELSE @ \cup {req[w].ip}]
    /\ Goto(w, "serve")
    /\ unlogged' = unlogged \cup {w}
    /\ UNCHANGED <<vars, ipteams, password, confirmed, cookie, opened, req, ips, res,
                   list, earned, found, left>>

\* The request goes on; the row may be there.
InsertFails(w) ==
    /\ pc[w] = "insertip"
    /\ ipteams' \in {ipteams, ipteams \cup {Row(w)}}
    /\ vars' \in {vars, [vars EXCEPT ![w] = Unset]}
    /\ Goto(w, "serve")
    /\ unlogged' = unlogged \cup {w}
    /\ UNCHANGED <<password, confirmed, seen, cookie, opened, req, ips, res, list,
                   earned, found, left>>

\* SELECT ip FROM ipteams WHERE idteam=:team
ListIps(w) ==
    /\ pc[w] = "listips"
    /\ ips' = [ips EXCEPT ![w] =
                 {ip \in Addresses : <<req[w].cookie, ip>> \in ipteams}]
    /\ Goto(w, "keepips")
    /\ UNCHANGED <<tables, seen, cookie, opened, vars, req, res, list, history>>

ListFails(w) ==
    /\ pc[w] = "listips"
    /\ vars' \in {vars, [vars EXCEPT ![w] = Unset]}
    /\ Goto(w, "serve")
    /\ UNCHANGED <<tables, seen, cookie, opened, req, ips, res, list, history>>

KeepIps(w) ==
    /\ pc[w] = "keepips"
    /\ seen' = [seen EXCEPT ![req[w].cookie] = ips[w]]
    /\ ips' = [ips EXCEPT ![w] = {}]
    /\ Goto(w, "serve")
    /\ UNCHANGED <<tables, cookie, opened, vars, req, res, list, history>>

\* The rest of the handler.  For status, see Pages and TeamJson.
Serve(w) ==
    /\ pc[w] = "serve"
    /\ \/ req[w].kind = "logout" /\ Answer(w, "out") /\ UNCHANGED list
       \/ /\ req[w].kind = "status"
          /\ \E l \in Lists :
                /\ list' = [list EXCEPT ![w] = l]
                /\ Answer(w, IF Saves(GetJson(l)) THEN "page" ELSE "nothing")
    /\ UNCHANGED <<tables, seen, cookie, opened, vars, req, ips, history>>
-----------------------------------------------------------------------------
(* Answers.                                                                *)

\* The handlers clear a session that was carried, before they enter a new one.
Clears(w) ==
    /\ req[w].cookie # None
    /\ res[w] \in {"wrong", "unconfirmed", "error", "out"}

\* Mutant of NewCookie: logout leaves the session as it is.
NewCookieKept(w) ==
    LET b == req[w].from IN
    IF res[w] = "in" THEN {req[w].team}
    ELSE IF res[w] \in {"wrong", "unconfirmed", "error"} /\ req[w].cookie # None THEN {None}
    ELSE {cookie[b]}

\* The cookie of the browser after the answer.  One that was not changed may be
\* renewed, as the request carried it, when much of its time is over.
NewCookie(w) ==
    LET b == req[w].from IN
    IF res[w] = "in" THEN {req[w].team}
    ELSE IF Clears(w) THEN {None}
    ELSE {cookie[b]} \cup ({req[w].cookie} \ {None})

Alone(w) ==
    \A u \in Workers \ {w} : req[u] = None \/ req[u].from # req[w].from

Done(w) ==
    /\ Goto(w, "idle")
    /\ req' = [req EXCEPT ![w] = None] /\ res' = [res EXCEPT ![w] = None]
    /\ ips' = [ips EXCEPT ![w] = {}] /\ list' = [list EXCEPT ![w] = <<>>]
    /\ found' = [found EXCEPT ![w] = None] /\ unlogged' = unlogged \ {w}
    /\ UNCHANGED <<tables, seen, opened, vars, earned>>

Reply(w) ==
    /\ pc[w] = "reply"
    /\ LET b == req[w].from IN
          /\ \E c \in NewCookie(w) : cookie' = [cookie EXCEPT ![b] = c]
          /\ left' = IF res[w] = "in" THEN left \ {b}
                     ELSE IF Clears(w) /\ Alone(w) THEN left \cup {b}
                     ELSE left
    /\ Done(w)

AnswerLost(w) ==
    /\ pc[w] = "reply"
    /\ Done(w)
    /\ UNCHANGED <<cookie, left>>
-----------------------------------------------------------------------------
(* What others do.                                                         *)

\* The connection is lost after a statement has done its work: doQuery repeats it
\* over a new one.
LoseReply(w) ==
    /\ \/ pc[w] \in {"call", "listips"} /\ UNCHANGED ipteams
       \/ pc[w] = "insertip" /\ ipteams' = ipteams \cup {Row(w)}
    /\ vars' = [vars EXCEPT ![w] = Unset]
    /\ UNCHANGED <<password, confirmed, seen, cookie, opened, worker, history>>

\* The registration daemon, see there.
ChangePassword ==
    /\ \E t \in Teams, p \in Passwords :
          password[t] # p /\ password' = [password EXCEPT ![t] = p]
    /\ UNCHANGED <<confirmed, ipteams, seen, cookie, opened, vars, worker, history>>

ConfirmTeam ==
    /\ \E t \in Teams \ confirmed : confirmed' = confirmed \cup {t}
    /\ UNCHANGED <<password, ipteams, seen, cookie, opened, vars, worker, history>>

\* An entry has no timeout, but the cache may be full.
EvictIps ==
    /\ \E t \in Teams : seen[t] # None /\ seen' = [seen EXCEPT ![t] = None]
    /\ UNCHANGED <<tables, cookie, opened, vars, worker, history>>

\* The daemon dies and is started again; the browsers keep their cookies.
Restart ==
    /\ seen' = [t \in Teams |-> None]
    /\ opened' = {} /\ vars' = [w \in Workers |-> Unset]
    /\ pc' = [w \in Workers |-> "idle"] /\ req' = [w \in Workers |-> None]
    /\ ips' = [w \in Workers |-> {}] /\ res' = [w \in Workers |-> None]
    /\ list' = [w \in Workers |-> <<>>]
    /\ found' = [w \in Workers |-> None] /\ unlogged' = {}
    /\ UNCHANGED <<tables, cookie, earned, left>>

Work(w) ==
    \/ Open(w) \/ Call(w) \/ Select(w)
    \/ LookUpIp(w) \/ InsertIp(w) \/ ListIps(w) \/ KeepIps(w)
    \/ Serve(w) \/ Reply(w)

Fails(w) ==
    \/ OpenFails(w) \/ CallFails(w) \/ SelectFails(w) \/ InsertFails(w) \/ ListFails(w)
    \/ LoseReply(w) \/ AnswerLost(w)

Progress == \E w \in Workers : Work(w)
Requested == \E w \in Workers : Receive(w)
Fault    == ChangePassword \/ ConfirmTeam \/ EvictIps \/ Restart \/ \E w \in Workers : Fails(w)

Next == Requested \/ Progress \/ Fault

Spec == Init /\ [][Next]_sessionVars
-----------------------------------------------------------------------------
(* Properties.                                                             *)

\* The values the variables range over; a worker waits for the row of the session
\* variables only after its call, and holds a list of addresses only to store it.
SessionTypeOK ==
    /\ password \in [Teams -> Passwords] /\ confirmed \in SUBSET Teams
    /\ ipteams \subseteq Teams \X Addresses
    /\ seen \in [Teams -> (SUBSET Addresses) \cup {None}]
    /\ cookie \in [Browsers -> Teams \cup {None}]
    /\ opened \subseteq Workers /\ vars \in [Workers -> UserVars]
    /\ pc \in [Workers -> {"idle", "open", "call", "select", "lookip", "insertip",
                           "listips", "keepips", "serve", "reply"}]
    /\ req \in [Workers -> Requests \cup {None}]
    /\ ips \in [Workers -> SUBSET Addresses]
    /\ res \in [Workers -> {None, "refused", "notauth", "nothing", "error", "wrong",
                            "unconfirmed", "in", "out", "page"}]
    /\ list \in [Workers -> Lists \cup {<<>>}]
    /\ earned \subseteq Browsers \X Teams /\ left \subseteq Browsers
    /\ found \in [Workers -> {None, "none", "unconfirmed", "active"}]
    /\ unlogged \subseteq Workers
    /\ \A w \in Workers :
         /\ pc[w] = "idle" <=> req[w] = None
         /\ pc[w] = "reply" <=> res[w] # None
         /\ vars[w].isactive => vars[w].idt # None
         /\ pc[w] \in {"call", "select", "lookip", "insertip", "listips", "keepips",
                       "serve"} => w \in opened

\* dbcontroller.cpp:183-216.  Of what the cache says is known, every address is in
\* the table, although lists are stored after other workers have added rows.
SeenIsStored ==
    \A t \in Teams : seen[t] # None => \A ip \in seen[t] : <<t, ip>> \in ipteams

\* main.cpp:213-235.  A team's request is served only after its address is in the
\* table, unless the INSERT of this request failed.
ServedIsLogged ==
    \A w \in Workers :
        pc[w] = "serve" \/ res[w] \in {"out", "page"} =>
            Row(w) \in ipteams \/ w \in unlogged

\* main.cpp:171-183, dbcontroller.cpp:134-159.  The answer to a login is what the
\* password and the confirmation were when the procedure looked, or an error: a
\* right password is never called wrong, and no wrong one gets in.
LoginAnswered ==
    \A w \in Workers :
        /\ res[w] = "in" => found[w] = "active"
        /\ res[w] = "unconfirmed" => found[w] = "unconfirmed"
        /\ res[w] = "wrong" => found[w] = "none"

\* main.cpp:198-200.  A browser that left its session, while it had no other
\* request under way, carries none until it logs in again.
LogoutHolds == \A b \in left : cookie[b] = None

\* teamstatus.cpp:43-75.  The status shows every solve once, in order, in the list of
\* its kind; it is not shown at all when a flash challenge precedes an ordinary one.
StatusWhole ==
    \A w \in Workers : req[w] # None /\ req[w].kind = "status" =>
        LET object == GetJson(list[w]) IN
        /\ res[w] = "page" =>
             /\ InOrder(object.solved, OfKind(list[w], FALSE))
             /\ InOrder(object.flashch_solved, OfKind(list[w], TRUE))
        /\ HasHole(list[w]) <=> res[w] = "nothing" /\ list[w] # <<>>

\* The daemon keeps the promises of Access.
Promise == INSTANCE Access

KeepsAccess == Promise!Spec
=============================================================================
