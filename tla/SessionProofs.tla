---------------------------- MODULE SessionProofs ----------------------------
(***************************************************************************)
(* Theorems about Session, for every number of workers, browsers, teams,   *)
(* addresses and passwords, and any lists of solutions.                    *)
(***************************************************************************)
EXTENDS Session, TeamJsonProofs

USE SessionAssumption

\* Where a request has the session of a team.
Authorised == {"lookip", "insertip", "listips", "keepips", "serve"}

\* What a worker has reached says of what it did: the session variables it is about
\* to select are those of its own call, what it is about to store was in the table.
WorkerOK(w) ==
    /\ pc[w] \in {"call", "select"} => req[w].kind = "login"
    /\ pc[w] = "open" /\ req[w].kind # "login" =>
         req[w].kind \in {"logout", "status"} /\ req[w].cookie # None
    /\ pc[w] \in Authorised =>
         req[w].kind \in {"logout", "status"} /\ req[w].cookie # None
    /\ pc[w] = "select" =>
         /\ vars[w].idt = None <=> found[w] = "none"
         /\ vars[w].isactive <=> found[w] = "active"
         /\ found[w] # None
    /\ pc[w] = "idle" => found[w] = None
    /\ found[w] = "active" => <<req[w].from, req[w].team>> \in earned
    /\ res[w] = "in" => req[w].kind = "login"
    /\ pc[w] \in {"listips", "keepips"} => Row(w) \in ipteams
    /\ pc[w] = "keepips" => \A ip \in ips[w] : <<req[w].cookie, ip>> \in ipteams
    /\ pc[w] = "serve" \/ res[w] \in {"out", "page"} => Row(w) \in ipteams \/ w \in unlogged
    /\ res[w] = "in" => found[w] = "active"
    /\ res[w] = "unconfirmed" => found[w] = "unconfirmed"
    /\ res[w] = "wrong" => found[w] = "none"
    /\ req[w] # None /\ req[w].cookie # None => <<req[w].from, req[w].cookie>> \in earned
    /\ req[w] # None /\ req[w].from \in left => req[w].cookie = None

WorkersOK == \A w \in Workers : WorkerOK(w)

\* A browser carries what it earned.
CookiesEarned == \A b \in Browsers : cookie[b] # None => <<b, cookie[b]>> \in earned

\* A worker holds the list of solutions of the page it answers, or could not make.
Shown(w) ==
    /\ pc[w] # "reply" => list[w] = <<>>
    /\ res[w] = "page" => Saves(GetJson(list[w]))
    /\ list[w] # <<>> /\ res[w] # "page" =>
         res[w] = "nothing" /\ ~ Saves(GetJson(list[w]))

PagesShown == \A w \in Workers : Shown(w)

SessionInductive ==
    /\ SessionTypeOK
    /\ WorkersOK
    /\ SeenIsStored
    /\ CookiesEarned
    /\ LogoutHolds
    /\ PagesShown

\* The initial states have it.
LEMMA InitSession == Init => SessionInductive
<1> SUFFICES ASSUME Init PROVE SessionInductive
  OBVIOUS
<1>1. SessionTypeOK
  <2>1. Unset \in UserVars /\ ~ Unset.isactive
    BY DEF Unset, UserVars
  <2>2. None \in (SUBSET Addresses) \cup {None}
    OBVIOUS
  <2> QED BY <2>1, <2>2 DEF Init, SessionTypeOK
<1>2. WorkersOK
  BY DEF Init, WorkersOK, WorkerOK, Authorised
<1>3. SeenIsStored /\ CookiesEarned /\ LogoutHolds
  BY DEF Init, SeenIsStored, CookiesEarned, LogoutHolds
<1>4. PagesShown
  BY DEF Init, PagesShown, Shown
<1> QED BY <1>1, <1>2, <1>3, <1>4 DEF SessionInductive
-----------------------------------------------------------------------------
(* Types.                                                                  *)

\* Every step keeps the types.
LEMMA SessionTypeStep ==
    ASSUME SessionTypeOK, WorkersOK, Next
    PROVE  SessionTypeOK'
<1> USE DEF SessionTypeOK, tables, worker, history, Goto, Answer, Authorised
<1>1. ASSUME NEW w \in Workers, Receive(w) PROVE SessionTypeOK'
  <2>1. PICK q \in Requests : Start(w, q)
    BY <1>1 DEF Receive, Requests
  <2> QED BY <2>1 DEF Start
<1>2. ASSUME NEW w \in Workers, Work(w) PROVE SessionTypeOK'
  <2> WorkerOK(w)
    BY DEF WorkersOK
  <2>0. pc[w] # "idle" => req[w] \in Requests
    OBVIOUS
  <2>1. CASE Open(w)
    BY <2>1, <2>0 DEF Open
  <2>2. CASE Call(w)
    <3>1. /\ req[w].team \in Teams /\ req[w].from \in Browsers
          /\ Found(req[w]) \in {"none", "unconfirmed", "active"}
      BY <2>2, <2>0 DEF Call, WorkerOK, Requests, Found
    <3> QED BY <2>2, <2>0, <3>1 DEF Call, VerifyLogin, UserVars, Unset
  <2>3. CASE Select(w)
    BY <2>3, <2>0 DEF Select
  <2>4. CASE LookUpIp(w)
    BY <2>4, <2>0 DEF LookUpIp
  <2>5. CASE InsertIp(w)
    <3>1. Row(w) \in Teams \X Addresses
      BY <2>5, <2>0 DEF InsertIp, WorkerOK, Requests, Row
    <3> QED BY <2>5, <2>0, <3>1 DEF InsertIp
  <2>6. CASE ListIps(w)
    BY <2>6, <2>0 DEF ListIps
  <2>7. CASE KeepIps(w)
    BY <2>7, <2>0 DEF KeepIps
  <2>8. CASE Serve(w)
    <3>1. CASE req[w].kind = "logout" /\ UNCHANGED list /\ Answer(w, "out")
      BY <2>8, <3>1, <2>0 DEF Serve
    <3>2. ASSUME NEW l \in Lists, list' = [list EXCEPT ![w] = l],
                 NEW r \in {"page", "nothing"}, Answer(w, r)
          PROVE  SessionTypeOK'
      BY <2>8, <3>2, <2>0 DEF Serve
    <3> QED BY <2>8, <3>1, <3>2 DEF Serve
  <2>9. CASE Reply(w)
    <3>1. /\ req[w].from \in Browsers
          /\ NewCookie(w) \subseteq Teams \cup {None}
      BY <2>9, <2>0 DEF Reply, WorkerOK, Requests, NewCookie
    <3> QED BY <2>9, <2>0, <3>1 DEF Reply, Done
  <2> QED BY <1>2, <2>1, <2>2, <2>3, <2>4, <2>5, <2>6, <2>7, <2>8, <2>9 DEF Work
<1>3. ASSUME NEW w \in Workers, Fails(w) PROVE SessionTypeOK'
  <2> WorkerOK(w)
    BY DEF WorkersOK
  <2>0. pc[w] # "idle" => req[w] \in Requests
    OBVIOUS
  <2> Unset \in UserVars /\ ~ Unset.isactive
    BY DEF Unset, UserVars
  <2>1. CASE OpenFails(w)
    BY <2>1, <2>0 DEF OpenFails
  <2>2. CASE CallFails(w)
    BY <2>2, <2>0 DEF CallFails
  <2>3. CASE SelectFails(w)
    BY <2>3, <2>0 DEF SelectFails
  <2>4. CASE InsertFails(w)
    <3>1. Row(w) \in Teams \X Addresses
      BY <2>4, <2>0 DEF InsertFails, WorkerOK, Requests, Row
    <3> QED BY <2>4, <2>0, <3>1 DEF InsertFails
  <2>5. CASE ListFails(w)
    BY <2>5, <2>0 DEF ListFails
  <2>6. CASE LoseReply(w)
    <3>1. pc[w] = "insertip" => Row(w) \in Teams \X Addresses
      BY <2>6, <2>0 DEF WorkerOK, Requests, Row
    <3> QED BY <2>6, <2>0, <3>1 DEF LoseReply
  <2>7. CASE AnswerLost(w)
    BY <2>7, <2>0 DEF AnswerLost, Done
  <2> QED BY <1>3, <2>1, <2>2, <2>3, <2>4, <2>5, <2>6, <2>7 DEF Fails
<1>4. CASE ChangePassword \/ ConfirmTeam
  BY <1>4 DEF ChangePassword, ConfirmTeam
<1>5. CASE EvictIps
  <2>1. seen' \in [Teams -> (SUBSET Addresses) \cup {None}]
    BY <1>5 DEF EvictIps
  <2> QED BY <1>5, <2>1 DEF EvictIps
<1>6. CASE Restart
  <2>1. Unset \in UserVars /\ ~ Unset.isactive
    BY DEF Unset, UserVars
  <2>2. seen' \in [Teams -> (SUBSET Addresses) \cup {None}]
    BY <1>6 DEF Restart
  <2> QED BY <1>6, <2>1, <2>2 DEF Restart
<1> QED BY <1>1, <1>2, <1>3, <1>4, <1>5, <1>6 DEF Next, Progress, Requested, Fault
-----------------------------------------------------------------------------
(* What workers know.                                                      *)

\* Rows of the log of addresses and earned sessions are never lost.
LEMMA LogGrows ==
    ASSUME SessionTypeOK, Next
    PROVE  ipteams \subseteq ipteams' /\ earned \subseteq earned'
<1> USE DEF tables, worker, history
<1>1. ASSUME NEW w \in Workers, Receive(w)
      PROVE  ipteams \subseteq ipteams' /\ earned \subseteq earned'
  BY <1>1 DEF Receive, Start
<1>2. ASSUME NEW w \in Workers, Work(w)
      PROVE  ipteams \subseteq ipteams' /\ earned \subseteq earned'
  BY <1>2 DEF Work, Open, Call, Select, LookUpIp, InsertIp, ListIps, KeepIps, Serve,
     Reply, Done
<1>3. ASSUME NEW w \in Workers, Fails(w)
      PROVE  ipteams \subseteq ipteams' /\ earned \subseteq earned'
  BY <1>3 DEF Fails, OpenFails, CallFails, SelectFails, InsertFails, ListFails,
     LoseReply, AnswerLost, Done
<1>4. CASE ChangePassword \/ ConfirmTeam \/ EvictIps \/ Restart
  BY <1>4 DEF ChangePassword, ConfirmTeam, EvictIps, Restart
<1> QED BY <1>1, <1>2, <1>3, <1>4 DEF Next, Progress, Requested, Fault

\* A worker's step leaves the others where they are, and no browser that has a
\* request at another one becomes a browser that has left.
LEMMA OthersStay ==
    ASSUME SessionTypeOK, NEW w \in Workers, NEW u \in Workers \ {w},
           Receive(w) \/ Work(w) \/ Fails(w)
    PROVE  /\ UNCHANGED <<pc[u], req[u], ips[u], res[u], list[u], vars[u], found[u]>>
           /\ u \in unlogged' <=> u \in unlogged
           /\ req[u] # None /\ req[u].from \in left' => req[u].from \in left
<1> USE DEF SessionTypeOK, tables, worker, history, Goto, Answer
<1>1. CASE Receive(w)
  <2>1. PICK q \in Requests : Start(w, q)
    BY <1>1 DEF Receive, Requests
  <2> QED BY <2>1 DEF Start
<1>2. CASE Work(w) /\ ~ Reply(w)
  BY <1>2 DEF Work, Open, Call, VerifyLogin, Select, LookUpIp, InsertIp, ListIps,
     KeepIps, Serve
<1>3. CASE Reply(w)
  BY <1>3 DEF Reply, Done, Alone
<1>4. CASE Fails(w)
  BY <1>4 DEF Fails, OpenFails, CallFails, SelectFails, InsertFails, ListFails,
     LoseReply, AnswerLost, Done
<1> QED BY <1>1, <1>2, <1>3, <1>4

\* A new request carries the cookie its browser has.
LEMMA ReceiveOK ==
    ASSUME SessionTypeOK, WorkersOK, CookiesEarned, LogoutHolds,
           NEW w \in Workers, Receive(w)
    PROVE  WorkerOK(w)'
<1> USE DEF SessionTypeOK, tables, worker, history, Goto, Answer
<1>1. PICK q \in Requests : Start(w, q) /\ q.cookie = cookie[q.from]
  <2>1. PICK b \in Browsers, ip \in Addresses :
          \/ \E k \in {"logout", "status", "refused"} :
                Start(w, [kind |-> k, from |-> b, ip |-> ip, cookie |-> cookie[b]])
          \/ \E t \in Teams, p \in Passwords :
                Start(w, [kind |-> "login", from |-> b, ip |-> ip, cookie |-> cookie[b],
                          team |-> t, password |-> p])
    BY DEF Receive
  <2>2. cookie[b] \in Teams \cup {None}
    OBVIOUS
  <2>3. CASE \E k \in {"logout", "status", "refused"} :
               Start(w, [kind |-> k, from |-> b, ip |-> ip, cookie |-> cookie[b]])
    <3>1. PICK k \in {"logout", "status", "refused"} :
            Start(w, [kind |-> k, from |-> b, ip |-> ip, cookie |-> cookie[b]])
      BY <2>3
    <3> DEFINE q == [kind |-> k, from |-> b, ip |-> ip, cookie |-> cookie[b]]
    <3>2. q \in Requests /\ q.cookie = cookie[q.from]
      BY <2>2 DEF Requests
    <3> QED BY <3>1, <3>2
  <2>4. CASE \E t \in Teams, p \in Passwords :
               Start(w, [kind |-> "login", from |-> b, ip |-> ip, cookie |-> cookie[b],
                         team |-> t, password |-> p])
    <3>1. PICK t \in Teams, p \in Passwords :
            Start(w, [kind |-> "login", from |-> b, ip |-> ip, cookie |-> cookie[b],
                      team |-> t, password |-> p])
      BY <2>4
    <3> DEFINE q == [kind |-> "login", from |-> b, ip |-> ip, cookie |-> cookie[b],
                     team |-> t, password |-> p]
    <3>2. q \in Requests /\ q.cookie = cookie[q.from]
      BY <2>2 DEF Requests
    <3> QED BY <3>1, <3>2
  <2> QED BY <2>1, <2>3, <2>4
<1>2. q.from \in Browsers /\ q # None
  BY DEF Requests
<1>3. /\ req'[w] = q /\ earned' = earned /\ left' = left
      /\ pc'[w] \in {"open", "reply"} /\ found' = found /\ WorkerOK(w)
      /\ res'[w] \in {None, "refused", "notauth"}
      /\ pc'[w] = "open" /\ q.kind # "login" =>
           q.kind \in {"logout", "status"} /\ q.cookie # None
  BY <1>1, SessionAssumption DEF Start, WorkersOK, Requests
<1>4. found[w] # "active"
  <2>1. pc[w] = "idle"
    BY <1>1 DEF Start
  <2> QED BY <2>1, <1>3 DEF WorkerOK
<1> QED BY <1>1, <1>2, <1>3, <1>4 DEF WorkerOK, CookiesEarned, LogoutHolds, Authorised

\* What a worker does next keeps what it knows.
LEMMA WorkOK ==
    ASSUME SessionTypeOK, WorkersOK, SeenIsStored, NEW w \in Workers, Work(w)
    PROVE  WorkerOK(w)'
<1> USE DEF SessionTypeOK, tables, worker, history, Goto, Answer, Authorised, WorkerOK
<1> WorkerOK(w)
  BY DEF WorkersOK
<1>0. pc[w] # "idle" => req[w] \in Requests /\ req[w] # None
  OBVIOUS
<1>1. CASE Open(w)
  BY <1>1, <1>0 DEF Open, Requests
<1>2. CASE Call(w)
  BY <1>2, <1>0, SessionAssumption DEF Call, VerifyLogin, Found, Unset, Requests, UserVars
<1>3. CASE Select(w)
  BY <1>3, <1>0 DEF Select
<1>4. CASE LookUpIp(w)
  BY <1>4, <1>0 DEF LookUpIp, SeenIsStored, Row
<1>5. CASE InsertIp(w)
  BY <1>5, <1>0 DEF InsertIp, Row
<1>6. CASE ListIps(w)
  BY <1>6, <1>0 DEF ListIps, Row
<1>7. CASE KeepIps(w)
  BY <1>7, <1>0 DEF KeepIps, Row
<1>8. CASE Serve(w)
  BY <1>8, <1>0 DEF Serve, Row
<1>9. CASE Reply(w)
  BY <1>9, <1>0 DEF Reply, Done
<1> QED BY <1>1, <1>2, <1>3, <1>4, <1>5, <1>6, <1>7, <1>8, <1>9 DEF Work

\* So does a statement that fails, whether or not it has done its work.
LEMMA FailOK ==
    ASSUME SessionTypeOK, WorkersOK, NEW w \in Workers, Fails(w)
    PROVE  WorkerOK(w)'
<1> USE DEF SessionTypeOK, tables, worker, history, Goto, Answer, Authorised, WorkerOK
<1> WorkerOK(w)
  BY DEF WorkersOK
<1>0. pc[w] # "idle" => req[w] \in Requests /\ req[w] # None
  OBVIOUS
<1>1. CASE OpenFails(w)
  BY <1>1, <1>0 DEF OpenFails
<1>2. CASE CallFails(w)
  BY <1>2, <1>0 DEF CallFails
<1>3. CASE SelectFails(w)
  BY <1>3, <1>0 DEF SelectFails
<1>4. CASE InsertFails(w)
  BY <1>4, <1>0 DEF InsertFails, Row
<1>5. CASE ListFails(w)
  BY <1>5, <1>0 DEF ListFails, Row
<1>6. CASE LoseReply(w)
  BY <1>6, <1>0 DEF LoseReply, Row
<1>7. CASE AnswerLost(w)
  BY <1>7, <1>0 DEF AnswerLost, Done
<1> QED BY <1>1, <1>2, <1>3, <1>4, <1>5, <1>6, <1>7 DEF Fails

\* All workers keep what they know.
LEMMA WorkersStep ==
    ASSUME SessionInductive, Next
    PROVE  WorkersOK'
<1> USE DEF SessionInductive
<1>1. ASSUME NEW w \in Workers, Receive(w) \/ Work(w) \/ Fails(w)
      PROVE  WorkersOK'
  <2>1. WorkerOK(w)'
    BY <1>1, ReceiveOK, WorkOK, FailOK
  <2>2. ASSUME NEW u \in Workers \ {w} PROVE WorkerOK(u)'
    <3>1. /\ UNCHANGED <<pc[u], req[u], ips[u], res[u], list[u], vars[u], found[u]>>
          /\ u \in unlogged' <=> u \in unlogged
          /\ req[u] # None /\ req[u].from \in left' => req[u].from \in left
      BY <1>1, OthersStay
    <3>2. ipteams \subseteq ipteams' /\ earned \subseteq earned' /\ WorkerOK(u)
      BY LogGrows DEF WorkersOK
    <3> QED BY <3>1, <3>2 DEF WorkerOK, Row, Authorised
  <2> QED BY <2>1, <2>2 DEF WorkersOK
<1>2. CASE ChangePassword \/ ConfirmTeam \/ EvictIps
  BY <1>2 DEF ChangePassword, ConfirmTeam, EvictIps, WorkersOK, WorkerOK, Row, worker,
     history, tables
<1>3. CASE Restart
  BY <1>3 DEF Restart, WorkersOK, WorkerOK, Authorised
<1> QED BY <1>1, <1>2, <1>3 DEF Next, Progress, Requested, Fault
-----------------------------------------------------------------------------
(* The cache, the cookies, and the browsers that left.                     *)

\* What is stored in the cache was selected, or added to, from what is in the table.
LEMMA SeenStep ==
    ASSUME SessionInductive, Next
    PROVE  SeenIsStored'
<1> USE DEF SessionInductive, SessionTypeOK, SeenIsStored, tables, worker, history
<1>1. ASSUME NEW w \in Workers, KeepIps(w)
      PROVE  SeenIsStored'
  <2>1. /\ WorkerOK(w) /\ req[w] \in Requests
        /\ seen' = [seen EXCEPT ![req[w].cookie] = ips[w]] /\ ipteams' = ipteams
        /\ pc[w] = "keepips"
    BY <1>1 DEF KeepIps, WorkersOK
  <2>2. req[w].cookie \in Teams
    BY <2>1 DEF WorkerOK, Authorised, Requests
  <2> QED BY <2>1, <2>2 DEF WorkerOK
<1>2. ASSUME NEW w \in Workers, Receive(w) \/ (Work(w) /\ ~ KeepIps(w)) \/ Fails(w)
      PROVE  seen' = seen
  BY <1>2 DEF Receive, Start, Work, Open, Call, Select, LookUpIp, InsertIp, ListIps,
     Serve, Reply, Done, Fails, OpenFails, CallFails, SelectFails, InsertFails,
     ListFails, LoseReply, AnswerLost
<1>3. CASE seen' = seen
  BY <1>3, LogGrows
<1>4. CASE EvictIps
  BY <1>4 DEF EvictIps
<1>5. CASE Restart
  BY <1>5 DEF Restart
<1>6. CASE ChangePassword \/ ConfirmTeam
  BY <1>6, <1>3 DEF ChangePassword, ConfirmTeam
<1> QED BY <1>1, <1>2, <1>3, <1>4, <1>5, <1>6
           DEF Next, Progress, Requested, Fault

\* Where cookies change, and browsers leave.
LEMMA CookiesChange ==
    ASSUME Next
    PROVE  \/ \E w \in Workers : Reply(w)
           \/ cookie' = cookie /\ left' = left
<1> USE DEF tables, worker, history
<1>1. ASSUME NEW w \in Workers, Receive(w) \/ (Work(w) /\ ~ Reply(w)) \/ Fails(w)
      PROVE  cookie' = cookie /\ left' = left
  BY <1>1 DEF Receive, Start, Work, Open, Call, Select, LookUpIp, InsertIp, ListIps,
     KeepIps, Serve, Fails, OpenFails, CallFails, SelectFails, InsertFails, ListFails,
     LoseReply, AnswerLost
<1>2. CASE ChangePassword \/ ConfirmTeam \/ EvictIps \/ Restart
  BY <1>2 DEF ChangePassword, ConfirmTeam, EvictIps, Restart
<1> QED BY <1>1, <1>2 DEF Next, Progress, Requested, Fault

\* The cookie of an answer was earned by the browser that gets it; a browser that
\* left has no answer to come that would give it one.
LEMMA CookiesStep ==
    ASSUME SessionInductive, Next
    PROVE  CookiesEarned' /\ LogoutHolds'
<1> USE DEF SessionInductive, SessionTypeOK, CookiesEarned, LogoutHolds
<1>0. earned \subseteq earned'
  BY LogGrows
<1>1. CASE cookie' = cookie /\ left' = left
  BY <1>0, <1>1
<1>2. ASSUME NEW w \in Workers, Reply(w)
      PROVE  CookiesEarned' /\ LogoutHolds'
  <2> DEFINE b == req[w].from
  <2>1. /\ WorkerOK(w) /\ req[w] \in Requests /\ req[w] # None
        /\ b \in Browsers
    BY <1>2 DEF Reply, WorkersOK, Requests
  <2>2. PICK c \in NewCookie(w) : cookie' = [cookie EXCEPT ![b] = c]
    BY <1>2 DEF Reply
  <2>3. c # None => <<b, c>> \in earned
    BY <2>1, <2>2 DEF NewCookie, WorkerOK
  <2>4. b \in left' => c = None
    BY <1>2, <2>1, <2>2 DEF NewCookie, WorkerOK, Reply, Clears
  <2>5. left' \subseteq left \cup {b}
    BY <1>2 DEF Reply
  <2> HIDE DEF b
  <2> QED BY <1>0, <2>1, <2>2, <2>3, <2>4, <2>5
<1> QED BY <1>1, <1>2, CookiesChange

\* Only the answer of a page comes with a list, and the list decides which it is.
LEMMA PagesStep ==
    ASSUME SessionInductive, Next
    PROVE  PagesShown'
<1> USE DEF SessionInductive, SessionTypeOK, PagesShown, tables, worker, history, Goto,
        Answer
<1>1. ASSUME NEW w \in Workers, Receive(w) \/ Work(w) \/ Fails(w) PROVE PagesShown'
  <2>1. ASSUME NEW u \in Workers \ {w} PROVE Shown(u)'
    BY <1>1, <2>1, OthersStay DEF Shown
  <2>2. CASE Receive(w)
    <3>1. PICK q \in Requests : Start(w, q)
      BY <2>2 DEF Receive, Requests
    <3> QED BY <2>1, <3>1 DEF Start, Shown
  <2>3. CASE Serve(w)
    <3>1. CASE Answer(w, "out") /\ UNCHANGED list
      BY <2>1, <2>3, <3>1 DEF Serve, Shown
    <3>2. CASE \E l \in Lists :
                 /\ list' = [list EXCEPT ![w] = l]
                 /\ Answer(w, IF Saves(GetJson(l)) THEN "page" ELSE "nothing")
      BY <2>1, <2>3, <3>2 DEF Serve, Shown
    <3> QED BY <2>3, <3>1, <3>2 DEF Serve
  <2>4. CASE Work(w) /\ ~ Serve(w)
    BY <2>1, <2>4 DEF Work, Open, Call, Select, LookUpIp, InsertIp, ListIps, KeepIps,
       Reply, Done, Shown
  <2>5. CASE Fails(w)
    BY <2>1, <2>5 DEF Fails, OpenFails, CallFails, SelectFails, InsertFails, ListFails,
       LoseReply, AnswerLost, Done, Shown
  <2> QED BY <1>1, <2>2, <2>3, <2>4, <2>5
<1>2. CASE ChangePassword \/ ConfirmTeam \/ EvictIps
  BY <1>2 DEF ChangePassword, ConfirmTeam, EvictIps, Shown
<1>3. CASE Restart
  BY <1>3 DEF Restart, Shown
<1> QED BY <1>1, <1>2, <1>3 DEF Next, Progress, Requested, Fault

\* The invariant behind the theorems below holds in every reachable state.
THEOREM SessionInvariant == Spec => []SessionInductive
<1>1. Init => SessionInductive
  BY InitSession
<1>2. SessionInductive /\ [Next]_sessionVars => SessionInductive'
  <2> SUFFICES ASSUME SessionInductive, [Next]_sessionVars
               PROVE  SessionInductive'
    OBVIOUS
  <2>1. CASE Next
    BY <2>1, SessionTypeStep, WorkersStep, SeenStep, CookiesStep, PagesStep
       DEF SessionInductive
  <2>2. CASE UNCHANGED sessionVars
    BY <2>2 DEF sessionVars, tables, worker, history, SessionInductive, SessionTypeOK,
       WorkersOK, WorkerOK, Authorised, Row, SeenIsStored, CookiesEarned, LogoutHolds,
       PagesShown, Shown
  <2> QED BY <2>1, <2>2
<1> QED BY <1>1, <1>2, PTL DEF Spec

\* The variables of Session keep their types.
THEOREM SessionTypeCorrect == Spec => []SessionTypeOK
<1>1. SessionInductive => SessionTypeOK
  BY DEF SessionInductive
<1> QED BY <1>1, SessionInvariant, PTL

\* dbcontroller.cpp:183-216.  What the cache lists is in the table of addresses.
THEOREM SeenAddressesAreStored == Spec => []SeenIsStored
<1>1. SessionInductive => SeenIsStored
  BY DEF SessionInductive
<1> QED BY <1>1, SessionInvariant, PTL

\* main.cpp:213-235.  A team is served only after its address was recorded, unless
\* the INSERT failed.
THEOREM ServedAddressesAreLogged == Spec => []ServedIsLogged
<1>1. SessionInductive => ServedIsLogged
  BY DEF SessionInductive, WorkersOK, WorkerOK, ServedIsLogged
<1> QED BY <1>1, SessionInvariant, PTL

\* main.cpp:171-183, dbcontroller.cpp:134-159.  A login is answered by what its own
\* call of the procedure found, although the result waits in the connection.
THEOREM LoginsAreAnswered == Spec => []LoginAnswered
<1>1. SessionInductive => LoginAnswered
  BY DEF SessionInductive, WorkersOK, WorkerOK, LoginAnswered
<1> QED BY <1>1, SessionInvariant, PTL

\* main.cpp:198-200.  Who left, with no other request under way, stays out.
THEOREM LogoutsHold == Spec => []LogoutHolds
<1>1. SessionInductive => LogoutHolds
  BY DEF SessionInductive
<1> QED BY <1>1, SessionInvariant, PTL

\* teamstatus.cpp:43-75.  A status page shows every solve once, in its list and in
\* order, however many there are; a list with a hole is the only one without a page.
THEOREM StatusIsWhole == Spec => []StatusWhole
<1>1. SessionInductive => StatusWhole
  <2> SUFFICES ASSUME SessionInductive, NEW w \in Workers
               PROVE  LET object == GetJson(list[w]) IN
                      /\ res[w] = "page" =>
                           /\ InOrder(object.solved, OfKind(list[w], FALSE))
                           /\ InOrder(object.flashch_solved, OfKind(list[w], TRUE))
                      /\ HasHole(list[w]) <=> res[w] = "nothing" /\ list[w] # <<>>
    BY DEF StatusWhole
  <2>1. list[w] \in Kinds
    <3>1. list[w] \in Lists \cup {<<>>}
      BY DEF SessionInductive, SessionTypeOK
    <3>2. Lists \subseteq Seq(BOOLEAN) /\ <<>> \in Seq(BOOLEAN)
      BY SessionAssumption, EmptySeq
    <3> QED BY <3>1, <3>2 DEF Kinds
  <2>2. Shown(w)
    BY DEF SessionInductive, PagesShown
  <2>3. HasHole(list[w]) => list[w] # <<>>
    BY DEF HasHole
  <2> QED BY <2>1, <2>2, <2>3, PageWithoutHole, PageIsWhole DEF Shown
<1> QED BY <1>1, SessionInvariant, PTL
-----------------------------------------------------------------------------
(* Session implements Access.                                              *)

\* Each step is one of Access, or changes nothing that Access speaks of.
LEMMA AccessStep ==
    ASSUME SessionInductive, Next
    PROVE  Promise!Next \/ UNCHANGED Promise!access
<1> USE DEF SessionInductive, SessionTypeOK, tables, worker, history, Promise!access
<1>1. ASSUME NEW w \in Workers, Call(w)
      PROVE  Promise!Next \/ UNCHANGED Promise!access
  <2>0. pc[w] = "call" /\ WorkerOK(w)
    BY <1>1 DEF Call, WorkersOK
  <2>1. req[w] \in Requests /\ req[w].kind = "login"
    BY <2>0 DEF WorkerOK
  <2>2. req[w].from \in Browsers /\ req[w].team \in Teams
    BY <2>1 DEF Requests
  <2>3. CASE Found(req[w]) = "active"
    <3>1. Promise!Earn(req[w].from, req[w].team)
      BY <1>1, <2>3 DEF Call, Found, Promise!Earn
    <3> QED BY <3>1, <2>2 DEF Promise!Next
  <2>4. CASE Found(req[w]) # "active"
    BY <1>1, <2>4 DEF Call
  <2> QED BY <2>3, <2>4
<1>2. ASSUME NEW w \in Workers, InsertIp(w) \/ InsertFails(w) \/ LoseReply(w)
      PROVE  Promise!Next \/ UNCHANGED Promise!access
  <2>1. CASE ipteams' = ipteams
    BY <1>2, <2>1 DEF InsertIp, InsertFails, LoseReply
  <2>2. CASE ipteams' # ipteams
    <3>1. /\ pc[w] = "insertip" /\ ipteams' = ipteams \cup {Row(w)}
          /\ UNCHANGED <<confirmed, earned, cookie>>
      BY <1>2, <2>2 DEF InsertIp, InsertFails, LoseReply
    <3>2. req[w] \in Requests /\ req[w] # None /\ WorkerOK(w)
      BY <3>1 DEF WorkersOK
    <3>3. /\ req[w].from \in Browsers /\ req[w].cookie \in Teams
          /\ req[w].ip \in Addresses /\ <<req[w].from, req[w].cookie>> \in earned
      BY <3>1, <3>2 DEF WorkerOK, Authorised, Requests
    <3>4. Promise!Record(req[w].from, req[w].cookie, req[w].ip)
      BY <3>1, <3>3 DEF Promise!Record, Row
    <3> QED BY <3>3, <3>4 DEF Promise!Next
  <2> QED BY <2>1, <2>2
<1>3. ASSUME NEW w \in Workers, Reply(w)
      PROVE  Promise!Next \/ UNCHANGED Promise!access
  <2> DEFINE b == req[w].from
  <2>1. /\ WorkerOK(w) /\ req[w] \in Requests /\ req[w] # None
        /\ b \in Browsers
    BY <1>3 DEF Reply, WorkersOK, Requests
  <2>2. PICK c \in NewCookie(w) : cookie' = [cookie EXCEPT ![b] = c]
    BY <1>3 DEF Reply
  <2>3. c = None \/ (c \in Teams /\ <<b, c>> \in earned)
    <3>1. CASE res[w] = "in"
      <4>1. req[w].team \in Teams /\ <<b, req[w].team>> \in earned
        BY <2>1, <3>1 DEF WorkerOK, Requests
      <4> QED BY <2>2, <3>1, <4>1 DEF NewCookie
    <3>2. CASE res[w] # "in"
      <4>1. c \in {None, cookie[b], req[w].cookie}
        BY <2>2, <3>2 DEF NewCookie
      <4>2. cookie[b] \in Teams \cup {None} /\ req[w].cookie \in Teams \cup {None}
        BY <2>1 DEF Requests
      <4> QED BY <2>1, <4>1, <4>2 DEF WorkerOK, CookiesEarned
    <3> QED BY <3>1, <3>2
  <2>4. UNCHANGED <<confirmed, earned, ipteams>>
    BY <1>3 DEF Reply, Done
  <2>5. CASE c = None
    BY <2>1, <2>2, <2>4, <2>5 DEF Promise!Next, Promise!Leave
  <2>6. CASE c \in Teams /\ <<b, c>> \in earned
    BY <2>1, <2>2, <2>4, <2>6 DEF Promise!Next, Promise!Enter
  <2> QED BY <2>3, <2>5, <2>6
<1>4. CASE ConfirmTeam
  BY <1>4 DEF ConfirmTeam, Promise!Next, Promise!Confirm
<1>5. ASSUME NEW w \in Workers,
             Receive(w) \/ Fails(w) \/ Work(w),
             ~ (Call(w) \/ Reply(w) \/ InsertIp(w) \/ InsertFails(w) \/ LoseReply(w))
      PROVE  UNCHANGED Promise!access
  BY <1>5 DEF Receive, Start, Work, Open, Select, LookUpIp, ListIps, KeepIps, Serve,
     Fails, OpenFails, CallFails, SelectFails, ListFails, AnswerLost, Done
<1>6. CASE ChangePassword \/ EvictIps \/ Restart
  BY <1>6 DEF ChangePassword, EvictIps, Restart
<1> QED BY <1>1, <1>2, <1>3, <1>4, <1>5, <1>6 DEF Next, Progress, Requested, Fault

\* The scoreboard keeps the promises of Access: sessions and rows of the log of
\* addresses go back to a password that was given, for a team that was confirmed.
THEOREM ImplementsAccess == Spec => KeepsAccess
<1>1. Init => Promise!Init
  BY DEF Init, Promise!Init
<1>2. SessionInductive /\ [Next]_sessionVars => [Promise!Next]_Promise!access
  <2>1. ASSUME UNCHANGED sessionVars PROVE UNCHANGED Promise!access
    BY <2>1 DEF sessionVars, tables, history, Promise!access
  <2> QED BY <2>1, AccessStep
<1> QED BY <1>1, <1>2, SessionInvariant, PTL DEF Spec, KeepsAccess, Promise!Spec
=============================================================================
