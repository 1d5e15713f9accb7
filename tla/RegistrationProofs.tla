------------------------- MODULE RegistrationProofs -------------------------
(***************************************************************************)
(* Theorems about Registration, for every number of workers, names,        *)
(* addresses and codes, and any limit of teams for an IP address.          *)
(***************************************************************************)
EXTENDS Registration, FiniteSetTheorems, TLAPS

USE RegistrationAssumption

\* The worker's request is one that a code was drawn for.
Draws(t) == req[t] # None /\ req[t].kind \in {"subscribe", "init"}

IsMailed(c) == \E e \in Emails : <<e, c>> \in posted

\* What a code that was drawn for a request is used for: the row of that request, or
\* the token of its address, and at the end a letter to that address.
OwnCode(t) ==
    /\ req[t].code \in issued
    /\ \A u \in Workers : Draws(u) /\ req[u].code = req[t].code => u = t
    /\ \A r \in teams : r.code = req[t].code => req[t].kind = "subscribe" /\ r = RowOf(t)
    /\ \A e \in Emails : token[e] = req[t].code => req[t].kind = "init" /\ req[t].email = e
    /\ \A e \in Emails : <<e, req[t].code>> \in posted => pc[t] = "reply" /\ req[t].email = e

\* Every code is drawn once and belongs to one address.
CodesOK ==
    /\ \A t \in Workers : Draws(t) => OwnCode(t)
    /\ \A t \in Workers : req[t] # None /\ ~ Draws(t) => IsMailed(req[t].code)
    /\ \A r \in teams : r.code \in issued
    /\ \A e \in Emails : token[e] # None =>
         token[e] \in issued /\ token[e] \notin spent /\ Registered(e)
    /\ \A c \in spent : IsMailed(c)
    /\ \A e \in Emails, c \in Codes : <<e, c>> \in posted =>
         /\ c \in issued
         /\ \A r \in teams : r.code = c => r.email = e
         /\ \A d \in Emails : token[d] = c => d = e

\* The server is about to run the statement of a request of kind k for a worker at l.
Runs(t, l, k) == pc[t] = l \/ (pc[t] = "stray" /\ req[t].kind = k)

\* Where a worker is says what its request is.
Places(t) ==
    /\ pc[t] = "idle" <=> req[t] = None
    /\ pc[t] \in {"spam", "count", "keepcount", "form", "duplicates", "keepduplicates",
                  "insert", "inserted"} => req[t].kind = "subscribe"
    /\ pc[t] \in {"key", "confirm", "keepkey"} => req[t].kind = "confirm"
    /\ pc[t] = "token" => req[t].kind = "init"
    /\ pc[t] = "password" => req[t].kind = "reset"
    /\ pc[t] = "mail" => req[t].kind \in {"subscribe", "init"}
    /\ pc[t] # "reply" => res[t] = None
    /\ res[t] = "taken" => req[t].kind = "subscribe"
    /\ res[t] = "ko" => req[t].kind = "confirm"

\* What a worker has seen or done in its request still is so.
Remembers(t) ==
    /\ pc[t] = "keepduplicates" /\ hit[t] # NoRow => hit[t] \in Clashes(t)
    /\ pc[t] = "inserted" /\ yes[t] => RowOf(t) \in teams
    /\ pc[t] = "mail" =>
         Registered(req[t].email) /\ (req[t].kind = "subscribe" => RowOf(t) \in teams)
    /\ pc[t] = "keepkey" => ~ Unconfirmed(req[t].code)
    /\ res[t] = "done" /\ req[t].kind = "subscribe" =>
         RowOf(t) \in teams /\ <<req[t].email, req[t].code>> \in posted
    /\ res[t] = "taken" /\ t \notin broken => Clashes(t) # {}
    /\ res[t] = "ko" /\ t \notin broken => ~ Unconfirmed(req[t].code)
    /\ pc[t] = "stray" /\ req[t].kind = "init" => req[t].code \in undelivered

\* What the cache says is so, and stays so.
KeysOK ==
    /\ \A x \in taken : \E r \in teams : x \in {r.name, r.email}
    /\ \A c \in tried : IsMailed(c) /\ ~ Unconfirmed(c)

From(ip) == {r \in teams : r.ip = ip}

At(t, ip) == Subscribing(t) /\ req[t].ip = ip

Inserting(t) == pc[t] \in {"insert", "inserted"}

\* Where a worker looked at the limit, it still holds, up to the row it inserts itself.
Limited(t, ip) ==
    /\ pc[t] \in {"form", "duplicates", "keepduplicates"} => Cardinality(From(ip)) <= MaxTeams
    /\ pc[t] = "keepcount" /\ ~ yes[t] => Cardinality(From(ip)) <= MaxTeams
    /\ pc[t] \in {"insert", "stray"} => Cardinality(From(ip)) <= MaxTeams \/ RowOf(t) \in teams

\* There is one registration at a time from an address, and none has stored a count
\* since the daemon died on one that is still to run.
AddressOK(ip) ==
    /\ \A t, u \in Workers : At(t, ip) /\ At(u, ip) => t = u
    /\ Cardinality(From(ip)) <= MaxTeams + 1
    /\ spam[ip] = "f" =>
         \/ Cardinality(From(ip)) <= MaxTeams
         \/ \E t \in Workers : At(t, ip) /\ Inserting(t)
    /\ \A t \in Workers : At(t, ip) => Limited(t, ip)
    /\ \A t \in Workers : At(t, ip) /\ pc[t] = "stray" => spam[ip] # "f"

RegistrationInductive ==
    /\ TypeOK /\ IsFiniteSet(teams)
    /\ CodesOK
    /\ \A t \in Workers : Places(t) /\ Remembers(t)
    /\ KeysOK
    /\ ValidTokenMailed
    /\ \A ip \in Addresses \ crowded : AddressOK(ip)

\* The initial states have it.
LEMMA InitRegistration == Init => RegistrationInductive
<1> SUFFICES ASSUME Init PROVE RegistrationInductive
  OBVIOUS
<1>1. TypeOK
  BY DEF Init, TypeOK
<1>2. IsFiniteSet(teams)
  BY FS_EmptySet DEF Init
<1>3. CodesOK
  BY DEF Init, CodesOK, Draws
<1>4. \A t \in Workers : Places(t) /\ Remembers(t)
  BY DEF Init, Places, Remembers
<1>5. KeysOK /\ ValidTokenMailed
  BY DEF Init, KeysOK, ValidTokenMailed
<1>6. \A ip \in Addresses : AddressOK(ip)
  <2> SUFFICES ASSUME NEW ip \in Addresses PROVE AddressOK(ip)
    OBVIOUS
  <2>1. From(ip) = {} /\ spam[ip] = None /\ \A t \in Workers : ~ Subscribing(t)
    BY DEF Init, From, Subscribing
  <2>2. Cardinality(From(ip)) = 0
    BY <2>1, FS_EmptySet
  <2> QED BY <2>1, <2>2 DEF AddressOK, At
<1> QED BY <1>1, <1>2, <1>3, <1>4, <1>5, <1>6 DEF RegistrationInductive
-----------------------------------------------------------------------------
(* Types.                                                                  *)

\* A code that was mailed went to somebody.
LEMMA MailedCodes ==
    ASSUME TypeOK
    PROVE  \A c \in Mailed : c \in Codes /\ IsMailed(c)
<1> SUFFICES ASSUME NEW m \in posted PROVE m[2] \in Codes /\ IsMailed(m[2])
  BY DEF Mailed
<1>1. PICK e \in Emails, c \in Codes : m = <<e, c>>
  BY DEF TypeOK
<1> QED BY <1>1 DEF IsMailed

\* The statement that is run is that of the worker's place.
LEMMA RunsWhat ==
    ASSUME NEW t \in Workers, Places(t), pc[t] \in Writing \cup {"stray"}
    PROVE  /\ req[t].kind = "subscribe" => Runs(t, "insert", "subscribe")
           /\ req[t].kind = "confirm" => Runs(t, "confirm", "confirm")
           /\ req[t].kind = "init" => Runs(t, "token", "init")
           /\ req[t].kind = "reset" => Runs(t, "password", "reset")
BY DEF Writing, Places, Runs

\* Every step keeps the types.
LEMMA TypeStep ==
    ASSUME TypeOK, \A t \in Workers : Places(t), Next
    PROVE  TypeOK'
<1> USE DEF TypeOK, table, cache, worker, history, Goto, Answer
<1>1. ASSUME NEW t \in Workers, Receive(t) PROVE TypeOK'
  <2>1. CASE Subscribe(t)
    BY <1>1, <2>1 DEF Subscribe, Start, Requests
  <2>2. CASE InitReset(t)
    BY <1>1, <2>2 DEF InitReset, Start, Requests
  <2>3. CASE ConfirmLink(t)
    BY <1>1, <2>3, MailedCodes DEF ConfirmLink, Start, Requests
  <2>4. CASE ResetLink(t)
    BY <1>1, <2>4, MailedCodes DEF ResetLink, Start, Requests
  <2> QED BY <1>1, <2>1, <2>2, <2>3, <2>4 DEF Receive
<1>2. ASSUME NEW t \in Workers PROVE
        /\ pc[t] \in {"spam", "count", "keepcount", "form", "duplicates", "keepduplicates",
                      "insert", "inserted"} =>
             /\ req[t].name \in Names /\ req[t].email \in Emails /\ req[t].ip \in Addresses
             /\ req[t].code \in Codes /\ RowOf(t) \in Rows
        /\ pc[t] \in {"token", "password", "mail"} =>
             req[t].email \in Emails /\ req[t].code \in Codes
        /\ pc[t] \in {"key", "confirm", "keepkey"} => req[t].code \in Codes
        /\ pc[t] = "stray" =>
             /\ req[t].code \in Codes
             /\ req[t].kind = "subscribe" => RowOf(t) \in Rows
             /\ req[t].kind \in {"init", "reset"} => req[t].email \in Emails
  <2>1. Places(t) /\ (req[t] \in Requests \/ req[t] = None)
    OBVIOUS
  <2> QED BY <2>1 DEF Places, Requests, RowOf, Rows
<1>3. ASSUME NEW t \in Workers, Runs(t, "insert", "subscribe"), InsertRow(t)
      PROVE  teams' \subseteq Rows
  BY <1>2, <1>3 DEF InsertRow, Runs
<1>4. ASSUME NEW t \in Workers, Runs(t, "confirm", "confirm"), ConfirmRow(t)
      PROVE  confirmed' \subseteq Codes
  BY <1>2, <1>4 DEF ConfirmRow, Runs
<1>5. ASSUME NEW t \in Workers, Runs(t, "token", "init"), TokenRow(t)
      PROVE  token' \in [Emails -> Codes \cup {None}] /\ recent' \subseteq Emails
  BY <1>2, <1>5 DEF TokenRow, Runs
<1>6. ASSUME NEW t \in Workers, Runs(t, "password", "reset"), PasswordRow(t)
      PROVE  token' \in [Emails -> Codes \cup {None}] /\ spent' \subseteq Codes
  BY <1>2, <1>6 DEF PasswordRow, Runs
<1>7. ASSUME NEW t \in Workers, pc[t] = "mail", PostLetter(t)
      PROVE  posted' \subseteq Emails \X Codes
  BY <1>2, <1>7 DEF PostLetter
<1> DEFINE Rows4 ==
             /\ teams' \subseteq Rows /\ confirmed' \subseteq Codes
             /\ token' \in [Emails -> Codes \cup {None}] /\ recent' \subseteq Emails
             /\ spent' \subseteq Codes /\ posted' = posted
<1>13. ASSUME NEW t \in Workers, pc[t] \in Writing \cup {"stray"}, Statement(t)
       PROVE  Rows4
  <2>1. CASE req[t].kind = "subscribe" /\ InsertRow(t)
    <3>1. Runs(t, "insert", "subscribe")
      BY <1>13, <2>1, RunsWhat
    <3> QED BY <2>1, <3>1, <1>3 DEF InsertRow
  <2>2. CASE req[t].kind = "confirm" /\ ConfirmRow(t)
    <3>1. Runs(t, "confirm", "confirm")
      BY <1>13, <2>2, RunsWhat
    <3> QED BY <2>2, <3>1, <1>4 DEF ConfirmRow
  <2>3. CASE req[t].kind = "init" /\ TokenRow(t)
    <3>1. Runs(t, "token", "init")
      BY <1>13, <2>3, RunsWhat
    <3> QED BY <2>3, <3>1, <1>5 DEF TokenRow
  <2>4. CASE req[t].kind = "reset" /\ PasswordRow(t)
    <3>1. Runs(t, "password", "reset")
      BY <1>13, <2>4, RunsWhat
    <3> QED BY <2>4, <3>1, <1>6 DEF PasswordRow
  <2> QED BY <1>13, <2>1, <2>2, <2>3, <2>4 DEF Statement
<1>8. ASSUME NEW t \in Workers, Work(t) PROVE TypeOK'
  <2>1. CASE LookUpSpam(t)
    BY <2>1 DEF LookUpSpam
  <2>2. CASE CountTeams(t)
    BY <2>2 DEF CountTeams
  <2>3. CASE KeepCount(t)
    BY <2>3 DEF KeepCount
  <2>4. CASE LookUpTaken(t)
    BY <2>4 DEF LookUpTaken
  <2>5. CASE FindDuplicates(t)
    BY <2>5 DEF FindDuplicates, Clashes
  <2>6. CASE KeepDuplicates(t)
    BY <2>6, <1>2 DEF KeepDuplicates
  <2>7. CASE Insert(t)
    BY <2>7, <1>3 DEF Insert, InsertRow, Runs
  <2>8. CASE Inserted(t)
    BY <2>8 DEF Inserted
  <2>9. CASE SendMail(t)
    BY <2>9, <1>7 DEF SendMail
  <2>10. CASE LookUpKey(t)
    BY <2>10 DEF LookUpKey
  <2>11. CASE Confirm(t)
    BY <2>11, <1>4 DEF Confirm, ConfirmRow, Unconfirmed, Runs
  <2>12. CASE KeepKey(t)
    BY <2>12, <1>2 DEF KeepKey
  <2>13. CASE SetToken(t)
    BY <2>13, <1>5 DEF SetToken, TokenRow, Runs
  <2>14. CASE SetPassword(t)
    BY <2>14, <1>6 DEF SetPassword, PasswordRow, Runs
  <2>15. CASE Reply(t)
    BY <2>15 DEF Reply
  <2>16. CASE StrayRuns(t)
    <3>1. Rows4
      BY <2>16, <1>13 DEF StrayRuns
    <3> QED BY <2>16, <3>1 DEF StrayRuns
  <2> QED BY <1>8, <2>1, <2>2, <2>3, <2>4, <2>5, <2>6, <2>7, <2>8, <2>9, <2>10, <2>11,
         <2>12, <2>13, <2>14, <2>15, <2>16 DEF Work
<1>9. ASSUME NEW t \in Workers, Fails(t) PROVE TypeOK'
  <2>1. CASE LoseReply(t)
    <3>1. Rows4
      BY <2>1, <1>13 DEF LoseReply
    <3> QED BY <2>1, <3>1 DEF LoseReply
  <2>2. CASE DbError(t)
    <3>1. broken' \subseteq Workers /\ undelivered' \subseteq Codes
      BY <2>2, <1>2 DEF DbError
    <3> QED BY <2>2, <3>1 DEF DbError
  <2>3. CASE MailFails(t)
    BY <2>3, <1>2, <1>7 DEF MailFails
  <2>4. CASE MailEscapes(t)
    BY <2>4, <1>7 DEF MailEscapes
  <2> QED BY <1>9, <2>1, <2>2, <2>3, <2>4 DEF Fails
<1>10. CASE TokenAges
  BY <1>10 DEF TokenAges
<1>11. CASE Expire
  BY <1>11 DEF Expire
<1>12. CASE Restart
  <2>1. undelivered' \subseteq Codes
    BY <1>2, <1>12 DEF Restart
  <2> QED BY <1>12, <2>1 DEF Restart
<1> QED BY <1>1, <1>8, <1>9, <1>10, <1>11, <1>12 DEF Next, Progress, Fault
-----------------------------------------------------------------------------
(* What a step does to the requests and to the table.                      *)

\* A request stays what it is until it is answered.
Stays(t) == req'[t] = req[t] /\ (pc[t] = "reply" => pc'[t] = "reply")

\* A code is drawn.
Drawn(t) ==
    /\ pc[t] = "idle" /\ req'[t] \in Requests /\ req'[t].kind \in {"subscribe", "init"}
    /\ req'[t].code \notin issued /\ issued' = issued \cup {req'[t].code}
    /\ \A u \in Workers \ {t} : Stays(u)

\* A link of a letter is followed.
Linked(t) ==
    /\ pc[t] = "idle" /\ req'[t] \in Requests /\ req'[t].kind \in {"confirm", "reset"}
    /\ IsMailed(req'[t].code)

\* Every step of the table and of its letters is one of these, by one worker.
Writes(t) ==
    \/ Runs(t, "insert", "subscribe") /\ InsertRow(t)
    \/ Runs(t, "confirm", "confirm") /\ ConfirmRow(t)
    \/ Runs(t, "token", "init") /\ TokenRow(t)
    \/ Runs(t, "password", "reset") /\ PasswordRow(t)
    \/ pc[t] = "mail" /\ PostLetter(t) /\ pc'[t] = "reply"
         /\ UNCHANGED <<teams, confirmed, token, recent, spent>>

TableStays == UNCHANGED <<teams, confirmed, token, posted, spent>>

\* What a request is whose worker writes.
LEMMA Writers ==
    ASSUME TypeOK, NEW t \in Workers, Places(t)
    PROVE  /\ Runs(t, "insert", "subscribe") =>
                /\ req[t].kind = "subscribe" /\ Draws(t) /\ pc[t] # "reply"
                /\ req[t].name \in Names /\ req[t].email \in Emails
                /\ req[t].code \in Codes /\ RowOf(t) \in Rows
           /\ Runs(t, "confirm", "confirm") =>
                req[t] # None /\ ~ Draws(t) /\ req[t].code \in Codes
           /\ Runs(t, "token", "init") =>
                /\ req[t].kind = "init" /\ Draws(t) /\ pc[t] # "reply"
                /\ req[t].email \in Emails /\ req[t].code \in Codes
           /\ Runs(t, "password", "reset") =>
                /\ req[t] # None /\ ~ Draws(t)
                /\ req[t].email \in Emails /\ req[t].code \in Codes
           /\ pc[t] = "mail" =>
                Draws(t) /\ req[t].email \in Emails /\ req[t].code \in Codes
<1>1. req[t] \in Requests \/ req[t] = None
  BY DEF TypeOK
<1>2. pc[t] # "idle" => req[t] \in Requests
  BY <1>1 DEF Places
<1> QED BY <1>2 DEF Places, Runs, Requests, Draws, RowOf, Rows

\* A statement is a step of the table.
LEMMA StatementWrites ==
    ASSUME NEW t \in Workers, Places(t), pc[t] \in Writing \cup {"stray"}, Statement(t)
    PROVE  Writes(t)
BY RunsWhat DEF Statement, Writes

\* Requests come and go while the table stays; the table changes while they stay.
LEMMA Shape ==
    ASSUME TypeOK, \A t \in Workers : Places(t), Next
    PROVE  \/ /\ TableStays
              /\ \/ \E t \in Workers : Drawn(t)
                 \/ UNCHANGED issued /\ \A t \in Workers :
                      Stays(t) \/ req'[t] = None \/ Linked(t)
           \/ /\ UNCHANGED issued /\ \A t \in Workers : Stays(t)
              /\ \E t \in Workers : Writes(t)
<1> USE DEF TypeOK, table, cache, worker, history, Goto, Answer, TableStays, Stays
<1> DEFINE Quiet == TableStays /\ UNCHANGED issued /\ \A u \in Workers : Stays(u)
           Busy  == UNCHANGED issued /\ \A u \in Workers : Stays(u)
<1>1. ASSUME NEW t \in Workers, Receive(t)
      PROVE  /\ TableStays
             /\ \/ Drawn(t)
                \/ UNCHANGED issued /\ \A u \in Workers : Stays(u) \/ Linked(u)
  <2>1. CASE Subscribe(t)
    BY <1>1, <2>1 DEF Subscribe, Start, Requests, Drawn
  <2>2. CASE InitReset(t)
    BY <1>1, <2>2 DEF InitReset, Start, Requests, Drawn
  <2>3. CASE ConfirmLink(t)
    BY <1>1, <2>3, MailedCodes DEF ConfirmLink, Start, Requests, Linked
  <2>4. CASE ResetLink(t)
    BY <1>1, <2>4, MailedCodes DEF ResetLink, Start, Requests, Linked
  <2> QED BY <1>1, <2>1, <2>2, <2>3, <2>4 DEF Receive
<1>2. ASSUME NEW t \in Workers, Work(t), ~ Reply(t)
      PROVE  Quiet \/ (Busy /\ Writes(t))
  <2>1. CASE LookUpSpam(t)
    BY <2>1 DEF LookUpSpam
  <2>2. CASE CountTeams(t)
    BY <2>2 DEF CountTeams
  <2>3. CASE KeepCount(t)
    BY <2>3 DEF KeepCount
  <2>4. CASE LookUpTaken(t)
    BY <2>4 DEF LookUpTaken
  <2>5. CASE FindDuplicates(t)
    BY <2>5 DEF FindDuplicates
  <2>6. CASE KeepDuplicates(t)
    BY <2>6 DEF KeepDuplicates
  <2>7. CASE Insert(t)
    BY <2>7 DEF Insert, Writes, Runs
  <2>8. CASE Inserted(t)
    BY <2>8 DEF Inserted
  <2>9. CASE SendMail(t)
    BY <2>9 DEF SendMail, Writes
  <2>10. CASE LookUpKey(t)
    BY <2>10 DEF LookUpKey
  <2>11. CASE Confirm(t)
    BY <2>11 DEF Confirm, Writes, Runs
  <2>12. CASE KeepKey(t)
    BY <2>12 DEF KeepKey
  <2>13. CASE SetToken(t)
    BY <2>13 DEF SetToken, Writes, Runs
  <2>14. CASE SetPassword(t)
    BY <2>14 DEF SetPassword, Writes, Runs
  <2>15. CASE StrayRuns(t)
    <3>1. Writes(t)
      BY <2>15, StatementWrites DEF StrayRuns
    <3> QED BY <2>15, <3>1 DEF StrayRuns
  <2> QED BY <1>2, <2>1, <2>2, <2>3, <2>4, <2>5, <2>6, <2>7, <2>8, <2>9, <2>10, <2>11,
         <2>12, <2>13, <2>14, <2>15 DEF Work
<1>3. ASSUME NEW t \in Workers, Reply(t)
      PROVE  TableStays /\ UNCHANGED issued
               /\ \A u \in Workers : Stays(u) \/ req'[u] = None
  BY <1>3 DEF Reply
<1>4. ASSUME NEW t \in Workers, Fails(t)
      PROVE  Quiet \/ (Busy /\ Writes(t))
  <2>1. CASE LoseReply(t)
    <3>1. Writes(t)
      BY <2>1, StatementWrites DEF LoseReply
    <3> QED BY <2>1, <3>1 DEF LoseReply
  <2>2. CASE DbError(t)
    BY <2>2 DEF DbError
  <2>3. CASE MailFails(t)
    BY <2>3 DEF MailFails, Writes
  <2>4. CASE MailEscapes(t)
    BY <2>4 DEF MailEscapes, Writes
  <2> QED BY <1>4, <2>1, <2>2, <2>3, <2>4 DEF Fails
<1>5. CASE TokenAges
  BY <1>5 DEF TokenAges
<1>6. CASE Expire
  BY <1>6 DEF Expire
<1>7. CASE Restart
  <2>1. \A u \in Workers : req'[u] = None \/ (req'[u] = req[u] /\ pc[u] # "reply")
    BY <1>7 DEF Restart, Writing
  <2> QED BY <1>7, <2>1 DEF Restart
<1> QED BY <1>1, <1>2, <1>3, <1>4, <1>5, <1>6, <1>7 DEF Next, Progress, Fault
-----------------------------------------------------------------------------
(* Codes.                                                                  *)

\* A code is drawn that nothing has.
LEMMA CodesDrawn ==
    ASSUME TypeOK, CodesOK, \A t \in Workers : Places(t), TableStays,
           NEW t \in Workers, Drawn(t)
    PROVE  CodesOK'
<1> USE DEF TableStays, Stays
<1>1. ASSUME NEW u \in Workers, Draws(u)' PROVE OwnCode(u)'
  <2>1. CASE u = t
    <3>1. req'[t].code \in issued' /\ req'[t].code \notin issued /\ req'[t].code \in Codes
      BY DEF Drawn, Requests
    <3>2. \A v \in Workers : Draws(v)' /\ req'[v].code = req'[t].code => v = t
      BY <3>1 DEF CodesOK, OwnCode, Drawn, Draws
    <3>3. \A r \in teams' : r.code # req'[t].code
      BY <3>1 DEF CodesOK
    <3>4. \A e \in Emails : token'[e] # req'[t].code
      BY <3>1 DEF CodesOK
    <3>5. \A e \in Emails : <<e, req'[t].code>> \notin posted'
      BY <3>1 DEF CodesOK
    <3> QED BY <2>1, <3>1, <3>2, <3>3, <3>4, <3>5 DEF OwnCode
  <2>2. CASE u # t
    <3>1. Draws(u) /\ req'[u] = req[u] /\ (pc[u] = "reply" => pc'[u] = "reply") /\ OwnCode(u)
      BY <1>1, <2>2 DEF Drawn, Draws, CodesOK
    <3>2. \A v \in Workers : Draws(v)' /\ req'[v].code = req'[u].code => v = u
      BY <3>1 DEF CodesOK, OwnCode, Drawn, Draws
    <3> QED BY <3>1, <3>2 DEF OwnCode, Drawn, RowOf
  <2> QED BY <2>1, <2>2
<1>2. ASSUME NEW u \in Workers, req'[u] # None, ~ Draws(u)' PROVE IsMailed(req[u].code)'
  BY <1>2 DEF Drawn, Draws, CodesOK, IsMailed
<1>3. issued \subseteq issued'
  BY DEF Drawn
<1> QED BY <1>1, <1>2, <1>3 DEF CodesOK, IsMailed, Registered

\* Requests are answered, and links followed.
LEMMA CodesQuiet ==
    ASSUME TypeOK, CodesOK, TableStays, UNCHANGED issued,
           \A t \in Workers : Stays(t) \/ req'[t] = None \/ Linked(t)
    PROVE  CodesOK'
<1> USE DEF TableStays, Stays
<1>1. ASSUME NEW u \in Workers, Draws(u)'
      PROVE  Draws(u) /\ req'[u] = req[u] /\ (pc[u] = "reply" => pc'[u] = "reply")
  BY <1>1 DEF Draws, Linked
<1>2. ASSUME NEW u \in Workers, Draws(u)' PROVE OwnCode(u)'
  <2>1. OwnCode(u) /\ req'[u] = req[u] /\ (pc[u] = "reply" => pc'[u] = "reply")
    BY <1>1, <1>2 DEF CodesOK
  <2>2. \A v \in Workers : Draws(v)' /\ req'[v].code = req'[u].code => v = u
    BY <1>1, <2>1 DEF OwnCode
  <2> QED BY <2>1, <2>2 DEF OwnCode, RowOf
<1>3. ASSUME NEW u \in Workers, req'[u] # None, ~ Draws(u)' PROVE IsMailed(req[u].code)'
  BY <1>3 DEF Linked, Draws, CodesOK, IsMailed
<1>4. /\ \A t \in Workers : Draws(t)' => OwnCode(t)'
      /\ \A t \in Workers : req'[t] # None /\ ~ Draws(t)' => IsMailed(req[t].code)'
  BY <1>2, <1>3
<1>5. UNCHANGED <<teams, token, posted, spent, issued>>
  OBVIOUS
<1> QED BY <1>4, <1>5 DEF CodesOK, IsMailed, Registered

\* What CodesOK says of the requests follows from what it says of their codes, where
\* the requests stay.
LEMMA CodesBusy ==
    ASSUME CodesOK, UNCHANGED issued, \A t \in Workers : Stays(t), posted \subseteq posted',
           \A t \in Workers : Draws(t) =>
             /\ \A r \in teams' \ teams : r.code = req[t].code =>
                  req[t].kind = "subscribe" /\ r = RowOf(t)
             /\ \A e \in Emails : token'[e] = req[t].code /\ token'[e] # token[e] =>
                  req[t].kind = "init" /\ req[t].email = e
             /\ \A e \in Emails :
                  <<e, req[t].code>> \in posted' /\ <<e, req[t].code>> \notin posted =>
                    pc'[t] = "reply" /\ req[t].email = e
    PROVE  /\ \A t \in Workers : Draws(t)' => OwnCode(t)'
           /\ \A t \in Workers : req'[t] # None /\ ~ Draws(t)' => IsMailed(req[t].code)'
<1> USE DEF Stays
<1>1. ASSUME NEW t \in Workers, Draws(t)' PROVE OwnCode(t)'
  <2>1. Draws(t) /\ OwnCode(t) /\ req'[t] = req[t] /\ (pc[t] = "reply" => pc'[t] = "reply")
    BY <1>1 DEF Draws, CodesOK
  <2>2. \A v \in Workers : Draws(v)' /\ req'[v].code = req'[t].code => v = t
    BY <2>1 DEF OwnCode, Draws
  <2>3. \A r \in teams' : r.code = req[t].code => req[t].kind = "subscribe" /\ r = RowOf(t)
    BY <2>1 DEF OwnCode
  <2>4. \A e \in Emails : token'[e] = req[t].code => req[t].kind = "init" /\ req[t].email = e
    BY <2>1 DEF OwnCode
  <2>5. \A e \in Emails : <<e, req[t].code>> \in posted' =>
          pc'[t] = "reply" /\ req[t].email = e
    BY <2>1 DEF OwnCode
  <2> QED BY <2>1, <2>2, <2>3, <2>4, <2>5 DEF OwnCode, RowOf
<1>2. ASSUME NEW t \in Workers, req'[t] # None, ~ Draws(t)' PROVE IsMailed(req[t].code)'
  BY <1>2 DEF Draws, CodesOK, IsMailed
<1> QED BY <1>1, <1>2

\* A worker writes.
LEMMA CodesWritten ==
    ASSUME TypeOK, CodesOK, UNCHANGED issued, \A t \in Workers : Stays(t) /\ Places(t),
           \A t \in Workers : Remembers(t), NEW t \in Workers, Writes(t)
    PROVE  CodesOK'
<1> DEFINE Requesting ==
             /\ \A u \in Workers : Draws(u)' => OwnCode(u)'
             /\ \A u \in Workers : req'[u] # None /\ ~ Draws(u)' => IsMailed(req[u].code)'
<1>1. Places(t) /\ Remembers(t) /\ (Draws(t) => OwnCode(t))
  BY DEF CodesOK
<1>2. \A u \in Workers : Draws(u) /\ Draws(t) /\ req[u].code = req[t].code => u = t
  BY <1>1 DEF OwnCode
<1>3. CASE Runs(t, "insert", "subscribe") /\ InsertRow(t)
  <2>1. UNCHANGED <<confirmed, token, posted, spent>> /\ teams \subseteq teams'
        /\ \A r \in teams' \ teams : r = RowOf(t)
    BY <1>3 DEF InsertRow
  <2>2. RowOf(t).code = req[t].code /\ RowOf(t).email = req[t].email
    BY DEF RowOf
  <2>3. req[t].kind = "subscribe" /\ Draws(t) /\ OwnCode(t)
    BY <1>1, <1>3, Writers
  <2>4. \A u \in Workers : Draws(u) =>
          \A r \in teams' \ teams : r.code = req[u].code =>
                  req[u].kind = "subscribe" /\ r = RowOf(u)
    BY <1>2, <2>1, <2>2, <2>3
  <2>5. Requesting
    BY <2>1, <2>4, CodesBusy
  <2>6. \A r \in teams' : r.code \in issued
    BY <2>1, <2>2, <2>3 DEF CodesOK, OwnCode
  <2>7. \A e \in Emails : Registered(e) => Registered(e)'
    BY <2>1 DEF Registered
  <2>8. \A e \in Emails : <<e, req[t].code>> \notin posted
    BY <1>1, <1>3, <2>3, Writers DEF OwnCode
  <2>9. \A e \in Emails, c \in Codes : <<e, c>> \in posted' =>
          \A r \in teams' : r.code = c => r.email = e
    BY <2>1, <2>2, <2>8 DEF CodesOK
  <2> QED BY <2>1, <2>5, <2>6, <2>7, <2>9 DEF CodesOK, IsMailed
<1>4. CASE Runs(t, "confirm", "confirm") /\ ConfirmRow(t)
  <2>1. UNCHANGED <<teams, token, posted, spent>>
    BY <1>4 DEF ConfirmRow
  <2>2. Requesting
    BY <2>1, CodesBusy
  <2> QED BY <2>1, <2>2 DEF CodesOK, IsMailed, Registered
<1>5. CASE Runs(t, "token", "init") /\ TokenRow(t)
  <2>1. UNCHANGED <<teams, confirmed, posted, spent>>
        /\ \A e \in Emails : token'[e] # token[e] =>
             token'[e] = req[t].code /\ e = req[t].email /\ Registered(e)
    BY <1>5 DEF TokenRow, TypeOK
  <2>2. req[t].kind = "init" /\ Draws(t) /\ OwnCode(t)
    BY <1>1, <1>5, Writers
  <2>3. \A u \in Workers : Draws(u) =>
          \A e \in Emails : token'[e] = req[u].code /\ token'[e] # token[e] =>
                  req[u].kind = "init" /\ req[u].email = e
    BY <1>2, <2>1, <2>2
  <2>4. Requesting
    BY <2>1, <2>3, CodesBusy
  <2>5. \A e \in Emails : <<e, req[t].code>> \notin posted
    BY <1>1, <1>5, <2>2, Writers DEF OwnCode
  <2>6. req[t].code \in issued /\ req[t].code \notin spent
    BY <2>2, <2>5 DEF OwnCode, CodesOK, IsMailed
  <2>7. \A e \in Emails : token'[e] # None =>
          token'[e] \in issued /\ token'[e] \notin spent /\ Registered(e)
    BY <2>1, <2>6 DEF CodesOK
  <2>8. \A e \in Emails, c \in Codes : <<e, c>> \in posted =>
          \A d \in Emails : token'[d] = c => d = e
    BY <2>1, <2>5 DEF CodesOK
  <2> QED BY <2>1, <2>4, <2>7, <2>8 DEF CodesOK, IsMailed, Registered
<1>6. CASE Runs(t, "password", "reset") /\ PasswordRow(t)
  <2>1. UNCHANGED <<teams, confirmed, posted>>
        /\ \A e \in Emails : token'[e] = token[e] \/ token'[e] = None
    BY <1>6 DEF PasswordRow, TypeOK
  <2>2. \A u \in Workers : Draws(u) => req[u].code # None
    BY DEF TypeOK, Requests, Draws
  <2>3. Requesting
    BY <2>1, <2>2, CodesBusy
  <2>4. IsMailed(req[t].code)
    BY <1>1, <1>6, Writers DEF CodesOK
  <2>5. \A c \in spent' : IsMailed(c)
    BY <1>6, <2>4 DEF PasswordRow, CodesOK
  <2>6. \A e \in Emails : token'[e] # None => token'[e] \notin spent'
    <3> SUFFICES ASSUME NEW e \in Emails, token'[e] # None
                 PROVE  token'[e] \notin spent'
      OBVIOUS
    <3>1. token'[e] = token[e] /\ token[e] \notin spent
      BY <2>1 DEF CodesOK
    <3>2. CASE Matches(t)
      <4>1. spent' = spent \cup {req[t].code} /\ token[req[t].email] = req[t].code
            /\ e # req[t].email
        BY <1>1, <1>6, <3>2, Writers DEF PasswordRow, Matches, TypeOK
      <4>2. PICK d \in Emails : <<d, req[t].code>> \in posted
        BY <2>4 DEF IsMailed
      <4>3. \A f \in Emails : token[f] = req[t].code => f = d
        BY <1>1, <1>6, <4>2, Writers DEF CodesOK
      <4> QED BY <1>1, <1>6, <3>1, <4>1, <4>3, Writers
    <3>3. CASE ~ Matches(t)
      BY <1>6, <3>1, <3>3 DEF PasswordRow
    <3> QED BY <3>2, <3>3
  <2>7. \A e \in Emails, c \in Codes : <<e, c>> \in posted =>
          \A d \in Emails : token'[d] = c => d = e
    BY <2>1 DEF CodesOK
  <2> QED BY <2>1, <2>3, <2>5, <2>6, <2>7 DEF CodesOK, IsMailed, Registered
<1>7. CASE pc[t] = "mail" /\ PostLetter(t) /\ pc'[t] = "reply"
             /\ UNCHANGED <<teams, confirmed, token, recent, spent>>
  <2>1. posted' = posted \cup {<<req[t].email, req[t].code>>}
    BY <1>7 DEF PostLetter
  <2>2. Draws(t) /\ OwnCode(t)
    BY <1>1, <1>7, Writers
  <2>3. \A u \in Workers : Draws(u) =>
          \A e \in Emails :
            <<e, req[u].code>> \in posted' /\ <<e, req[u].code>> \notin posted =>
              pc'[u] = "reply" /\ req[u].email = e
    BY <1>2, <1>7, <2>1, <2>2
  <2>4. Requesting
    BY <1>7, <2>1, <2>3, CodesBusy
  <2>5. \A e \in Emails, c \in Codes : <<e, c>> \in posted' =>
          /\ c \in issued
          /\ \A r \in teams : r.code = c => r.email = e
          /\ \A d \in Emails : token[d] = c => d = e
    <3>1. \A r \in teams : r.code = req[t].code => r.email = req[t].email
      BY <2>2 DEF OwnCode, RowOf
    <3>2. req[t].code \in issued
            /\ \A d \in Emails : token[d] = req[t].code => d = req[t].email
      BY <2>2 DEF OwnCode
    <3> QED BY <2>1, <3>1, <3>2 DEF CodesOK
  <2> QED BY <1>7, <2>1, <2>4, <2>5 DEF CodesOK, IsMailed, Registered
<1> QED BY <1>3, <1>4, <1>5, <1>6, <1>7 DEF Writes

\* Every step keeps the codes in order.
LEMMA CodesStep ==
    ASSUME RegistrationInductive, Next
    PROVE  CodesOK'
<1>1. TypeOK /\ CodesOK /\ (\A t \in Workers : Places(t)) /\ \A t \in Workers : Remembers(t)
  BY DEF RegistrationInductive
<1>2. CASE TableStays /\ \E t \in Workers : Drawn(t)
  BY <1>1, <1>2, CodesDrawn
<1>3. CASE /\ TableStays /\ UNCHANGED issued
           /\ \A t \in Workers : Stays(t) \/ req'[t] = None \/ Linked(t)
  BY <1>1, <1>3, CodesQuiet
<1>4. CASE /\ UNCHANGED issued /\ \A t \in Workers : Stays(t)
           /\ \E t \in Workers : Writes(t)
  BY <1>1, <1>4, CodesWritten
<1> QED BY <1>1, <1>2, <1>3, <1>4, Shape
-----------------------------------------------------------------------------
(* Workers.                                                                *)

\* The table only grows, and no row comes with a code that was mailed already.
LEMMA TableGrows ==
    ASSUME RegistrationInductive, Next
    PROVE  /\ teams \subseteq teams' /\ confirmed \subseteq confirmed'
           /\ posted \subseteq posted' /\ IsFiniteSet(teams')
           /\ \A c \in Codes : IsMailed(c) =>
                IsMailed(c)' /\ (~ Unconfirmed(c) => ~ Unconfirmed(c)')
           /\ \A e \in Emails : Registered(e) => Registered(e)'
<1>1. /\ TypeOK /\ IsFiniteSet(teams) /\ CodesOK
      /\ \A t \in Workers : Places(t)
  BY DEF RegistrationInductive
<1>2. CASE TableStays
  BY <1>1, <1>2 DEF TableStays, IsMailed, Registered, Unconfirmed
<1>3. ASSUME NEW t \in Workers, Writes(t)
      PROVE  /\ teams \subseteq teams' /\ confirmed \subseteq confirmed'
             /\ posted \subseteq posted' /\ IsFiniteSet(teams')
             /\ \A r \in teams' \ teams : \A e \in Emails : <<e, r.code>> \notin posted
  <2>1. CASE Runs(t, "insert", "subscribe") /\ InsertRow(t)
    <3>1. Draws(t) /\ OwnCode(t)
      BY <1>1, <2>1, Writers DEF CodesOK
    <3>2. \A e \in Emails : <<e, req[t].code>> \notin posted
      BY <1>1, <2>1, <3>1, Writers DEF OwnCode
    <3>3. IsFiniteSet(teams \cup {RowOf(t)})
      BY <1>1, FS_AddElement
    <3>4. RowOf(t).code = req[t].code
      BY DEF RowOf
    <3> QED BY <1>1, <2>1, <3>2, <3>3, <3>4 DEF InsertRow
  <2>2. CASE ~ (Runs(t, "insert", "subscribe") /\ InsertRow(t))
    BY <1>1, <1>3, <2>2 DEF Writes, ConfirmRow, TokenRow, PasswordRow, PostLetter
  <2> QED BY <2>1, <2>2
<1>4. ASSUME NEW t \in Workers, Writes(t), NEW c \in Codes, IsMailed(c)
      PROVE  IsMailed(c)' /\ (~ Unconfirmed(c) => ~ Unconfirmed(c)')
  BY <1>3, <1>4 DEF IsMailed, Unconfirmed
<1>5. ASSUME NEW t \in Workers, Writes(t), NEW e \in Emails, Registered(e)
      PROVE  Registered(e)'
  BY <1>3, <1>5 DEF Registered
<1> QED BY <1>1, <1>2, <1>3, <1>4, <1>5, Shape

\* Letters that were not sent are not forgotten.
LEMMA UndeliveredGrows ==
    ASSUME Next
    PROVE  undelivered \subseteq undelivered'
BY DEF table, cache, worker, history, Next, Progress, Fault, TokenAges, Expire, Restart,
   Receive, Subscribe, ConfirmLink, InitReset, ResetLink, Start, Work, LookUpSpam,
   CountTeams, KeepCount, LookUpTaken, FindDuplicates, KeepDuplicates, Insert, Inserted,
   SendMail, LookUpKey, Confirm, KeepKey, SetToken, SetPassword, StrayRuns, Reply, Fails, LoseReply,
   DbError, MailFails, MailEscapes

\* A worker that a step leaves alone remembers what is still so.
LEMMA Untouched ==
    ASSUME RegistrationInductive, Next, NEW t \in Workers,
           pc'[t] = pc[t], req'[t] = req[t], hit'[t] = hit[t], yes'[t] = yes[t],
           res'[t] = res[t], t \in broken => t \in broken'
    PROVE  Places(t)' /\ Remembers(t)'
<1>1. TypeOK /\ Places(t) /\ Remembers(t) /\ CodesOK
  BY DEF RegistrationInductive
<1>2. Places(t)'
  BY <1>1 DEF Places
<1>3. teams \subseteq teams' /\ posted \subseteq posted' /\ RowOf(t)' = RowOf(t)
  BY TableGrows DEF RowOf
<1>4. Clashes(t) \subseteq Clashes(t)'
  BY <1>3 DEF Clashes
<1>5. pc[t] = "mail" => (Registered(req[t].email) => Registered(req[t].email)')
  BY <1>3 DEF Registered
<1>6. pc[t] = "keepkey" \/ res[t] = "ko" =>
        (~ Unconfirmed(req[t].code) => ~ Unconfirmed(req[t].code)')
  <2>1. pc[t] = "keepkey" \/ res[t] = "ko" => req[t] # None /\ req[t].kind = "confirm"
    BY <1>1 DEF Places, TypeOK
  <2>2. req[t] # None /\ req[t].kind = "confirm" => req[t].code \in Codes /\ IsMailed(req[t].code)
    BY <1>1 DEF TypeOK, Requests, CodesOK, Draws
  <2>3. \A c \in Codes : IsMailed(c) /\ ~ Unconfirmed(c) => ~ Unconfirmed(c)'
    BY TableGrows
  <2>4. Unconfirmed(req[t].code)' <=> req[t].code \notin confirmed' /\ \E r \in teams' : r.code = req[t].code
    BY DEF Unconfirmed
  <2> QED BY <2>1, <2>2, <2>3, <2>4 DEF Unconfirmed
<1>7. Remembers(t)'
  BY <1>1, <1>3, <1>4, <1>5, <1>6, UndeliveredGrows DEF Remembers
<1> QED BY <1>2, <1>7

\* The requests stay where they can be.
LEMMA PlacesStep ==
    ASSUME RegistrationInductive, Next
    PROVE  \A t \in Workers : Places(t)'
<1> USE DEF TypeOK, table, cache, worker, history, Goto, Answer, Places
<1>0. TypeOK /\ \A t \in Workers : Places(t)
  BY DEF RegistrationInductive
<1>1. ASSUME NEW t \in Workers, Receive(t) PROVE \A u \in Workers : Places(u)'
  <2>1. PICK q, l : /\ Start(t, q, l) /\ q # None
                    /\ \/ l = "spam" /\ q.kind = "subscribe"
                       \/ l = "key" /\ q.kind = "confirm"
                       \/ l = "token" /\ q.kind = "init"
                       \/ l = "password" /\ q.kind = "reset"
    <3>1. CASE Subscribe(t)
      BY <1>0, <3>1 DEF Subscribe, Requests
    <3>2. CASE InitReset(t)
      BY <1>0, <3>2 DEF InitReset, Requests
    <3>3. CASE ConfirmLink(t)
      BY <1>0, <3>3, MailedCodes DEF ConfirmLink, Requests
    <3>4. CASE ResetLink(t)
      BY <1>0, <3>4, MailedCodes DEF ResetLink, Requests
    <3> QED BY <1>1, <3>1, <3>2, <3>3, <3>4 DEF Receive
  <2> QED BY <1>0, <2>1 DEF Start
<1>2. ASSUME NEW t \in Workers, Work(t) PROVE \A u \in Workers : Places(u)'
  <2>1. CASE LookUpSpam(t)
    BY <1>0, <2>1 DEF LookUpSpam
  <2>2. CASE CountTeams(t)
    BY <1>0, <2>2 DEF CountTeams
  <2>3. CASE KeepCount(t)
    BY <1>0, <2>3 DEF KeepCount
  <2>4. CASE LookUpTaken(t)
    BY <1>0, <2>4 DEF LookUpTaken
  <2>5. CASE FindDuplicates(t)
    BY <1>0, <2>5 DEF FindDuplicates
  <2>6. CASE KeepDuplicates(t)
    BY <1>0, <2>6 DEF KeepDuplicates
  <2>7. CASE Insert(t)
    BY <1>0, <2>7 DEF Insert
  <2>8. CASE Inserted(t)
    BY <1>0, <2>8 DEF Inserted
  <2>9. CASE SendMail(t)
    BY <1>0, <2>9 DEF SendMail
  <2>10. CASE LookUpKey(t)
    BY <1>0, <2>10 DEF LookUpKey
  <2>11. CASE Confirm(t)
    BY <1>0, <2>11 DEF Confirm
  <2>12. CASE KeepKey(t)
    BY <1>0, <2>12 DEF KeepKey
  <2>13. CASE SetToken(t)
    BY <1>0, <2>13 DEF SetToken
  <2>14. CASE SetPassword(t)
    BY <1>0, <2>14 DEF SetPassword
  <2>15. CASE Reply(t)
    BY <1>0, <2>15 DEF Reply
  <2>16. CASE StrayRuns(t)
    BY <1>0, <2>16 DEF StrayRuns
  <2> QED BY <1>2, <2>1, <2>2, <2>3, <2>4, <2>5, <2>6, <2>7, <2>8, <2>9, <2>10, <2>11,
         <2>12, <2>13, <2>14, <2>15, <2>16 DEF Work
<1>3. ASSUME NEW t \in Workers, Fails(t) PROVE \A u \in Workers : Places(u)'
  <2>1. CASE LoseReply(t)
    BY <1>0, <2>1 DEF LoseReply
  <2>2. CASE DbError(t)
    BY <1>0, <2>2 DEF DbError
  <2>3. CASE MailFails(t)
    BY <1>0, <2>3 DEF MailFails
  <2>4. CASE MailEscapes(t)
    BY <1>0, <2>4 DEF MailEscapes
  <2> QED BY <1>3, <2>1, <2>2, <2>3, <2>4 DEF Fails
<1>4. CASE TokenAges \/ Expire
  BY <1>0, <1>4 DEF TokenAges, Expire
<1>5. CASE Restart
  BY <1>0, <1>5 DEF Restart, Writing
<1> QED BY <1>1, <1>2, <1>3, <1>4, <1>5 DEF Next, Progress, Fault

\* Nothing a worker is at depends on a thing it did before the request.
LEMMA Fresh ==
    ASSUME NEW t \in Workers, res'[t] = None, pc'[t] \notin {"mail", "keepkey", "stray"},
           pc'[t] = "keepduplicates" => hit'[t] = NoRow, ~ yes'[t] \/ pc'[t] # "inserted"
    PROVE  Remembers(t)'
BY DEF Remembers

\* What the worker that takes a step remembers is so.
LEMMA WorkerRemembers ==
    ASSUME RegistrationInductive, Next, NEW t \in Workers, Work(t)
    PROVE  Remembers(t)'
<1> USE DEF table, cache, worker, history, Goto, Answer
<1>1. /\ TypeOK /\ Places(t) /\ Remembers(t) /\ KeysOK
      /\ req'[t] = req[t] => RowOf(t)' = RowOf(t)
  BY DEF RegistrationInductive, RowOf
<1>2. pc[t] # "reply" => res[t] = None
  BY <1>1 DEF Places
<1>3. CASE LookUpSpam(t) \/ CountTeams(t) \/ KeepCount(t)
  BY <1>1, <1>2, <1>3 DEF LookUpSpam, CountTeams, KeepCount, Remembers, TypeOK
<1>4. CASE LookUpTaken(t)
  <2>1. req[t].kind = "subscribe" /\ req[t].name \in Names /\ req[t].email \in Emails
          /\ UNCHANGED <<teams, req>>
    BY <1>1, <1>4 DEF LookUpTaken, Places, TypeOK, Requests
  <2>2. CASE taken \cap {req[t].name, req[t].email} # {}
    <3>1. PICK r \in teams : {r.name, r.email} \cap {req[t].name, req[t].email} # {}
      BY <1>1, <2>2 DEF KeysOK
    <3>2. r.name \in Names /\ r.email \in Emails
      BY <1>1 DEF TypeOK, Rows
    <3>3. r \in Clashes(t)
      BY <2>1, <3>1, <3>2 DEF Clashes
    <3>4. Clashes(t)' # {}
      BY <2>1, <3>3 DEF Clashes
    <3> QED BY <1>1, <1>4, <2>2, <3>4 DEF LookUpTaken, Remembers, TypeOK
  <2>3. CASE taken \cap {req[t].name, req[t].email} = {}
    BY <1>1, <1>2, <1>4, <2>3 DEF LookUpTaken, Remembers, TypeOK
  <2> QED BY <2>2, <2>3
<1>5. CASE FindDuplicates(t)
  <2>1. hit'[t] # NoRow => hit'[t] \in Clashes(t)
    BY <1>1, <1>5 DEF FindDuplicates, TypeOK
  <2>2. Clashes(t)' = Clashes(t)
    BY <1>5 DEF FindDuplicates, Clashes
  <2> QED BY <1>1, <1>2, <1>5, <2>1, <2>2 DEF FindDuplicates, Remembers, TypeOK
<1>6. CASE KeepDuplicates(t)
  <2>1. hit[t] # NoRow => Clashes(t)' # {}
    BY <1>1, <1>6 DEF KeepDuplicates, Remembers, Clashes
  <2> QED BY <1>1, <1>2, <1>6, <2>1 DEF KeepDuplicates, Remembers, TypeOK
<1>7. CASE Insert(t)
  <2>1. yes'[t] => RowOf(t) \in teams'
    BY <1>1, <1>7 DEF Insert, InsertRow, TypeOK
  <2> QED BY <1>1, <1>2, <1>7, <2>1 DEF Insert, Remembers, TypeOK
<1>8. CASE Inserted(t)
  <2>1. req[t].kind = "subscribe" /\ UNCHANGED <<teams, req>>
    BY <1>1, <1>8 DEF Inserted, Places
  <2>2. yes[t] => RowOf(t) \in teams /\ Registered(req[t].email)
    <3>1. RowOf(t).email = req[t].email
      BY DEF RowOf
    <3> QED BY <1>1, <1>8, <3>1 DEF Inserted, Remembers, Registered
  <2>3. Registered(req[t].email) => Registered(req[t].email)'
    BY <2>1 DEF Registered
  <2> QED BY <1>1, <1>2, <1>8, <2>1, <2>2, <2>3 DEF Inserted, Remembers, TypeOK
<1>9. CASE SendMail(t)
  BY <1>1, <1>9 DEF SendMail, PostLetter, Remembers, TypeOK
<1>10. CASE LookUpKey(t)
  <2>1. req[t].code \in tried => ~ Unconfirmed(req[t].code)'
    BY <1>1, <1>10 DEF LookUpKey, KeysOK, Unconfirmed
  <2> QED BY <1>1, <1>2, <1>10, <2>1 DEF LookUpKey, Remembers, TypeOK
<1>11. CASE Confirm(t)
  <2>1. ~ Unconfirmed(req[t].code)'
    BY <1>11 DEF Confirm, ConfirmRow, Unconfirmed
  <2> QED BY <1>1, <1>2, <1>11, <2>1 DEF Confirm, Remembers, TypeOK
<1>12. CASE KeepKey(t)
  <2>1. ~ Unconfirmed(req[t].code)'
    BY <1>1, <1>12 DEF KeepKey, Remembers, Unconfirmed
  <2> QED BY <1>1, <1>12, <2>1 DEF KeepKey, Remembers, TypeOK
<1>13. CASE SetToken(t)
  <2>1. req[t].kind = "init" /\ UNCHANGED <<teams, req>>
    BY <1>1, <1>13 DEF SetToken, TokenRow, Places
  <2>2. Registered(req[t].email) => Registered(req[t].email)'
    BY <2>1 DEF Registered
  <2> QED BY <1>1, <1>2, <1>13, <2>1, <2>2 DEF SetToken, Remembers, TypeOK
<1>14. CASE SetPassword(t)
  BY <1>1, <1>14 DEF SetPassword, Places, Remembers, TypeOK
<1>15. CASE Reply(t)
  BY <1>1, <1>15 DEF Reply, Remembers, TypeOK
<1>16. CASE StrayRuns(t)
  BY <1>1, <1>16 DEF StrayRuns, Remembers, TypeOK
<1> QED BY <1>3, <1>4, <1>5, <1>6, <1>7, <1>8, <1>9, <1>10, <1>11, <1>12, <1>13, <1>14,
       <1>15, <1>16 DEF Work

\* What the workers remember is so.
LEMMA RemembersStep ==
    ASSUME RegistrationInductive, Next
    PROVE  \A t \in Workers : Remembers(t)'
<1> USE DEF table, cache, worker, history, Goto, Answer
<1>0. TypeOK /\ \A t \in Workers : Places(t) /\ Remembers(t)
  BY DEF RegistrationInductive
<1> DEFINE Alone(t) ==
             \A u \in Workers \ {t} :
               /\ pc'[u] = pc[u] /\ req'[u] = req[u] /\ hit'[u] = hit[u]
               /\ yes'[u] = yes[u] /\ res'[u] = res[u] /\ (u \in broken => u \in broken')
<1>1. ASSUME NEW t \in Workers, Receive(t) PROVE Alone(t) /\ Remembers(t)'
  <2>1. PICK q, l : Start(t, q, l) /\ l \in {"spam", "key", "token", "password"}
    BY <1>1 DEF Receive, Subscribe, ConfirmLink, InitReset, ResetLink
  <2>2. Alone(t)
    BY <1>0, <2>1 DEF Start, TypeOK
  <2>3. res'[t] = None /\ pc'[t] = l
    BY <1>0, <2>1 DEF Start, TypeOK, Places
  <2> QED BY <2>1, <2>2, <2>3, Fresh
<1>2. ASSUME NEW t \in Workers, Work(t) PROVE Alone(t) /\ Remembers(t)'
  <2>1. Alone(t)
    BY <1>0, <1>2 DEF Work, TypeOK, LookUpSpam, CountTeams, KeepCount, LookUpTaken,
         FindDuplicates, KeepDuplicates, Insert, Inserted, SendMail, LookUpKey, Confirm,
         KeepKey, SetToken, SetPassword, StrayRuns, Reply
  <2> QED BY <1>2, <2>1, WorkerRemembers
<1>3. ASSUME NEW t \in Workers, Fails(t), ~ LoseReply(t) PROVE Alone(t) /\ Remembers(t)'
  <2>1. Alone(t)
    BY <1>0, <1>3 DEF Fails, TypeOK, DbError, MailFails, MailEscapes
  <2>2. CASE DbError(t)
    BY <1>0, <2>2 DEF DbError, Places, Remembers, TypeOK
  <2>3. CASE MailFails(t) \/ MailEscapes(t)
    BY <1>0, <2>3 DEF MailFails, MailEscapes, Remembers, TypeOK
  <2> QED BY <1>3, <2>1, <2>2, <2>3 DEF Fails
<1>4. ASSUME NEW t \in Workers, LoseReply(t) \/ TokenAges \/ Expire,
             NEW u \in Workers
      PROVE  Remembers(u)'
  <2>1. UNCHANGED <<pc, req, hit, yes, res, broken>>
    BY <1>4 DEF LoseReply, TokenAges, Expire
  <2> QED BY <2>1, Untouched
<1>5. ASSUME Restart, NEW t \in Workers PROVE Remembers(t)'
  <2>1. res'[t] = None /\ hit'[t] = NoRow /\ ~ yes'[t]
    BY <1>5 DEF Restart
  <2>2. CASE pc'[t] = "idle"
    BY <2>1, <2>2, Fresh
  <2>3. CASE pc'[t] = "stray" /\ req'[t] = req[t] /\ pc[t] \in Writing \cup {"stray"}
    <3>1. req[t].kind = "init" => req[t].code \in undelivered'
      <4>1. req[t].kind = "init" => pc[t] = "token" \/ pc[t] = "stray"
        BY <1>0, <2>3 DEF Writing, Places
      <4>2. pc[t] = "token" => req[t].code \in undelivered'
        BY <1>5 DEF Restart
      <4>3. pc[t] = "stray" /\ req[t].kind = "init" => req[t].code \in undelivered'
        BY <1>0, UndeliveredGrows DEF Remembers
      <4> QED BY <4>1, <4>2, <4>3
    <3> QED BY <2>1, <2>3, <3>1 DEF Remembers
  <2> QED BY <1>5, <2>2, <2>3 DEF Restart
<1>6. ASSUME NEW t \in Workers, Alone(t), Remembers(t)', NEW u \in Workers
      PROVE  Remembers(u)'
  BY <1>6, Untouched
<1> QED BY <1>1, <1>2, <1>3, <1>4, <1>5, <1>6 DEF Next, Progress, Fault, Fails
-----------------------------------------------------------------------------
(* The cache, and the tokens.                                              *)

\* What is put into the cache is so; all else leaves it.
LEMMA KeysStep ==
    ASSUME RegistrationInductive, Next
    PROVE  KeysOK'
<1> USE DEF table, cache, worker, history, Goto, Answer
<1>1. /\ TypeOK /\ KeysOK /\ CodesOK /\ \A t \in Workers : Places(t) /\ Remembers(t)
      /\ teams \subseteq teams'
      /\ \A c \in Codes : IsMailed(c) =>
           IsMailed(c)' /\ (~ Unconfirmed(c) => ~ Unconfirmed(c)')
  BY TableGrows DEF RegistrationInductive
<1>2. \A x \in taken' : x \in taken \/ \E r \in teams : x \in {r.name, r.email}
  <2>1. ASSUME NEW t \in Workers, KeepDuplicates(t), NEW x \in taken', x \notin taken
        PROVE  \E r \in teams : x \in {r.name, r.email}
    BY <1>1, <2>1 DEF KeepDuplicates, Remembers, Clashes
  <2>2. ASSUME NEW t \in Workers, Receive(t) \/ (Work(t) /\ ~ KeepDuplicates(t)) \/ Fails(t)
        PROVE  taken' \subseteq taken
    BY <2>2 DEF Receive, Subscribe, ConfirmLink, InitReset, ResetLink, Start, Work, LookUpSpam,
       CountTeams, KeepCount, LookUpTaken, FindDuplicates, Insert, Inserted, SendMail,
       LookUpKey, Confirm, KeepKey, SetToken, SetPassword, StrayRuns, Reply, Fails, LoseReply, DbError,
       MailFails, MailEscapes
  <2>3. TokenAges \/ Expire \/ Restart => taken' \subseteq taken
    BY DEF TokenAges, Expire, Restart
  <2> QED BY <2>1, <2>2, <2>3 DEF Next, Progress, Fault
<1>3. \A c \in tried' : c \in tried \/ (c \in Codes /\ IsMailed(c) /\ ~ Unconfirmed(c))
  <2>1. ASSUME NEW t \in Workers, KeepKey(t), NEW c \in tried', c \notin tried
        PROVE  c \in Codes /\ IsMailed(c) /\ ~ Unconfirmed(c)
    <3>1. c = req[t].code /\ req[t] # None /\ req[t].kind = "confirm"
      BY <1>1, <2>1 DEF KeepKey, Places, TypeOK
    <3>2. c \in Codes /\ IsMailed(c)
      BY <1>1, <3>1 DEF TypeOK, Requests, CodesOK, Draws
    <3>3. ~ Unconfirmed(c)
      BY <1>1, <2>1, <3>1 DEF KeepKey, Remembers
    <3> QED BY <3>2, <3>3
  <2>2. ASSUME NEW t \in Workers, Receive(t) \/ (Work(t) /\ ~ KeepKey(t)) \/ Fails(t)
        PROVE  tried' \subseteq tried
    BY <2>2 DEF Receive, Subscribe, ConfirmLink, InitReset, ResetLink, Start, Work, LookUpSpam,
       CountTeams, KeepCount, LookUpTaken, FindDuplicates, KeepDuplicates, Insert, Inserted,
       SendMail, LookUpKey, Confirm, SetToken, SetPassword, StrayRuns, Reply, Fails, LoseReply, DbError,
       MailFails, MailEscapes
  <2>3. TokenAges \/ Expire \/ Restart => tried' \subseteq tried
    BY DEF TokenAges, Expire, Restart
  <2> QED BY <2>1, <2>2, <2>3 DEF Next, Progress, Fault
<1>4. \A x \in taken' : \E r \in teams' : x \in {r.name, r.email}
  BY <1>1, <1>2 DEF KeysOK
<1>5. \A c \in tried' : c \in Codes /\ IsMailed(c) /\ ~ Unconfirmed(c)
  BY <1>1, <1>3 DEF KeysOK, TypeOK
<1>6. \A c \in tried' : IsMailed(c)' /\ ~ Unconfirmed(c)'
  BY <1>1, <1>5
<1> QED BY <1>4, <1>6 DEF KeysOK

\* A request for a token ends with its letter taken or known not to be sent, or with
\* no team to send it to.
LEMMA LetterFollows ==
    ASSUME RegistrationInductive, Next, NEW t \in Workers,
           pc[t] \in {"token", "mail"}, req[t].kind = "init", Registered(req[t].email)
    PROVE  \/ <<req[t].email, req[t].code>> \in posted'
           \/ req[t].code \in undelivered'
           \/ pc'[t] \in {"token", "mail"} /\ req'[t] = req[t]
<1> USE DEF table, cache, worker, history, Goto, Answer
<1>1. TypeOK
  BY DEF RegistrationInductive
<1>2. ASSUME NEW u \in Workers, Receive(u) \/ Work(u) \/ Fails(u), u # t
      PROVE  pc'[t] = pc[t] /\ req'[t] = req[t]
  BY <1>1, <1>2 DEF Receive, Subscribe, ConfirmLink, InitReset, ResetLink, Start, Work, LookUpSpam,
       CountTeams, KeepCount, LookUpTaken, FindDuplicates, KeepDuplicates, Insert, Inserted,
       SendMail, LookUpKey, Confirm, KeepKey, SetToken, SetPassword, StrayRuns, Reply, Fails, LoseReply,
       DbError, MailFails, MailEscapes, TypeOK
<1>3. CASE Receive(t)
  BY <1>3 DEF Receive, Subscribe, ConfirmLink, InitReset, ResetLink, Start
<1>4. CASE Work(t)
  <2>1. CASE SetToken(t)
    BY <1>1, <2>1 DEF SetToken, TypeOK
  <2>2. CASE SendMail(t)
    BY <2>2 DEF SendMail, PostLetter
  <2> QED BY <1>4, <2>1, <2>2 DEF Work, LookUpSpam,
       CountTeams, KeepCount, LookUpTaken, FindDuplicates, KeepDuplicates, Insert, Inserted,
       LookUpKey, Confirm, KeepKey, SetPassword, StrayRuns, Reply
<1>5. CASE Fails(t)
  BY <1>5 DEF Fails, LoseReply, DbError, MailFails, MailEscapes, PostLetter
<1>6. CASE TokenAges \/ Expire
  BY <1>6 DEF TokenAges, Expire
<1>7. CASE Restart
  BY <1>7 DEF Restart
<1> QED BY <1>2, <1>3, <1>4, <1>5, <1>6, <1>7 DEF Next, Progress, Fault

\* A token was mailed, or will be.
LEMMA TokenStep ==
    ASSUME RegistrationInductive, Next
    PROVE  ValidTokenMailed'
<1>1. TypeOK /\ CodesOK /\ ValidTokenMailed /\ \A t \in Workers : Places(t) /\ Remembers(t)
  BY DEF RegistrationInductive
<1> SUFFICES ASSUME NEW e \in Emails, token'[e] # None
             PROVE  \/ <<e, token'[e]>> \in posted'
                    \/ token'[e] \in undelivered'
                    \/ \E t \in Workers : pc'[t] \in {"token", "mail"} /\ req'[t].kind = "init"
                                /\ req'[t].code = token'[e] /\ req'[t].email = e
  BY DEF ValidTokenMailed
<1>2. ASSUME NEW t \in Workers, pc[t] \in {"token", "mail"}, req[t].kind = "init",
             req[t].code = token'[e], req[t].email = e, Registered(e)
      PROVE  \/ <<e, token'[e]>> \in posted'
             \/ token'[e] \in undelivered'
             \/ \E u \in Workers : pc'[u] \in {"token", "mail"} /\ req'[u].kind = "init"
                                /\ req'[u].code = token'[e] /\ req'[u].email = e
  <2>1. \/ <<req[t].email, req[t].code>> \in posted'
        \/ req[t].code \in undelivered'
        \/ pc'[t] \in {"token", "mail"} /\ req'[t] = req[t]
    BY <1>2, LetterFollows
  <2> QED BY <1>2, <2>1
<1>3. CASE token'[e] = token[e]
  <2>1. Registered(e)
    BY <1>1, <1>3 DEF CodesOK
  <2>2. posted \subseteq posted' /\ undelivered \subseteq undelivered'
    BY TableGrows, UndeliveredGrows
  <2>3. \/ <<e, token[e]>> \in posted
        \/ token[e] \in undelivered
        \/ \E t \in Workers : pc[t] \in {"token", "mail"} /\ req[t].kind = "init"
                                /\ req[t].code = token[e] /\ req[t].email = e
    BY <1>1, <1>3 DEF ValidTokenMailed
  <2> QED BY <1>2, <1>3, <2>1, <2>2, <2>3
<1>4. CASE token'[e] # token[e]
  <2>1. PICK t \in Workers : Runs(t, "token", "init") /\ TokenRow(t)
    <3>1. PICK t \in Workers : Writes(t)
      BY <1>1, <1>4, Shape DEF TableStays
    <3>2. ~ (Runs(t, "password", "reset") /\ PasswordRow(t))
      BY <1>1, <1>4 DEF PasswordRow, TypeOK
    <3> QED BY <1>4, <3>1, <3>2 DEF Writes, InsertRow, ConfirmRow
  <2>2. token'[e] = req[t].code /\ e = req[t].email /\ Registered(e)
    BY <1>1, <1>4, <2>1 DEF TokenRow, TypeOK
  <2>3. req[t].kind = "init"
    BY <1>1, <2>1, Writers
  <2>4. CASE pc[t] = "token"
    BY <1>2, <2>2, <2>3, <2>4
  <2>5. CASE pc[t] = "stray"
    <3>1. req[t].code \in undelivered
      BY <1>1, <2>3, <2>5 DEF Remembers
    <3> QED BY <2>2, <3>1, UndeliveredGrows
  <2> QED BY <2>1, <2>4, <2>5 DEF Runs
<1> QED BY <1>3, <1>4
-----------------------------------------------------------------------------
(* The limit of teams for an IP address.                                   *)

\* A worker moves that registers nothing.
LEMMA AddressAlone ==
    ASSUME NEW ip \in Addresses, AddressOK(ip), UNCHANGED teams, NEW t \in Workers,
           \A u \in Workers \ {t} : pc'[u] = pc[u] /\ req'[u] = req[u] /\ yes'[u] = yes[u],
           At(t, ip)' => At(t, ip) /\ Limited(t, ip)',
           spam'[ip] = "f" => spam[ip] = "f" \/ (At(t, ip) /\ Cardinality(From(ip)) <= MaxTeams),
           pc'[t] # "stray",
           At(t, ip) /\ Inserting(t) /\ spam'[ip] = "f" => At(t, ip)' /\ Inserting(t)'
    PROVE  AddressOK(ip)'
<1>1. From(ip)' = From(ip)
  BY DEF From
<1>2. \A u \in Workers \ {t} : (At(u, ip)' <=> At(u, ip)) /\ (Inserting(u)' <=> Inserting(u))
  BY DEF At, Subscribing, Inserting
<1>3. \A u \in Workers : At(u, ip)' => At(u, ip)
  BY <1>2
<1>4. \A u \in Workers \ {t} : Limited(u, ip) => Limited(u, ip)'
  BY <1>1 DEF Limited, RowOf
<1>5. \A u \in Workers : At(u, ip)' => Limited(u, ip)'
  BY <1>3, <1>4 DEF AddressOK
<1>6. spam'[ip] = "f" =>
        \/ Cardinality(From(ip)) <= MaxTeams
        \/ \E u \in Workers : At(u, ip)' /\ Inserting(u)'
  BY <1>2 DEF AddressOK
<1>7. \A u \in Workers : At(u, ip)' /\ pc'[u] = "stray" => spam'[ip] # "f"
  BY <1>3 DEF AddressOK
<1> QED BY <1>1, <1>3, <1>5, <1>6, <1>7 DEF AddressOK

\* A row is inserted: the limit may be passed, by one.
LEMMA AddressInsert ==
    ASSUME RegistrationInductive, NEW ip \in Addresses, AddressOK(ip), NEW t \in Workers,
           Runs(t, "insert", "subscribe"), InsertRow(t), UNCHANGED <<req, spam>>,
           \A u \in Workers \ {t} : pc'[u] = pc[u] /\ yes'[u] = yes[u],
           \/ pc[t] = "insert" /\ pc'[t] \in {"insert", "inserted"}
           \/ pc[t] = "stray" /\ pc'[t] = "reply"
    PROVE  AddressOK(ip)'
<1>1. Subscribing(t) /\ RowOf(t).ip = req[t].ip /\ TypeOK /\ RowOf(t)' = RowOf(t)
  BY Writers DEF RegistrationInductive, Draws, Subscribing, RowOf
<1>2. \A u \in Workers : At(u, ip)' <=> At(u, ip)
  BY DEF At, Subscribing
<1>3. \A u \in Workers : Inserting(u)' <=> Inserting(u)
  BY <1>1 DEF Inserting, TypeOK
<1>4. CASE req[t].ip = ip /\ Clashes(t) = {}
  <2>1. At(t, ip) /\ \A u \in Workers : At(u, ip) => u = t
    BY <1>1, <1>4 DEF At, AddressOK
  <2>2. IsFiniteSet(From(ip)) /\ Cardinality(From(ip)) \in Nat
    <3>1. IsFiniteSet(teams)
      BY DEF RegistrationInductive
    <3> QED BY <3>1, FS_Subset, FS_CardinalityType DEF From
  <2>3. RowOf(t) \notin teams /\ RowOf(t) \in teams' /\ From(ip)' = From(ip) \cup {RowOf(t)}
    <3>1. RowOf(t).name = req[t].name
      BY DEF RowOf
    <3> QED BY <1>1, <1>4, <3>1 DEF InsertRow, Clashes, From
  <2>4. Cardinality(From(ip)) <= MaxTeams
    BY <2>1, <2>3 DEF AddressOK, Limited
  <2>5. Cardinality(From(ip)') <= MaxTeams + 1
    <3>1. Cardinality(From(ip) \cup {RowOf(t)}) <= Cardinality(From(ip)) + 1
      <4> HIDE DEF From, RowOf
      <4>1. \/ Cardinality(From(ip) \cup {RowOf(t)}) = Cardinality(From(ip))
            \/ Cardinality(From(ip) \cup {RowOf(t)}) = Cardinality(From(ip)) + 1
        BY <2>2, FS_AddElement
      <4> QED BY <2>2, <4>1
    <3>2. Cardinality(From(ip) \cup {RowOf(t)}) \in Nat
      BY <2>2, FS_AddElement, FS_CardinalityType
    <3> HIDE DEF From
    <3> QED BY <2>2, <2>3, <2>4, <3>1, <3>2
  <2>6. spam'[ip] = "f" => At(t, ip)' /\ Inserting(t)'
    BY <1>2, <2>1 DEF Inserting, AddressOK
  <2>7. Limited(t, ip)'
    BY <1>1, <2>3 DEF Limited, TypeOK
  <2>8. \A u \in Workers : At(u, ip)' => pc'[u] # "stray"
    BY <1>2, <2>1
  <2> QED BY <1>2, <2>1, <2>5, <2>6, <2>7, <2>8 DEF AddressOK
<1>5. CASE req[t].ip # ip \/ Clashes(t) # {}
  <2>1. From(ip)' = From(ip)
    BY <1>1, <1>5 DEF From, InsertRow
  <2>2. teams \subseteq teams'
    BY DEF InsertRow
  <2>3. \A u \in Workers : At(u, ip) /\ Limited(u, ip) => Limited(u, ip)'
    <3> SUFFICES ASSUME NEW u \in Workers, At(u, ip), Limited(u, ip)
                 PROVE  Limited(u, ip)'
      OBVIOUS
    <3>1. RowOf(u)' = RowOf(u)
      BY DEF RowOf
    <3>2. \/ u # t /\ pc'[u] = pc[u] /\ yes'[u] = yes[u]
          \/ u = t /\ pc'[u] = "inserted"
          \/ u = t /\ pc'[u] = "insert" /\ pc[u] = "insert"
          \/ u = t /\ pc'[u] = "reply"
      OBVIOUS
    <3> QED BY <2>1, <2>2, <3>1, <3>2 DEF Limited
  <2>4. \A u \in Workers : pc'[u] = "stray" => pc[u] = "stray"
    OBVIOUS
  <2> QED BY <1>2, <1>3, <2>1, <2>3, <2>4 DEF AddressOK
<1> QED BY <1>4, <1>5

\* Addresses that registered twice at the same time stay what they are.
LEMMA CrowdedGrows ==
    ASSUME Next
    PROVE  crowded \subseteq crowded'
BY DEF table, cache, worker, history, Next, Progress, Fault, TokenAges, Expire, Restart,
   Receive, Subscribe, ConfirmLink, InitReset, ResetLink, Start, Work, LookUpSpam,
   CountTeams, KeepCount, LookUpTaken, FindDuplicates, KeepDuplicates, Insert, Inserted,
   SendMail, LookUpKey, Confirm, KeepKey, SetToken, SetPassword, StrayRuns, Reply, Fails, LoseReply,
   DbError, MailFails, MailEscapes

\* Every step keeps the limit of an address that registers one team at a time.
LEMMA AddressStep ==
    ASSUME RegistrationInductive, Next, NEW ip \in Addresses \ crowded'
    PROVE  AddressOK(ip)'
<1> USE DEF table, cache, worker, history, Goto, Answer
<1>1. /\ TypeOK /\ AddressOK(ip) /\ \A t \in Workers : Places(t)
      /\ Cardinality(From(ip)) \in Nat
  <2>1. IsFiniteSet(From(ip))
    BY FS_Subset DEF RegistrationInductive, From
  <2> QED BY <2>1, FS_CardinalityType, CrowdedGrows DEF RegistrationInductive
<1> DEFINE Alone(t) ==
             \A u \in Workers \ {t} : pc'[u] = pc[u] /\ req'[u] = req[u] /\ yes'[u] = yes[u]
           Moves(t) ==
             /\ UNCHANGED teams /\ Alone(t)
             /\ At(t, ip)' => At(t, ip) /\ Limited(t, ip)'
             /\ spam'[ip] = "f" =>
                  spam[ip] = "f" \/ (At(t, ip) /\ Cardinality(From(ip)) <= MaxTeams)
             /\ pc'[t] # "stray"
             /\ At(t, ip) /\ Inserting(t) /\ spam'[ip] = "f" => At(t, ip)' /\ Inserting(t)'
<1>2. ASSUME NEW t \in Workers, Moves(t) PROVE AddressOK(ip)'
  BY <1>1, <1>2, AddressAlone
<1>3. UNCHANGED teams => From(ip)' = From(ip)
  BY DEF From
<1>4. ASSUME NEW t \in Workers, At(t, ip)
      PROVE  Limited(t, ip) /\ \A u \in Workers : At(u, ip) => u = t
  BY <1>1, <1>4 DEF AddressOK
<1>5. ASSUME NEW t \in Workers, Receive(t) PROVE AddressOK(ip)'
  <2>1. UNCHANGED <<teams, spam, yes>> /\ Alone(t) /\ pc[t] = "idle" /\ pc'[t] # "stray"
    BY <1>1, <1>5 DEF Receive, Subscribe, ConfirmLink, InitReset, ResetLink, Start, TypeOK
  <2>2. ~ At(t, ip)
    BY <1>1, <2>1 DEF At, Subscribing, Places
  <2>3. CASE ~ At(t, ip)'
    BY <1>2, <2>1, <2>2, <2>3
  <2>4. CASE At(t, ip)'
    <3>1. Subscribe(t) /\ pc'[t] = "spam"
      <4>1. ~ InitReset(t) /\ ~ ConfirmLink(t) /\ ~ ResetLink(t)
        BY <1>1, <2>4 DEF InitReset, ConfirmLink, ResetLink, Start, At, Subscribing, TypeOK
      <4>2. Subscribe(t)
        BY <1>5, <4>1 DEF Receive
      <4> QED BY <1>1, <4>2 DEF Subscribe, Start, TypeOK
    <3>2. \A u \in Workers : ~ At(u, ip)
      BY <1>1, <2>4, <3>1 DEF Subscribe, Start, At, Subscribing, TypeOK
    <3>3. \A u \in Workers : At(u, ip)' => u = t
      BY <2>1, <3>2 DEF At, Subscribing
    <3>4. Limited(t, ip)'
      BY <3>1 DEF Limited
    <3>5. spam'[ip] = "f" => Cardinality(From(ip)) <= MaxTeams
      BY <1>1, <2>1, <3>2 DEF AddressOK
    <3> QED BY <1>1, <1>3, <2>1, <3>1, <3>3, <3>4, <3>5 DEF AddressOK
  <2> QED BY <2>3, <2>4
<1>6. ASSUME NEW t \in Workers, Work(t) PROVE AddressOK(ip)'
  <2>0. (req'[t] = req[t] => (At(t, ip)' <=> At(t, ip))) /\ pc[t] \in {"idle", "spam", "count",
           "keepcount", "form", "duplicates", "keepduplicates", "insert", "inserted", "mail",
           "key", "confirm", "keepkey", "token", "password", "stray", "reply"}
    BY <1>1 DEF At, Subscribing, TypeOK
  <2>1. CASE LookUpSpam(t)
    <3>1. UNCHANGED <<teams, spam, req>> /\ Alone(t) /\ pc[t] = "spam" /\ pc'[t] # "stray"
      BY <1>1, <2>1 DEF LookUpSpam, TypeOK
    <3>2. At(t, ip) /\ spam[ip] = "f" => Cardinality(From(ip)) <= MaxTeams
      BY <1>1, <1>4, <3>1 DEF AddressOK, Inserting
    <3>3. At(t, ip) => Limited(t, ip)'
      BY <1>1, <1>3, <2>1, <3>1, <3>2 DEF LookUpSpam, Limited, At, TypeOK
    <3>4. ~ Inserting(t)
      BY <3>1 DEF Inserting
    <3> QED BY <1>2, <2>0, <3>1, <3>3, <3>4
  <2>2. CASE CountTeams(t)
    <3>1. UNCHANGED <<teams, spam, req>> /\ Alone(t) /\ pc[t] = "count" /\ pc'[t] # "stray"
      BY <1>1, <2>2 DEF CountTeams, TypeOK
    <3>2. At(t, ip) => Limited(t, ip)'
      <4>1. pc'[t] = "keepcount"
              /\ yes'[t] = (Cardinality(From(req[t].ip)) > MaxTeams)
        BY <1>1, <2>2 DEF CountTeams, TypeOK, From
      <4>2. At(t, ip) => yes'[t] = (Cardinality(From(ip)) > MaxTeams)
        BY <4>1 DEF At
      <4>3. At(t, ip) /\ ~ yes'[t] => Cardinality(From(ip)) <= MaxTeams
        <5>1. ~ (Cardinality(From(ip)) > MaxTeams) => Cardinality(From(ip)) <= MaxTeams
          <6> DEFINE n == Cardinality(From(ip))
          <6>1. n \in Nat /\ MaxTeams \in Nat
            BY <1>1
          <6> HIDE DEF n
          <6>2. ~ (n > MaxTeams) => n <= MaxTeams
            BY <6>1
          <6> QED BY <6>2 DEF n
        <5> QED BY <4>2, <5>1, Zenon
      <4> QED BY <1>3, <3>1, <4>1, <4>3 DEF Limited
    <3>3. ~ Inserting(t)
      BY <3>1 DEF Inserting
    <3> QED BY <1>2, <2>0, <3>1, <3>2, <3>3
  <2>3. CASE KeepCount(t)
    <3>1. UNCHANGED <<teams, req, yes>> /\ Alone(t) /\ pc[t] = "keepcount"
          /\ spam' = [spam EXCEPT ![req[t].ip] = IF yes[t] THEN "t" ELSE "f"]
          /\ (~ yes[t] => pc'[t] = "form") /\ (yes[t] => pc'[t] = "reply")
      BY <1>1, <2>3 DEF KeepCount, TypeOK
    <3>2. At(t, ip) /\ ~ yes[t] => Cardinality(From(ip)) <= MaxTeams
      BY <1>4, <3>1 DEF Limited
    <3>3. At(t, ip) => Limited(t, ip)'
      BY <1>1, <1>3, <3>1, <3>2 DEF Limited, TypeOK
    <3>4. req[t].kind = "subscribe" /\ req[t] # None
      BY <1>1, <3>1 DEF Places, TypeOK
    <3>5. spam'[ip] = "f" => spam[ip] = "f" \/ (At(t, ip) /\ Cardinality(From(ip)) <= MaxTeams)
      BY <1>1, <3>1, <3>2, <3>4 DEF At, Subscribing, TypeOK
    <3>6. ~ Inserting(t)
      BY <3>1 DEF Inserting
    <3> QED BY <1>2, <2>0, <3>1, <3>3, <3>5, <3>6
  <2>4. CASE LookUpTaken(t) \/ FindDuplicates(t) \/ KeepDuplicates(t)
    <3>1. /\ UNCHANGED <<teams, spam, req>> /\ Alone(t)
          /\ pc[t] \in {"form", "duplicates", "keepduplicates"}
          /\ pc'[t] \in {"duplicates", "keepduplicates", "insert", "reply"}
      BY <1>1, <2>4 DEF LookUpTaken, FindDuplicates, KeepDuplicates, TypeOK
    <3>2. At(t, ip) => Cardinality(From(ip)) <= MaxTeams
      BY <1>4, <3>1 DEF Limited
    <3>3. At(t, ip) => Limited(t, ip)'
      BY <1>3, <3>1, <3>2 DEF Limited
    <3>4. ~ Inserting(t)
      BY <3>1 DEF Inserting
    <3> QED BY <1>2, <2>0, <3>1, <3>3, <3>4
  <2>5. CASE Insert(t)
    <3>1. /\ pc[t] = "insert" /\ InsertRow(t) /\ UNCHANGED <<req, spam>>
          /\ \A u \in Workers \ {t} : pc'[u] = pc[u] /\ yes'[u] = yes[u]
          /\ pc'[t] \in {"insert", "inserted"}
      BY <1>1, <2>5 DEF Insert, TypeOK
    <3> QED BY <1>1, <3>1, AddressInsert DEF Runs
  <2>6. CASE Inserted(t)
    <3>1. /\ UNCHANGED <<teams, req, yes>> /\ Alone(t) /\ pc[t] = "inserted"
          /\ pc'[t] \in {"mail", "reply"} /\ spam' = [spam EXCEPT ![req[t].ip] = None]
      BY <1>1, <2>6 DEF Inserted, TypeOK
    <3>2. Limited(t, ip)'
      BY <3>1 DEF Limited
    <3>3. (spam'[ip] = "f" => spam[ip] = "f") /\ (At(t, ip) => spam'[ip] # "f")
      BY <1>1, <3>1 DEF At, TypeOK
    <3> QED BY <1>2, <2>0, <3>1, <3>2, <3>3
  <2>7. CASE \/ SendMail(t) \/ LookUpKey(t) \/ Confirm(t) \/ KeepKey(t)
             \/ SetToken(t) \/ SetPassword(t)
    <3>1. /\ UNCHANGED <<teams, spam, req>> /\ Alone(t) /\ pc[t] \notin {"insert", "inserted"}
          /\ pc'[t] \in {"reply", "confirm", "keepkey", "mail"}
      BY <1>1, <2>7 DEF SendMail, LookUpKey, Confirm, ConfirmRow, KeepKey, SetToken, TokenRow,
         SetPassword, PasswordRow, TypeOK
    <3>2. Limited(t, ip)' /\ ~ Inserting(t)
      BY <3>1 DEF Limited, Inserting
    <3> QED BY <1>2, <2>0, <3>1, <3>2
  <2>8. CASE Reply(t)
    <3>1. /\ UNCHANGED <<teams, spam>> /\ Alone(t) /\ pc[t] = "reply" /\ req'[t] = None
      BY <1>1, <2>8 DEF Reply, TypeOK
    <3>2. ~ At(t, ip)' /\ ~ Inserting(t)
      BY <3>1 DEF At, Subscribing, Inserting
    <3>3. pc'[t] = "idle"
      BY <1>1, <2>8 DEF Reply, TypeOK
    <3> QED BY <1>2, <3>1, <3>2, <3>3
  <2>9. CASE StrayRuns(t)
    <3>1. /\ pc[t] = "stray" /\ pc'[t] = "reply" /\ UNCHANGED <<req, spam, yes>> /\ Alone(t)
      BY <1>1, <2>9 DEF StrayRuns, TypeOK
    <3>2. CASE Runs(t, "insert", "subscribe") /\ InsertRow(t)
      BY <1>1, <3>1, <3>2, AddressInsert
    <3>3. CASE ~ (Runs(t, "insert", "subscribe") /\ InsertRow(t))
      <4>1. UNCHANGED teams
        BY <2>9, <3>1, <3>3 DEF StrayRuns, Statement, Runs, ConfirmRow, TokenRow, PasswordRow
      <4>2. Limited(t, ip)' /\ ~ Inserting(t)
        BY <3>1 DEF Limited, Inserting
      <4> QED BY <1>2, <2>0, <3>1, <4>1, <4>2
    <3> QED BY <3>2, <3>3
  <2> QED BY <1>6, <2>1, <2>2, <2>3, <2>4, <2>5, <2>6, <2>7, <2>8, <2>9 DEF Work
<1>7. ASSUME NEW t \in Workers, Fails(t) PROVE AddressOK(ip)'
  <2>0. UNCHANGED <<spam, req>> /\ (At(t, ip)' <=> At(t, ip))
    BY <1>7 DEF Fails, LoseReply, DbError, MailFails, MailEscapes, At, Subscribing
  <2>1. CASE LoseReply(t)
    <3>1. UNCHANGED <<pc, yes>> /\ pc[t] \in Writing
      BY <2>1 DEF LoseReply
    <3>2. CASE Runs(t, "insert", "subscribe") /\ InsertRow(t)
      <4>1. pc[t] = "insert"
        BY <3>1, <3>2 DEF Runs, Writing
      <4> QED BY <1>1, <2>0, <3>1, <3>2, <4>1, AddressInsert
    <3>3. CASE ~ (Runs(t, "insert", "subscribe") /\ InsertRow(t))
      <4>1. UNCHANGED teams
        BY <1>1, <2>1, <3>1, <3>3, RunsWhat
           DEF LoseReply, Statement, ConfirmRow, TokenRow, PasswordRow
      <4>2. At(t, ip) => Limited(t, ip)'
        BY <1>3, <1>4, <2>0, <3>1, <4>1 DEF Limited, RowOf
      <4>3. (Inserting(t) => Inserting(t)') /\ pc'[t] # "stray"
        BY <3>1 DEF Inserting, Writing
      <4> QED BY <1>2, <2>0, <3>1, <4>1, <4>2, <4>3
    <3> QED BY <3>2, <3>3
  <2>2. CASE DbError(t) \/ MailFails(t) \/ MailEscapes(t)
    <3>1. /\ UNCHANGED teams /\ Alone(t) /\ pc'[t] \in {"reply", "inserted"}
          /\ pc[t] # "inserted" /\ (pc[t] = "insert" => pc'[t] = "inserted")
      BY <1>1, <2>2 DEF DbError, MailFails, MailEscapes, TypeOK
    <3>2. Limited(t, ip)' /\ (Inserting(t) => Inserting(t)')
      BY <3>1 DEF Limited, Inserting
    <3> QED BY <1>2, <2>0, <3>1, <3>2
  <2> QED BY <1>7, <2>1, <2>2 DEF Fails
<1>8. CASE TokenAges
  <2>1. UNCHANGED <<teams, spam, pc, req, yes>>
    BY <1>8 DEF TokenAges
  <2> QED BY <1>1, <1>3, <2>1 DEF AddressOK, At, Subscribing, Inserting, Limited, RowOf
<1>9. CASE Expire
  <2>1. UNCHANGED <<teams, pc, req, yes>> /\ (spam'[ip] = "f" => spam[ip] = "f")
    BY <1>1, <1>9 DEF Expire, TypeOK
  <2> QED BY <1>1, <1>3, <2>1 DEF AddressOK, At, Subscribing, Inserting, Limited, RowOf
<1>10. CASE Restart
  <2>1. /\ UNCHANGED teams /\ spam'[ip] = None
        /\ \A u \in Workers : \/ req'[u] = None
                               \/ /\ req'[u] = req[u] /\ pc'[u] = "stray"
                                  /\ pc[u] \in Writing \cup {"stray"}
    BY <1>10 DEF Restart
  <2>2. \A u \in Workers : At(u, ip)' =>
          At(u, ip) /\ req'[u] = req[u] /\ pc'[u] = "stray" /\ pc[u] \in {"insert", "stray"}
    <3>1. \A u \in Workers : At(u, ip) /\ pc[u] \in Writing => pc[u] = "insert"
      BY <1>1 DEF At, Subscribing, Places, Writing
    <3> QED BY <2>1, <3>1 DEF At, Subscribing
  <2>3. \A u \in Workers : At(u, ip)' => Limited(u, ip)'
    <3> SUFFICES ASSUME NEW u \in Workers, At(u, ip)' PROVE Limited(u, ip)'
      OBVIOUS
    <3>1. Limited(u, ip) /\ RowOf(u)' = RowOf(u)
      BY <1>4, <2>2 DEF RowOf
    <3> QED BY <1>3, <2>1, <2>2, <3>1 DEF Limited
  <2> QED BY <1>1, <1>3, <2>1, <2>2, <2>3 DEF AddressOK
<1> QED BY <1>5, <1>6, <1>7, <1>8, <1>9, <1>10 DEF Next, Progress, Fault
-----------------------------------------------------------------------------
(* The theorems.                                                           *)

\* A step that changes nothing keeps everything.
LEMMA RegistrationStutters ==
    ASSUME RegistrationInductive, UNCHANGED vars
    PROVE  RegistrationInductive'
<1>1. /\ UNCHANGED <<teams, confirmed, token, recent, posted, spam, taken, tried>>
      /\ UNCHANGED <<pc, req, hit, yes, res, issued, spent, crowded, broken, undelivered>>
  BY DEF vars, table, cache, worker, history
<1> USE DEF RegistrationInductive
<1>2. TypeOK' /\ IsFiniteSet(teams)'
  BY <1>1 DEF TypeOK
<1>3. \A t \in Workers : (OwnCode(t) => OwnCode(t)') /\ (Draws(t)' <=> Draws(t))
  BY <1>1 DEF OwnCode, Draws, RowOf
<1>4. CodesOK'
  BY <1>1, <1>3 DEF CodesOK, IsMailed, Registered
<1>5. \A t \in Workers : Places(t)'
  BY <1>1 DEF Places
<1>6. \A t \in Workers : Remembers(t)'
  BY <1>1 DEF Remembers, Clashes, RowOf, Registered, Unconfirmed
<1>7. KeysOK' /\ ValidTokenMailed'
  BY <1>1 DEF KeysOK, ValidTokenMailed, IsMailed, Unconfirmed
<1>8. \A ip \in Addresses \ crowded : AddressOK(ip)'
  BY <1>1 DEF AddressOK, At, Subscribing, Inserting, Limited, From, RowOf
<1> QED BY <1>1, <1>2, <1>4, <1>5, <1>6, <1>7, <1>8

\* main.cpp:90-175, dbcontroller.cpp:21-258.  Where the workers, the cache and the table
\* can be together, whatever is lost, repeated, expired or started again.
THEOREM RegistrationInvariant == Spec => []RegistrationInductive
<1>1. RegistrationInductive /\ [Next]_vars => RegistrationInductive'
  <2> SUFFICES ASSUME RegistrationInductive, [Next]_vars
               PROVE  RegistrationInductive'
    OBVIOUS
  <2>1. CASE Next
    <3>1. TypeOK'
      BY <2>1, TypeStep DEF RegistrationInductive
    <3>2. IsFiniteSet(teams')
      BY <2>1, TableGrows
    <3>3. CodesOK' /\ KeysOK' /\ ValidTokenMailed'
      BY <2>1, CodesStep, KeysStep, TokenStep
    <3>4. \A t \in Workers : Places(t)' /\ Remembers(t)'
      BY <2>1, PlacesStep, RemembersStep
    <3>5. \A ip \in Addresses \ crowded' : AddressOK(ip)'
      BY <2>1, AddressStep
    <3> QED BY <3>1, <3>2, <3>3, <3>4, <3>5 DEF RegistrationInductive
  <2> QED BY <2>1, RegistrationStutters
<1> QED BY <1>1, InitRegistration, PTL DEF Spec

\* Every variable keeps to its type.
THEOREM RegistrationTypeCorrect == Spec => []TypeOK
<1>1. RegistrationInductive => TypeOK
  BY DEF RegistrationInductive
<1> QED BY <1>1, RegistrationInvariant, PTL

\* main.cpp:165-175.  Who is told that the subscription is done has a row, and the
\* letter with its code was taken.
THEOREM SubscriptionsAreKept == Spec => []DoneIsKept
<1>1. RegistrationInductive => DoneIsKept
  BY DEF RegistrationInductive, DoneIsKept, Remembers, Subscribing
<1> QED BY <1>1, RegistrationInvariant, PTL

\* main.cpp:165-166, dbcontroller.cpp:120-170.  Nobody is told without reason that a
\* name or an address is taken, by the cache or by the table.
THEOREM TakenNamesAreRegistered == Spec => []TakenJustified
<1>1. RegistrationInductive => TakenJustified
  BY DEF RegistrationInductive, TakenJustified, Remembers, KeysOK
<1> QED BY <1>1, RegistrationInvariant, PTL

\* dbcontroller.cpp:90-118.  An address that registers one team at a time gets at most
\* one over the limit, however old what the cache says of it is.
THEOREM AddressesAreBounded == Spec => []AddressBound
<1>1. RegistrationInductive => AddressBound
  BY DEF RegistrationInductive, AddressBound, AddressOK, From
<1> QED BY <1>1, RegistrationInvariant, PTL

\* dbcontroller.cpp:232-258.  The link of a letter fails only for a team that has used it.
THEOREM LinksWork == Spec => []KoJustified
<1>1. RegistrationInductive => KoJustified
  BY DEF RegistrationInductive, KoJustified, Remembers
<1> QED BY <1>1, RegistrationInvariant, PTL

\* dbcontroller.cpp:203-213.  The token of a team is in a letter, or was lost with one.
THEOREM TokensAreMailed == Spec => []ValidTokenMailed
<1>1. RegistrationInductive => ValidTokenMailed
  BY DEF RegistrationInductive
<1> QED BY <1>1, RegistrationInvariant, PTL

\* A step of the daemon is a step of Accounts or leaves its variables alone.
LEMMA AccountsStep ==
    ASSUME RegistrationInductive, [Next]_vars
    PROVE  [Abstract!Next]_Abstract!accounts
<1> DEFINE Seen(r) == [name |-> r.name, email |-> r.email, code |-> r.code]
           shown == {Seen(r) : r \in teams}
<1>1. /\ TypeOK /\ CodesOK /\ \A t \in Workers : Places(t)
      /\ \A t \in Workers : Draws(t) => OwnCode(t)
  BY DEF RegistrationInductive, CodesOK
<1> SUFFICES Abstract!Next \/ UNCHANGED <<teams, posted, confirmed, token, spent>>
  BY DEF Abstract!accounts
<1>2. CASE UNCHANGED vars
  BY <1>2 DEF vars, table, history
<1>3. CASE TableStays
  BY <1>3 DEF TableStays
<1>4. ASSUME NEW t \in Workers, Writes(t)
      PROVE  Abstract!Next \/ UNCHANGED <<teams, posted, confirmed, token, spent>>
  <2>1. Runs(t, "confirm", "confirm") \/ Runs(t, "password", "reset") => IsMailed(req[t].code)
    BY <1>1, Writers DEF CodesOK
  <2>2. CASE Runs(t, "insert", "subscribe") /\ InsertRow(t)
    <3>1. CASE Clashes(t) # {}
      BY <2>2, <3>1 DEF InsertRow
    <3>2. CASE Clashes(t) = {}
      <4>1. OwnCode(t)
        BY <1>1, <2>2, Writers
      <4>2. \A r \in teams : r.name # req[t].name /\ r.email # req[t].email
        BY <3>2 DEF Clashes
      <4>3. \A r \in teams : r.code # req[t].code
        <5>1. RowOf(t).name = req[t].name
          BY DEF RowOf
        <5> QED BY <4>1, <4>2, <5>1 DEF OwnCode
      <4>4. \A r \in shown : r.name # req[t].name /\ r.email # req[t].email /\ r.code # req[t].code
        BY <4>2, <4>3
      <4>5. Abstract!Unposted(req[t].code)
        BY <1>1, <2>2, <4>1, Writers DEF OwnCode, Abstract!Unposted
      <4>6. shown' = shown \cup {[name |-> req[t].name, email |-> req[t].email,
                                  code |-> req[t].code]}
        <5>1. teams' = teams \cup {RowOf(t)}
          BY <2>2, <3>2 DEF InsertRow
        <5>2. Seen(RowOf(t)) = [name |-> req[t].name, email |-> req[t].email,
                                code |-> req[t].code]
          BY DEF RowOf
        <5> HIDE DEF Seen
        <5> QED BY <5>1, <5>2
      <4>7. PICK n \in Names, e \in Emails, c \in Codes :
              n = req[t].name /\ e = req[t].email /\ c = req[t].code
        BY <1>1, <2>2, Writers
      <4>8. Abstract!Register(n, e, c)
        BY <2>2, <4>4, <4>5, <4>6, <4>7 DEF InsertRow, Abstract!Register, Abstract!Unposted
      <4> QED BY <4>8 DEF Abstract!Next
    <3> QED BY <3>1, <3>2
  <2>3. CASE Runs(t, "confirm", "confirm") /\ ConfirmRow(t)
    <3>1. CASE ~ Unconfirmed(req[t].code)
      BY <2>3, <3>1 DEF ConfirmRow
    <3>2. CASE Unconfirmed(req[t].code)
      <4>1. PICK r \in teams : r.code = req[t].code /\ r.code \notin confirmed
        BY <3>2 DEF Unconfirmed
      <4>2. PICK e \in Emails : <<e, req[t].code>> \in posted
        BY <2>1, <2>3 DEF IsMailed
      <4>3. r.email = e
        BY <1>1, <2>3, <4>1, <4>2, Writers DEF CodesOK
      <4>4. Abstract!Confirm(Seen(r))
        BY <2>3, <3>2, <4>1, <4>2, <4>3 DEF ConfirmRow, Abstract!Confirm
      <4>5. Seen(r) \in shown
        BY <4>1
      <4> QED BY <4>4, <4>5 DEF Abstract!Next
    <3> QED BY <3>1, <3>2
  <2>4. CASE Runs(t, "token", "init") /\ TokenRow(t)
    <3>1. CASE ~ Registered(req[t].email)
      BY <2>4, <3>1 DEF TokenRow
    <3>2. CASE Registered(req[t].email)
      <4>1. OwnCode(t)
        BY <1>1, <2>4, Writers
      <4>2. \A e \in Emails : <<e, req[t].code>> \notin posted
        BY <1>1, <2>4, <4>1, Writers DEF OwnCode
      <4>3. req[t].code \notin spent
        BY <1>1, <4>2 DEF CodesOK, IsMailed
      <4>4. \E r \in shown : r.email = req[t].email
        <5>1. PICK r \in teams : r.email = req[t].email
          BY <3>2 DEF Registered
        <5>2. Seen(r) \in shown /\ Seen(r).email = req[t].email
          BY <5>1
        <5> HIDE DEF Seen, shown
        <5> QED BY <5>2
      <4>5. Abstract!Issue(req[t].email, req[t].code)
        BY <2>4, <3>2, <4>2, <4>3, <4>4 DEF TokenRow, Abstract!Issue, Abstract!Unposted
      <4> QED BY <1>1, <2>4, <4>5, Writers DEF Abstract!Next
    <3> QED BY <3>1, <3>2
  <2>5. CASE Runs(t, "password", "reset") /\ PasswordRow(t)
    <3>1. CASE ~ Matches(t)
      BY <2>5, <3>1 DEF PasswordRow
    <3>2. CASE Matches(t)
      <4>1. PICK e \in Emails : <<e, req[t].code>> \in posted
        BY <2>1, <2>5 DEF IsMailed
      <4>2. token[req[t].email] = req[t].code
        BY <3>2 DEF Matches
      <4>3. req[t].email = e /\ req[t].code \notin spent
        BY <1>1, <2>5, <4>1, <4>2, Writers DEF CodesOK
      <4>4. Abstract!ChangePassword(req[t].email)
        BY <2>5, <3>2, <4>1, <4>2, <4>3 DEF PasswordRow, Abstract!ChangePassword
      <4> QED BY <1>1, <2>5, <4>4, Writers DEF Abstract!Next
    <3> QED BY <3>1, <3>2
  <2>6. CASE pc[t] = "mail" /\ PostLetter(t)
               /\ UNCHANGED <<teams, confirmed, token, recent, spent>>
    <3>1. CASE <<req[t].email, req[t].code>> \in posted
      BY <2>6, <3>1 DEF PostLetter
    <3>2. CASE <<req[t].email, req[t].code>> \notin posted
      <4>1. OwnCode(t) /\ Remembers(t)
        BY <1>1, <2>6, Writers DEF RegistrationInductive
      <4>2. Abstract!Unposted(req[t].code)
        BY <2>6, <4>1 DEF OwnCode, Abstract!Unposted
      <4>3. \E r \in shown : r.email = req[t].email
        <5>1. PICK r \in teams : r.email = req[t].email
          BY <2>6, <4>1 DEF Remembers, Registered
        <5>2. Seen(r) \in shown /\ Seen(r).email = req[t].email
          BY <5>1
        <5> HIDE DEF Seen, shown
        <5> QED BY <5>2
      <4>4. \A r \in shown : r.code = req[t].code => r.email = req[t].email
        <5>1. \A r \in teams : r.code = req[t].code => r.email = req[t].email
          BY <4>1 DEF OwnCode, RowOf
        <5> QED BY <5>1
      <4>5. Abstract!Post(req[t].email, req[t].code)
        BY <2>6, <4>2, <4>3, <4>4 DEF PostLetter, Abstract!Post
      <4> QED BY <1>1, <2>6, <4>5, Writers DEF Abstract!Next
    <3> QED BY <3>1, <3>2
  <2> QED BY <1>4, <2>2, <2>3, <2>4, <2>5, <2>6 DEF Writes
<1> QED BY <1>1, <1>2, <1>3, <1>4, Shape

\* dbcontroller.cpp:172-258, main.cpp:90-175.  The daemon keeps the promises of Accounts:
\* a name and an address belong to one team, a team is confirmed with the code mailed to
\* its address, and a password changes with the last token, mailed there, once.
THEOREM ImplementsAccounts == Spec => KeepsAccounts
<1>1. Init => Abstract!Init
  BY DEF Init, Abstract!Init
<1>2. RegistrationInductive /\ [Next]_vars => [Abstract!Next]_Abstract!accounts
  BY AccountsStep
<1> QED BY <1>1, <1>2, RegistrationInvariant, PTL DEF Spec, KeepsAccounts, Abstract!Spec

=============================================================================
