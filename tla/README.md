# A verification project for polictf-server

polictf-server runs a capture-the-flag contest: a *scoreboard* daemon (cppcms,
C++), a *registration* daemon, and a MySQL database whose stored procedures do
the scoring. This directory holds TLA+ models of the parts whose correctness is
hard to test, TLC configurations that check them on small instances, and TLAPS
proofs of the properties that matter most for every size of the instance.

    tlc -workers 2 -config SubmissionRace.cfg MCSubmission.tla
    tlapm SubmissionProofs.tla

## 1. The system

| Part | State it keeps | Operations | Interacts with |
|---|---|---|---|
| Flag submission: `verifier.cpp`, `setChallengeSolved`, `fetchSolution`, `doQuery` of `scoreboard/dbcontroller.cpp`, `teamsubmit` of `scoreboard/main.cpp` | per worker: the request, the looked-up solution, `doQuery`'s retry counter, its database connection | `POST /team/submit` | cache, stored procedure |
| Stored procedure `SolvedChallenge`, `recompute_team_points` (`schema.mwb`) | tables `solutions`, `challenges`, `team`, `alerts`; the procedure's locals | `CALL SolvedChallenge(team, challenge, @points)` | called by `setChallengeSolved` |
| In-process cache of the scoreboard (cppcms `thread_shared`) | `last_submission_T`, `chsolv_C_T`, `challenge_sol_F`; pages `scores`, `status`, `challenges`, `globalwarnings`, `challenges_T`, `alerts_T`, `teaminfo_T`, each with triggers and a timeout | fetch, store, rise | all workers |
| Pages: `cachedQuery` and its callers, `TeamStatus`, `fetchSolutionsForTeam`, `fetchAlertsForTeam`, `fetchTeamInfo` | per worker: the page it has queried and not yet stored | `GET /status`, `/challenges`, `/team/status` | cache, database |
| Login, logout, session, log of addresses: `login`, `logout`, `initResponse` of `scoreboard/main.cpp`; `login`, `logIP`, `getInstance` of `scoreboard/dbcontroller.cpp` | per browser: the cookie with `teamid`; per worker: its connection and the session variables `@idt`, `@isactive`; cache `teamip_T`; table `ipteams` | `POST /login`, `/logout`, `logIP` in every authorised request | stored procedure `verify_login`; table `team`, which registration changes |
| Registration: `register/main.cpp`, `register/dbcontroller.cpp`, `frmIscrizione.cpp` | table `team`; cache `exists_name_`, `exists_email_`, `ipspammer_`, `confirmkey_` | subscribe, confirm, reset/init, reset/token | mailer |
| Mailer and vendored SMTP client: `register/mailer.cpp`, `smtp-qt/smtpclient.cpp` | one dialogue per mail: the last reply, the socket's buffer | `send` | SMTP server |
| Configuration, web server, static pages, load test | – | – | clients, deployment |

A request runs in one worker thread from beginning to end. There is a dbcontroller
(a connection) per thread, so workers meet in two places only: the cache, whose
single accesses are atomic, and the database, where every statement of the
procedure commits on its own (there is no transaction, and `solutions` has no
unique key on team and challenge).

What makes it hard:

* **check-then-act on the cache and in the procedure** – the rate limit, the mark
  `chsolv_` and the procedure's COUNT are each a test followed by a separate store;
* **calls that go on without their caller** – when a connection is lost the server
  may still be running the call that `doQuery` now repeats; when the daemon dies,
  the server finishes (or drops) what it was doing;
* **half of a procedure** – the rows written before an error or a kill stay;
* **pages filled while they are dropped** – a worker queries, another saves a solve
  and drops the page, the first stores what it had;
* **results in a connection** – `verify_login` leaves its result in session variables,
  which a second statement reads, if the connection is still the same;
* **a dialogue with a slow partner** – replies of a mail server come in lines, late, or
  not at all, and the client goes on after some of its timeouts;
* **seconds** – `opentime < NOW()` and `ts < myts` compare with a granularity of one
  second, in which many things happen.

For each part, what makes it correct: *submission* – a solve is counted once, points
that were answered are on the scoreboard, no team is locked out by a mark without a
solve, every request ends; *procedure* – scores are those of the solutions, what a
solve unlocks gets opened, and is not closed again; *pages* – what was answered is
shown, to a request that begins later and, after the timeouts, on every page;
*session* – a browser carries a team only after it gave that team's password and the
team was confirmed, a right password is not called wrong, a session that was left stays
left, a team is served only to addresses that are in the log;
*registration* – done means stored and mailed, a token works once, one team per name
and address; *mailer* – `send` answers true only for a letter the server took, no reply is taken for
that of another command, and every call ends.

## 2. Modules

| Module | What it is |
|---|---|
| `ScoreDb` | tables and stored procedure: one action per SQL statement, per session |
| `Submission` | EXTENDS `ScoreDb`; the worker threads, with retries, errors and restarts |
| `Ledger` | abstract specification: what is opened, scored, published and granted |
| `MCSubmission` | instances of `Submission` for TLC, with the budget of faults |
| `SubmissionProofs` | theorems about `Submission` for every value of its constants |
| `Pages` | EXTENDS `ScoreDb`; page cache and the workers that serve pages |
| `Scoreboard` | composes `Submission` and `Pages`: a save drops pages |
| `MCScoreboard` | instances of `Scoreboard` |
| `ScoreboardProofs` | theorems about `Scoreboard`, on top of `SubmissionProofs` |
| `Registration` | the registration daemon: handlers, table `team`, cache, letters |
| `Accounts` | its abstract specification: who is registered, confirmed, may reset |
| `MCRegistration` | instances of `Registration` for TLC, with the budget of faults |
| `RegistrationProofs` | theorems about `Registration` |
| `Session` | EXTENDS `TeamJson`; requests with a session: login, logout, status page, log of addresses |
| `Access` | its abstract specification: who may carry which team's session |
| `TeamJson` | `TeamStatus::getJson` as a function of the list of solutions |
| `TeamJsonProofs` | what it makes of a list of any length |
| `MCSession` | instance of `Session` for TLC, with budgets of requests and faults |
| `SessionProofs` | theorems about `Session`, on top of `TeamJsonProofs` |
| `SmtpClient` | one call of `mailer::send`: client, network, mail server |
| `Letter` | its abstract specification: what `send` promises about a letter |
| `SmtpProofs` | theorems about `SmtpClient` |
| `LeastNumber` | a set of naturals that is not empty has a least one: induction for the proofs |

### Submission and ScoreDb

A thread's `pc` names the next access to the cache or the database in `verify`:

| `pc` | code | actions that leave it |
|---|---|---|
| `idle` | – | `Receive` |
| `rate`, `limit` | verifier.cpp 29, 38 | `CheckRate`, `StoreRate` |
| `lookup`, `query`, `remember` | dbcontroller.cpp 224, 228, 249 | `LookUp`, `Query`/`QueryFails`, `Remember` |
| `seen`, `mark` | verifier.cpp 54–61, 64 | `CheckMark`, `StoreMark` |
| `prepare`, `exec`, `wait` | doQuery 75, 88 | `Prepare`, `Exec`, `ExecReturns`; `LoseConnection`, `DbError` |
| `points` | dbcontroller.cpp 272–284 | `ReadPoints`/`PointsLost` |
| `rise`, `reply` | verifier.cpp 75–84, main.cpp 125–156 | `Rise`, `Reply` |

The procedure is read from the Workbench file (`unzip -p schema.mwb document.mwb.xml`);
since that file has no lines, its definitions are marked external in the map.

`at[s]` is the statement that session `s` of the server runs next. A lost connection
leaves the session alone: it runs on without owner (`StrayEnds`) or is killed
(`StrayCut`). A procedure can end between two statements (`Cut`). `Restart` empties
cache and threads, reads `allow-save-solved` anew and tells the server nothing.
`limited`, `marked` and `solCache` are the cache's keys; `Expire` removes any of them
at any time, which covers timeouts and the LRU limit (`chsolv_` has no timeout but
can be evicted).

Abstractions:

* A team's points are a function of its rows and of the counters
  `challenges.solutions`. The model keeps what they are computed from:
  `board` is a snapshot of both, taken by `recompute_team_points`. That one
  solve earns more than another is therefore not modelled; that step 9 compares
  points (`pts > data.points`) becomes a choice, `cheap`.
* Rows of `solutions` are kept as their number per team and challenge and the
  earliest `ts` per challenge, which is all that the procedure's queries tell apart.
* A query without side effect is one step, as are the two SELECTs of successors.
  Several `rise` calls in a row are one step.
* Prepare and exec share the rules for retrying. After `LoseConnection` the model
  does not ask whether the library would have reported the loss at prepare or at
  exec: either may happen at every turn.
* Variables `failed`, `cutShort`, `overlapped` and `acked` are history, read by
  properties only (as are `since` and `raced` of `Scoreboard`).

### Pages and Scoreboard

A page is kept as the set of solves (or challenges) it shows. A reader takes
`todo`, the pages its handler needs in the handler's order; each is a `Hit`, or a
`Build` (query) and, separately, a `Keep` (store). `BuildFails` is a query that fails: the
answer gets `Failed`, an empty text, in the place of the page, and nothing is stored.
`Triggers` is the trigger set each page is
stored with: its own key for shared pages, `teamsolved_T` for `challenges_T` and
`teaminfo_T`; and *none* for an empty `challenges_T`, because that one is stored by an
early return. `Save` composes: `setChallengeSolved` rises `teamsolved_T` whatever the
query for the points answered; step 9 rises it again with `scores`, `challenges` and
perhaps `status`. Every other step of `Submission` touches no page (`Aside`).

### Registration

A worker's `pc` names its next access to the cache, the database or the mail server:

| `pc` | code | actions that leave it |
|---|---|---|
| `idle` | register/main.cpp 144, 68, 83, 117 | `Subscribe`, `ConfirmLink`, `InitReset`, `ResetLink` |
| `spam`, `count`, `keepcount` | `isSpammer`, dbcontroller.cpp 97, 104, 115 | `LookUpSpam`, `CountTeams`, `KeepCount` |
| `form`, `duplicates`, `keepduplicates` | `checkDuplicates` 129, 144, 154 | `LookUpTaken`, `FindDuplicates`, `KeepDuplicates` |
| `insert`, `inserted` | `insert` 172, 190 | `Insert`, `Inserted` |
| `mail` | main.cpp 171, 108 | `SendMail`, `MailFails`, `MailEscapes` |
| `key`, `confirm`, `keepkey` | `confirm` 240, 244, 255 | `LookUpKey`, `Confirm`, `KeepKey` |
| `token`, `password` | `initReset`, `resetPassword` | `SetToken`, `SetPassword` |
| `stray` | a statement of a daemon that died, at the server (172, 188, 210, 223, 249) | `StrayRuns` |

`LoseReply` is a statement that committed before its connection was lost: the worker
stays where it is and runs it again, as `handleError` tells it to, without limit. A
statement whose connection was lost is taken to have run before its repetition, or never:
it is one INSERT or UPDATE, and the repeated one waits behind it for the same rows.
`Restart` is different, since then nothing waits: it empties cache and workers and leaves
any of the statements under way at the server (`StrayRuns`), where they run beside the
requests of the new daemon, or never. `DbError` is any other error; each handler answers
it in its own way, and `checkDuplicates` and `confirm` store nothing then. The mail step has the outcomes of
`Letter`: `SendMail` (taken, true), `MailFails` (false, the letter taken or not) and
`MailEscapes` (taken, but writing QUIT throws an exception that nobody catches, and the
handler ends without an answer). Adjacent accesses to the keys of one request (two look-ups, two
stores, three rises) are one step. Forms are valid, and a name or address is what the
unique columns compare. Each code is drawn once, and links are followed only from letters that
were sent. `issued`, `spent`, `crowded`, `broken` and `undelivered` are history: only
properties read them, but for `issued`, which keeps codes apart.

### Session and TeamJson

| `pc` | code | actions that leave it |
|---|---|---|
| `idle` | main.cpp 213–258: method, cookie | `Receive` |
| `open` | `getInstance`, dbcontroller.cpp 97; constructor 25 | `Open`, `OpenFails` |
| `call`, `select` | `login` 122, 134 | `Call`/`CallFails`, `Select`/`SelectFails` |
| `lookip`, `insertip`, `listips`, `keepips` | `logIP` 171, 183, 195, 216 | `LookUpIp`, `InsertIp`/`InsertFails`, `ListIps`/`ListFails`, `KeepIps` |
| `serve` | main.cpp 198, 97 | `Serve` |
| `reply` | the answer with its cookie | `Reply`, `AnswerLost` |

The session is in the browser's cookie and nowhere else (`session.location` is
`client`). A request carries the cookie as it was when it was sent. Its answer sets it
(login), clears it (logout, and every login that fails: the handler clears the session
first), leaves it, or renews it: cppcms sends a session that was not changed again when
much of its time is over, which `NewCookie` leaves open at every answer. `vars[w]` are
the session variables of the worker's connection; they outlive a request, and are lost
when `handleError` opens the connection anew. `doQuery` repeats the call
(`LoseReply`), but the SELECT of the variables is executed directly and not repeated.
The constructor of dbcontroller throws an `int`: no answer is made (`OpenFails`), and
the next request of the thread tries again. `ChangePassword` and `ConfirmTeam` are what
the registration daemon does to table `team`. `teamsubmit` reaches its verifier the way
`teamstatus` reaches its page, so it is not a kind of its own; what both do then is in
`Submission` and `Pages`. For the page itself, `Serve` picks a list of solutions and
answers what `GetJson` makes of it: the loop fills `solved[i]` at the index of the
solution in the *whole* list and the flash list at its own index, an array grows to the
index that is assigned, and saving one with a hole throws.
`earned`, `found`, `left` and `unlogged` are history.

### SmtpClient

`pc` is where the call is: `connect`, about to `send` the command `cmd`, or in
`waitForResponse` for the reply to it. `toServer` holds commands and `toClient` lines on
their way. `Respond` is an arrival: some lines come together, and are read up to the end
of a reply; what is behind it stays in `buffer`, and does not wake the client.
`GiveUp` is where a bad reply, a timeout or a failed write leads, for each command:
`login` reports to nobody, `connectToHost` and `sendMail` make `send` return false, and
from `quit` the exception escapes. `send` does not wait for the reply to QUIT. A write that
times out (`SendFails`) leaves its bytes in the socket, and they go out with the next one
(`Write`). The server answers the commands it gets in order, with the right code or with
500, at any time, and may go away at any time. A reply begins with 1 to `MaxLines` lines,
and goes on for another one as often as the server likes (`Lengthen`): `MaxLines` bounds
how much of it is on its way at once, not how long it is. A letter is taken with its
final dot, also if the client has given up by then (`Letter!Take` after "unsent").
The commands not reached by the program (STARTTLS, AUTH LOGIN, more recipients) are left
out, and lines are well-formed.
`trouble`, `impatient` and `passed` are history.

## 3. Runs

The instance is written as teams / challenges / flags / threads / sessions; faults is
the number of fault steps in a behaviour (`MaxFaults`), retries is `MaxRetries` (3 in
the code), time is the last value of `NOW()`.

| Run | Instance | Checks |
|---|---|---|
| `submission_race` | 2/2/3/2/2, no faults, time 3 | interleavings: unlocks kept, no open challenge closed again by a later call, refinement of `Ledger` |
| `submission_faults` | 1/2/1/2/3, 2 faults, 2 retries | type invariant, the inductive invariant of the proofs, marks and answers justified, accepted points scored, double rows only by overlapping calls, scores current but for cut calls, a right flag is not remembered as wrong |
| `submission_live` | 1/2/1/2/1, connection losses without limit and 1 other fault, 3 retries | every request is answered; a solved challenge opens its successors unless the call was cut |
| `scoreboard_pages` | 1 team, 1 challenge, 1 writer, 1 reader of the team page, 2 faults | type invariant, the inductive invariant of the proofs, dropped pages are fresh, answers show what was granted; a published solve is, for good, on the pages of the team in the end |
| `scoreboard_live` | same, but a reader of the common page (warnings, status, scores), 2 faults | answers show what was granted; a published solve is, for good, on scores and status in the end |
| `registration` | 2 workers, 2 names, 2 e-mail addresses, 1 IP address, 3 codes, MAX_TEAMS 0, 1 fault (a restart leaves any statements running) | type invariant; done means stored and mailed; taken and "ko" are justified; teams per IP address; a valid token was mailed; refinement of `Accounts` |
| `address_limit` | 1 worker, 2 names, MAX_TEAMS 1, no faults | section 5 |
| `session` | 2 workers, 2 browsers, 2 teams, 2 addresses, 2 passwords, 3 requests, lists of up to 3 solves, 2 faults or changes from outside | type invariant; cached addresses are stored; who is served is logged; logins are answered by what the procedure found; logout holds; the status page is whole; refinement of `Access` |
| `smtp_dialogue` | up to 3 lines on their way, replies of any length; any timeouts, refusals and failures | type invariant; replies and commands stay in step; no wait for what is buffered; without trouble the letter is sent; refinement of `Letter`; `send` ends unless a reply goes on for ever |
| `lost_save`, `double_solution`, `solutions_kept` | smallest that show it | section 5 |

Why these bounds are enough to be interesting: two threads are what every race here
takes (reader and writer, or two savers of the same solve); a third session lets a
stray call of a dead connection run beside two owned ones; two faults cover "the
connection is lost and then the retry fails", "the daemon restarts and its call is
killed"; three seconds let a challenge open, be open, and be opened again. c1 unlocks
c2 and c2 names c1, so that both an unlock and an unlock of something already open
happen. Pages need one team and one challenge: what a page may miss is a single
solve. Pages do not depend on each other but through the triggers of a save, so each run
reads those of one request: the team's own pages, dropped by every save, in one, and the
shared ones, of which a save may leave the status page alone, in the other.

In `registration` three codes allow two registrations and a reset, or a registration and
two resets of it, of which one is outdated; MAX_TEAMS 0 makes the second registration
of the IP address the one that has to be refused (the first is always let in).

In `session` three requests are: a login, a page that is under way, and a logout that
overtakes it; or two logins of different teams through one worker, and a page. Two faults
let a call fail after its connection was lost before, or a password change meet a lost
answer. Lists of three solves have a flash challenge before, between and after ordinary
ones. In `smtp_dialogue` three lines make a reply that
arrives in one, two or three pieces, beside lines of the next one.

Symmetry is used in `submission_race` and `submission_faults` (threads, sessions, teams)
in the runs of `MCRegistration` (workers, names, e-mail addresses, codes) and in `session`
(all sets); all their properties are safety properties.

**Fairness.** `Fairness` asks that each worker in a request takes its next step, and
that the server runs the procedure of each session; a request arriving, a fault and
an expiry are not required. The code justifies it: workers are operating system
threads of a pool that never block on each other in `verify` (the only mutex is held
for a map look-up in `getInstance`), and the MySQL server runs each statement.
`SmtpClient` asks the thread in `send` for its next step, and nothing of the server:
the thread is never without one, because each of its waits has a timeout
(5 s for a reply or a connection, 60 s for a write). That is not enough for `send` to end:
against a server that sends line after line of one reply, each within the timeout,
`waitForResponse` has no limit. `SendEnds` says that this is the only way: a call ends, or
some reply goes on for ever.
`SbFairness` adds the readers and that a page leaves the cache in the end: each is
stored with a timeout from `conf/scoreboard.conf`.
`MCLiveSpec` lets `LoseConnection` happen as often as it likes, so `RequestsFinish`
does rest on the bound of `doQuery`'s loops. In `MCScoreboard` faults are as bounded as
in the runs for safety: `SolvesShown` is about a solve that is published, and asks whether
pages that raced with its save, or were not dropped by it because its call was lost or cut or
the daemon died, repair themselves.

## 4. Proofs

Every safety property and every refinement that a passing run checks is proved here
for any finite or infinite sets of threads, sessions, teams, challenges, flags, readers,
workers, browsers, names, addresses, codes and lists, any successor relation, and any
value of `MaxRetries > 0`, `MaxTeams` and `MaxLines > 0`. What is assumed is named
where the constants are declared: `DbAssumption`, `SubmissionAssumption`,
`PagesAssumption`, `SessionAssumption`, `RegistrationAssumption` and `SmtpAssumption`
give constants their types and say that `None` is none of the values it is told from;
`RegistrationAssumption` says, too, that no team name is an e-mail address (the cache keys
of the two have different prefixes). Nothing else is assumed. Budgets of faults and
requests belong to the MC modules: the theorems know no bound on either.

**Submission and Scoreboard**

* `Inductive` is the invariant of `Submission`. The safety properties are not
  inductive by themselves. Points answered are on the scoreboard (`AcceptedIsScored`)
  because the session that answers has recomputed the scores after its insert
  (`SessionsOK`), the thread listens to the session that runs *its* call (`ThreadsOK`),
  and scores are never more than what is stored (`BoardStored`). `UnlockKept` needs
  that a call that is not first really saw an earlier row, and that a call at `open`
  has found every closed successor (`SessionsOK`). `DoubleRowOnlyByOverlap` needs that,
  without overlap, a call past its COUNT is alone (`OneByOne`).
* `RightFlagsAreKept` needs one thing beside `Inductive`: if a thread is about
  to remember the right flag of a challenge as unknown, that challenge was not open from
  the start (`Remembering`). A challenge that opens later is never opened at 0 (`OpenedLater`).
* Each action is dealt with once per conjunct it can disturb; `OneThreadMoves` and
  `OneSessionMoves` dispose of the other threads and sessions.
* `ImplementsLedger`: every step of `Submission` is a step of `Ledger` or a stutter,
  under the mapping `Abstract`. `Unlock` of the ledger opens *all* successors at once,
  which the procedure does with one UPDATE over what it selected – the part of
  `SessionsOK` about `next` is what makes that true.
* `SbInductive` adds to it that what is cached, and what a reader holds, contains
  every solve for which the page has been dropped (`Due`), but for raced pages. The
  reader's part (`HeldCurrent`) is what makes the cache's part inductive: a page
  in a reader's hands when a drop goes by becomes *raced*, any other is current.
  `DueStep` shows that `Due` grows only in steps that drop what depends on it.
* `ScoreboardIsSubmission`: serving pages adds no behaviour to `Submission`, so each
  theorem about it holds of the whole daemon.

**Session**

* `SessionInductive` says what a worker's place tells of what it has done (`WorkerOK`).
  A login's result waits in the variables of a connection, so `LoginAnswered` needs that a
  worker about to run its SELECT has there what *its own* call left: a connection
  lost at the call repeats the call, and one lost at the SELECT, which is not repeated,
  ends in an error. `SeenIsStored` needs that the list a worker is about to store was
  selected from the table (rows are never deleted, `LogGrows`).
* `LogoutHolds` needs that a request whose browser has left carries no cookie. `OthersStay`
  shows it of the other workers: a browser is counted as left only if no other worker
  has a request of it.
* `StatusIsWhole` rests on `TeamJsonProofs`. `Holds` is the invariant of the loop in
  getJson: an ordinary solve is at its own index in the whole list with holes for the
  flash ones between, the last element is never a hole, and the flash ones are in a row.
  That every prefix has it, and that the recursive definition has a solution at all
  (`LoopRuns`), is shown for the least turn at which it would fail.
* `ImplementsAccess`: `Call` earns, `Reply` enters or leaves, the INSERT records;
  `CookiesEarned` carries what was earned from browser to request and back.

**Registration**

* `RegistrationInductive` rests on `CodesOK`: a code belongs to one request, from which
  it goes to one row or one token, and in the end to one letter. `DoneIsKept`,
  `ValidTokenMailed` and the refinement need that no other worker has the same code.
* `Remembers` says that what a worker has read or written is still so when it acts on it
  (rows stay, confirmed stays confirmed) and `KeysOK` the same of the cache.
* A stray statement is kept in the invariant like any other one that is about to run
  (`Runs`, `StatementWrites`): its code is its own, a stray registration still counts as
  overlapping what comes after the restart, and a stray token counts as undelivered.
* `AddressOK` is the bound on teams per IP address. A cached "not a spammer" may be one row
  behind, but only while the worker that inserts that row has not ended; with one
  registration at a time no other one reads it then. `Limited` says for every place
  between the count and the INSERT what is left of the count; a statement that is
  repeated after a lost reply inserts no second row, because the columns are unique.
* `Shape` keeps the proofs short: a step either begins or ends a request and leaves the
  table alone, or it changes the table in one of a few ways and no request.
* `ImplementsAccounts` maps rows to name, address and code, and the token column to `valid`.

**SmtpClient**

* `SmtpInductive` is a case split on where the client is. Before a command, nothing is on
  its way (`Sending`). While it waits, the command or the rest of one reply is, or the
  server is gone (`Waiting`). After a timeout of AUTH, which is reported to nobody, the client
  is one reply behind (`Shifted`): what it takes for the answer to MAIL is that
  to AUTH, whose codes, 235 and 500, are never the 250 it wants, so `send` fails and no later
  reply is mistaken. That is why `InStep` holds although the replies are shifted. A reply that
  goes on, and bytes a failed write left in the socket, change nothing of this: only the place
  of a reply's end moves, and the one failed write after which `send` goes on is that of AUTH,
  which leaves it as far behind as a timeout does.
* `ReplyLines`, `ReadLines` and `EndOfReplyIsFirst` say how a reply is cut out of
  the buffer; "the first last line" is a least number.
* `ImplementsLetter`: the letter is taken with its final dot, and `send` answers true, or
  throws, only after that.

Only model-checked: the liveness properties `RequestsFinish`, `UnlockHappens`,
`SolvesShown` and `SendEnds` (fairness and ENABLED are out of TLAPS's reach here) and the
violations of section 5, which are counterexamples. Induction over data is out of the
prover's reach in the form of the library's induction theorems; where a proof needs it,
`LeastNumber` takes their place.

## 5. Where the code departs from what its comments say

1. `lost_save` – the mark `chsolv_` is stored, with no timeout, before the save. When
   the save is given up the mark stays, and every retry of the team is answered
   "alreadysolved" though nothing is stored. `MarkJustified` says how far this goes:
   no mark exists for any other reason.
2. `double_solution` – two submissions of one team handled side by side pass rate
   limit, mark and COUNT and insert two rows. `DoubleRowOnlyByOverlap` (proved) says
   that this is the only way.
3. `solutions_kept` – `fetchSolutionsForTeam` stores an empty list without a trigger,
   so the first solve of a team does not clear it; cache_usages.txt says it does.
4. `address_limit` – the teams of an address are counted before the INSERT and refused
   *above* MAX_TEAMS_PER_IP, so one more is let in. `AddressBound` says that, one
   after the other, it is never more than one; side by side, every overlapping
   registration may add one, which `crowded` excludes.

Two more, which the models contain and no run singles out: the status page is not
dropped when a solve is worth no more than the challenge was at the look-up
(verifier.cpp:79; `cheap` in `Risen`), and the list of challenges that is refilled within
the second in which a solve opened a challenge leaves it out until its timeout
(dbcontroller.cpp:432, `IsOpen`). And a team with a flash challenge before an ordinary one
in its list gets no status page (teamstatus.cpp:59): `StatusWhole` says that this is the
only case, and that otherwise the page shows every solve in its place.

## 6. Not modelled

The layout of JSON (but for the lists of `TeamJson`), logging, CORS and cache headers, the patterns of form fields, static
pages and deployment files keep no state that a property here depends on. The text of
one challenge (`getChallenge`) is cached like any page and depends on nothing a solve
changes. MIME formatting (a vendored library) and the texts of letters (`ReplaceValues`)
are data of a letter; TLS, AUTH LOGIN and copies are code of the SMTP client that the
program does not reach. Values of points, `lastsolution` and dates are abstracted as said above.
How long a cache entry lives is not modelled, only that it may leave. The registration
daemon repeats a statement without limit while its connection is away
(register/dbcontroller.cpp:53); the models let it, and say nothing of when it ends.

## 7. Plan

In this order; each with a type invariant, its safety properties and theorems.

1. **Done**: `ScoreDb`, `Submission`, `Ledger`, `Pages`, `Scoreboard` and their proofs.
2. **Done**: `Registration` and `Accounts` with their proofs. Left: liveness, every
   request is answered if the database comes back.
3. **Done**: `Session`, `Access` and `TeamJson` with their proofs.
4. **Done**: `SmtpClient` and `Letter` with their proofs.
5. Left to prove: that `Registration` uses the mailer as `Letter` promises (its mail step
   has the outcomes of `Letter`, but no INSTANCE says so), and what `Pages` shows of the
   challenges that are open.
