---------------------------- MODULE Submission ----------------------------
(***************************************************************************)
(* Flag submission: verifier::verify, run by the worker threads of the     *)
(* scoreboard daemon for the handler teamsubmit, with the calls it makes   *)
(* to dbcontroller::fetchSolution, setChallengeSolved and doQuery.         *)
(*                                                                         *)
(* The threads share one in-process cache (three of its key families are   *)
(* used here) and the database.  The cache's fetch and store are atomic;   *)
(* everything between two of them, or between one of them and a statement  *)
(* of the database, can interleave with any other thread.                  *)
(***************************************************************************)
EXTENDS ScoreDb

CONSTANTS
    Threads,      \* worker threads (service.worker_threads)
    Flags,        \* flags a team may submit
    SolutionOf,   \* the challenge whose flaghash a flag has, or None
    MaxRetries    \* doQuery's maxretries

\* What verify returns, as the handler words it; zero stands for {0, id}.
Answers == {"slowdown", "wrong", "alreadysolved", "cannotsave", "points", "zero"}

ASSUME SubmissionAssumption ==
    /\ SolutionOf \in [Flags -> Challenges \cup {None}]
    /\ MaxRetries \in Nat \ {0}
    /\ None \notin Teams \cup Flags \cup Sessions \cup Answers

VARIABLES
    pc,         \* where a thread is in its request
    team,       \* session "teamid" of the request
    flag,       \* POST parameter "flag"
    data,       \* the challengesol of the flag: its id, None when not valid
    tries,      \* doQuery's loop variable retry
    conn,       \* the database session that runs the thread's call, or None
    res,        \* the verifier's answer
    limited,    \* cache keys last_submission_<team>
    marked,     \* cache keys chsolv_<challenge>_<team>
    solCache,   \* cache entries challenge_sol_<flag>
    allowSave,  \* service.allow-save-solved, read when the daemon starts
    failed,     \* history: saves setChallengeSolved gave up
    cutShort,   \* history: challenges one of whose calls was cut after its INSERT
    overlapped, \* history: pairs for which two calls ran at the same time
    acked       \* history: pairs some team was answered points for

thread  == <<pc, team, flag, data, tries, conn, res>>
daemon  == <<limited, marked, solCache, allowSave>>
history == <<failed, cutShort, overlapped, acked>>
vars    == <<dbVars, thread, daemon, history>>

Pair(t)    == <<team[t], data[t]>>
Saving(t)  == pc[t] \in {"prepare", "exec", "wait", "points"}
Goto(t, l) == pc' = [pc EXCEPT ![t] = l]

\* return {r, id}: the handler writes r to the client.
Answer(t, r) == Goto(t, "reply") /\ res' = [res EXCEPT ![t] = r]

Init ==
    /\ DbInit
    /\ pc = [t \in Threads |-> "idle"]
    /\ team = [t \in Threads |-> None]
    /\ flag = [t \in Threads |-> None]
    /\ data = [t \in Threads |-> None]
    /\ tries = [t \in Threads |-> 0]
    /\ conn = [t \in Threads |-> None]
    /\ res = [t \in Threads |-> None]
    /\ limited = {} /\ marked = {} /\ solCache = {}
    /\ allowSave \in BOOLEAN
    /\ failed = {} /\ cutShort = {} /\ overlapped = {} /\ acked = {}
-----------------------------------------------------------------------------
(* verify, steps 1 and 2: the rate limit.                                  *)

\* POST /submit of a logged in team is handed to an idle worker.
Receive(t) ==
    /\ pc[t] = "idle"
    /\ \E tm \in Teams : team' = [team EXCEPT ![t] = tm]
    /\ \E f \in Flags : flag' = [flag EXCEPT ![t] = f]
    /\ Goto(t, "rate")
    /\ UNCHANGED <<dbVars, data, tries, conn, res, daemon, history>>

CheckRate(t) ==
    /\ pc[t] = "rate"
    /\ \/ team[t] \in limited /\ Answer(t, "slowdown")
       \/ team[t] \notin limited /\ Goto(t, "limit") /\ UNCHANGED res
    /\ UNCHANGED <<dbVars, team, flag, data, tries, conn, daemon, history>>

StoreRate(t) ==
    /\ pc[t] = "limit"
    /\ Goto(t, "lookup")
    /\ limited' = limited \cup {team[t]}
    /\ UNCHANGED <<dbVars, team, flag, data, tries, conn, res, marked, solCache,
                   allowSave, history>>

-----------------------------------------------------------------------------
(* Steps 3 and 4: fetchSolution, and the test of data.valid.               *)

\* fetchSolution returns d; data.valid is false when d is None.
Found(t, d) ==
    /\ data' = [data EXCEPT ![t] = d]
    /\ IF d = None THEN Answer(t, "wrong") ELSE Goto(t, "seen") /\ UNCHANGED res

LookUp(t) ==
    /\ pc[t] = "lookup"
    /\ \/ \E e \in solCache : e[1] = flag[t] /\ Found(t, e[2])
       \/ /\ \A e \in solCache : e[1] # flag[t]
          /\ Goto(t, "query") /\ UNCHANGED <<data, res>>
    /\ UNCHANGED <<dbVars, team, flag, tries, conn, daemon, history>>

\* Mutant of Query: opentime is not in the WHERE clause.
QueryAnyTime(t) ==
    /\ pc[t] = "query"
    /\ data' = [data EXCEPT ![t] = SolutionOf[flag[t]]]
    /\ Goto(t, "remember")
    /\ UNCHANGED <<dbVars, team, flag, tries, conn, res, daemon, history>>

Query(t) ==
    /\ pc[t] = "query"
    /\ LET c == SolutionOf[flag[t]]
       IN  data' = [data EXCEPT ![t] = IF c # None /\ IsOpen(c) THEN c ELSE None]
    /\ Goto(t, "remember")
    /\ UNCHANGED <<dbVars, team, flag, tries, conn, res, daemon, history>>

\* Mutant of QueryFails: what is returned is cached all the same.
QueryFailsCached(t) ==
    /\ pc[t] = "query"
    /\ data' = [data EXCEPT ![t] = None]
    /\ Goto(t, "remember")
    /\ UNCHANGED <<dbVars, team, flag, tries, conn, res, daemon, history>>

\* doQuery fails: "not valid" is returned, and not cached.
QueryFails(t) ==
    /\ pc[t] = "query"
    /\ Found(t, None)
    /\ UNCHANGED <<dbVars, team, flag, tries, conn, daemon, history>>

Remember(t) ==
    /\ pc[t] = "remember"
    /\ solCache' = {e \in solCache : e[1] # flag[t]} \cup {<<flag[t], data[t]>>}
    /\ Found(t, data[t])
    /\ UNCHANGED <<dbVars, team, flag, tries, conn, limited, marked, allowSave,
                   history>>
-----------------------------------------------------------------------------
(* Steps 5 to 7: the already-solved mark, read and then stored.            *)

\* Mutant of CheckMark: the mark is stored before the setting is looked at.
CheckMarkEarly(t) ==
    /\ pc[t] = "seen"
    /\ marked' = marked \cup {Pair(t)}
    /\ \/ Pair(t) \in marked /\ Answer(t, "alreadysolved")
       \/ Pair(t) \notin marked /\ ~ allowSave /\ Answer(t, "cannotsave")
       \/ Pair(t) \notin marked /\ allowSave /\ Goto(t, "mark") /\ UNCHANGED res
    /\ UNCHANGED <<dbVars, team, flag, data, tries, conn, limited, solCache, allowSave,
                   history>>

CheckMark(t) ==
    /\ pc[t] = "seen"
    /\ \/ Pair(t) \in marked /\ Answer(t, "alreadysolved")
       \/ Pair(t) \notin marked /\ ~ allowSave /\ Answer(t, "cannotsave")
       \/ Pair(t) \notin marked /\ allowSave /\ Goto(t, "mark") /\ UNCHANGED res
    /\ UNCHANGED <<dbVars, team, flag, data, tries, conn, daemon, history>>

StoreMark(t) ==
    /\ pc[t] = "mark"
    /\ Goto(t, "prepare")
    /\ marked' = marked \cup {Pair(t)}
    /\ UNCHANGED <<dbVars, team, flag, data, tries, conn, res, limited, solCache,
                   allowSave, history>>
-----------------------------------------------------------------------------
(* Step 8: setChallengeSolved, through doQuery.                            *)

\* Mutant of GiveUp: a call that failed is answered like one that did not.
GiveUpGranted(t) ==
    /\ failed' = failed \cup {Pair(t)}
    /\ Goto(t, "rise")
    /\ res' = [res EXCEPT ![t] = "points"]
    /\ tries' = [tries EXCEPT ![t] = 0]
    /\ conn' = [conn EXCEPT ![t] = None]

\* setChallengeSolved returns 0, and verify goes on as if points were given.
GiveUp(t) ==
    /\ failed' = failed \cup {Pair(t)}
    /\ Goto(t, "rise")
    /\ res' = [res EXCEPT ![t] = "zero"]
    /\ tries' = [tries EXCEPT ![t] = 0]
    /\ conn' = [conn EXCEPT ![t] = None]

\* Mutants of Retry: one turn too many, a loop that never ends.
RetryOnceMore(t) ==
    IF tries[t] < MaxRetries
    THEN /\ Goto(t, IF pc[t] = "prepare" THEN "prepare" ELSE "exec")
         /\ tries' = [tries EXCEPT ![t] = @ + 1]
         /\ conn' = [conn EXCEPT ![t] = None]
         /\ UNCHANGED <<res, failed>>
    ELSE GiveUp(t)

RetryForever(t) ==
    /\ Goto(t, IF pc[t] = "prepare" THEN "prepare" ELSE "exec")
    /\ conn' = [conn EXCEPT ![t] = None]
    /\ UNCHANGED <<tries, res, failed>>

\* handleError reconnected: one more turn of the loop, if one is left.
Retry(t) ==
    IF tries[t] + 1 < MaxRetries
    THEN /\ Goto(t, IF pc[t] = "prepare" THEN "prepare" ELSE "exec")
         /\ tries' = [tries EXCEPT ![t] = @ + 1]
         /\ conn' = [conn EXCEPT ![t] = None]
         /\ UNCHANGED <<res, failed>>
    ELSE GiveUp(t)

Prepare(t) ==
    /\ pc[t] = "prepare"
    /\ Goto(t, "exec")
    /\ tries' = [tries EXCEPT ![t] = 0]
    /\ UNCHANGED <<dbVars, team, flag, data, conn, res, daemon, history>>

\* The call runs in a session of its own; the server does not look at others.
Exec(t) ==
    /\ pc[t] = "exec"
    /\ Goto(t, "wait")
    /\ \E s \in Sessions : SpStart(s, Pair(t)) /\ conn' = [conn EXCEPT ![t] = s]
    /\ overlapped' = IF \E s \in Sessions : at[s] \in Running /\ arg[s] = Pair(t)
                     THEN overlapped \cup {Pair(t)} ELSE overlapped
    /\ UNCHANGED <<team, flag, data, tries, res, daemon, failed, cutShort, acked>>

\* Mutant of ExecReturns: the result is read before the call has ended.
ExecReturnsEarly(t) ==
    /\ pc[t] = "wait"
    /\ Goto(t, "points")
    /\ UNCHANGED <<dbVars, team, flag, data, tries, conn, res, daemon, history>>

\* stmt->exec() returns true.
ExecReturns(t) ==
    /\ pc[t] = "wait"
    /\ at[conn[t]] \in Finished
    /\ Goto(t, "points")
    /\ UNCHANGED <<dbVars, team, flag, data, tries, conn, res, daemon, history>>

\* CR_SERVER_GONE_ERROR or CR_SERVER_LOST, before, during or after the call.
\* The session is left alone with what it runs.
LoseConnection(t) ==
    /\ pc[t] \in {"prepare", "exec", "wait"}
    /\ Retry(t)
    /\ UNCHANGED <<dbVars, team, flag, data, daemon, cutShort, overlapped, acked>>

\* A procedure stops before its next statement; what it did so far stays.
Cut(s) ==
    /\ SpRelease(s)
    /\ cutShort' = IF at[s] \in Running \ {"check", "stamp", "count", "insert"}
                   THEN cutShort \cup {Chall(s)} ELSE cutShort

\* Any other error: handleError returns false.
DbError(t) ==
    /\ \/ pc[t] \in {"prepare", "exec"} /\ UNCHANGED <<dbVars, cutShort>>
       \/ pc[t] = "wait" /\ at[conn[t]] \in Running /\ Cut(conn[t])
    /\ GiveUp(t)
    /\ UNCHANGED <<team, flag, data, daemon, overlapped, acked>>

\* select @points: the same session answers with the out parameter.
ReadPoints(t) ==
    /\ pc[t] = "points"
    /\ SpRelease(conn[t])
    /\ conn' = [conn EXCEPT ![t] = None]
    /\ tries' = [tries EXCEPT ![t] = 0]
    /\ \/ at[conn[t]] = "already" /\ Answer(t, "alreadysolved")
       \/ /\ at[conn[t]] = "solved"
          /\ Goto(t, "rise") /\ res' = [res EXCEPT ![t] = "points"]
    /\ UNCHANGED <<team, flag, data, daemon, history>>

\* That query is not retried: no record, so 0 is returned.
PointsLost(t) ==
    /\ pc[t] = "points"
    /\ SpRelease(conn[t])
    /\ conn' = [conn EXCEPT ![t] = None]
    /\ tries' = [tries EXCEPT ![t] = 0]
    /\ Goto(t, "rise") /\ res' = [res EXCEPT ![t] = "zero"]
    /\ UNCHANGED <<team, flag, data, daemon, history>>
-----------------------------------------------------------------------------
(* Step 9 and the answer.                                                  *)

\* The cached pages that depend on the solve are dropped; this module keeps
\* none of them.
Rise(t) ==
    /\ pc[t] = "rise"
    /\ Goto(t, "reply")
    /\ UNCHANGED <<dbVars, team, flag, data, tries, conn, res, daemon, history>>

Reply(t) ==
    /\ pc[t] = "reply"
    /\ Goto(t, "idle")
    /\ acked' = IF res[t] = "points" THEN acked \cup {Pair(t)} ELSE acked
    /\ team' = [team EXCEPT ![t] = None]
    /\ flag' = [flag EXCEPT ![t] = None]
    /\ data' = [data EXCEPT ![t] = None]
    /\ res' = [res EXCEPT ![t] = None]
    /\ UNCHANGED <<dbVars, tries, conn, daemon, failed, cutShort, overlapped>>
-----------------------------------------------------------------------------
(* The daemon, the server and the service manager.                          *)

\* An entry's time is over (rate-limit-seconds, cache.timeout.challengesol),
\* or the cache is full and the least recently used entry leaves.
Expire ==
    /\ \/ \E tm \in limited : limited' = limited \ {tm} /\ UNCHANGED <<marked, solCache>>
       \/ \E p \in marked : marked' = marked \ {p} /\ UNCHANGED <<limited, solCache>>
       \/ \E e \in solCache : solCache' = solCache \ {e} /\ UNCHANGED <<limited, marked>>
    /\ UNCHANGED <<dbVars, thread, allowSave, history>>

Owned(s) == \E t \in Threads : conn[t] = s

\* A session nobody listens to any more ends with its procedure ...
StrayEnds(s) ==
    /\ at[s] \in Finished /\ ~ Owned(s)
    /\ SpRelease(s)
    /\ UNCHANGED <<thread, daemon, history>>

\* ... or is killed where it is.
StrayCut(s) ==
    /\ at[s] \in Running /\ ~ Owned(s)
    /\ Cut(s)
    /\ UNCHANGED <<thread, daemon, failed, overlapped, acked>>

\* Mutant of Restart: the cache outlives the daemon.
RestartKeepsCache ==
    /\ pc' = [t \in Threads |-> "idle"]
    /\ team' = [t \in Threads |-> None]
    /\ flag' = [t \in Threads |-> None]
    /\ data' = [t \in Threads |-> None]
    /\ tries' = [t \in Threads |-> 0]
    /\ conn' = [t \in Threads |-> None]
    /\ res' = [t \in Threads |-> None]
    /\ UNCHANGED <<dbVars, daemon, history>>

\* The daemon dies and systemd starts it again: the cache is empty, the
\* settings are read anew, and what the server was running for it is not told.
Restart ==
    /\ pc' = [t \in Threads |-> "idle"]
    /\ team' = [t \in Threads |-> None]
    /\ flag' = [t \in Threads |-> None]
    /\ data' = [t \in Threads |-> None]
    /\ tries' = [t \in Threads |-> 0]
    /\ conn' = [t \in Threads |-> None]
    /\ res' = [t \in Threads |-> None]
    /\ limited' = {} /\ marked' = {} /\ solCache' = {}
    /\ allowSave' \in BOOLEAN
    /\ UNCHANGED <<dbVars, history>>
-----------------------------------------------------------------------------
\* The steps a worker takes on its own; receiving a request is not one.
Quiet(t) ==
    \/ CheckRate(t) \/ StoreRate(t) \/ LookUp(t) \/ Query(t) \/ Remember(t)
    \/ CheckMark(t) \/ StoreMark(t) \/ Prepare(t) \/ Exec(t) \/ ExecReturns(t)
    \/ Reply(t)

\* The two that drop cached pages.
Work(t) == Quiet(t) \/ ReadPoints(t) \/ Rise(t)

Serve(s) == SpStep(s) /\ UNCHANGED <<thread, daemon, history>>

\* Everything that goes on when nothing fails and nothing expires.
Progress ==
    \/ \E t \in Threads : Receive(t) \/ Work(t)
    \/ \E s \in Sessions : Serve(s) \/ StrayEnds(s)
    \/ Tick /\ UNCHANGED <<thread, daemon, history>>

Fails(t) == QueryFails(t) \/ LoseConnection(t) \/ DbError(t) \/ PointsLost(t)

\* What the environment may do at any time.
Fault ==
    \/ \E t \in Threads : Fails(t)
    \/ \E s \in Sessions : StrayCut(s)
    \/ Expire
    \/ Restart

Next == Progress \/ Fault

Spec == Init /\ [][Next]_vars

\* The threads are scheduled and the server answers; nobody has to submit,
\* and nothing has to fail.
Fairness ==
    /\ \A t \in Threads : WF_vars(Work(t))
    /\ \A s \in Sessions : WF_vars(Serve(s) \/ StrayEnds(s))

FairSpec == Spec /\ Fairness
-----------------------------------------------------------------------------
(* Properties.                                                             *)

\* The values the variables range over.
TypeOK ==
    /\ DbTypeOK
    /\ pc \in [Threads -> {"idle", "rate", "limit", "lookup", "query", "remember",
                           "seen", "mark", "prepare", "exec", "wait", "points",
                           "rise", "reply"}]
    /\ team \in [Threads -> Teams \cup {None}]
    /\ flag \in [Threads -> Flags \cup {None}]
    /\ data \in [Threads -> Challenges \cup {None}]
    /\ tries \in [Threads -> 0 .. MaxRetries - 1]
    /\ conn \in [Threads -> Sessions \cup {None}]
    /\ res \in [Threads -> Answers \cup {None}]
    /\ limited \subseteq Teams /\ marked \subseteq Pairs
    /\ solCache \subseteq Flags \X (Challenges \cup {None})
    /\ allowSave \in BOOLEAN
    /\ failed \subseteq Pairs /\ cutShort \subseteq Challenges
    /\ overlapped \subseteq Pairs /\ acked \subseteq Pairs

\* verifier.cpp:63-67.  A mark chsolv_ is in the cache only when the solve is
\* stored, a worker is storing it now, or storing it was given up: no team is
\* locked out of a challenge by somebody else's submission.
Backed(p) ==
    \/ solved[p] > 0
    \/ p \in failed
    \/ \E t \in Threads : Saving(t) /\ Pair(t) = p

MarkJustified == \A p \in marked : Backed(p)

\* verifier.cpp:54-55 and 69-71.  "alreadysolved" is answered for no other
\* reason either.
AlreadySolvedJustified ==
    \A t \in Threads : res[t] = "alreadysolved" => Backed(Pair(t))

\* verifier.cpp:84.  Points that were answered are on the scoreboard, and the
\* team finds its notice, whatever failed or restarted since.
AcceptedIsScored ==
    \A p \in acked : board.rows[p] > 0 /\ p \in told

\* dbcontroller.cpp:237-253.  A right flag is remembered as wrong only if its
\* challenge was opened during the contest: failed queries leave no trace, and a flag
\* of a challenge that is open from the start is never refused twice for one.
RightFlagKept ==
    \A e \in solCache :
        e[2] = None /\ SolutionOf[e[1]] # None => opentime[SolutionOf[e[1]]] # 0

\* schema.mwb, SolvedChallenge: its COUNT protects against a second row as long
\* as two calls for the same team and challenge do not run side by side.
DoubleRowOnlyByOverlap ==
    \A p \in Pairs : solved[p] > 1 => p \in overlapped

\* schema.mwb, SolvedChallenge: once a challenge has a solution, what it unlocks
\* is open, unless a call that will open it is under way or one was cut.
Unlocking(s) ==
    first[s] /\ at[s] \in {"update", "recompute", "alert", "select", "open"}

UnlockKept ==
    \A c \in Challenges :
        firstTs[c] # Never =>
            \/ \A n \in NextOpen[c] : opentime[n] # Never
            \/ c \in cutShort
            \/ \E s \in Sessions : Unlocking(s) /\ Chall(s) = c

\* schema.mwb, recompute_team_points: the scores lag behind the solutions only
\* while a call is on its way to recompute them, or after one was cut.
ScoresCurrent ==
    \/ board = [rows |-> solved, solves |-> solves]
    \/ \E s \in Sessions : at[s] \in {"update", "recompute"}
    \/ cutShort # {}

\* schema.mwb, SolvedChallenge: a challenge that is open is opened anew, and so
\* closed for the rest of that second, only by a call that had read its clock
\* when the challenge was not open yet.
ReopenedOnlyByEarlierCall ==
    [][\A c \in Challenges :
         IsOpen(c) /\ opentime'[c] # opentime[c] =>
            \E s \in Sessions : at[s] = "open" /\ myts[s] <= opentime[c]]_vars

\* The system keeps the ledger's promises.
Abstract == INSTANCE Ledger WITH
    opened <- {c \in Challenges : opentime[c] # Never},
    scored <- {p \in Pairs : solved[p] > 0},
    published <- {p \in Pairs : board.rows[p] > 0},
    granted <- acked

KeepsLedger == Abstract!Spec

\* dbcontroller.cpp:72-95.  Every request is answered: the loops end however
\* often the connection is lost.
RequestsFinish == \A t \in Threads : pc[t] # "idle" ~> pc[t] = "idle"

\* A challenge somebody solved gets its successors opened, although the daemon
\* may have died or lost the connection meanwhile.
UnlockHappens ==
    \A c \in Challenges :
        firstTs[c] # Never ~>
            (c \in cutShort \/ \A n \in NextOpen[c] : opentime[n] # Never)
-----------------------------------------------------------------------------
(* The inductive invariant behind the theorems of SubmissionProofs.        *)

\* A busy thread has a request, one past fetchSolution a challenge, a waiting
\* one a session that runs its call.
ThreadOK(t) ==
    /\ pc[t] # "idle" => team[t] \in Teams /\ flag[t] \in Flags
    /\ Saving(t) \/ pc[t] \in {"seen", "mark", "rise"} => data[t] \in Challenges
    /\ res[t] # None => pc[t] \in {"rise", "reply"}
    /\ res[t] \in {"points", "alreadysolved"} => data[t] \in Challenges
    /\ conn[t] # None <=> pc[t] \in {"wait", "points"}
    /\ conn[t] # None => at[conn[t]] # "idle" /\ arg[conn[t]] = Pair(t)
    /\ pc[t] = "points" => at[conn[t]] \in Finished

ThreadsOK ==
    /\ \A t \in Threads : ThreadOK(t)
    /\ \A t, u \in Threads : conn[t] = conn[u] /\ conn[t] # None => t = u

\* What a call has done by the statement it has reached.
SessionOK(s) ==
    /\ at[s] \in Running \ {"check", "stamp"} => myts[s] \in 0 .. now
    /\ at[s] \notin {"idle", "check", "stamp", "count", "insert"} => solved[arg[s]] > 0
    /\ at[s] \in {"alert", "select", "open", "announce", "solved"}
         => board.rows[arg[s]] > 0
    /\ at[s] \in {"select", "open", "announce", "solved"} => arg[s] \in told
    /\ at[s] = "insert" /\ ~ first[s] => firstTs[Chall(s)] # Never
    /\ at[s] = "open" =>
         /\ next[s] \subseteq NextOpen[Chall(s)]
         /\ \A n \in NextOpen[Chall(s)] \ next[s] : opentime[n] # Never
         /\ \A n \in next[s] : opentime[n] = Never \/ myts[s] <= opentime[n]

SessionsOK == \A s \in Sessions : SessionOK(s)

\* Whatever names a challenge names one that has been opened.
OnlyOpened ==
    /\ \A e \in solCache : e[2] # None => opentime[e[2]] # Never
    /\ \A t \in Threads : data[t] # None => opentime[data[t]] # Never
    /\ \A s \in Sessions : at[s] # "idle" => opentime[Chall(s)] # Never

\* Without an overlap, a call that passed its check is the only one.
OneByOne ==
    \A p \in Pairs \ overlapped :
        /\ solved[p] <= 1
        /\ \A r, s \in Sessions :
             at[r] \in Running /\ at[s] \in Running /\ arg[r] = p /\ arg[s] = p => r = s
        /\ \A s \in Sessions :
             at[s] \in {"stamp", "count", "insert"} /\ arg[s] = p => solved[p] = 0

\* The scoreboard shows nothing that is not stored.
BoardStored == \A p \in Pairs : board.rows[p] <= solved[p]

\* Points are answered for what the scoreboard shows.
AnswersOK ==
    \A t \in Threads : res[t] = "points" => board.rows[Pair(t)] > 0 /\ Pair(t) \in told

Inductive ==
    /\ TypeOK /\ ThreadsOK /\ SessionsOK /\ OnlyOpened /\ OneByOne /\ BoardStored
    /\ AnswersOK
    /\ MarkJustified /\ AlreadySolvedJustified /\ AcceptedIsScored /\ UnlockKept
    /\ ScoresCurrent
-----------------------------------------------------------------------------
(* What comments say and the code does not do.                             *)

\* verifier.cpp:52: "Check if the team already solved the challenge."
AlreadySolvedIsStored ==
    \A t \in Threads : res[t] = "alreadysolved" =>
        \/ solved[Pair(t)] > 0
        \/ \E u \in Threads : Saving(u) /\ Pair(u) = Pair(t)

\* schema.mwb, SolvedChallenge: "has this team already solved this challenge?"
NoDoubleSolution == \A p \in Pairs : solved[p] <= 1
=============================================================================
