------------------------------ MODULE ScoreDb ------------------------------
(***************************************************************************)
(* The scoreboard's database as the daemon sees it: the tables the stored  *)
(* procedure SolvedChallenge reads and writes, and the procedure itself,   *)
(* one action per SQL statement, because it runs without a transaction and *)
(* every statement commits on its own (schema.mwb, called at               *)
(* src/scoreboard/dbcontroller.cpp:261).                                   *)
(*                                                                         *)
(* The rows of `solutions' are kept as what the procedure can observe of   *)
(* them: how many there are for a team and a challenge, and the earliest   *)
(* timestamp among those of a challenge.  A team's points are a function   *)
(* of its rows and of the counters challenges.solutions, so the scoreboard *)
(* is kept as the snapshot of both that the last recomputation used.       *)
(***************************************************************************)
EXTENDS Integers

CONSTANTS
    Teams,        \* rows of table team
    Challenges,   \* rows of table challenges
    NextOpen,     \* challenges.nextopen and nextopen1, as a set per challenge
    InitOpen,     \* challenges whose opentime is in the past from the start
    Sessions,     \* connections to the server that can be busy at once (bound)
    MaxTime,      \* last value of NOW() that is explored (bound)
    None          \* SQL's NULL, and "no value" of a local variable

ASSUME DbAssumption ==
    /\ NextOpen \in [Challenges -> SUBSET Challenges]
    /\ InitOpen \subseteq Challenges
    /\ MaxTime \in Nat
    /\ None \notin Challenges

VARIABLES
    solved,     \* number of rows of `solutions' for a team and a challenge
    firstTs,    \* earliest solutions.ts of a challenge, Never without rows
    solves,     \* the counter challenges.solutions, from which points derive
    board,      \* what team.points were last computed from
    opentime,   \* challenges.opentime, Never when NULL
    told,       \* "Your team solved ..." rows of `alerts'
    announced,  \* challenges named by a "Team ... unlocked ..." row of `alerts'
    now,        \* NOW(), in seconds
    at,         \* the next statement of the procedure a session runs
    arg,        \* the procedure's arguments teamid and challenge
    myts,       \* its local variable myts
    first,      \* its local variable cnt, as (cnt = 0)
    next        \* its local variables newChallenge1 and newChallenge2

tables == <<solved, firstTs, solves, board, opentime, told, announced, now>>
locals == <<arg, myts, first, next>>
dbVars == <<solved, firstTs, solves, board, opentime, told, announced, now,
            at, arg, myts, first, next>>

Pairs == Teams \X Challenges
Never == -1
Time  == Nat \cup {Never}

Running  == {"check", "stamp", "count", "insert", "update", "recompute",
             "alert", "select", "open", "announce"}
Finished == {"solved", "already"}

\* `opentime < NOW()': NULL does not compare, and the second in which a
\* challenge opens does not count yet.
IsOpen(c) == opentime[c] # Never /\ opentime[c] < now

\* COUNT(*) of the rows of a challenge with ts < myts is not zero.
SolvedBefore(c, ts) == firstTs[c] # Never /\ firstTs[c] < ts

Chall(s) == arg[s][2]

\* Mutants of Closed: the NULL forgotten, the clock not looked at.
ClosedNoNull(c, ts) == {n \in NextOpen[c] : opentime[n] # Never /\ opentime[n] > ts}
ClosedAny(c, ts) == NextOpen[c]

\* The challenges the two SELECTs find: a successor not opened yet.
Closed(c, ts) == {n \in NextOpen[c] : opentime[n] = Never \/ opentime[n] > ts}
-----------------------------------------------------------------------------
DbInit ==
    /\ solved = [p \in Pairs |-> 0]
    /\ firstTs = [c \in Challenges |-> Never]
    /\ solves = [c \in Challenges |-> 0]
    /\ board = [rows |-> solved, solves |-> solves]
    /\ opentime = [c \in Challenges |-> IF c \in InitOpen THEN 0 ELSE Never]
    /\ told = {}
    /\ announced = {}
    /\ now = 1
    /\ at = [s \in Sessions |-> "idle"]
    /\ arg = [s \in Sessions |-> None]
    /\ myts = [s \in Sessions |-> Never]
    /\ first = [s \in Sessions |-> FALSE]
    /\ next = [s \in Sessions |-> {}]

Tick ==
    /\ now < MaxTime
    /\ now' = now + 1
    /\ UNCHANGED <<solved, firstTs, solves, board, opentime, told, announced,
                   at, locals>>

\* CALL SolvedChallenge(team, challenge, @points) reaches the server.
SpStart(s, p) ==
    /\ at[s] = "idle"
    /\ at' = [at EXCEPT ![s] = "check"]
    /\ arg' = [arg EXCEPT ![s] = p]
    /\ UNCHANGED <<tables, myts, first, next>>

\* The session is free again: its local variables are gone.
SpRelease(s) ==
    /\ at' = [at EXCEPT ![s] = "idle"]
    /\ arg' = [arg EXCEPT ![s] = None]
    /\ myts' = [myts EXCEPT ![s] = Never]
    /\ first' = [first EXCEPT ![s] = FALSE]
    /\ next' = [next EXCEPT ![s] = {}]
    /\ UNCHANGED tables

\* Mutant of SpCheck: the count is not looked at.
SpCheckBlind(s) ==
    /\ at[s] = "check"
    /\ at' = [at EXCEPT ![s] = "stamp"]
    /\ UNCHANGED <<tables, locals>>

\* Has this team already solved this challenge?
SpCheck(s) ==
    /\ at[s] = "check"
    /\ at' = [at EXCEPT ![s] = IF solved[arg[s]] > 0 THEN "already" ELSE "stamp"]
    /\ UNCHANGED <<tables, locals>>

\* SET myts = NOW()
SpStamp(s) ==
    /\ at[s] = "stamp"
    /\ at' = [at EXCEPT ![s] = "count"]
    /\ myts' = [myts EXCEPT ![s] = now]
    /\ UNCHANGED <<tables, arg, first, next>>

\* SET cnt = (SELECT COUNT(*) ... WHERE idchallenge = challenge and ts < myts)
SpCount(s) ==
    /\ at[s] = "count"
    /\ at' = [at EXCEPT ![s] = "insert"]
    /\ first' = [first EXCEPT ![s] = ~ SolvedBefore(Chall(s), myts[s])]
    /\ UNCHANGED <<tables, arg, myts, next>>

\* INSERT INTO solutions: no unique key on (idchallenge, idteam) forbids a
\* second row.
SpInsert(s) ==
    /\ at[s] = "insert"
    /\ at' = [at EXCEPT ![s] = "update"]
    /\ solved' = [solved EXCEPT ![arg[s]] = @ + 1]
    /\ firstTs' = [firstTs EXCEPT ![Chall(s)] =
                     IF @ = Never \/ myts[s] < @ THEN myts[s] ELSE @]
    /\ UNCHANGED <<solves, board, opentime, told, announced, now, locals>>

\* Mutant of SpUpdate: the team points are not recomputed.
SpUpdateOnly(s) ==
    /\ at[s] = "update"
    /\ at' = [at EXCEPT ![s] = "alert"]
    /\ solves' = [solves EXCEPT ![Chall(s)] = @ + 1]
    /\ UNCHANGED <<solved, firstTs, board, opentime, told, announced, now, locals>>

\* UPDATE challenges SET solutions = solutions + 1, points = f(solutions)
SpUpdate(s) ==
    /\ at[s] = "update"
    /\ at' = [at EXCEPT ![s] = "recompute"]
    /\ solves' = [solves EXCEPT ![Chall(s)] = @ + 1]
    /\ UNCHANGED <<solved, firstTs, board, opentime, told, announced, now, locals>>

\* CALL recompute_team_points(): one UPDATE over all the teams.
SpRecompute(s) ==
    /\ at[s] = "recompute"
    /\ at' = [at EXCEPT ![s] = "alert"]
    /\ board' = [rows |-> solved, solves |-> solves]
    /\ UNCHANGED <<solved, firstTs, solves, opentime, told, announced, now, locals>>

\* Mutant of SpAlert: the procedure ends before the next challenge is opened.
SpAlertLast(s) ==
    /\ at[s] = "alert"
    /\ at' = [at EXCEPT ![s] = "solved"]
    /\ told' = told \cup {arg[s]}
    /\ UNCHANGED <<solved, firstTs, solves, board, opentime, announced, now, locals>>

\* insert into alerts ... recipient = teamid; then IF(cnt=0)
SpAlert(s) ==
    /\ at[s] = "alert"
    /\ at' = [at EXCEPT ![s] = IF first[s] THEN "select" ELSE "solved"]
    /\ told' = told \cup {arg[s]}
    /\ UNCHANGED <<solved, firstTs, solves, board, opentime, announced, now, locals>>

\* SET newChallenge1 = ..., newChallenge2 = ...; both NULL: LEAVE
SpSelect(s) ==
    /\ at[s] = "select"
    /\ LET found == Closed(Chall(s), myts[s])
       IN  /\ next' = [next EXCEPT ![s] = found]
           /\ at' = [at EXCEPT ![s] = IF found = {} THEN "solved" ELSE "open"]
    /\ UNCHANGED <<tables, arg, myts, first>>

\* UPDATE challenges SET opentime = NOW() WHERE ...
SpOpen(s) ==
    /\ at[s] = "open"
    /\ at' = [at EXCEPT ![s] = "announce"]
    /\ opentime' = [c \in Challenges |-> IF c \in next[s] THEN now ELSE opentime[c]]
    /\ UNCHANGED <<solved, firstTs, solves, board, told, announced, now, locals>>

\* INSERT INTO alerts SET text = msg: no recipient, every team sees it.
SpAnnounce(s) ==
    /\ at[s] = "announce"
    /\ at' = [at EXCEPT ![s] = "solved"]
    /\ announced' = announced \cup next[s]
    /\ UNCHANGED <<solved, firstTs, solves, board, opentime, told, now, locals>>

SpStep(s) ==
    \/ SpCheck(s) \/ SpStamp(s) \/ SpCount(s) \/ SpInsert(s) \/ SpUpdate(s)
    \/ SpRecompute(s) \/ SpAlert(s) \/ SpSelect(s) \/ SpOpen(s) \/ SpAnnounce(s)

\* Whatever a client does, the database changes in one of these ways.
DbStep ==
    \/ UNCHANGED dbVars
    \/ Tick
    \/ \E s \in Sessions : SpStep(s) \/ SpRelease(s)
    \/ \E s \in Sessions, p \in Pairs : SpStart(s, p)

\* The values the variables range over.
DbTypeOK ==
    /\ solved \in [Pairs -> Nat] /\ solves \in [Challenges -> Nat]
    /\ board \in [rows : [Pairs -> Nat], solves : [Challenges -> Nat]]
    /\ firstTs \in [Challenges -> Time] /\ opentime \in [Challenges -> Time]
    /\ told \subseteq Pairs /\ announced \subseteq Challenges /\ now \in Nat
    /\ at \in [Sessions -> Running \cup Finished \cup {"idle"}]
    /\ arg \in [Sessions -> Pairs \cup {None}]
    /\ \A s \in Sessions : at[s] # "idle" => arg[s] \in Pairs
    /\ myts \in [Sessions -> Time] /\ first \in [Sessions -> BOOLEAN]
    /\ next \in [Sessions -> SUBSET Challenges]
=============================================================================
