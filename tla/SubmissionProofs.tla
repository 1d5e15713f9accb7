-------------------------- MODULE SubmissionProofs --------------------------
(***************************************************************************)
(* Theorems about Submission, for every number of teams, challenges, flags *)
(* threads and sessions and every bound on time and retries.               *)
(***************************************************************************)
EXTENDS Submission, TLAPS

USE DbAssumption, SubmissionAssumption

\* Every step of the database keeps the types of its variables.
LEMMA DbTypeStep ==
    ASSUME DbTypeOK, DbStep
    PROVE  DbTypeOK'
<1>1. CASE UNCHANGED dbVars
  BY <1>1 DEF DbTypeOK, dbVars
<1>2. CASE Tick
  BY <1>2 DEF DbTypeOK, Tick, locals
<1>3. ASSUME NEW s \in Sessions, SpStep(s)
      PROVE  DbTypeOK'
  <2> USE DEF DbTypeOK, tables, locals, Running, Finished, Pairs, Time, Never, Chall
  <2>1. CASE SpCheck(s) BY <2>1 DEF SpCheck
  <2>2. CASE SpStamp(s) BY <2>2 DEF SpStamp
  <2>3. CASE SpCount(s) BY <2>3 DEF SpCount
  <2>4. CASE SpInsert(s) BY <2>4 DEF SpInsert
  <2>5. CASE SpUpdate(s) BY <2>5 DEF SpUpdate
  <2>6. CASE SpRecompute(s) BY <2>6 DEF SpRecompute
  <2>7. CASE SpAlert(s) BY <2>7 DEF SpAlert
  <2>8. CASE SpSelect(s) BY <2>8 DEF SpSelect, Closed
  <2>9. CASE SpOpen(s) BY <2>9 DEF SpOpen
  <2>10. CASE SpAnnounce(s) BY <2>10 DEF SpAnnounce
  <2> QED BY <1>3, <2>1, <2>2, <2>3, <2>4, <2>5, <2>6, <2>7, <2>8, <2>9, <2>10
             DEF SpStep
<1>4. ASSUME NEW s \in Sessions, SpRelease(s)
      PROVE  DbTypeOK'
  BY <1>4 DEF DbTypeOK, SpRelease, tables, Time, Never
<1>5. ASSUME NEW s \in Sessions, NEW p \in Pairs, SpStart(s, p)
      PROVE  DbTypeOK'
  BY <1>5 DEF DbTypeOK, SpStart, tables, Running
<1> QED BY <1>1, <1>2, <1>3, <1>4, <1>5 DEF DbStep

\* Every step of the system is one of those of the database.
LEMMA NextIsDbStep ==
    ASSUME TypeOK, ThreadsOK, Next
    PROVE  DbStep
<1> USE DEF DbStep
<1>1. ASSUME NEW t \in Threads, Receive(t) \/ Work(t) PROVE DbStep
  <2>1. CASE Exec(t)
    BY <2>1, Pair(t) \in Pairs DEF Exec, TypeOK, ThreadsOK, ThreadOK, Saving, Pair,
       Pairs
  <2>2. CASE ReadPoints(t)
    BY <2>2 DEF ReadPoints, TypeOK, ThreadsOK, ThreadOK
  <2>3. CASE ~ Exec(t) /\ ~ ReadPoints(t)
    <3>1. UNCHANGED dbVars
      BY <1>1, <2>3 DEF Receive, Work, Quiet, CheckRate, StoreRate, LookUp, Query,
         Remember, CheckMark, StoreMark, Prepare, ExecReturns, Rise, Reply
    <3> QED BY <3>1
  <2> QED BY <2>1, <2>2, <2>3
<1>2. ASSUME NEW s \in Sessions, Serve(s) \/ StrayEnds(s) \/ StrayCut(s) PROVE DbStep
  BY <1>2 DEF Serve, StrayEnds, StrayCut, Cut
<1>3. ASSUME NEW t \in Threads, Fails(t) PROVE DbStep
  <2>1. CASE PointsLost(t)
    BY <2>1 DEF PointsLost, TypeOK, ThreadsOK, ThreadOK
  <2>2. CASE DbError(t)
    BY <2>2 DEF DbError, Cut, TypeOK, ThreadsOK, ThreadOK
  <2>3. CASE QueryFails(t) \/ LoseConnection(t)
    <3>1. UNCHANGED dbVars
      BY <2>3 DEF QueryFails, LoseConnection
    <3> QED BY <3>1
  <2> QED BY <1>3, <2>1, <2>2, <2>3 DEF Fails
<1>4. CASE Expire \/ Restart
  <2>1. UNCHANGED dbVars
    BY <1>4 DEF Expire, Restart
  <2> QED BY <2>1
<1> QED BY <1>1, <1>2, <1>3, <1>4 DEF Next, Progress, Fault

\* What is stored, shown, told or opened stays so.
LEMMA DbGrows ==
    ASSUME DbTypeOK, SessionsOK, BoardStored, DbStep
    PROVE  /\ \A p \in Pairs : solved[p] > 0 => solved'[p] > 0
           /\ \A p \in Pairs : board.rows[p] > 0 => board'.rows[p] > 0
           /\ told \subseteq told'
           /\ \A c \in Challenges : opentime[c] # Never => opentime'[c] # Never
           /\ \A c \in Challenges : firstTs[c] # Never => firstTs'[c] # Never
           /\ now <= now'
           /\ BoardStored'
<1> DEFINE Grows ==
           /\ \A p \in Pairs : solved[p] > 0 => solved'[p] > 0
           /\ \A p \in Pairs : board.rows[p] > 0 => board'.rows[p] > 0
           /\ told \subseteq told'
           /\ \A c \in Challenges : opentime[c] # Never => opentime'[c] # Never
           /\ \A c \in Challenges : firstTs[c] # Never => firstTs'[c] # Never
           /\ now <= now'
           /\ BoardStored'
<1> USE DEF DbTypeOK, BoardStored
<1>1. CASE UNCHANGED tables
  BY <1>1 DEF tables
<1>2. CASE Tick
  BY <1>2 DEF Tick
<1>3. ASSUME NEW s \in Sessions, SpStep(s)
      PROVE  Grows
  <2> (arg[s] \in Pairs /\ Chall(s) \in Challenges) \/ at[s] = "idle"
    BY DEF Chall, Pairs
  <2>1. CASE SpCheck(s) \/ SpStamp(s) \/ SpCount(s) \/ SpSelect(s)
    BY <2>1, <1>1 DEF SpCheck, SpStamp, SpCount, SpSelect
  <2>2. CASE SpInsert(s)
    <3>1. myts[s] \in Nat
      BY <2>2 DEF SpInsert, SessionsOK, SessionOK, Running
    <3> QED BY <2>2, <3>1 DEF SpInsert, Never, Time
  <2>3. CASE SpUpdate(s) BY <2>3 DEF SpUpdate
  <2>4. CASE SpRecompute(s) BY <2>4 DEF SpRecompute
  <2>5. CASE SpAlert(s) BY <2>5 DEF SpAlert
  <2>6. CASE SpOpen(s) BY <2>6 DEF SpOpen, Never
  <2>7. CASE SpAnnounce(s) BY <2>7 DEF SpAnnounce
  <2> QED BY <1>3, <2>1, <2>2, <2>3, <2>4, <2>5, <2>6, <2>7 DEF SpStep
<1> QED BY <1>1, <1>2, <1>3 DEF DbStep, SpRelease, SpStart, dbVars, tables

\* A session's variables change only by a step of its own.
LEMMA OneSessionMoves ==
    ASSUME DbTypeOK, DbStep, NEW s \in Sessions
    PROVE  \/ UNCHANGED <<at[s], arg[s], myts[s], first[s], next[s]>>
           \/ SpStep(s) \/ SpRelease(s) \/ \E p \in Pairs : SpStart(s, p)
<1> USE DEF DbTypeOK
<1>1. ASSUME NEW r \in Sessions \ {s}, SpStep(r)
      PROVE  UNCHANGED <<at[s], arg[s], myts[s], first[s], next[s]>>
  BY <1>1 DEF SpStep, locals, SpCheck, SpStamp, SpCount, SpInsert, SpUpdate,
     SpRecompute, SpAlert, SpSelect, SpOpen, SpAnnounce
<1>2. ASSUME NEW r \in Sessions \ {s}, SpRelease(r) \/ \E p \in Pairs : SpStart(r, p)
      PROVE  UNCHANGED <<at[s], arg[s], myts[s], first[s], next[s]>>
  BY <1>2 DEF SpRelease, SpStart
<1>3. ASSUME UNCHANGED dbVars \/ Tick
      PROVE  UNCHANGED <<at[s], arg[s], myts[s], first[s], next[s]>>
  BY <1>3 DEF dbVars, Tick, locals
<1> QED BY <1>1, <1>2, <1>3 DEF DbStep

\* A call keeps what it has done by the statement it has reached.
LEMMA SessionsStep ==
    ASSUME DbTypeOK, SessionsOK, BoardStored, DbStep
    PROVE  SessionsOK'
<1> USE DEF DbTypeOK
<1> DbTypeOK' BY DbTypeStep
<1>g. /\ \A p \in Pairs : solved[p] > 0 => solved'[p] > 0
      /\ \A p \in Pairs : board.rows[p] > 0 => board'.rows[p] > 0
      /\ told \subseteq told'
      /\ \A c \in Challenges : opentime[c] # Never => opentime'[c] # Never
      /\ \A c \in Challenges : firstTs[c] # Never => firstTs'[c] # Never
      /\ now <= now'
  BY DbGrows
<1>o. \A c \in Challenges : opentime'[c] = opentime[c] \/ opentime'[c] = now
  BY DEF DbStep, dbVars, tables, Tick, SpRelease, SpStart, SpStep, SpCheck, SpStamp,
     SpCount, SpInsert, SpUpdate, SpRecompute, SpAlert, SpSelect, SpOpen, SpAnnounce
<1> SUFFICES ASSUME NEW s \in Sessions PROVE SessionOK(s)'
  BY DEF SessionsOK
<1>0. SessionOK(s) BY DEF SessionsOK
<1>c. at[s] # "idle" => arg[s] \in Pairs /\ Chall(s) \in Challenges
  BY DEF Chall, Pairs
<1>1. CASE UNCHANGED <<at[s], arg[s], myts[s], first[s], next[s]>>
  <2>1. Chall(s)' = Chall(s) BY <1>1 DEF Chall
  <2>2. at[s] = "open" =>
          /\ myts[s] \in 0 .. now /\ next[s] \subseteq NextOpen[Chall(s)]
          /\ \A n \in NextOpen[Chall(s)] \ next[s] : opentime[n] # Never
          /\ \A n \in next[s] : opentime[n] = Never \/ myts[s] <= opentime[n]
    BY <1>0 DEF SessionOK, Running
  <2>3. at[s] = "open" =>
          /\ \A n \in NextOpen[Chall(s)] \ next[s] : opentime'[n] # Never
          /\ \A n \in next[s] : opentime'[n] = Never \/ myts[s] <= opentime'[n]
    BY <2>2, <1>c, <1>g, <1>o DEF Time, Never
  <2>4. at[s] \in Running \ {"check", "stamp"} => myts[s] \in 0 .. now'
    BY <1>0, <1>g DEF SessionOK
  <2> QED BY <1>0, <1>1, <1>c, <1>g, <2>1, <2>2, <2>3, <2>4 DEF SessionOK
<1>2. CASE SpStep(s)
  <2> USE <1>0, <1>c, <1>g DEF SessionOK, tables, locals
  <2>1. CASE SpCheck(s) BY <2>1 DEF SpCheck, Running
  <2>2. CASE SpStamp(s) BY <2>2 DEF SpStamp
  <2>3. CASE SpCount(s) BY <2>3 DEF SpCount, SolvedBefore, Chall, Running
  <2>4. CASE SpInsert(s) BY <2>4 DEF SpInsert, Running
  <2>5. CASE SpUpdate(s) BY <2>5 DEF SpUpdate, Running
  <2>6. CASE SpRecompute(s) BY <2>6 DEF SpRecompute, Running
  <2>7. CASE SpAlert(s) BY <2>7 DEF SpAlert, Running
  <2>8. CASE SpSelect(s)
    <3>1. Closed(Chall(s), myts[s]) \subseteq NextOpen[Chall(s)]
      BY DEF Closed
    <3>2. \A n \in NextOpen[Chall(s)] \ Closed(Chall(s), myts[s]) : opentime[n] # Never
      BY DEF Closed
    <3>3. \A n \in Closed(Chall(s),
        myts[s]) : opentime[n] = Never \/ myts[s] <= opentime[n]
      BY <2>8, <1>c DEF Closed, SpSelect, Time, Running
    <3> QED BY <2>8, <3>1, <3>2, <3>3 DEF SpSelect, Running, Chall
  <2>9. CASE SpOpen(s) BY <2>9 DEF SpOpen, Running
  <2>10. CASE SpAnnounce(s) BY <2>10 DEF SpAnnounce, Running
  <2> QED BY <1>2, <2>1, <2>2, <2>3, <2>4, <2>5, <2>6, <2>7, <2>8, <2>9, <2>10
             DEF SpStep
<1>3. CASE SpRelease(s)
  BY <1>3 DEF SpRelease, SessionOK, Running
<1>4. ASSUME NEW p \in Pairs, SpStart(s, p) PROVE SessionOK(s)'
  BY <1>4 DEF SpStart, SessionOK, Running
<1> QED BY <1>1, <1>2, <1>3, <1>4, OneSessionMoves

-----------------------------------------------------------------------------
(* The worker threads.                                                     *)

ThreadStep(t) == Receive(t) \/ Work(t) \/ Fails(t)

\* A thread's variables change only by a step of its own or a restart.
LEMMA OneThreadMoves ==
    ASSUME TypeOK, Next, NEW t \in Threads, ~ Restart, ~ ThreadStep(t)
    PROVE  UNCHANGED <<pc[t], team[t], flag[t], data[t], tries[t], conn[t], res[t]>>
<1> USE DEF TypeOK
<1> DEFINE Same == UNCHANGED <<pc[t], team[t], flag[t], data[t], tries[t], conn[t],
    res[t]>>
<1>1. ASSUME NEW u \in Threads \ {t}, Receive(u) \/ Work(u) PROVE Same
  BY <1>1 DEF Receive, Work, Quiet, CheckRate, StoreRate, LookUp, Query, Remember,
     CheckMark, StoreMark, Prepare, Exec, ExecReturns, ReadPoints, Rise, Reply, Goto,
     Answer, Found
<1>2. ASSUME NEW u \in Threads \ {t}, Fails(u) PROVE Same
  BY <1>2 DEF Fails, QueryFails, LoseConnection, DbError, PointsLost, Goto, Answer,
     Found, Retry, GiveUp
<1>3. ASSUME UNCHANGED thread PROVE Same
  BY <1>3 DEF thread
<1>4. ASSUME NEW s \in Sessions, Serve(s) \/ StrayEnds(s) \/ StrayCut(s)
      PROVE  UNCHANGED thread
  BY <1>4 DEF Serve, StrayEnds, StrayCut
<1>5. CASE Expire
  BY <1>5, <1>3 DEF Expire
<1> QED BY <1>1, <1>2, <1>3, <1>4, <1>5 DEF Next, Progress, Fault, ThreadStep

\* TypeOK: every action keeps the types of the variables it assigns.
LEMMA TypeStep ==
    ASSUME TypeOK, ThreadsOK, Next
    PROVE  TypeOK'
<1> USE DEF TypeOK
<1>0. DbTypeOK' BY NextIsDbStep, DbTypeStep
<1>1. ASSUME NEW t \in Threads, Receive(t) \/ Work(t) PROVE TypeOK'
  <2>1. pc[t] # "idle" => team[t] \in Teams /\ flag[t] \in Flags
    BY DEF ThreadsOK, ThreadOK
  <2>2. Saving(t) \/ pc[t] \in {"seen", "mark", "rise"} => Pair(t) \in Pairs
    BY <2>1 DEF ThreadsOK, ThreadOK, Pair, Pairs, Saving
  <2> USE <1>0 DEF Goto, Answer, Answers, Found, daemon, history
  <2>3. CASE Receive(t) BY <2>3 DEF Receive
  <2>4. CASE CheckRate(t) BY <2>4 DEF CheckRate
  <2>5. CASE StoreRate(t) BY <2>1, <2>5 DEF StoreRate
  <2>6. CASE LookUp(t) BY <2>6 DEF LookUp
  <2>7. CASE Query(t) BY <2>1, <2>7 DEF Query
  <2>8. CASE Remember(t) BY <2>1, <2>8 DEF Remember
  <2>9. CASE CheckMark(t) BY <2>9 DEF CheckMark
  <2>10. CASE StoreMark(t) BY <2>2, <2>10 DEF StoreMark
  <2>11. CASE Prepare(t) BY <2>11 DEF Prepare
  <2>12. CASE Exec(t) BY <2>2, <2>12 DEF Exec, Saving
  <2>13. CASE ExecReturns(t) BY <2>13 DEF ExecReturns
  <2>14. CASE ReadPoints(t) BY <2>14 DEF ReadPoints
  <2>15. CASE Rise(t) BY <2>15 DEF Rise
  <2>16. CASE Reply(t)
    BY <2>1, <2>16 DEF Reply, ThreadsOK, ThreadOK, Pair, Pairs
  <2> QED BY <1>1, <2>3, <2>4, <2>5, <2>6, <2>7, <2>8, <2>9, <2>10, <2>11, <2>12,
             <2>13, <2>14, <2>15, <2>16 DEF Work, Quiet
<1>2. ASSUME NEW t \in Threads, Fails(t) PROVE TypeOK'
  <2>1. pc[t] # "idle" => team[t] \in Teams /\ flag[t] \in Flags
    BY DEF ThreadsOK, ThreadOK
  <2>2. Saving(t) => Pair(t) \in Pairs
    BY <2>1 DEF ThreadsOK, ThreadOK, Pair, Pairs, Saving
  <2>3. CASE QueryFails(t)
    BY <2>3, <1>0 DEF QueryFails, Found, Goto, Answer, Answers, daemon, history
  <2>4. CASE LoseConnection(t)
    BY <2>4, <1>0, <2>2 DEF LoseConnection, Retry, GiveUp, Goto, Saving, Answers, daemon
  <2>5. CASE DbError(t)
    <3>1. cutShort' \subseteq Challenges
      BY <2>5 DEF DbError, Cut, ThreadsOK, ThreadOK, Chall, Pairs, Running, DbTypeOK
    <3> QED BY <2>5, <1>0, <2>2, <3>1 DEF DbError, GiveUp, Goto, Saving, Answers, daemon
  <2>6. CASE PointsLost(t)
    BY <2>6, <1>0 DEF PointsLost, Goto, Answers, daemon, history
  <2> QED BY <1>2, <2>3, <2>4, <2>5, <2>6 DEF Fails
<1>3. ASSUME NEW s \in Sessions, Serve(s) \/ StrayEnds(s) \/ StrayCut(s) PROVE TypeOK'
  <2>1. cutShort' \subseteq Challenges
    BY <1>3 DEF Serve, StrayEnds, StrayCut, Cut, history, Chall, Pairs, Running,
       DbTypeOK
  <2> QED BY <1>0, <1>3, <2>1 DEF Serve, StrayEnds, StrayCut, thread, daemon, history
<1>4. CASE Expire \/ Restart
  BY <1>0, <1>4 DEF Expire, Restart, thread, history
<1>5. CASE Tick /\ UNCHANGED <<thread, daemon, history>>
  BY <1>0, <1>5 DEF thread, daemon, history
<1> QED BY <1>1, <1>2, <1>3, <1>4, <1>5 DEF Next, Progress, Fault

\* While a thread waits, nobody else touches the session that runs its call.
LEMMA CallKept ==
    ASSUME TypeOK, ThreadsOK, Next, ~ Restart,
           NEW t \in Threads, ~ ThreadStep(t), conn[t] # None
    PROVE  /\ arg'[conn[t]] = arg[conn[t]] /\ at'[conn[t]] # "idle"
           /\ at[conn[t]] \in Finished => at'[conn[t]] \in Finished
<1> USE DEF TypeOK, DbTypeOK
<1> DEFINE s == conn[t]
           Kept == arg'[s] = arg[s] /\ at'[s] # "idle"
                     /\ (at[s] \in Finished => at'[s] \in Finished)
<1>1. s \in Sessions /\ at[s] # "idle"
  BY DEF ThreadsOK, ThreadOK
<1>2. \A u \in Threads \ {t} : conn[u] # s
  BY <1>1 DEF ThreadsOK
<1>3. ASSUME UNCHANGED dbVars PROVE Kept
  BY <1>1, <1>3 DEF dbVars
<1>4. ASSUME NEW r \in Sessions, r # s, SpRelease(r) \/ \E p \in Pairs : SpStart(r, p)
      PROVE  Kept
  BY <1>1, <1>4 DEF SpRelease, SpStart
<1>5. ASSUME NEW u \in Threads \ {t}, Receive(u) \/ Work(u) PROVE Kept
  <2>1. CASE Exec(u)
    <3>1. Pair(u) \in Pairs
      BY <2>1 DEF Exec, ThreadsOK, ThreadOK, Saving, Pair, Pairs
    <3>2. PICK r \in Sessions : SpStart(r, Pair(u))
      BY <2>1 DEF Exec
    <3> QED BY <1>1, <1>4, <3>1, <3>2 DEF SpStart
  <2>2. CASE ReadPoints(u)
    BY <2>2, <1>2, <1>4 DEF ReadPoints, ThreadsOK, ThreadOK
  <2> QED BY <1>3, <1>5, <2>1, <2>2 DEF Receive, Work, Quiet, CheckRate, StoreRate,
             LookUp, Query, Remember, CheckMark, StoreMark, Prepare, ExecReturns,
             Rise, Reply
<1>6. ASSUME NEW u \in Threads \ {t}, Fails(u) PROVE Kept
  <2>1. CASE QueryFails(u) \/ LoseConnection(u)
    BY <1>3, <2>1 DEF QueryFails, LoseConnection
  <2>2. CASE DbError(u)
    BY <2>2, <1>2, <1>3, <1>4 DEF DbError, Cut, ThreadsOK, ThreadOK
  <2>3. CASE PointsLost(u)
    BY <2>3, <1>2, <1>4 DEF PointsLost, ThreadsOK, ThreadOK
  <2> QED BY <1>6, <2>1, <2>2, <2>3 DEF Fails
<1>7. ASSUME NEW r \in Sessions, StrayEnds(r) \/ StrayCut(r) PROVE Kept
  BY <1>4, <1>7 DEF StrayEnds, StrayCut, Cut, Owned
<1>8. ASSUME NEW r \in Sessions, Serve(r) PROVE Kept
  BY <1>1, <1>8 DEF Serve, SpStep, locals, SpCheck, SpStamp, SpCount, SpInsert,
     SpUpdate, SpRecompute, SpAlert, SpSelect, SpOpen, SpAnnounce, Finished
<1>9. CASE Tick \/ Expire
  BY <1>1, <1>3, <1>9 DEF Tick, Expire, locals
<1> QED BY <1>5, <1>6, <1>7, <1>8, <1>9 DEF Next, Progress, Fault, ThreadStep

\* A thread's place in its request, its locals and its session agree.
LEMMA ThreadsStep ==
    ASSUME TypeOK, ThreadsOK, Next
    PROVE  ThreadsOK'
<1> USE DEF TypeOK
<1>1. CASE Restart
  BY <1>1 DEF Restart, ThreadsOK, ThreadOK, Saving, Answers
<1>2. CASE ~ Restart
  <2>1. ASSUME NEW t \in Threads, ~ ThreadStep(t) PROVE ThreadOK(t)'
    <3>1. UNCHANGED <<pc[t], team[t], flag[t], data[t], tries[t], conn[t], res[t]>>
      BY <1>2, <2>1, OneThreadMoves
    <3>2. CASE conn[t] = None
      BY <3>1, <3>2 DEF ThreadsOK, ThreadOK, Saving
    <3>3. CASE conn[t] # None
      <4>1. /\ arg'[conn[t]] = arg[conn[t]] /\ at'[conn[t]] # "idle"
            /\ at[conn[t]] \in Finished => at'[conn[t]] \in Finished
        BY <1>2, <2>1, <3>3, CallKept
      <4> QED BY <3>1, <4>1 DEF ThreadsOK, ThreadOK, Saving, Pair
    <3> QED BY <3>2, <3>3
  <2>2. ASSUME NEW t \in Threads, ThreadStep(t)
        PROVE  ThreadOK(t)' /\ \A u \in Threads : conn'[t] = conn'[u] /\ conn'[t] # None => t = u
    <3> DEFINE Good == /\ ThreadOK(t)'
                       /\ \A u \in Threads : conn'[t] = conn'[u] /\ conn'[t] # None => t = u
    <3>1. ThreadOK(t) /\ \A u \in Threads : conn[t] = conn[u] /\ conn[t] # None => t = u
      BY DEF ThreadsOK
    <3> USE <2>2, <3>1 DEF ThreadOK, Saving, Goto, Answer, Answers, Pair
    <3>2. CASE Receive(t) BY <3>2 DEF Receive
    <3>3. CASE CheckRate(t) \/ StoreRate(t) BY <3>3 DEF CheckRate, StoreRate
    <3>4. CASE LookUp(t) BY <3>4 DEF LookUp, Found
    <3>5. CASE Query(t) \/ QueryFails(t) BY <3>5 DEF Query, QueryFails, Found
    <3>6. CASE Remember(t) BY <3>6 DEF Remember, Found
    <3>7. CASE CheckMark(t) \/ StoreMark(t) BY <3>7 DEF CheckMark, StoreMark
    <3>8. CASE Prepare(t) BY <3>8 DEF Prepare
    <3>9. CASE Exec(t)
      <4>1. PICK s \in Sessions : SpStart(s, Pair(t)) /\ conn' = [conn EXCEPT ![t] = s]
        BY <3>9 DEF Exec
      <4>2. \A u \in Threads : conn[u] # s
        BY <4>1 DEF SpStart, ThreadsOK
      <4> QED BY <3>9, <4>1, <4>2 DEF Exec, SpStart, DbTypeOK
    <3>10. CASE ExecReturns(t) BY <3>10 DEF ExecReturns, dbVars
    <3>11. CASE ReadPoints(t) \/ PointsLost(t) BY <3>11 DEF ReadPoints, PointsLost
    <3>12. CASE Rise(t) \/ Reply(t) BY <3>12 DEF Rise, Reply
    <3>13. CASE LoseConnection(t) BY <3>13 DEF LoseConnection, Retry, GiveUp
    <3>14. CASE DbError(t) BY <3>14 DEF DbError, GiveUp
    <3> QED BY <3>2, <3>3, <3>4, <3>5, <3>6, <3>7, <3>8, <3>9, <3>10, <3>11, <3>12,
               <3>13, <3>14 DEF ThreadStep, Work, Quiet, Fails
  <2>4. \A t, u \in Threads : conn'[t] = conn'[u] /\ conn'[t] # None => t = u
    BY <1>2, <2>2, OneThreadMoves DEF ThreadsOK
  <2> QED BY <2>1, <2>2, <2>4 DEF ThreadsOK
<1> QED BY <1>1, <1>2

-----------------------------------------------------------------------------
(* The invariants, one lemma each for its step.                            *)

\* What the threads, the cache and the calls name has been opened.
LEMMA OnlyOpenedStep ==
    ASSUME TypeOK, ThreadsOK, SessionsOK, BoardStored, OnlyOpened, Next
    PROVE  OnlyOpened'
<1> USE DEF TypeOK
<1>d. DbStep BY NextIsDbStep
<1>g. \A c \in Challenges : opentime[c] # Never => opentime'[c] # Never
  BY <1>d, DbGrows
<1>1. ASSUME NEW t \in Threads, data'[t] # None PROVE opentime'[data'[t]] # Never
  <2>1. CASE data'[t] = data[t]
    BY <1>1, <1>g, <2>1 DEF OnlyOpened
  <2>2. CASE data'[t] # data[t]
    <3>1. CASE Restart
      BY <1>1, <3>1 DEF Restart
    <3>2. CASE ~ Restart
      <4>1. ThreadStep(t)
        BY <2>2, <3>2, OneThreadMoves
      <4>2. LookUp(t) \/ Query(t)
        BY <1>1, <2>2, <4>1 DEF ThreadStep, Receive, Work, Quiet, Fails, CheckRate,
           StoreRate, Remember, CheckMark, StoreMark, Prepare, Exec, ExecReturns,
           ReadPoints, Rise, Reply, QueryFails, LoseConnection, DbError, PointsLost,
           Found
      <4>3. CASE LookUp(t)
        BY <1>1, <1>g, <2>2, <4>3 DEF LookUp, Found, OnlyOpened
      <4>4. CASE Query(t)
        BY <1>1, <1>g, <4>4 DEF Query, IsOpen, ThreadsOK, ThreadOK
      <4> QED BY <4>2, <4>3, <4>4
    <3> QED BY <3>1, <3>2
  <2> QED BY <2>1, <2>2
<1>2. ASSUME NEW e \in solCache', e[2] # None PROVE opentime'[e[2]] # Never
  <2>1. CASE e \in solCache
    BY <1>2, <1>g, <2>1 DEF OnlyOpened
  <2>2. CASE e \notin solCache
    <3>1. PICK t \in Threads : Remember(t)
      BY <1>2, <2>2 DEF Next, Progress, Fault, Receive, Work, Quiet, Fails,
         CheckRate, StoreRate, LookUp, Query, CheckMark, StoreMark, Prepare, Exec,
         ExecReturns, ReadPoints, Rise, Reply, QueryFails, LoseConnection, DbError,
         PointsLost, Serve, StrayEnds, StrayCut, Expire, Restart, daemon
    <3>2. e[2] = data[t]
      BY <2>2, <3>1 DEF Remember
    <3> QED BY <1>2, <1>g, <3>2 DEF OnlyOpened
  <2> QED BY <2>1, <2>2
<1>3. ASSUME NEW s \in Sessions, at'[s] # "idle" PROVE opentime'[Chall(s)'] # Never
  <2>1. CASE at[s] # "idle"
    <3>1. arg'[s] = arg[s]
      BY <1>3, <1>d, <2>1, OneSessionMoves DEF DbTypeOK, SpStep, locals, SpCheck,
         SpStamp, SpCount, SpInsert, SpUpdate, SpRecompute, SpAlert, SpSelect,
         SpOpen, SpAnnounce, SpRelease, SpStart
    <3> QED BY <1>g, <2>1, <3>1 DEF OnlyOpened, Chall, DbTypeOK, Pairs
  <2>2. CASE at[s] = "idle"
    <3>1. PICK t \in Threads : Exec(t) /\ arg'[s] = Pair(t)
      <4>1. \A r \in Sessions : SpStep(r) \/ SpRelease(r) => at'[s] = "idle"
        BY <2>2 DEF DbTypeOK, SpStep, SpCheck, SpStamp, SpCount, SpInsert, SpUpdate,
           SpRecompute, SpAlert, SpSelect, SpOpen, SpAnnounce, SpRelease
      <4>2. ~ UNCHANGED dbVars /\ ~ Tick
        BY <1>3, <2>2 DEF dbVars, Tick
      <4>3. PICK t \in Threads : Exec(t)
        BY <1>3, <4>1, <4>2 DEF Next, Progress, Fault, Receive, Work, Quiet, Fails,
           CheckRate, StoreRate, LookUp, Query, Remember, CheckMark, StoreMark,
           Prepare, ExecReturns, ReadPoints, Rise, Reply, QueryFails, LoseConnection,
           DbError, PointsLost, Serve, StrayEnds, StrayCut, Cut, Expire, Restart,
           ThreadsOK, ThreadOK
      <4>4. arg'[s] = Pair(t)
        BY <1>3, <2>2, <4>3 DEF Exec, SpStart, DbTypeOK
      <4> QED BY <4>3, <4>4
    <3>2. data[t] \in Challenges /\ arg'[s][2] = data[t]
      BY <3>1 DEF Exec, ThreadsOK, ThreadOK, Saving, Pair
    <3> QED BY <1>g, <3>2 DEF OnlyOpened, Chall
  <2> QED BY <2>1, <2>2
<1> QED BY <1>1, <1>2, <1>3 DEF OnlyOpened

\* DoubleRowOnlyByOverlap: two calls side by side are the only way.
LEMMA OneByOneStep ==
    ASSUME TypeOK, ThreadsOK, OneByOne, Next
    PROVE  OneByOne'
<1> USE DEF TypeOK, DbTypeOK
<1>1. ASSUME NEW s \in Sessions, SpStep(s), overlapped' = overlapped PROVE OneByOne'
  <2>1. arg' = arg /\ \A r \in Sessions \ {s} : at'[r] = at[r]
    BY <1>1 DEF SpStep, SpCheck, SpStamp, SpCount, SpInsert, SpUpdate, SpRecompute,
       SpAlert, SpSelect, SpOpen, SpAnnounce, locals
  <2>2. at[s] \in Running /\ arg[s] \in Pairs
    BY <1>1 DEF SpStep, SpCheck, SpStamp, SpCount, SpInsert, SpUpdate, SpRecompute,
       SpAlert, SpSelect, SpOpen, SpAnnounce, Running
  <2>3. CASE SpInsert(s)
    <3>1. at[s] = "insert" /\ at'[s] = "update" /\ solved' = [solved EXCEPT ![arg[s]] = @ + 1]
      BY <2>3 DEF SpInsert
    <3> SUFFICES ASSUME NEW p \in Pairs \ overlapped
                 PROVE  /\ solved'[p] <= 1
                        /\ \A q, r \in Sessions :
                             at'[q] \in Running /\ at'[r] \in Running /\ arg[q] = p /\ arg[r] = p
                                => q = r
                        /\ \A r \in Sessions :
                             at'[r] \in {"stamp", "count", "insert"} /\ arg[r] = p
                                => solved'[p] = 0
      BY <1>1, <2>1 DEF OneByOne
    <3>2. \A q, r \in Sessions :
            at[q] \in Running /\ at[r] \in Running /\ arg[q] = p /\ arg[r] = p => q = r
      BY DEF OneByOne
    <3>3. CASE arg[s] = p
      <4>1. solved[p] = 0 BY <3>1, <3>3 DEF OneByOne
      <4> QED BY <2>1, <2>2, <3>1, <3>2, <3>3, <4>1 DEF Running
    <3>4. CASE arg[s] # p
      BY <2>1, <2>2, <3>1, <3>2, <3>4 DEF OneByOne
    <3> QED BY <3>3, <3>4
  <2>4. CASE ~ SpInsert(s)
    <3>1. solved' = solved
      BY <1>1, <2>4 DEF SpStep, SpCheck, SpStamp, SpCount, SpUpdate, SpRecompute,
         SpAlert, SpSelect, SpOpen, SpAnnounce, tables
    <3>2. at'[s] \in {"stamp", "count", "insert"} =>
            at[s] \in {"stamp", "count"} \/ solved[arg[s]] = 0
      BY <1>1, <2>2, <2>4 DEF SpStep, SpCheck, SpStamp, SpCount, SpUpdate, SpRecompute,
         SpAlert, SpSelect, SpOpen, SpAnnounce
    <3> QED BY <1>1, <2>1, <2>2, <3>1, <3>2 DEF OneByOne
  <2> QED BY <2>3, <2>4
<1>2. ASSUME NEW s \in Sessions, SpRelease(s), overlapped' = overlapped PROVE OneByOne'
  BY <1>2 DEF SpRelease, OneByOne, tables, Running
<1>3. ASSUME solved' = solved, at' = at, arg' = arg,
    overlapped' = overlapped PROVE OneByOne'
  BY <1>3 DEF OneByOne
<1>4. ASSUME NEW t \in Threads, Exec(t) PROVE OneByOne'
  <2>1. PICK s \in Sessions : SpStart(s, Pair(t))
    BY <1>4 DEF Exec
  <2>2. /\ solved' = solved /\ at[s] = "idle" /\ at' = [at EXCEPT ![s] = "check"]
        /\ arg' = [arg EXCEPT ![s] = Pair(t)]
    BY <2>1 DEF SpStart, tables
  <2>3. /\ overlapped \subseteq overlapped'
        /\ Pair(t) \notin overlapped' =>
             \A r \in Sessions : at[r] \in Running => arg[r] # Pair(t)
    BY <1>4 DEF Exec
  <2> QED BY <2>2, <2>3 DEF OneByOne, Running
<1>5. ASSUME NEW t \in Threads, ThreadStep(t), ~ Exec(t) PROVE OneByOne'
  <2>1. CASE ReadPoints(t) \/ PointsLost(t)
    BY <1>2, <2>1 DEF ReadPoints, PointsLost, history, ThreadsOK, ThreadOK
  <2>2. CASE DbError(t)
    BY <1>2, <1>3, <2>2 DEF DbError, Cut, dbVars, ThreadsOK, ThreadOK
  <2>3. CASE ~ ReadPoints(t) /\ ~ PointsLost(t) /\ ~ DbError(t)
    <3>1. UNCHANGED dbVars /\ overlapped' = overlapped
      BY <1>5, <2>3 DEF ThreadStep, Receive, Work, Quiet, Fails, CheckRate,
         StoreRate, LookUp, Query, Remember, CheckMark, StoreMark, Prepare,
         ExecReturns, Rise, Reply, QueryFails, LoseConnection, history
    <3> QED BY <1>3, <3>1 DEF dbVars
  <2> QED BY <2>1, <2>2, <2>3
<1>6. ASSUME NEW s \in Sessions, Serve(s) \/ StrayEnds(s) \/ StrayCut(s) PROVE OneByOne'
  BY <1>1, <1>2, <1>6 DEF Serve, StrayEnds, StrayCut, Cut, history
<1>7. CASE Expire \/ Restart \/ (Tick /\ UNCHANGED <<thread, daemon, history>>)
  BY <1>3, <1>7 DEF Expire, Restart, Tick, dbVars, locals, history
<1> QED BY <1>4, <1>5, <1>6, <1>7 DEF Next, Progress, Fault, ThreadStep

\* A call that has a statement left ends only by being cut.
LEMMA RunningEndsByCut ==
    ASSUME TypeOK, ThreadsOK, Next,
           NEW s \in Sessions, at[s] \in Running, at'[s] = "idle"
    PROVE  Cut(s)
<1> USE DEF TypeOK, DbTypeOK, Running, Finished
<1>1. \A r \in Sessions : SpRelease(r) => r = s
  BY DEF SpRelease
<1>2. \A r \in Sessions, p \in Pairs : ~ SpStart(r, p)
  BY DEF SpStart
<1>3. \A r \in Sessions : ~ SpStep(r)
  BY DEF SpStep, SpCheck, SpStamp, SpCount, SpInsert, SpUpdate, SpRecompute, SpAlert,
     SpSelect, SpOpen, SpAnnounce
<1>4. ~ UNCHANGED dbVars /\ ~ Tick
  BY DEF dbVars, Tick
<1>5. \A t \in Threads : ~ (Receive(t) \/ Work(t))
  <2> SUFFICES ASSUME NEW t \in Threads, Receive(t) \/ Work(t) PROVE FALSE
    OBVIOUS
  <2>1. ~ Exec(t)
    <3>1. pc[t] = "exec" => Pair(t) \in Pairs
      BY DEF ThreadsOK, ThreadOK, Saving, Pair, Pairs
    <3> QED BY <1>2, <3>1 DEF Exec
  <2>2. ~ ReadPoints(t)
    BY <1>1 DEF ReadPoints, ThreadsOK, ThreadOK
  <2> QED BY <1>4, <2>1, <2>2 DEF Receive, Work, Quiet, CheckRate, StoreRate, LookUp,
             Query, Remember, CheckMark, StoreMark, Prepare, ExecReturns, Rise, Reply
<1>6. ASSUME NEW t \in Threads, Fails(t) PROVE Cut(s)
  <2>1. ~ PointsLost(t)
    BY <1>1 DEF PointsLost, ThreadsOK, ThreadOK
  <2>2. pc[t] = "wait" /\ Cut(conn[t])
    BY <1>4, <1>6, <2>1 DEF Fails, QueryFails, LoseConnection, DbError
  <2>3. conn[t] = s
    BY <1>1, <2>2 DEF Cut, ThreadsOK, ThreadOK
  <2> QED BY <2>2, <2>3
<1>7. ASSUME NEW r \in Sessions, Serve(r) \/ StrayEnds(r) \/ StrayCut(r) PROVE Cut(s)
  BY <1>1, <1>3, <1>7 DEF Serve, StrayEnds, StrayCut, Cut
<1> QED BY <1>4, <1>5, <1>6, <1>7 DEF Next, Progress, Fault, Expire, Restart

\* A challenge one of whose calls was cut stays one.
LEMMA CutShortGrows ==
    ASSUME Next
    PROVE  cutShort \subseteq cutShort'
BY DEF Next, Progress, Fault, Receive, Work, Quiet, Fails, CheckRate, StoreRate,
   LookUp, Query, Remember, CheckMark, StoreMark, Prepare, Exec, ExecReturns,
   ReadPoints, Rise, Reply, QueryFails, LoseConnection, DbError, PointsLost, Serve,
   StrayEnds, StrayCut, Cut, Expire, Restart, history

\* A call that is cut, or the only first call, accounts for what is not open.
LEMMA UnlockStep ==
    ASSUME TypeOK, ThreadsOK, SessionsOK, BoardStored, UnlockKept, Next
    PROVE  UnlockKept'
<1> USE DEF TypeOK, DbTypeOK
<1>d. DbStep BY NextIsDbStep
<1>g. \A c \in Challenges : opentime[c] # Never => opentime'[c] # Never
  BY <1>d, DbGrows
<1>k. cutShort \subseteq cutShort' BY CutShortGrows
<1> SUFFICES ASSUME NEW c \in Challenges, firstTs'[c] # Never
             PROVE  \/ \A n \in NextOpen[c] : opentime'[n] # Never
                    \/ c \in cutShort'
                    \/ \E s \in Sessions : Unlocking(s)' /\ Chall(s)' = c
  BY DEF UnlockKept
<1> DEFINE Goal == \/ \A n \in NextOpen[c] : opentime'[n] # Never
                   \/ c \in cutShort'
                   \/ \E s \in Sessions : Unlocking(s)' /\ Chall(s)' = c
\* A call that inserts the first row is a first call.
<1>1. CASE firstTs[c] = Never
  <2>1. PICK s \in Sessions : SpInsert(s) /\ Chall(s) = c
    <3>1. PICK s \in Sessions : SpInsert(s)
      BY <1>1, <1>d DEF DbStep, SpStep, dbVars, tables, Tick, SpRelease, SpStart,
         SpCheck, SpStamp, SpCount, SpUpdate, SpRecompute, SpAlert, SpSelect, SpOpen,
         SpAnnounce
    <3>2. Chall(s) = c
      BY <1>1, <3>1 DEF SpInsert
    <3> QED BY <3>1, <3>2
  <2>2. first[s]
    BY <1>1, <2>1 DEF SpInsert, SessionsOK, SessionOK
  <2>3. Unlocking(s)' /\ Chall(s)' = c
    BY <2>1, <2>2 DEF SpInsert, Unlocking, Chall, locals
  <2> QED BY <2>3
\* Otherwise the call under way stays so until it has opened the successors.
<1>2. CASE firstTs[c] # Never
  <2>1. CASE (\A n \in NextOpen[c] : opentime[n] # Never) \/ c \in cutShort
    BY <1>g, <1>k, <2>1
  <2>2. ASSUME NEW s \in Sessions, Unlocking(s), Chall(s) = c
        PROVE  Goal
    <3>1. CASE UNCHANGED <<at[s], arg[s], first[s]>>
      BY <2>2, <3>1 DEF Unlocking, Chall
    <3>2. CASE SpStep(s)
      <4>1. CASE SpSelect(s)
        BY <1>g, <2>2, <4>1 DEF SpSelect, Closed, Unlocking, Chall, Never
      <4>2. CASE SpOpen(s)
        <5>1. \A n \in NextOpen[c] \ next[s] : opentime[n] # Never
          BY <2>2, <4>2 DEF SpOpen, SessionsOK, SessionOK
        <5>2. \A n \in next[s] : opentime'[n] = now
          BY <4>2 DEF SpOpen
        <5> QED BY <1>g, <5>1, <5>2 DEF Never
      <4> QED BY <2>2, <3>2, <4>1, <4>2 DEF SpStep, SpCheck, SpStamp, SpCount, SpInsert,
             SpUpdate, SpRecompute, SpAlert, SpAnnounce, Unlocking, Chall, locals
    <3>3. CASE SpRelease(s)
      <4>1. c \in cutShort'
        <5>1. at[s] \in Running \ {"check", "stamp", "count",
            "insert"} /\ at'[s] = "idle"
          BY <2>2, <3>3 DEF Unlocking, Running, SpRelease
        <5>2. Cut(s) BY <5>1, RunningEndsByCut
        <5> QED BY <2>2, <5>1, <5>2 DEF Cut
      <4> QED BY <4>1
    <3>4. CASE \E p \in Pairs : SpStart(s, p)
      BY <2>2, <3>4 DEF SpStart, Unlocking
    <3> QED BY <1>d, <3>1, <3>2, <3>3, <3>4, OneSessionMoves
  <2> QED BY <1>2, <2>1, <2>2 DEF UnlockKept
<1> QED BY <1>1, <1>2

\* ScoresCurrent: what makes the scores stale is a call that will recompute
\* them, or one that was cut.
LEMMA ScoresStep ==
    ASSUME TypeOK, ThreadsOK, ScoresCurrent, Next
    PROVE  ScoresCurrent'
<1> USE DEF TypeOK, DbTypeOK
<1>d. DbStep BY NextIsDbStep
<1>1. CASE cutShort # {}
  <2>1. cutShort \subseteq cutShort' BY CutShortGrows
  <2> QED BY <1>1, <2>1 DEF ScoresCurrent
<1>2. ASSUME NEW s \in Sessions, SpStep(s), cutShort = {} PROVE ScoresCurrent'
  <2>1. CASE SpInsert(s) \/ SpUpdate(s)
    BY <2>1 DEF SpInsert, SpUpdate, ScoresCurrent
  <2>2. CASE SpRecompute(s)
    BY <2>2 DEF SpRecompute, ScoresCurrent
  <2>3. CASE ~ SpInsert(s) /\ ~ SpUpdate(s) /\ ~ SpRecompute(s)
    <3>1. /\ UNCHANGED <<solved, solves, board>>
          /\ \A r \in Sessions : at[r] \in {"update", "recompute"} => at'[r] = at[r]
      BY <1>2, <2>3 DEF SpStep, SpCheck, SpStamp, SpCount, SpAlert, SpSelect, SpOpen,
         SpAnnounce, tables
    <3> QED BY <1>2, <3>1 DEF ScoresCurrent
  <2> QED BY <2>1, <2>2, <2>3
<1>3. ASSUME NEW s \in Sessions, SpRelease(s), cutShort = {} PROVE ScoresCurrent'
  <2>1. CASE at[s] \in {"update", "recompute"}
    <3>1. Cut(s)
      BY <1>3, <2>1, RunningEndsByCut DEF SpRelease, Running
    <3> QED BY <2>1, <3>1 DEF Cut, Running, ScoresCurrent
  <2>2. CASE at[s] \notin {"update", "recompute"}
    BY <1>3, <2>2 DEF SpRelease, tables, ScoresCurrent
  <2> QED BY <2>1, <2>2
<1>4. ASSUME NEW s \in Sessions, NEW p \in Pairs, SpStart(s, p), cutShort = {}
      PROVE  ScoresCurrent'
  BY <1>4 DEF SpStart, tables, ScoresCurrent
<1>5. ASSUME UNCHANGED dbVars \/ Tick, cutShort = {} PROVE ScoresCurrent'
  BY <1>5 DEF dbVars, Tick, ScoresCurrent
<1> QED BY <1>d, <1>1, <1>2, <1>3, <1>4, <1>5 DEF DbStep

\* AnswersOK and AcceptedIsScored: points are read from a call that has ended.
LEMMA AcceptedStep ==
    ASSUME TypeOK, ThreadsOK, SessionsOK, BoardStored, AnswersOK, AcceptedIsScored, Next
    PROVE  AnswersOK' /\ AcceptedIsScored'
<1> USE DEF TypeOK
<1>d. DbStep BY NextIsDbStep
<1>g. /\ \A p \in Pairs : board.rows[p] > 0 => board'.rows[p] > 0
      /\ told \subseteq told'
  BY <1>d, DbGrows
<1>1. ASSUME NEW t \in Threads, res'[t] = "points"
      PROVE  board'.rows[Pair(t)'] > 0 /\ Pair(t)' \in told'
  <2>0. ~ Restart
    BY <1>1 DEF Restart, Answers
  <2>1. CASE ReadPoints(t)
    <3>1. conn[t] \in Sessions /\ at[conn[t]] = "solved" /\ arg[conn[t]] = Pair(t)
      BY <1>1, <2>1 DEF ReadPoints, Answer, Goto, ThreadsOK, ThreadOK
    <3>2. board.rows[Pair(t)] > 0 /\ Pair(t) \in told
      BY <3>1 DEF SessionsOK, SessionOK
    <3>3. Pair(t)' = Pair(t)
      BY <2>1 DEF ReadPoints, Pair
    <3> QED BY <1>g, <3>2, <3>3 DEF DbTypeOK
  <2>2. CASE ~ ReadPoints(t)
    <3>1. res[t] = "points" /\ Pair(t)' = Pair(t)
      <4>1. CASE ~ ThreadStep(t)
        BY <1>1, <2>0, <4>1, OneThreadMoves DEF Pair
      <4>2. CASE ThreadStep(t)
        BY <1>1, <2>2, <4>2 DEF ThreadStep, Receive, Work, Quiet, Fails, CheckRate,
           StoreRate, LookUp, Query, Remember, CheckMark, StoreMark, Prepare, Exec,
           ExecReturns, Rise, Reply, QueryFails, LoseConnection, DbError, PointsLost,
           Retry, GiveUp, Found, Answer, Goto, Pair, Answers, ThreadsOK, ThreadOK
      <4> QED BY <4>1, <4>2
    <3> QED BY <1>g, <3>1 DEF AnswersOK, DbTypeOK
  <2> QED BY <2>1, <2>2
<1>2. ASSUME NEW p \in acked' PROVE board'.rows[p] > 0 /\ p \in told'
  <2>1. CASE p \in acked
    BY <1>g, <2>1 DEF AcceptedIsScored
  <2>2. CASE p \notin acked
    <3>1. PICK t \in Threads : Reply(t)
      BY <1>2, <2>2 DEF Next, Progress, Fault, Receive, Work, Quiet, Fails,
         CheckRate, StoreRate, LookUp, Query, Remember, CheckMark, StoreMark,
         Prepare, Exec, ExecReturns, ReadPoints, Rise, QueryFails, LoseConnection,
         DbError, PointsLost, Serve, StrayEnds, StrayCut, Expire, Restart, history
    <3>2. res[t] = "points" /\ p = Pair(t)
      BY <1>2, <2>2, <3>1 DEF Reply
    <3> QED BY <1>g, <3>2 DEF AnswersOK, DbTypeOK
  <2> QED BY <2>1, <2>2
<1> QED BY <1>1, <1>2 DEF AnswersOK, AcceptedIsScored

\* MarkJustified and AlreadySolvedJustified: what backs a mark stays.
LEMMA MarkStep ==
    ASSUME TypeOK, ThreadsOK, SessionsOK, BoardStored, MarkJustified,
           AlreadySolvedJustified, Next
    PROVE  MarkJustified' /\ AlreadySolvedJustified'
<1> USE DEF TypeOK, DbTypeOK
<1>d. DbStep BY NextIsDbStep
<1>g. \A p \in Pairs : solved[p] > 0 => solved'[p] > 0
  BY <1>d, DbGrows
<1>1. CASE Restart
  BY <1>1 DEF Restart, MarkJustified, AlreadySolvedJustified, Answers
<1>2. CASE ~ Restart
  <2>f. failed \subseteq failed'
    BY <1>2 DEF Next, Progress, Fault, Receive, Work, Quiet, Fails, CheckRate,
       StoreRate, LookUp, Query, Remember, CheckMark, StoreMark, Prepare, Exec,
       ExecReturns, ReadPoints, Rise, Reply, QueryFails, LoseConnection, DbError,
       PointsLost, Retry, GiveUp, Serve, StrayEnds, StrayCut, Expire, history
  \* A save under way ends stored or given up.
  <2>1. ASSUME NEW t \in Threads, Saving(t), ~ (Saving(t)' /\ Pair(t)' = Pair(t))
        PROVE  Pair(t) \in Pairs /\ (solved[Pair(t)] > 0 \/ Pair(t) \in failed')
    <3>0. Pair(t) \in Pairs
      BY <2>1 DEF ThreadsOK, ThreadOK, Saving, Pair, Pairs
    <3>1. ThreadStep(t)
      BY <1>2, <2>1, OneThreadMoves DEF Saving, Pair
    <3>2. CASE ReadPoints(t) \/ PointsLost(t)
      <4>1. conn[t] \in Sessions /\ at[conn[t]] \in Finished /\ arg[conn[t]] = Pair(t)
        BY <3>2 DEF ReadPoints, PointsLost, ThreadsOK, ThreadOK
      <4> QED BY <3>0, <4>1 DEF SessionsOK, SessionOK, Finished
    <3>3. CASE ~ ReadPoints(t) /\ ~ PointsLost(t)
      <4>1. GiveUp(t)
        BY <2>1, <3>1, <3>3 DEF ThreadStep, Receive, Work, Quiet, Fails, CheckRate,
           StoreRate, LookUp, Query, Remember, CheckMark, StoreMark, Prepare, Exec,
           ExecReturns, Rise, Reply, QueryFails, LoseConnection, DbError, Retry,
           Goto, Saving, Pair
      <4> QED BY <3>0, <4>1 DEF GiveUp
    <3> QED BY <3>2, <3>3
  <2>2. ASSUME NEW p \in Pairs, Backed(p) PROVE Backed(p)'
    <3>1. CASE solved[p] > 0 \/ p \in failed
      BY <1>g, <2>f, <3>1 DEF Backed
    <3>2. ASSUME NEW t \in Threads, Saving(t), Pair(t) = p PROVE Backed(p)'
      <4>1. CASE Saving(t)' /\ Pair(t)' = Pair(t)
        BY <3>2, <4>1 DEF Backed
      <4>2. CASE ~ (Saving(t)' /\ Pair(t)' = Pair(t))
        BY <1>g, <2>1, <3>2, <4>2 DEF Backed
      <4> QED BY <4>1, <4>2
    <3> QED BY <2>2, <3>1, <3>2 DEF Backed
  <2>3. ASSUME NEW p \in marked' PROVE Backed(p)'
    <3>1. CASE p \in marked
      BY <2>2, <3>1 DEF MarkJustified
    <3>2. CASE p \notin marked
      <4>1. PICK t \in Threads : StoreMark(t)
        BY <1>2, <2>3, <3>2 DEF Next, Progress, Fault, Receive, Work, Quiet, Fails,
           CheckRate, StoreRate, LookUp, Query, Remember, CheckMark, Prepare, Exec,
           ExecReturns, ReadPoints, Rise, Reply, QueryFails, LoseConnection, DbError,
           PointsLost, Serve, StrayEnds, StrayCut, Expire, daemon
      <4>2. p = Pair(t) /\ Saving(t)' /\ Pair(t)' = Pair(t)
        BY <2>3, <3>2, <4>1 DEF StoreMark, Saving, Pair, Goto
      <4> QED BY <4>2 DEF Backed
    <3> QED BY <3>1, <3>2
  <2>4. ASSUME NEW t \in Threads, res'[t] = "alreadysolved" PROVE Backed(Pair(t))'
    <3>1. CASE res[t] = "alreadysolved" /\ Pair(t)' = Pair(t)
      <4>1. Pair(t) \in Pairs
        BY <3>1 DEF ThreadsOK, ThreadOK, Pair, Pairs, Answers
      <4> QED BY <2>2, <3>1, <4>1 DEF AlreadySolvedJustified, Backed
    <3>2. CASE ~ (res[t] = "alreadysolved" /\ Pair(t)' = Pair(t))
      <4>1. ThreadStep(t)
        BY <1>2, <2>4, <3>2, OneThreadMoves DEF Pair
      <4>2. CheckMark(t) \/ ReadPoints(t)
        BY <2>4, <3>2, <4>1 DEF ThreadStep, Receive, Work, Quiet, Fails, StoreRate,
           LookUp, CheckRate, Query, Remember, StoreMark, Prepare, Exec, ExecReturns,
           Rise, Reply, QueryFails, LoseConnection, DbError, PointsLost, Retry,
           GiveUp, Found, Answer, Goto, Pair, Answers, ThreadsOK, ThreadOK
      <4>3. CASE CheckMark(t)
        <5>1. Pair(t) \in marked /\ Pair(t)' = Pair(t)
          BY <2>4, <4>3 DEF CheckMark, Answer, Goto, Pair, ThreadsOK, ThreadOK, Answers
        <5> QED BY <2>2, <5>1 DEF MarkJustified, Backed
      <4>4. CASE ReadPoints(t)
        <5>1. /\ conn[t] \in Sessions /\ at[conn[t]] \in Finished
              /\ arg[conn[t]] = Pair(t) /\ Pair(t)' = Pair(t)
          BY <4>4 DEF ReadPoints, ThreadsOK, ThreadOK, Pair
        <5>2. Pair(t) \in Pairs /\ solved[Pair(t)] > 0
          BY <5>1 DEF SessionsOK, SessionOK, Finished
        <5> QED BY <1>g, <5>1, <5>2 DEF Backed
      <4> QED BY <4>2, <4>3, <4>4
    <3> QED BY <3>1, <3>2
  <2> QED BY <2>3, <2>4 DEF MarkJustified, AlreadySolvedJustified
<1> QED BY <1>1, <1>2

-----------------------------------------------------------------------------
(* The theorems.                                                           *)

\* The initial states satisfy the inductive invariant: nothing runs, nothing is
\* stored, and nothing is marked.
LEMMA InductiveInit == Init => Inductive
<1> SUFFICES ASSUME Init PROVE Inductive
  OBVIOUS
<1> USE DEF Init, DbInit
<1>1. TypeOK /\ ThreadsOK
  BY DEF TypeOK, DbTypeOK, ThreadsOK, ThreadOK, Pairs, Time, Never, Answers, Saving
<1>2. SessionsOK /\ OnlyOpened /\ OneByOne /\ BoardStored
  BY DEF SessionsOK, SessionOK, OnlyOpened, OneByOne, BoardStored, Running, Pairs
<1>3. AnswersOK /\ AcceptedIsScored /\ MarkJustified /\ AlreadySolvedJustified
  BY DEF AnswersOK, AcceptedIsScored, MarkJustified, AlreadySolvedJustified, Answers
<1>4. UnlockKept /\ ScoresCurrent
  BY DEF UnlockKept, ScoresCurrent
<1> QED BY <1>1, <1>2, <1>3, <1>4 DEF Inductive

\* Every step keeps it: the lemmas above, put together.
LEMMA InductiveStep == Inductive /\ [Next]_vars => Inductive'
<1> SUFFICES ASSUME Inductive, [Next]_vars PROVE Inductive'
  OBVIOUS
<1> USE DEF Inductive
<1>1. CASE Next
  <2> DbTypeOK BY DEF TypeOK
  <2>1. DbStep BY <1>1, NextIsDbStep
  <2>2. TypeOK' /\ ThreadsOK' BY <1>1, TypeStep, ThreadsStep
  <2>3. SessionsOK' BY <2>1, SessionsStep
  <2>4. BoardStored' BY <2>1, DbGrows
  <2>5. OnlyOpened' /\ OneByOne' BY <1>1, OnlyOpenedStep, OneByOneStep
  <2>6. AnswersOK' /\ AcceptedIsScored' BY <1>1, AcceptedStep
  <2>7. MarkJustified' /\ AlreadySolvedJustified' BY <1>1, MarkStep
  <2>8. UnlockKept' /\ ScoresCurrent' BY <1>1, UnlockStep, ScoresStep
  <2> QED BY <2>2, <2>3, <2>4, <2>5, <2>6, <2>7, <2>8
<1>2. CASE UNCHANGED vars
  BY <1>2 DEF vars, dbVars, thread, daemon, history, TypeOK, DbTypeOK, ThreadsOK,
     ThreadOK, SessionsOK, SessionOK, OnlyOpened, OneByOne, BoardStored, AnswersOK,
     AcceptedIsScored, MarkJustified, AlreadySolvedJustified, Backed, UnlockKept,
     Unlocking, ScoresCurrent, Saving, Pair, Chall
<1> QED BY <1>1, <1>2

\* The conjunction from which everything below follows is an invariant.
THEOREM InductiveInvariant == Spec => []Inductive
BY InductiveInit, InductiveStep, PTL DEF Spec

\* The variables keep their types.
THEOREM TypeCorrect == Spec => []TypeOK
<1>1. Inductive => TypeOK BY DEF Inductive
<1> QED BY <1>1, InductiveInvariant, PTL

\* verifier.cpp:54-67: an already-solved mark goes back to a stored solve, a save
\* under way, or one that was given up.
THEOREM MarksAreJustified == Spec => []MarkJustified
<1>1. Inductive => MarkJustified BY DEF Inductive
<1> QED BY <1>1, InductiveInvariant, PTL

\* verifier.cpp:54: no team is answered "alreadysolved" for a solve that was neither
\* stored nor given up, and that no save is under way for.
THEOREM AlreadySolvedIsJustified == Spec => []AlreadySolvedJustified
<1>1. Inductive => AlreadySolvedJustified BY DEF Inductive
<1> QED BY <1>1, InductiveInvariant, PTL

\* verifier.cpp:84: what a team was granted is on the scoreboard for good.
THEOREM AcceptedStaysScored == Spec => []AcceptedIsScored
<1>1. Inductive => AcceptedIsScored BY DEF Inductive
<1> QED BY <1>1, InductiveInvariant, PTL

\* schema.mwb, SolvedChallenge: calls that do not overlap never count a solve
\* twice.
THEOREM SerialCallsCountOnce == Spec => []DoubleRowOnlyByOverlap
<1>1. Inductive => DoubleRowOnlyByOverlap
  <2> SUFFICES ASSUME Inductive, NEW p \in Pairs, solved[p] > 1 PROVE p \in overlapped
    BY DEF DoubleRowOnlyByOverlap
  <2>1. p \notin overlapped => solved[p] <= 1
    BY DEF Inductive, OneByOne
  <2> QED BY <2>1 DEF Inductive, TypeOK, DbTypeOK
<1> QED BY <1>1, InductiveInvariant, PTL

\* schema.mwb, SolvedChallenge: no solve leaves its successors closed, but for
\* a call that is under way or was cut.
THEOREM UnlocksAreKept == Spec => []UnlockKept
<1>1. Inductive => UnlockKept BY DEF Inductive
<1> QED BY <1>1, InductiveInvariant, PTL

\* schema.mwb, recompute_team_points: the scores are those of the solutions, but
\* for a call that is under way or was cut.
THEOREM ScoresAreCurrent == Spec => []ScoresCurrent
<1>1. Inductive => ScoresCurrent BY DEF Inductive
<1> QED BY <1>1, InductiveInvariant, PTL

\* schema.mwb, SolvedChallenge: only a call that read its clock before the
\* challenge opened closes it again, for a second.
THEOREM ReopenedLate == Spec => ReopenedOnlyByEarlierCall
<1> DEFINE A == \A c \in Challenges :
         IsOpen(c) /\ opentime'[c] # opentime[c] =>
            \E s \in Sessions : at[s] = "open" /\ myts[s] <= opentime[c]
<1>1. Inductive /\ [Next]_vars => [A]_vars
  <2> SUFFICES ASSUME Inductive, Next, NEW c \in Challenges,
                      IsOpen(c), opentime'[c] # opentime[c]
               PROVE  \E s \in Sessions : at[s] = "open" /\ myts[s] <= opentime[c]
    OBVIOUS
  <2>1. DbStep
    BY NextIsDbStep DEF Inductive
  <2>2. PICK s \in Sessions : SpOpen(s)
    BY <2>1 DEF DbStep, SpStep, dbVars, tables, Tick, SpRelease, SpStart, SpCheck,
       SpStamp, SpCount, SpInsert, SpUpdate, SpRecompute, SpAlert, SpSelect, SpAnnounce
  <2>3. at[s] = "open" /\ c \in next[s]
    BY <2>2 DEF SpOpen
  <2>4. opentime[c] = Never \/ myts[s] <= opentime[c]
    BY <2>3 DEF Inductive, SessionsOK, SessionOK
  <2> QED BY <2>3, <2>4 DEF IsOpen
<1>2. ReopenedOnlyByEarlierCall <=> [][A]_vars
  BY DEF ReopenedOnlyByEarlierCall
<1> QED BY <1>1, <1>2, InductiveInvariant, PTL DEF Spec

\* What is about to be remembered keeps RightFlagKept.
Remembering ==
    /\ now > 0
    /\ \A t \in Threads :
         pc[t] = "remember" /\ data[t] = None /\ SolutionOf[flag[t]] # None
            => opentime[SolutionOf[flag[t]]] # 0

\* The clock does not stand at 0, and no challenge is opened at 0.
LEMMA OpenedLater ==
    ASSUME Inductive, now > 0, Next
    PROVE  /\ now' > 0
           /\ \A c \in Challenges : opentime[c] # 0 => opentime'[c] # 0
<1>1. DbStep
  BY NextIsDbStep DEF Inductive
<1>2. TypeOK /\ DbTypeOK
  BY DEF Inductive, TypeOK
<1>3. CASE \E s \in Sessions : SpOpen(s)
  BY <1>2, <1>3 DEF SpOpen, DbTypeOK
<1>4. CASE ~ \E s \in Sessions : SpOpen(s)
  <2>1. UNCHANGED opentime
    BY <1>1, <1>4 DEF DbStep, SpStep, dbVars, tables, Tick, SpRelease, SpStart, SpCheck,
       SpStamp, SpCount, SpInsert, SpUpdate, SpRecompute, SpAlert, SpSelect, SpAnnounce
  <2>2. now' = now \/ now' = now + 1
    BY <1>1, <1>4 DEF DbStep, SpStep, dbVars, tables, Tick, SpRelease, SpStart, SpCheck,
       SpStamp, SpCount, SpInsert, SpUpdate, SpRecompute, SpAlert, SpSelect, SpAnnounce
  <2> QED BY <2>1, <2>2, <1>2 DEF DbTypeOK
<1> QED BY <1>3, <1>4

\* What is remembered was looked up while the challenge was closed.
LEMMA RememberingStep ==
    ASSUME Inductive, RightFlagKept, Remembering, Next
    PROVE  RightFlagKept' /\ Remembering'
<1>1. now' > 0 /\ \A c \in Challenges : opentime[c] # 0 => opentime'[c] # 0
  BY OpenedLater DEF Remembering
<1>2. TypeOK /\ DbTypeOK /\ ThreadsOK
  BY DEF Inductive, TypeOK
<1>3. CASE Restart
  BY <1>1, <1>2, <1>3 DEF Restart, RightFlagKept, Remembering, TypeOK
<1>4. CASE ~ Restart
  <2>1. ASSUME NEW t \in Threads, pc'[t] = "remember", data'[t] = None,
               SolutionOf[flag'[t]] # None
        PROVE  opentime'[SolutionOf[flag'[t]]] # 0
    <3>1. CASE ~ ThreadStep(t)
      <4>1. pc[t] = "remember" /\ data[t] = None /\ flag'[t] = flag[t]
        BY <1>2, <1>4, <2>1, <3>1, OneThreadMoves
      <4>2. SolutionOf[flag[t]] \in Challenges
        BY <1>2, <2>1, <4>1 DEF ThreadsOK, ThreadOK
      <4> QED BY <1>1, <2>1, <4>1, <4>2 DEF Remembering
    <3>2. CASE ThreadStep(t)
      <4>1. Query(t)
        BY <1>2, <2>1, <3>2 DEF TypeOK, ThreadStep, Receive, Work, Quiet, Fails,
           StoreRate, LookUp, CheckRate, Remember, CheckMark, StoreMark, Prepare, Exec,
           ExecReturns, ReadPoints, Rise, Reply, QueryFails, LoseConnection, DbError,
           PointsLost, Retry, GiveUp, Found, Answer, Goto
      <4>2. flag'[t] = flag[t] /\ flag[t] \in Flags
        BY <1>2, <4>1 DEF Query, ThreadsOK, ThreadOK
      <4>3. SolutionOf[flag[t]] \in Challenges
        BY <2>1, <4>2
      <4>4. ~ IsOpen(SolutionOf[flag[t]])
        BY <1>2, <2>1, <4>1, <4>2, <4>3 DEF Query, TypeOK
      <4>5. opentime[SolutionOf[flag[t]]] # 0
        BY <4>4 DEF IsOpen, Remembering, Never
      <4> QED BY <1>1, <4>2, <4>3, <4>5
    <3> QED BY <3>1, <3>2
  <2>2. ASSUME NEW e \in solCache', e[2] = None, SolutionOf[e[1]] # None
        PROVE  opentime'[SolutionOf[e[1]]] # 0
    <3>1. CASE e \in solCache
      <4>1. SolutionOf[e[1]] \in Challenges
        BY <1>2, <2>2, <3>1 DEF TypeOK
      <4> QED BY <1>1, <2>2, <3>1, <4>1 DEF RightFlagKept
    <3>2. CASE e \notin solCache
      <4>1. PICK t \in Threads : Remember(t)
        BY <1>4, <2>2, <3>2 DEF Next, Progress, Fault, Receive, Work, Quiet, Fails,
           CheckRate, StoreRate, LookUp, Query, CheckMark, StoreMark, Prepare, Exec,
           ExecReturns, ReadPoints, Rise, Reply, QueryFails, LoseConnection, DbError,
           PointsLost, Serve, StrayEnds, StrayCut, Expire, daemon
      <4>2. e = <<flag[t], data[t]>> /\ pc[t] = "remember"
        BY <2>2, <3>2, <4>1 DEF Remember
      <4>3. flag[t] \in Flags /\ SolutionOf[flag[t]] \in Challenges
        BY <1>2, <2>2, <4>2 DEF ThreadsOK, ThreadOK
      <4>4. opentime[SolutionOf[flag[t]]] # 0
        BY <2>2, <4>2 DEF Remembering
      <4> QED BY <1>1, <4>2, <4>3, <4>4
    <3> QED BY <3>1, <3>2
  <2> QED BY <1>1, <2>1, <2>2 DEF RightFlagKept, Remembering
<1> QED BY <1>3, <1>4

\* A flag of a challenge that is open from the start is never remembered as
\* wrong, whatever queries fail (dbcontroller.cpp:237-253).
THEOREM RightFlagsAreKept == Spec => []RightFlagKept
<1> DEFINE I == RightFlagKept /\ Remembering
<1>1. Init => I
  BY DEF Init, DbInit, RightFlagKept, Remembering
<1>2. Inductive /\ I /\ [Next]_vars => I'
  <2> SUFFICES ASSUME Inductive, I, [Next]_vars PROVE I'
    OBVIOUS
  <2>1. CASE UNCHANGED vars
    BY <2>1 DEF vars, dbVars, tables, thread, daemon, RightFlagKept, Remembering
  <2>2. CASE Next
    BY <2>2, RememberingStep
  <2> QED BY <2>1, <2>2
<1>3. I => RightFlagKept
  OBVIOUS
<1> QED BY <1>1, <1>2, <1>3, InductiveInvariant, PTL DEF Spec

-----------------------------------------------------------------------------
(* Submission implements Ledger.                                           *)

Opened    == {c \in Challenges : opentime[c] # Never}
Scored    == {p \in Pairs : solved[p] > 0}
Published == {p \in Pairs : board.rows[p] > 0}

\* The initial states are initial states of the ledger.
LEMMA LedgerInit == Init => Abstract!Init
<1> SUFFICES ASSUME Init PROVE Abstract!Init
  OBVIOUS
<1>1. Opened = InitOpen
  BY DEF Init, DbInit, Opened, Never
<1>2. Scored = {} /\ Published = {}
  BY DEF Init, DbInit, Scored, Published
<1> QED BY <1>1, <1>2 DEF Init, Abstract!Init, Opened, Scored, Published

\* A step of the system is a step of the ledger or leaves it as it is.
LEMMA LedgerStep == Inductive /\ [Next]_vars => [Abstract!Next]_(Abstract!ledger)
<1> SUFFICES ASSUME Inductive, [Next]_vars
             PROVE  Abstract!Next \/ UNCHANGED Abstract!ledger
  OBVIOUS
<1> USE DEF Inductive, TypeOK, DbTypeOK, Opened, Scored, Published
<1>1. CASE UNCHANGED vars
  BY <1>1 DEF vars, dbVars, history, Abstract!ledger
<1>2. ASSUME NEW t \in Threads, Reply(t), res[t] = "points" PROVE Abstract!Next
  <2>1. Pair(t) \in Published
    BY <1>2 DEF AnswersOK
  <2>2. UNCHANGED <<Opened, Scored, Published>> /\ acked' = acked \cup {Pair(t)}
    BY <1>2 DEF Reply, dbVars
  <2>3. team[t] \in Teams /\ data[t] \in Challenges
    BY <2>1 DEF Pair, Pairs
  <2>4. Abstract!Grant(team[t], data[t])
    BY <2>1, <2>2 DEF Pair, Abstract!Grant
  <2> QED BY <2>3, <2>4 DEF Abstract!Next
<1>3. CASE Next /\ acked' # acked
  <2>1. PICK t \in Threads : Reply(t) /\ res[t] = "points"
    BY <1>3 DEF Next, Progress, Fault, Receive, Work, Quiet, Fails, CheckRate,
       StoreRate, LookUp, Query, Remember, CheckMark, StoreMark, Prepare, Exec,
       ExecReturns, ReadPoints, Rise, Reply, QueryFails, LoseConnection, DbError,
       PointsLost, Serve, StrayEnds, StrayCut, Expire, Restart, history
  <2> QED BY <1>2, <2>1
<1>4. CASE Next /\ acked' = acked
  <2>1. DbStep BY <1>4, NextIsDbStep
  <2>2. CASE UNCHANGED <<solved, board, opentime>>
    BY <1>4, <2>2 DEF Abstract!ledger
  <2>3. ASSUME NEW s \in Sessions, SpInsert(s)
        PROVE  Abstract!Next \/ UNCHANGED Abstract!ledger
    <3>0. PICK tm \in Teams, c \in Challenges : arg[s] = <<tm, c>> /\ Chall(s) = c
      BY <2>3 DEF SpInsert, Chall, Pairs
    <3>1. c \in Opened
      BY <2>3, <3>0 DEF SpInsert, OnlyOpened
    <3>2. Scored' = Scored \cup {<<tm, c>>} /\ UNCHANGED <<Opened, Published>>
      BY <2>3, <3>0 DEF SpInsert, Pairs
    <3>3. CASE <<tm, c>> \in Scored
      BY <1>4, <3>2, <3>3 DEF Abstract!ledger
    <3>4. CASE <<tm, c>> \notin Scored
      <4>1. Abstract!Solve(tm, c)
        BY <1>4, <3>1, <3>2, <3>4 DEF Abstract!Solve
      <4> QED BY <4>1 DEF Abstract!Next
    <3> QED BY <3>3, <3>4
  <2>4. ASSUME NEW s \in Sessions, SpRecompute(s) PROVE Abstract!Next
    <3>1. Published' = Scored /\ UNCHANGED <<Opened, Scored>>
      BY <2>4 DEF SpRecompute
    <3> QED BY <1>4, <3>1 DEF Abstract!Next, Abstract!Publish
  <2>5. ASSUME NEW s \in Sessions, SpOpen(s) PROVE Abstract!Next
    <3>0. PICK tm \in Teams, c \in Challenges : arg[s] = <<tm, c>> /\ Chall(s) = c
      BY <2>5 DEF SpOpen, Chall, Pairs
    <3>1. <<tm, c>> \in Scored
      BY <2>5, <3>0 DEF SpOpen, SessionsOK, SessionOK, Pairs
    <3>2. next[s] \subseteq NextOpen[c] /\ \A n \in NextOpen[c] \ next[s] : opentime[n] # Never
      BY <2>5, <3>0 DEF SpOpen, SessionsOK, SessionOK
    <3>3. Opened' = Opened \cup NextOpen[c]
      BY <2>5, <3>2 DEF SpOpen, Never
    <3>4. UNCHANGED <<Scored, Published>>
      BY <2>5 DEF SpOpen
    <3>5. Abstract!Unlock(c)
      BY <1>4, <3>1, <3>3, <3>4 DEF Abstract!Unlock
    <3> QED BY <3>5 DEF Abstract!Next
  <2> QED BY <2>1, <2>2, <2>3, <2>4, <2>5 DEF DbStep, dbVars, tables, Tick, SpStep,
             SpRelease, SpStart, SpCheck, SpStamp, SpCount, SpUpdate, SpAlert,
             SpSelect, SpAnnounce
<1> QED BY <1>1, <1>3, <1>4

\* However calls interleave, fail or are cut, the teams see a ledger that never
\* takes back what it granted.
THEOREM ImplementsLedger == Spec => KeepsLedger
<1>1. KeepsLedger <=> Abstract!Init /\ [][Abstract!Next]_(Abstract!ledger)
  BY DEF KeepsLedger, Abstract!Spec
<1> QED BY <1>1, LedgerInit, LedgerStep, InductiveInvariant, PTL DEF Spec
=============================================================================
