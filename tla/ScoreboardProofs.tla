-------------------------- MODULE ScoreboardProofs --------------------------
(***************************************************************************)
(* Proofs about Scoreboard.  The saving workers' part is Submission's, so  *)
(* its inductive invariant is cited, not proved again.                     *)
(***************************************************************************)
EXTENDS Scoreboard, SubmissionProofs

USE DbAssumption, SubmissionAssumption, PagesAssumption

\* Serving pages changes nothing of what Submission is about.
LEMMA SbStepIsStep == [SbNext]_sbVars => [Next]_vars
<1> SUFFICES ASSUME [SbNext]_sbVars PROVE [Next]_vars
  OBVIOUS
<1>1. CASE Aside
  BY <1>1 DEF Aside, Next, Progress, Work
<1>2. CASE AsideFails
  BY <1>2 DEF AsideFails, Next, Fault, Fails
<1>3. ASSUME NEW t \in Threads, Save(t) \/ SaveFails(t) PROVE Next
  BY <1>3 DEF Save, SaveFails, Next, Progress, Fault, Work, Fails
<1>4. CASE RestartAll
  BY <1>4 DEF RestartAll, Next, Fault
<1>5. CASE UNCHANGED vars
  BY <1>5
<1> QED BY <1>1, <1>2, <1>3, <1>4, <1>5 DEF SbNext, SbProgress, SbFault, sbVars

\* What was granted stays granted.
LEMMA AckedGrows == [Next]_vars => acked \subseteq acked'
BY DEF Next, Progress, Fault, Receive, Work, Quiet, Fails, CheckRate, StoreRate,
   LookUp, Query, Remember, CheckMark, StoreMark, Prepare, Exec, ExecReturns,
   ReadPoints, Rise, Reply, QueryFails, LoseConnection, DbError, PointsLost, Serve,
   StrayEnds, StrayCut, Expire, Restart, Found, Answer, Goto, Retry, GiveUp, Cut,
   vars, history

\* What a query answers has the type of a page, and is not None.
LEMMA ContentType ==
    ASSUME DbTypeOK, NEW k \in Keys
    PROVE  /\ Content(k) \in (SUBSET Pairs) \cup (SUBSET Challenges)
           /\ Content(k) # None
<1>1. k[1] \in {"warnings", "status", "scores", "challenges", "solutions", "alerts",
    "info"}
  BY DEF Keys, Shared, Own
<1>2. CASE k[1] \in {"status", "solutions"}
  BY <1>2 DEF Content, SolutionsOf
<1>3. CASE k[1] \in {"scores", "info"}
  BY <1>3 DEF Content, PointsOf
<1>4. CASE k[1] = "alerts"
  BY <1>4 DEF Content, Notices, DbTypeOK
<1>5. CASE k[1] = "warnings"
  <2>1. Content(k) = announced BY <1>5 DEF Content
  <2>2. announced \in SUBSET Challenges BY DEF DbTypeOK
  <2> QED BY <2>1, <2>2
<1>6. CASE k[1] = "challenges"
  <2> DEFINE open == {c \in Challenges : IsOpen(c)}
  <2>1. Content(k) = open BY <1>6 DEF Content
  <2>2. open \in SUBSET Challenges OBVIOUS
  <2> HIDE DEF open
  <2> QED BY <2>1, <2>2
<1> QED BY <1>1, <1>2, <1>3, <1>4, <1>5, <1>6

\* A solve whose points were answered is stored and on the scoreboard.
LEMMA DueIsScored ==
    ASSUME Inductive, NEW k, NEW p \in Due(k)
    PROVE  p \in Pairs /\ board.rows[p] > 0 /\ solved[p] > 0
<1> USE DEF Inductive, TypeOK, DbTypeOK
<1>1. CASE p \in acked
  <2>1. p \in Pairs /\ board.rows[p] > 0
    BY <1>1 DEF AcceptedIsScored
  <2> QED BY <2>1 DEF BoardStored
<1>2. ASSUME NEW t \in Threads, res[t] = "points", p = Pair(t)
      PROVE p \in Pairs /\ board.rows[p] > 0 /\ solved[p] > 0
  <2>1. team[t] \in Teams /\ data[t] \in Challenges
    BY <1>2 DEF ThreadsOK, ThreadOK, Answers
  <2>3. p \in Pairs
    BY <1>2, <2>1 DEF Pair, Pairs
  <2>2. board.rows[p] > 0
    BY <1>2 DEF AnswersOK
  <2> QED BY <2>3, <2>2 DEF BoardStored
<1> QED BY <1>1, <1>2 DEF Due

\* A page is current at the moment it is queried.
LEMMA ContentCurrent ==
    ASSUME Inductive, NEW k \in Keys
    PROVE  Current(k, Content(k))
<1> SUFFICES ASSUME NEW p \in Due(k), Shows(k, p) PROVE p \in Content(k)
  BY DEF Current
<1>1. p \in Pairs /\ board.rows[p] > 0 /\ solved[p] > 0
  BY DueIsScored
<1>2. CASE k[1] = "scores"
  BY <1>1, <1>2 DEF Content, PointsOf, Keys, Shared, Own
<1>3. CASE k[1] = "info" /\ k[2] = p[1]
  BY <1>1, <1>3 DEF Content, PointsOf
<1>4. CASE k[1] = "solutions" /\ k[2] = p[1]
  BY <1>1, <1>4 DEF Content, SolutionsOf
<1> QED BY <1>2, <1>3, <1>4 DEF Shows

\* Due grows only by what a save has just dropped pages for.
LEMMA DueStep ==
    ASSUME Inductive, Next, NEW k, NEW p \in Due(k)', p \notin Due(k)
    PROVE  \E t \in Threads :
             \/ ReadPoints(t) /\ p = Pair(t) /\ k[1] \in Own
             \/ Rise(t) /\ p = Pair(t) /\ k[1] \notin Own /\ res[t] = "points"
<1> USE DEF Inductive, TypeOK
<1> DEFINE In(t) == res[t] = "points" /\ (pc[t] = "reply" \/ k[1] \in Own)
<1>1. ASSUME p \in acked', p \notin acked PROVE FALSE
  <2>1. PICK t \in Threads : Reply(t)
    BY <1>1 DEF Next, Progress, Fault, Serve, StrayEnds, StrayCut, Expire, Restart,
       Receive, Work, Quiet, Fails, CheckRate, StoreRate, LookUp, Query, Remember,
       CheckMark, StoreMark, Prepare, Exec, ExecReturns, ReadPoints, Rise,
       QueryFails, LoseConnection, DbError, PointsLost, history, daemon, Found,
       Answer, Goto, Retry, GiveUp, Cut
  <2>2. p = Pair(t) /\ res[t] = "points" /\ pc[t] = "reply"
    BY <1>1, <2>1 DEF Reply
  <2> QED BY <2>2 DEF Due
<1>2. PICK t \in Threads : In(t)' /\ p = Pair(t)'
  BY <1>1 DEF Due
<1>3. ~ (In(t) /\ Pair(t)' = Pair(t))
  BY <1>2 DEF Due
<1>4. ThreadStep(t)
  <2>1. ~ Restart
    BY <1>2 DEF Restart, Answers
  <2> SUFFICES ASSUME ~ ThreadStep(t) PROVE FALSE
    OBVIOUS
  <2>2. UNCHANGED <<pc[t], team[t], flag[t], data[t], tries[t], conn[t], res[t]>>
    BY <2>1, OneThreadMoves
  <2> QED BY <1>2, <1>3, <2>2 DEF Pair
<1>5. CASE ReadPoints(t)
  <2>1. Pair(t)' = Pair(t) /\ (pc'[t] # "reply" \/ res'[t] # "points")
    BY <1>5 DEF ReadPoints, Goto, Answer, Pair
  <2> QED BY <1>2, <1>5, <2>1
<1>6. CASE Rise(t)
  <2>1. Pair(t)' = Pair(t) /\ res' = res
    BY <1>6 DEF Rise, Pair
  <2> QED BY <1>2, <1>3, <1>6, <2>1
<1>7. ASSUME ~ ReadPoints(t), ~ Rise(t) PROVE FALSE
  <2>1. res[t] # "points" => res'[t] # "points"
    BY <1>4, <1>7 DEF ThreadStep, Receive, Work, Quiet, Fails, CheckRate, StoreRate,
       LookUp, Query, Remember, CheckMark, StoreMark, Prepare, Exec, ExecReturns,
       Reply, QueryFails, LoseConnection, DbError, PointsLost, Found, Answer, Goto,
       Retry, GiveUp, Answers
  <2>2. res[t] = "points" => pc[t] \in {"rise", "reply"}
    BY DEF ThreadsOK, ThreadOK, Answers
  <2>3. res[t] = "points" => Reply(t)
    BY <1>4, <1>7, <2>2 DEF ThreadStep, Receive, Work, Quiet, Fails, CheckRate,
       StoreRate, LookUp, Query, Remember, CheckMark, StoreMark, Prepare, Exec,
       ExecReturns, QueryFails, LoseConnection, DbError, PointsLost
  <2>4. Reply(t) => res'[t] = None
    BY DEF Reply
  <2> QED BY <1>2, <2>1, <2>3, <2>4 DEF Answers
<1> QED BY <1>5, <1>6, <1>7

\* Putting a page into an answer keeps the types, and concerns one reader.
LEMMA DeliverType ==
    ASSUME PagesTypeOK, NEW r \in Readers, NEW y \in Contents \cup {Failed}, todo[r] # <<>>,
    Deliver(r, y)
    PROVE  /\ got' \in [Readers -> SUBSET (Keys \X (Contents \cup {Failed}))]
           /\ todo' \in [Readers -> Seq(Keys)]
           /\ \A q \in Readers \ {r} : todo'[q] = todo[q]
<1> USE DEF PagesTypeOK
<1>1. Head(todo[r]) \in Keys /\ Tail(todo[r]) \in Seq(Keys)
  OBVIOUS
<1>2. <<Head(todo[r]), y>> \in Keys \X (Contents \cup {Failed})
  BY <1>1
<1>3. got[r] \cup {<<Head(todo[r]), y>>} \in SUBSET (Keys \X (Contents \cup {Failed}))
  BY <1>2
<1> QED BY <1>1, <1>3 DEF Deliver

\* Every step keeps the types of what Scoreboard adds to Submission.
LEMMA SbTypeStep ==
    ASSUME TypeOK, SbTypeOK, SbNext
    PROVE  SbTypeOK'
<1> USE DEF SbTypeOK, PagesTypeOK
<1>1. CASE UNCHANGED <<pageVars, since, raced>>
  BY <1>1 DEF pageVars
<1>2. ASSUME NEW T, RiseAll(T), UNCHANGED since PROVE SbTypeOK'
  BY <1>2 DEF RiseAll, Drop
<1>3. ASSUME NEW r \in Readers, UNCHANGED raced, Ask(r),
    since' = [since EXCEPT ![r] = acked]
      PROVE SbTypeOK'
  <2>1. ASSUME NEW q \in Requests, NEW tm \in Teams
        PROVE PagesOf(q, tm) \in Seq(Keys)
    <3>1. \A x \in Shared : <<x, None>> \in Keys
      BY DEF Keys
    <3>2. \A x \in Own : <<x, tm>> \in Keys
      BY DEF Keys
    <3>3. CASE q = "commonstatus"
      BY <3>1, <3>3 DEF PagesOf, Shared
    <3>4. CASE q = "challenges"
      BY <3>1, <3>4 DEF PagesOf, Shared
    <3>5. CASE q = "teamstatus"
      BY <3>2, <3>5 DEF PagesOf, Own
    <3> QED BY <3>3, <3>4, <3>5
  <2>2. todo' \in [Readers -> Seq(Keys)]
    BY <1>3, <2>1 DEF Ask
  <2>3. since' \in [Readers -> SUBSET Pairs]
    BY <1>3 DEF TypeOK
  <2> QED BY <1>3, <2>2, <2>3 DEF Ask
<1>4. ASSUME NEW r \in Readers, UNCHANGED <<raced, since>>, Hit(r) \/ BuildFails(r)
      PROVE SbTypeOK'
  <2>1. todo[r] # <<>> /\ rpc[r] = "fetch" /\ UNCHANGED <<pages, rpc, held>>
    BY <1>4 DEF Hit, BuildFails, Missing
  <2>2. Head(todo[r]) \in Keys
    BY <2>1
  <2>3. PICK y \in Contents \cup {Failed} : Deliver(r, y)
    BY <1>4, <2>2 DEF Hit, BuildFails, Missing
  <2>4. /\ got' \in [Readers -> SUBSET (Keys \X (Contents \cup {Failed}))]
        /\ todo' \in [Readers -> Seq(Keys)]
        /\ \A q \in Readers \ {r} : todo'[q] = todo[q]
    BY <2>1, <2>3, DeliverType
  <2> QED BY <1>4, <2>1, <2>4
<1>5. ASSUME NEW r \in Readers, UNCHANGED <<raced, since>>, Build(r) PROVE SbTypeOK'
  <2>1. todo[r] # <<>> /\ Head(todo[r]) \in Keys
    BY <1>5 DEF Build, Missing
  <2>2. Content(Head(todo[r])) \in Contents /\ Content(Head(todo[r])) # None
    BY <2>1, ContentType DEF TypeOK, Contents
  <2> QED BY <1>5, <2>1, <2>2 DEF Build, Missing
<1>6. ASSUME NEW r \in Readers, UNCHANGED <<raced, since>>, Keep(r) PROVE SbTypeOK'
  <2>1. todo[r] # <<>> /\ held[r] \in Contents /\ Deliver(r, held[r])
    BY <1>6 DEF Keep
  <2>2. /\ got' \in [Readers -> SUBSET (Keys \X (Contents \cup {Failed}))]
        /\ todo' \in [Readers -> Seq(Keys)]
        /\ \A q \in Readers \ {r} : todo'[q] = todo[q]
    BY <2>1, DeliverType
  <2>3. held[r] # Failed
    BY <2>1, PagesAssumption DEF Contents
  <2>4. \A k \in Keys : pages'[k] # Failed
    BY <1>6, <2>3 DEF Keep
  <2> QED BY <1>6, <2>1, <2>2, <2>4 DEF Keep
<1>7. ASSUME NEW r \in Readers, UNCHANGED <<raced, since>>, Respond(r) PROVE SbTypeOK'
  BY <1>7 DEF Respond
<1>8. ASSUME NEW k \in Keys, UNCHANGED <<raced, since>>, PageExpires(k) PROVE SbTypeOK'
  BY <1>8 DEF PageExpires
<1>9. CASE RestartAll
  BY <1>9 DEF RestartAll, ForgetPages
<1> QED
  BY <1>1, <1>2, <1>3, <1>4, <1>5, <1>6, <1>7, <1>8, <1>9 DEF SbNext, SbProgress,
     SbFault, Save, SaveFails, ServePage, ReadPage

\* The steps beside leave a thread that is about to drop pages where it is.
LEMMA AsideKeepsPlace ==
    ASSUME TypeOK, Aside \/ AsideFails, NEW t \in Threads, pc[t] \in {"points", "rise"}
    PROVE  pc'[t] = pc[t]
BY DEF TypeOK, Aside, AsideFails, Receive, Quiet, CheckRate, StoreRate, LookUp,
   Query, Remember, CheckMark, StoreMark, Prepare, Exec, ExecReturns, Reply,
   QueryFails, LoseConnection, DbError, Found, Answer, Goto, Retry, GiveUp, Serve,
   StrayEnds, StrayCut, Expire, thread

\* No step beside the saves makes a solve due.
LEMMA AsideKeepsDue ==
    ASSUME Inductive, Aside \/ AsideFails, NEW k
    PROVE  Due(k)' \subseteq Due(k)
<1> SUFFICES ASSUME NEW p \in Due(k)', p \notin Due(k) PROVE FALSE
  OBVIOUS
<1>1. Next
  BY DEF Aside, AsideFails, Next, Progress, Work, Fault, Fails
<1>2. PICK u \in Threads : ReadPoints(u) \/ Rise(u)
  BY <1>1, DueStep
<1>3. pc[u] \in {"points", "rise"} /\ pc'[u] # pc[u]
  BY <1>2 DEF Inductive, TypeOK, ReadPoints, Rise, Answer, Goto
<1> QED BY <1>3, AsideKeepsPlace DEF Inductive

\* What a save makes due, its rise drops the pages of.
LEMMA SaveRises ==
    ASSUME Inductive, NEW t \in Threads, NEW T, NEW k \in Keys,
           \/ (ReadPoints(t) \/ PointsLost(t)) /\ T = {TeamSolved(team[t])}
           \/ \E cheap \in BOOLEAN : Rise(t) /\ T = Risen(t, cheap),
           NEW p \in Due(k)', p \notin Due(k), Shows(k, p)
    PROVE  Concerns(T, k)
<1> USE DEF Inductive, TypeOK
<1>1. Next
  BY DEF Next, Progress, Work, Fault, Fails
<1>2. PICK u \in Threads :
        \/ ReadPoints(u) /\ p = Pair(u) /\ k[1] \in Own
        \/ Rise(u) /\ p = Pair(u) /\ k[1] \notin Own /\ res[u] = "points"
  BY <1>1, DueStep
<1>3. u = t
  BY <1>2 DEF ReadPoints, PointsLost, Rise, Answer, Goto
<1>4. CASE ReadPoints(t)
  <2>1. T = {TeamSolved(team[t])} /\ k[1] \in Own /\ p = Pair(t)
    BY <1>2, <1>3, <1>4 DEF ReadPoints, Rise, PointsLost
  <2> QED BY <2>1 DEF Concerns, Shows, Own, Pair
<1>5. CASE Rise(t)
  <2>1. k = Page("scores")
    BY <1>2, <1>3, <1>5 DEF Shows, Own, ReadPoints, Rise, Keys, Shared, Page
  <2>2. k \in T
    BY <1>5, <2>1 DEF Risen, ReadPoints, PointsLost, Rise
  <2>3. k[1] \in Shared
    BY <2>1 DEF Page, Shared
  <2> QED BY <2>2, <2>3 DEF Concerns
<1> QED BY <1>2, <1>3, <1>4, <1>5

\* A rise leaves no page behind that is older than what it made due.
LEMMA RiseStep ==
    ASSUME SbTypeOK, FreshAfterDrop, HeldCurrent, NEW T, RiseAll(T),
           \A k \in Keys : \A p \in Due(k)' :
             Shows(k, p) => p \in Due(k) \/ Concerns(T, k)
    PROVE  FreshAfterDrop' /\ HeldCurrent'
<1> USE DEF SbTypeOK, PagesTypeOK
<1>1. ASSUME NEW k \in Keys, k \notin raced' PROVE Current(k, pages[k])'
  <2>1. pages'[k] = IF Drops(T, k) THEN None ELSE pages[k]
    BY DEF RiseAll, Drop
  <2>2. CASE ~ Concerns(T, k)
    <3>1. Current(k, pages[k])
      BY <1>1, <2>2 DEF RiseAll, FreshAfterDrop
    <3> QED BY <2>1, <2>2, <3>1 DEF Current, Untriggered
  <2>3. CASE Concerns(T, k)
    <3>1. Drops(T, k) \/ pages[k] = None \/ Untriggered(k, pages[k])
      <4>1. CASE k[1] \in Shared /\ k \in T
        <5>1. Triggers(k, pages[k]) = {k}
          <6>1. k[1] # "info" /\ k[1] # "solutions"
            BY <4>1 DEF Shared
          <6> QED BY <4>1, <6>1 DEF Triggers
        <5>2. k \in Triggers(k, pages[k]) \cap T
          BY <4>1, <5>1
        <5> QED BY <5>2 DEF Drops
      <4>2. CASE k[1] \in {"solutions", "info"} /\ TeamSolved(k[2]) \in T
        <5>1. Triggers(k, pages[k]) = {TeamSolved(k[2])} \/ Untriggered(k, pages[k])
          BY <4>2 DEF Triggers, Untriggered, Shared
        <5>2. CASE Triggers(k, pages[k]) = {TeamSolved(k[2])}
          <6>1. TeamSolved(k[2]) \in Triggers(k, pages[k]) \cap T
            BY <4>2, <5>2
          <6> QED BY <6>1 DEF Drops
        <5> QED BY <5>1, <5>2
      <4> QED BY <2>3, <4>1, <4>2 DEF Concerns
    <3> QED BY <2>1, <3>1 DEF Current, Untriggered
  <2> QED BY <2>2, <2>3
<1>2. ASSUME NEW r \in Readers, rpc'[r] = "store", Head(todo'[r]) \notin raced'
      PROVE Current(Head(todo[r]), held[r])'
  <2> DEFINE k == Head(todo[r])
  <2>1. UNCHANGED <<rpc, todo, held>> /\ k \in Keys /\ Filling(k)
    BY <1>2 DEF RiseAll, Drop, Filling
  <2>2. ~ Concerns(T, k) /\ k \notin raced
    BY <1>2, <2>1 DEF RiseAll
  <2>3. Current(k, held[r])
    BY <1>2, <2>1, <2>2 DEF HeldCurrent
  <2> QED BY <2>1, <2>2, <2>3 DEF Current, Untriggered
<1> QED BY <1>1, <1>2 DEF FreshAfterDrop, HeldCurrent

\* A reader's step, or an expiry, leaves what is held and cached current.
LEMMA PageStep ==
    ASSUME SbInductive, UNCHANGED <<vars, raced>>,
           \/ \E r \in Readers : Ask(r) \/ ReadPage(r) \/ BuildFails(r)
           \/ \E k \in Keys : PageExpires(k)
    PROVE  FreshAfterDrop' /\ HeldCurrent'
<1> USE DEF SbInductive, SbTypeOK, PagesTypeOK
<1>1. ASSUME NEW k, NEW y, Current(k, y) PROVE Current(k, y)'
  BY <1>1 DEF Current, Due, Untriggered, vars, thread, history, Pair
<1>2. ASSUME NEW r \in Readers, Ask(r) \/ Hit(r) \/ BuildFails(r) \/ Respond(r)
      PROVE FreshAfterDrop' /\ HeldCurrent'
  <2>1. pages' = pages /\ held' = held
    BY <1>2 DEF Ask, Hit, BuildFails, Respond
  <2>2. ASSUME NEW q \in Readers, rpc'[q] = "store"
        PROVE rpc[q] = "store" /\ todo'[q] = todo[q]
    BY <1>2, <2>2 DEF Ask, Hit, BuildFails, Respond, Missing, Deliver
  <2>3. FreshAfterDrop'
    BY <1>1, <2>1 DEF FreshAfterDrop
  <2>4. HeldCurrent'
    BY <1>1, <2>1, <2>2 DEF HeldCurrent
  <2> QED BY <2>3, <2>4
<1>3. ASSUME NEW r \in Readers, Build(r) PROVE FreshAfterDrop' /\ HeldCurrent'
  <2>1. pages' = pages /\ todo' = todo /\ Head(todo[r]) \in Keys
    BY <1>3 DEF Build, Missing
  <2>2. Current(Head(todo[r]), Content(Head(todo[r])))
    BY <2>1, ContentCurrent
  <2>3. FreshAfterDrop'
    BY <1>1, <2>1 DEF FreshAfterDrop
  <2>4. ASSUME NEW q \in Readers, rpc'[q] = "store", Head(todo'[q]) \notin raced'
        PROVE Current(Head(todo'[q]), held'[q])
    <3>1. CASE q = r
      BY <1>3, <2>1, <2>2, <3>1 DEF Build
    <3>2. CASE q # r
      BY <1>3, <2>1, <2>4, <3>2 DEF Build, HeldCurrent
    <3> QED BY <3>1, <3>2
  <2>5. HeldCurrent'
    BY <1>1, <2>4 DEF HeldCurrent
  <2> QED BY <2>3, <2>5
<1>4. ASSUME NEW r \in Readers, Keep(r) PROVE FreshAfterDrop' /\ HeldCurrent'
  <2> DEFINE k == Head(todo[r])
  <2>1. /\ k \in Keys /\ pages' = [pages EXCEPT ![k] = held[r]]
        /\ k \in raced \/ Current(k, held[r])
    BY <1>4 DEF Keep, HeldCurrent
  <2>2. \A j \in Keys \ raced : Current(j, pages'[j])
    BY <2>1 DEF FreshAfterDrop
  <2>3. FreshAfterDrop'
    BY <1>1, <2>2 DEF FreshAfterDrop
  <2>4. ASSUME NEW q \in Readers, rpc'[q] = "store"
        PROVE rpc[q] = "store" /\ todo'[q] = todo[q] /\ held'[q] = held[q]
    BY <1>4, <2>4 DEF Keep, Deliver
  <2>5. HeldCurrent'
    BY <1>1, <2>4 DEF HeldCurrent
  <2> QED BY <2>3, <2>5
<1>5. ASSUME NEW k \in Keys, PageExpires(k) PROVE FreshAfterDrop' /\ HeldCurrent'
  <2>1. \A j \in Keys \ raced : Current(j, pages'[j])
    BY <1>5 DEF PageExpires, FreshAfterDrop, Current
  <2>2. FreshAfterDrop'
    BY <1>1, <2>1 DEF FreshAfterDrop
  <2>3. HeldCurrent'
    BY <1>1, <1>5 DEF PageExpires, HeldCurrent
  <2> QED BY <2>2, <2>3
<1> QED BY <1>2, <1>3, <1>4, <1>5 DEF ReadPage

\* The initial states satisfy the inductive invariant: nothing is cached.
LEMMA SbInductiveInit == SbInit => SbInductive
<1> SUFFICES ASSUME SbInit PROVE SbInductive
  OBVIOUS
<1>1. Inductive
  BY InductiveInit DEF SbInit
<1>2. SbTypeOK
  BY DEF SbInit, PagesInit, SbTypeOK, PagesTypeOK
<1>3. FreshAfterDrop /\ HeldCurrent
  BY DEF SbInit, PagesInit, FreshAfterDrop, HeldCurrent, Current
<1> QED BY <1>1, <1>2, <1>3 DEF SbInductive, SbInit

\* Every step keeps the inductive invariant.
LEMMA SbInductiveStep == SbInductive /\ [SbNext]_sbVars => SbInductive'
<1> SUFFICES ASSUME SbInductive, [SbNext]_sbVars PROVE SbInductive'
  OBVIOUS
<1> USE DEF SbInductive
<1>1. Inductive'
  BY SbStepIsStep, InductiveStep
<1>2. CASE UNCHANGED sbVars
  BY <1>1, <1>2 DEF sbVars, vars, pageVars, thread, history, SbTypeOK, PagesTypeOK,
     FreshAfterDrop, HeldCurrent, Current, Due, Untriggered, Pair
<1>3. CASE SbNext
  <2>1. SbTypeOK'
    BY <1>3, SbTypeStep DEF Inductive
  <2>2. ASSUME Aside \/ AsideFails, UNCHANGED <<pageVars, since, raced>>
        PROVE FreshAfterDrop' /\ HeldCurrent'
    <3>1. ASSUME NEW k, NEW y, Current(k, y) PROVE Current(k, y)'
      BY <2>2, <3>1, AsideKeepsDue DEF Current, Untriggered
    <3>2. UNCHANGED <<pages, rpc, todo, held, raced>>
      BY <2>2 DEF pageVars
    <3>3. FreshAfterDrop'
      BY <3>1, <3>2 DEF FreshAfterDrop
    <3>4. HeldCurrent'
      BY <3>1, <3>2 DEF HeldCurrent
    <3> QED BY <3>3, <3>4
  <2>3. ASSUME NEW t \in Threads, Save(t) \/ SaveFails(t)
        PROVE FreshAfterDrop' /\ HeldCurrent'
    <3>1. PICK T : /\ RiseAll(T)
                   /\ \/ (ReadPoints(t) \/ PointsLost(t)) /\ T = {TeamSolved(team[t])}
                      \/ \E cheap \in BOOLEAN : Rise(t) /\ T = Risen(t, cheap)
      BY <2>3 DEF Save, SaveFails
    <3>2. \A k \in Keys : \A p \in Due(k)' : Shows(k,
        p) => p \in Due(k) \/ Concerns(T, k)
      BY <3>1, SaveRises
    <3> QED BY <3>1, <3>2, RiseStep
  <2>4. ASSUME UNCHANGED <<vars, raced>>,
               \/ \E r \in Readers : Ask(r) \/ ReadPage(r) \/ BuildFails(r)
               \/ \E k \in Keys : PageExpires(k)
        PROVE FreshAfterDrop' /\ HeldCurrent'
    BY <2>4, PageStep
  <2>5. ASSUME RestartAll PROVE FreshAfterDrop' /\ HeldCurrent'
    <3>1. \A k \in Keys : pages'[k] = None
      BY <2>5 DEF RestartAll, ForgetPages
    <3>2. \A r \in Readers : rpc'[r] # "store"
      BY <2>5 DEF RestartAll, ForgetPages
    <3> QED BY <3>1, <3>2 DEF FreshAfterDrop, HeldCurrent, Current
  <2>6. FreshAfterDrop' /\ HeldCurrent'
    BY <1>3, <2>2, <2>3, <2>4, <2>5 DEF SbNext, SbProgress, SbFault, ServePage
  <2>7. acked \subseteq acked'
    BY SbStepIsStep, AckedGrows
  <2>8. \A r \in Readers : since'[r] \subseteq acked'
    BY <1>3, <2>7 DEF SbNext, SbProgress, SbFault, ServePage, RestartAll, Save,
       SaveFails, SbTypeOK
  <2> QED BY <1>1, <2>1, <2>6, <2>8
<1> QED BY <1>2, <1>3

\* The inductive invariant holds in every reachable state.
THEOREM SbInductiveInvariant == SbSpec => []SbInductive
<1>1. SbInit => SbInductive
  BY SbInductiveInit
<1>2. SbInductive /\ [SbNext]_sbVars => SbInductive'
  BY SbInductiveStep
<1> QED BY <1>1, <1>2, PTL DEF SbSpec

\* What the readers and the cache hold always has its type, and a reader holds a
\* page exactly between its query and its store (dbcontroller.cpp:306-316).
THEOREM SbTypeCorrect == SbSpec => []SbTypeOK
<1>1. SbInductive => SbTypeOK
  BY DEF SbInductive
<1> QED BY <1>1, SbInductiveInvariant, PTL

\* verifier.cpp:74-77, dbcontroller.cpp:276: no cached page is older than a solve
\* that has dropped it, but for raced pages and lists without a trigger.
THEOREM DroppedPagesAreFresh == SbSpec => []FreshAfterDrop
<1>1. SbInductive => FreshAfterDrop
  BY DEF SbInductive
<1> QED BY <1>1, SbInductiveInvariant, PTL

\* What the answer of one request gets in a step shows what was granted before
\* the request.
LEMMA AnswerStep ==
    ASSUME SbInductive, [SbNext]_sbVars, NEW r \in Readers, NEW g \in got'[r] \ got[r]
    PROVE  \/ g[1] \in raced \/ g[2] = Failed \/ Untriggered(g[1], g[2])
           \/ \A p \in since[r] : Shows(g[1], p) => p \in g[2]
<1> USE DEF SbInductive, SbTypeOK, PagesTypeOK
<1>1. ASSUME NEW k, NEW x, x # None, Current(k, x)
      PROVE  Untriggered(k, x) \/ \A p \in since[r] : Shows(k, p) => p \in x
  BY <1>1 DEF Current, Due
<1>2. PICK q \in Readers : Hit(q) \/ Keep(q) \/ BuildFails(q)
  BY DEF SbNext, SbProgress, SbFault, Save, SaveFails, RiseAll, Drop, ServePage,
     ReadPage, Ask, Build, Respond, PageExpires, RestartAll, ForgetPages, pageVars,
     sbVars
<1>3. q = r
  BY <1>2 DEF Hit, Keep, BuildFails, Deliver
<1> DEFINE k == Head(todo[r])
<1>4. CASE Hit(r)
  <2>1. k \in Keys /\ g = <<k, pages[k]>> /\ pages[k] # None
    BY <1>4 DEF Hit, Deliver, Missing
  <2>2. k \in raced \/ Current(k, pages[k])
    BY <2>1 DEF FreshAfterDrop
  <2> QED BY <1>1, <2>1, <2>2
<1>5. CASE Keep(r)
  <2>1. g = <<k, held[r]>> /\ held[r] # None
    BY <1>5 DEF Keep, Deliver
  <2>2. k \in raced \/ Current(k, held[r])
    BY <1>5 DEF Keep, HeldCurrent
  <2> QED BY <1>1, <2>1, <2>2
<1>6. CASE BuildFails(r)
  <2>1. g = <<k, Failed>>
    BY <1>6 DEF BuildFails, Deliver
  <2> QED BY <2>1
<1> QED BY <1>2, <1>3, <1>4, <1>5, <1>6

\* main.cpp:99 and 51-59, teamstatus.cpp:11-41: a request that begins after points
\* were answered is answered with pages that show them, but for raced pages,
\* lists without a trigger and failed queries.
THEOREM AnswersShowWhatWasGranted == SbSpec => AnswersShowGranted
<1>1. SbInductive /\ [SbNext]_sbVars
        => [\A r \in Readers : \A g \in got'[r] \ got[r] :
              \/ g[1] \in raced \/ g[2] = Failed \/ Untriggered(g[1], g[2])
              \/ \A p \in since[r] : Shows(g[1], p) => p \in g[2]]_sbVars
  BY AnswerStep
<1> QED BY <1>1, SbInductiveInvariant, PTL DEF SbSpec, AnswersShowGranted

\* The pages add nothing to what submissions may do: whatever is proved of
\* Submission holds of the whole daemon.
THEOREM ScoreboardIsSubmission == SbSpec => Spec
<1>1. SbInit => Init
  BY DEF SbInit
<1>2. [SbNext]_sbVars => [Next]_vars
  BY SbStepIsStep
<1> QED BY <1>1, <1>2, PTL DEF SbSpec, Spec
=============================================================================
