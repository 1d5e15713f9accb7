---------------------------- MODULE Scoreboard ----------------------------
(***************************************************************************)
(* The scoreboard daemon as a whole: workers that save solves (Submission) *)
(* and workers that serve pages (Pages), which meet in the database and in *)
(* the cache.  A save drops the pages that depend on it: setChallengeSolved*)
(* those of the team, verify's step 9 those and the shared ones.           *)
(***************************************************************************)
EXTENDS Submission, Pages

VARIABLES
    since,  \* history: the solves granted when a reader's request began
    raced   \* history: keys a reader was filling when they were last dropped

sbVars == <<vars, pageVars, since, raced>>

SbInit == Init /\ PagesInit /\ since = [r \in Readers |-> {}] /\ raced = {}

\* A rise of the triggers in T concerns the page of k, whether it is there or
\* not.
Concerns(T, k) ==
    \/ k[1] \in Shared /\ k \in T
    \/ k[1] \in {"solutions", "info"} /\ TeamSolved(k[2]) \in T

Filling(k) == \E r \in Readers : rpc[r] = "store" /\ Head(todo[r]) = k

RiseAll(T) ==
    /\ Drop(T)
    /\ raced' = {k \in Keys : IF Concerns(T, k) THEN Filling(k) ELSE k \in raced}

Page(kind) == <<kind, None>>

\* Mutant of Risen: the scores are forgotten.
RisenNoScores(t, cheap) ==
    {TeamSolved(team[t]), Page("challenges")}
        \cup (IF cheap /\ res[t] = "points" THEN {Page("status")} ELSE {})

\* Step 9 drops the status page only when the bonus is above the points the
\* challenge had when its flag was looked up.
Risen(t, cheap) ==
    {TeamSolved(team[t]), Page("scores"), Page("challenges")}
        \cup (IF cheap /\ res[t] = "points" THEN {Page("status")} ELSE {})

\* Mutant of Save: setChallengeSolved leaves the dropping of pages to verify.
SaveRisesLate(t) ==
    \/ ReadPoints(t) /\ RiseAll({})
    \/ \E cheap \in BOOLEAN : Rise(t) /\ RiseAll(Risen(t, cheap))

Save(t) ==
    \/ ReadPoints(t) /\ RiseAll({TeamSolved(team[t])})
    \/ \E cheap \in BOOLEAN : Rise(t) /\ RiseAll(Risen(t, cheap))

\* setChallengeSolved rises before it looks at the answer to its query.
SaveFails(t) == PointsLost(t) /\ RiseAll({TeamSolved(team[t])})

ServePage(r) ==
    \/ Ask(r) /\ since' = [since EXCEPT ![r] = acked]
    \/ ReadPage(r) /\ UNCHANGED since

\* Steps of Submission that concern no page.
Aside ==
    \/ \E t \in Threads : Receive(t) \/ Quiet(t)
    \/ \E s \in Sessions : Serve(s) \/ StrayEnds(s)
    \/ Tick /\ UNCHANGED <<thread, daemon, history>>

AsideFails ==
    \/ \E t \in Threads : QueryFails(t) \/ LoseConnection(t) \/ DbError(t)
    \/ \E s \in Sessions : StrayCut(s)
    \/ Expire

RestartAll ==
    /\ Restart /\ ForgetPages
    /\ since' = [r \in Readers |-> {}] /\ raced' = {}

SbProgress ==
    \/ Aside /\ UNCHANGED <<pageVars, since, raced>>
    \/ \E t \in Threads : Save(t) /\ UNCHANGED since
    \/ \E r \in Readers : ServePage(r) /\ UNCHANGED <<vars, raced>>
    \/ \E k \in Keys : PageExpires(k) /\ UNCHANGED <<vars, since, raced>>

SbFault ==
    \/ AsideFails /\ UNCHANGED <<pageVars, since, raced>>
    \/ \E t \in Threads : SaveFails(t) /\ UNCHANGED since
    \/ \E r \in Readers : BuildFails(r) /\ UNCHANGED <<vars, since, raced>>
    \/ RestartAll

SbNext == SbProgress \/ SbFault

SbSpec == SbInit /\ [][SbNext]_sbVars

\* Readers are scheduled, too, and a page does not outlive its timeout.
SbFairness ==
    /\ Fairness
    /\ \A r \in Readers : WF_pageVars(ReadPage(r))
    /\ \A k \in Keys : WF_pageVars(PageExpires(k))

SbFairSpec == SbSpec /\ SbFairness
-----------------------------------------------------------------------------
(* Properties.                                                             *)

\* The values the variables range over.
SbTypeOK ==
    /\ PagesTypeOK
    /\ since \in [Readers -> SUBSET Pairs]
    /\ raced \subseteq Keys

\* The pages of points or solves that are dropped by every save of a solve p.
Shows(k, p) ==
    \/ k[1] = "scores"
    \/ k[1] \in {"solutions", "info"} /\ k[2] = p[1]

\* The solves for which the pages of k have been dropped already.
Due(k) ==
    acked \cup {Pair(t) : t \in {u \in Threads : res[u] = "points"
                                    /\ (pc[u] = "reply" \/ k[1] \in Own)}}

\* A team's list without a solution, stored without a trigger.
Untriggered(k, x) == k[1] = "solutions" /\ x = {}

Current(k, x) ==
    x = None \/ Untriggered(k, x) \/ \A p \in Due(k) : Shows(k, p) => p \in x

\* verifier.cpp:74-77 and dbcontroller.cpp:276.  Once a solve has dropped a
\* page, no cached version of it is older than the solve, unless somebody was
\* filling the page at that moment or it is a list without a trigger.
FreshAfterDrop == \A k \in Keys \ raced : Current(k, pages[k])

\* main.cpp:99 and 51-59, teamstatus.cpp:11-41.  A request that begins after
\* points were answered gets them on the score pages, but for a raced page, a
\* list without a trigger, or a query that failed.
AnswersShowGranted ==
    [][\A r \in Readers : \A g \in got'[r] \ got[r] :
         \/ g[1] \in raced \/ g[2] = Failed \/ Untriggered(g[1], g[2])
         \/ \A p \in since[r] : Shows(g[1], p) => p \in g[2]]_sbVars

\* All the pages a solve p appears in; the status page is not always dropped.
Mentions(k, p) == Shows(k, p) \/ k \in {Page("status"), <<"alerts", p[1]>>}

\* conf/scoreboard.conf:30-41.  Whatever races and failures there were, a solve
\* whose notice is stored is for good in every page of points, solves or notices
\* that concerns it once the timeouts are over.
SolvesShown ==
    \A p \in Pairs :
        p \in told ~> [](\A k \in Keys : pages[k] # None /\ Mentions(k, p) => p \in pages[k])

\* The inductive invariant of ScoreboardProofs: what a reader holds is as current
\* as what is cached.
HeldCurrent ==
    \A r \in Readers : rpc[r] = "store" =>
        LET k == Head(todo[r]) IN k \in raced \/ Current(k, held[r])

SbInductive ==
    /\ Inductive /\ SbTypeOK
    /\ FreshAfterDrop /\ HeldCurrent
    /\ \A r \in Readers : since[r] \subseteq acked
-----------------------------------------------------------------------------
(* What comments and notes say and the code does not do.                   *)

\* cache_usages.txt:66-72: challenges_$team is stored "specifying
\* teamsolved_$team as trigger" and cleared by setChallengeSolved.
SolutionsDropped ==
    \A k \in Keys \ raced : k[1] = "solutions" /\ pages[k] # None =>
        \A p \in Due(k) : Shows(k, p) => p \in pages[k]
=============================================================================
