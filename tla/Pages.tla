------------------------------- MODULE Pages -------------------------------
(***************************************************************************)
(* The pages the scoreboard daemon answers from its cache: the handlers    *)
(* commonstatus, challenges and teamstatus, dbcontroller::cachedQuery and  *)
(* its callers, TeamStatus and the three fetch...ForTeam it calls.         *)
(*                                                                         *)
(* A page is read from the cache or, when it is not there, queried and     *)
(* then stored.  The cache may be filled or emptied by others in between.  *)
(* A page is kept as the set of solves (or of challenges) it shows.        *)
(***************************************************************************)
EXTENDS ScoreDb, Sequences

CONSTANTS
    Readers,    \* worker threads that serve pages
    Requests,   \* the handlers that are called (bound)
    Failed      \* what an answer has in the place of a page that was not read

ASSUME PagesAssumption ==
    /\ Requests \subseteq {"commonstatus", "challenges", "teamstatus"}
    /\ None \notin Teams
    /\ None # Failed
    /\ \A x \in (SUBSET Pairs) \cup (SUBSET Challenges) : x \notin {None, Failed}

VARIABLES
    pages,      \* the cached page of a key, or None
    rpc,        \* where a reader is in its request
    todo,       \* the pages it has yet to put into its answer
    held,       \* the page it has queried and not yet stored
    got         \* the pages of its answer so far

pageVars == <<pages, rpc, todo, held, got>>

Shared == {"warnings", "status", "scores", "challenges"}
Own    == {"solutions", "alerts", "info"}
Keys   == (Shared \X {None}) \cup (Own \X Teams)

\* The order in which a handler reads its pages.
PagesOf(q, tm) ==
    CASE q = "commonstatus" -> << <<"warnings", None>>, <<"status", None>>,
                                  <<"scores", None>> >>
      [] q = "challenges"   -> << <<"challenges", None>> >>
      [] q = "teamstatus"   -> << <<"solutions", tm>>, <<"alerts", tm>>,
                                  <<"info", tm>> >>

\* What the query of a page answers now.
SolutionsOf(k)  == {p \in Pairs : solved[p] > 0 /\ k[2] \in {None, p[1]}}
PointsOf(k)  == {p \in Pairs : board.rows[p] > 0 /\ k[2] \in {None, p[1]}}
Notices(k) == {p \in told : p[1] = k[2]}

Content(k) ==
    CASE k[1] \in {"status", "solutions"} -> SolutionsOf(k)
      [] k[1] \in {"scores", "info"}      -> PointsOf(k)
      [] k[1] = "alerts"                  -> Notices(k)
      [] k[1] = "warnings"                -> announced
      [] k[1] = "challenges"              -> {c \in Challenges : IsOpen(c)}

TeamSolved(tm) == <<"teamsolved", tm>>

\* Mutant of Triggers: the trigger of teaminfo_ is forgotten.
TriggersNoInfo(k, x) ==
    CASE k[1] \in Shared              -> {k}
      [] k[1] = "solutions" /\ x # {} -> {TeamSolved(k[2])}
      [] OTHER                        -> {}

\* The triggers a page is stored with: its own key, or the team's trigger, or
\* none, as for the list of a team that has no solution.
Triggers(k, x) ==
    CASE k[1] \in Shared              -> {k}
      [] k[1] = "info"                -> {TeamSolved(k[2])}
      [] k[1] = "solutions" /\ x # {} -> {TeamSolved(k[2])}
      [] OTHER                        -> {}
-----------------------------------------------------------------------------
PagesInit ==
    /\ pages = [k \in Keys |-> None]
    /\ rpc = [r \in Readers |-> "idle"]
    /\ todo = [r \in Readers |-> <<>>]
    /\ held = [r \in Readers |-> None]
    /\ got = [r \in Readers |-> {}]

Ask(r) ==
    /\ rpc[r] = "idle"
    /\ rpc' = [rpc EXCEPT ![r] = "fetch"]
    /\ \E q \in Requests, tm \in Teams : todo' = [todo EXCEPT ![r] = PagesOf(q, tm)]
    /\ UNCHANGED <<pages, held, got>>

\* The page at the head of todo goes into the answer as x.
Deliver(r, x) ==
    /\ got' = [got EXCEPT ![r] = @ \cup {<<Head(todo[r]), x>>}]
    /\ todo' = [todo EXCEPT ![r] = Tail(@)]

Missing(r) == rpc[r] = "fetch" /\ todo[r] # <<>> /\ pages[Head(todo[r])] = None

Hit(r) ==
    /\ rpc[r] = "fetch" /\ todo[r] # <<>> /\ ~ Missing(r)
    /\ Deliver(r, pages[Head(todo[r])])
    /\ UNCHANGED <<pages, rpc, held>>

Build(r) ==
    /\ Missing(r)
    /\ held' = [held EXCEPT ![r] = Content(Head(todo[r]))]
    /\ rpc' = [rpc EXCEPT ![r] = "store"]
    /\ UNCHANGED <<pages, todo, got>>

\* Mutant of BuildFails: what stands for the page is stored like a page.
BuildFailsKept(r) ==
    /\ Missing(r)
    /\ Deliver(r, Failed)
    /\ pages' = [pages EXCEPT ![Head(todo[r])] = Failed]
    /\ UNCHANGED <<rpc, held>>

\* doQuery fails: the answer has an empty text, an empty list, or points that no
\* one has set, in this place, and nothing is stored.
BuildFails(r) ==
    /\ Missing(r)
    /\ Deliver(r, Failed)
    /\ UNCHANGED <<pages, rpc, held>>

Keep(r) ==
    /\ rpc[r] = "store"
    /\ pages' = [pages EXCEPT ![Head(todo[r])] = held[r]]
    /\ Deliver(r, held[r])
    /\ held' = [held EXCEPT ![r] = None]
    /\ rpc' = [rpc EXCEPT ![r] = "fetch"]

Respond(r) ==
    /\ rpc[r] = "fetch" /\ todo[r] = <<>>
    /\ rpc' = [rpc EXCEPT ![r] = "idle"]
    /\ got' = [got EXCEPT ![r] = {}]
    /\ UNCHANGED <<pages, todo, held>>

ReadPage(r) == Hit(r) \/ Build(r) \/ Keep(r) \/ Respond(r)

\* Mutant of PageExpires: the notices and the status are stored without a timeout.
PageExpiresOrStays(k) ==
    /\ pages[k] # None /\ k[1] \notin {"alerts", "status"}
    /\ pages' = [pages EXCEPT ![k] = None]
    /\ UNCHANGED <<rpc, todo, held, got>>

\* The page's cache.timeout is over, or the cache is full.
PageExpires(k) ==
    /\ pages[k] # None
    /\ pages' = [pages EXCEPT ![k] = None]
    /\ UNCHANGED <<rpc, todo, held, got>>

\* cache().rise() of the triggers in T.
Drops(T, k) == pages[k] # None /\ Triggers(k, pages[k]) \cap T # {}

Drop(T) ==
    /\ pages' = [k \in Keys |-> IF Drops(T, k) THEN None ELSE pages[k]]
    /\ UNCHANGED <<rpc, todo, held, got>>

ForgetPages ==
    /\ pages' = [k \in Keys |-> None]
    /\ rpc' = [r \in Readers |-> "idle"]
    /\ todo' = [r \in Readers |-> <<>>]
    /\ held' = [r \in Readers |-> None]
    /\ got' = [r \in Readers |-> {}]

Contents == (SUBSET Pairs) \cup (SUBSET Challenges)

\* The values the variables range over.  What stands for a page after a failed query
\* goes into an answer and is never cached (dbcontroller.cpp:310-317); a reader holds
\* a page between its query and its store.
PagesTypeOK ==
    /\ \A k \in Keys : pages[k] # Failed
    /\ pages \in [Keys -> Contents \cup {None}]
    /\ rpc \in [Readers -> {"idle", "fetch", "store"}]
    /\ todo \in [Readers -> Seq(Keys)]
    /\ held \in [Readers -> Contents \cup {None}]
    /\ got \in [Readers -> SUBSET (Keys \X (Contents \cup {Failed}))]
    /\ \A r \in Readers :
         /\ rpc[r] = "store" <=> held[r] # None
         /\ rpc[r] = "store" => todo[r] # <<>>
=============================================================================
