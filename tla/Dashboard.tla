----------------------------- MODULE Dashboard -----------------------------
(***************************************************************************)
(* How stored events get onto the portal's two monitoring pages: useAsync  *)
(* of the portal with its polls and cancellations, the handlers stats and  *)
(* listEvents with the queries of Store.Stats and Store.ListEvents, and    *)
(* the event worker, which shares the store's only connection with them.   *)
(*                                                                         *)
(* What a query returns is the set of the rows it counts or lists: counts, *)
(* groups and bars are functions of that set.                              *)
(***************************************************************************)
EXTENDS Naturals, Sequences, FiniteSets

CONSTANTS
    Feed,          \* the events the worker inserts, in order
    Fetches,       \* requests of one browser that may be under way at once
    TopLimit,      \* LIMIT of the top lists of Stats
    MaxClicks,     \* bound on clicks
    MaxFaults,     \* bound on failures
    None           \* nothing

\* What the operator looks at: the dashboard or the list of events, narrowed to the
\* short window or to blocked requests.
View == [page : {"stats", "events"}, narrow : BOOLEAN]

Pcs == {"sent", "query", "rows", "answered", "failed"}

ASSUME DashboardAssumption ==
    /\ Feed \in Seq([rule : Nat, client : STRING])
    /\ TopLimit \in Nat \ {0}
    /\ {MaxClicks, MaxFaults} \subseteq Nat

VARIABLES
    table,          \* the table "events": how much of Feed is in it
    aged,           \* how many of its rows are older than the short window
    conn,           \* the fetch whose result set holds the connection, or None
    fetch,          \* the fetches under way
    view,           \* the page and its filter
    data, error,    \* state of useAsync; loading is TRUE while there is neither
    clicks, faults  \* what is used of the bounds

browser == <<view, data, error>>
vars == <<table, aged, conn, fetch, browser, clicks, faults>>

\* Queries a handler makes, one after the other.
Queries(v) == IF v.page = "stats" THEN 4 ELSE 1

\* An answer on display: what it was asked for, and how many rows there were when
\* its first query ran.
Answer == [view : View, seen : 0..Len(Feed)]

\* A fetch: besides, the start of its window, what its queries returned so far, and
\* whether a result set broke off unnoticed.
Fetch == [view : View, pc : Pcs, from : 0..Len(Feed), got : Seq(SUBSET DOMAIN Feed),
          seen : 0..Len(Feed), cut : BOOLEAN, cancelled : BOOLEAN]

ASSUME NoneAssumption == None \notin Fetches /\ None \notin Fetch /\ None \notin Answer

TypeOK ==
    /\ table \in 0..Len(Feed) /\ aged \in 0..table
    /\ conn \in Fetches \cup {None}
    /\ fetch \in [Fetches -> Fetch \cup {None}]
    /\ view \in View
    /\ data \in Answer \cup {None}
    /\ error \in BOOLEAN
    /\ clicks \in 0..MaxClicks /\ faults \in 0..MaxFaults

-----------------------------------------------------------------------------
(***************************************************************************)
(* useAsync.                                                               *)
(***************************************************************************)
Request(v) == [view |-> v, pc |-> "sent", from |-> 0, got |-> <<>>, seen |-> 0,
               cut |-> FALSE, cancelled |-> FALSE]

\* A fetch whose answer the page still wants.
Wanted(n) == fetch[n] # None /\ ~fetch[n].cancelled
Outstanding == \E n \in Fetches : Wanted(n)

\* Mutant: the effect's cleanup runs only when the page is left.
CancelledOnLeave(f, v) == IF f.view.page = v.page THEN f ELSE [f EXCEPT !.cancelled = TRUE]

\* The cleanup of the effect that started a fetch.
Cancelled(f, v) == [f EXCEPT !.cancelled = TRUE]

\* The effect runs: it cancels the run before it and starts the loader.
Run(v) ==
    /\ \E n \in Fetches : fetch[n] = None
    /\ LET new == CHOOSE n \in Fetches : fetch[n] = None
       IN fetch' = [n \in Fetches |-> IF n = new THEN Request(v)
                                      ELSE IF fetch[n] = None THEN None
                                      ELSE Cancelled(fetch[n], v)]

Init ==
    /\ table = 0 /\ aged = 0 /\ conn = None
    /\ view = [page |-> "stats", narrow |-> FALSE]
    /\ fetch = [n \in Fetches |-> IF n = CHOOSE m \in Fetches : TRUE
                                  THEN Request(view) ELSE None]
    /\ data = None /\ error = FALSE
    /\ clicks = 0 /\ faults = 0

\* Another page is mounted, with fresh state, or the filter changes, which keeps
\* what is on display.
Show(v) ==
    /\ v # view /\ clicks < MaxClicks
    /\ clicks' = clicks + 1
    /\ view' = v
    /\ Run(v)
    /\ IF v.page = view.page THEN UNCHANGED <<data, error>>
       ELSE data' = None /\ error' = FALSE
    /\ UNCHANGED <<table, aged, conn, faults>>

\* Mutant: polling ends with the first error.
PollUntilError ==
    IF error THEN UNCHANGED vars
    ELSE /\ Run(view)
         /\ UNCHANGED <<table, aged, conn, browser, clicks, faults>>

\* The interval fires, whether or not the last answer has come.
Poll ==
    /\ Run(view)
    /\ UNCHANGED <<table, aged, conn, browser, clicks, faults>>

\* Mutant: the flag is not looked at.
WantedAlways(n) == TRUE

\* The flag the promise's callbacks look at.
Applies(n) == ~fetch[n].cancelled

\* The promise settles; the answer of a cancelled run is dropped.
Deliver(n) ==
    /\ fetch[n] # None /\ fetch[n].pc \in {"answered", "failed"}
    /\ \/ /\ Applies(n) /\ fetch[n].pc = "answered"
          /\ data' = [view |-> fetch[n].view, seen |-> fetch[n].seen]
          /\ UNCHANGED error
       \/ /\ Applies(n) /\ fetch[n].pc = "failed"
          /\ error' = TRUE
          /\ UNCHANGED data
       \/ ~Applies(n) /\ UNCHANGED <<data, error>>
    /\ fetch' = [fetch EXCEPT ![n] = None]
    /\ UNCHANGED <<table, aged, conn, view, clicks, faults>>

-----------------------------------------------------------------------------
(***************************************************************************)
(* The handlers, and the store's queries on its one connection.            *)
(***************************************************************************)
At(n, label) == fetch[n] # None /\ fetch[n].pc = label

ShortWindow == [page |-> "stats", narrow |-> TRUE]

\* Stats fixes the start of its window once, before the first query.
Begin(n) ==
    /\ At(n, "sent")
    /\ fetch' = [fetch EXCEPT ![n].pc = "query",
                              ![n].from = IF fetch[n].view = ShortWindow THEN aged ELSE 0]
    /\ UNCHANGED <<table, aged, conn, browser, clicks, faults>>

\* A query waits for the connection and keeps it while its rows are read.
Query(n) ==
    /\ At(n, "query") /\ conn = None
    /\ conn' = n
    /\ fetch' = [fetch EXCEPT ![n].pc = "rows",
                              ![n].seen = IF fetch[n].got = <<>> THEN table ELSE @]
    /\ UNCHANGED <<table, aged, browser, clicks, faults>>

\* Mutant: every query computes the start of the window anew.
WindowMoves(f) == {i \in 1..table : f.view.narrow => i > aged}

\* Mutant: the window begins a row too early.
WindowTooWide(f) == {i \in 0..table : i >= f.from}

\* The WHERE clause of Stats.
Window(f) == {i \in 1..table : i > f.from}

\* GROUP BY ... ORDER BY c DESC LIMIT: the rows of a largest TopLimit of the groups.
Top(S, group) ==
    LET Groups == {Feed[i][group] : i \in S}
        Size(g) == Cardinality({i \in S : Feed[i][group] = g})
        Best == {G \in SUBSET Groups :
                    /\ Cardinality(G) <= TopLimit
                    /\ Cardinality(G) < TopLimit => G = Groups
                    /\ \A g \in G, h \in Groups \ G : Size(h) <= Size(g)}
    IN {{i \in S : Feed[i][group] \in G} : G \in Best}

Stats(f) ==
    CASE Len(f.got) \in {0, 3} -> {Window(f)}
      [] Len(f.got) = 1 -> Top({i \in Window(f) : Feed[i].rule # 0}, "rule")
      [] Len(f.got) = 2 -> Top(Window(f), "client")

\* Which rows a list shows is left out.
ListEvents(f) == {{}}

Results(f) == IF f.view.page = "stats" THEN Stats(f) ELSE ListEvents(f)

\* The query that is being read is the handler's last one.
Done(f) == Len(f.got) + 1 = Queries(f.view)

\* The result set is over, and with it goes the connection.
Close(n, S, broken) ==
    /\ conn' = None
    /\ fetch' = [fetch EXCEPT ![n].got = Append(@, S),
                              ![n].cut = @ \/ broken,
                              ![n].from = IF Done(fetch[n]) THEN 0 ELSE @,
                              ![n].pc = IF Done(fetch[n]) THEN "answered" ELSE "query"]

Read(n) ==
    /\ At(n, "rows")
    /\ \E S \in Results(fetch[n]) : Close(n, S, FALSE)
    /\ UNCHANGED <<table, aged, browser, clicks, faults>>

\* The handler answers with the error alone.
Failed(n) == fetch' = [fetch EXCEPT ![n].pc = "failed", ![n].got = <<>>, ![n].from = 0,
                                    ![n].seen = 0, ![n].cut = FALSE]

\* The result set breaks off: ListEvents asks rows.Err, the loops of Stats do not
\* and go on with what they read, which is left open here.
BreakOff(n) ==
    /\ At(n, "rows") /\ faults < MaxFaults
    /\ faults' = faults + 1
    /\ IF fetch[n].view.page = "stats" /\ fetch[n].got # <<>>
       THEN Close(n, {}, TRUE)
       ELSE conn' = None /\ Failed(n)
    /\ UNCHANGED <<table, aged, browser, clicks>>

\* A query fails, or the answer is lost on its way.
Fail(n) ==
    /\ At(n, "query") \/ At(n, "answered")
    /\ faults < MaxFaults
    /\ faults' = faults + 1
    /\ Failed(n)
    /\ UNCHANGED <<table, aged, conn, browser, clicks>>

\* InsertEvent of the worker waits for the connection like everybody.
Insert ==
    /\ conn = None /\ table < Len(Feed)
    /\ table' = table + 1
    /\ UNCHANGED <<aged, conn, fetch, browser, clicks, faults>>

\* Time passes.
Age ==
    /\ aged < table
    /\ aged' = aged + 1
    /\ UNCHANGED <<table, conn, fetch, browser, clicks, faults>>

-----------------------------------------------------------------------------
Serve(n) == Begin(n) \/ Query(n) \/ Read(n)

Next == \/ \E v \in View : Show(v)
        \/ Poll
        \/ \E n \in Fetches : Serve(n) \/ Deliver(n) \/ BreakOff(n) \/ Fail(n)
        \/ Insert \/ Age

\* Handlers run, answers arrive, the interval keeps firing; the connection is
\* handed to whoever waits for it.
Fairness == /\ \A n \in Fetches : WF_vars(Serve(n)) /\ WF_vars(Deliver(n))
            /\ WF_vars(Poll)

Spec == Init /\ [][Next]_vars /\ Fairness

-----------------------------------------------------------------------------
(***************************************************************************)
(* A page shows answers to its own queries only, and those of another      *)
(* filter only while the answer for the chosen one is on its way or its    *)
(* failure is on display (the flag cancelled of useAsync).                 *)
(***************************************************************************)
ShownForView ==
    data # None => /\ data.view.page = view.page
                   /\ data.view = view \/ Outstanding \/ error

(***************************************************************************)
(* The display never goes back in time: an answer does not replace one     *)
(* that had seen more rows for the same view, however answers overtake     *)
(* each other (the effect's cleanup in useAsync).                          *)
(***************************************************************************)
NeverBackwards ==
    [][data # None /\ data' # None /\ data'.view = data.view => data.seen <= data'.seen]_vars

(***************************************************************************)
(* The numbers of one dashboard agree although four queries made them and  *)
(* events were inserted and aged in between: the timeline has every event  *)
(* the totals and the top lists count, and what it has beyond the totals   *)
(* was inserted since.  (A list that broke off is excepted.)               *)
(***************************************************************************)
StatsCoherent ==
    \A n \in Fetches : At(n, "answered") /\ fetch[n].view.page = "stats" /\ ~fetch[n].cut =>
        LET f == fetch[n] IN
        /\ Len(f.got) = 4
        /\ \A q \in 1..3 : f.got[q] \subseteq f.got[4]
        /\ f.got[4] \ f.got[1] \subseteq f.seen + 1 .. Len(Feed)

\* A poll that cancels the run whose answer is still to come.
Overtakes == Poll /\ Outstanding

(***************************************************************************)
(* The pages are live: again and again the page on display has taken into  *)
(* account whatever is in the table, also after queries failed, and nobody *)
(* waits for the one connection for ever (Stats, ListEvents, useAsync).    *)
(* This assumes that the interval does not overtake the answers again and  *)
(* again: each poll cancels the run before it, and where every answer is   *)
(* slower than the interval none is ever shown.                            *)
(***************************************************************************)
Refreshed == []<>(data # None /\ data.seen = table) \/ []<><<Overtakes>>_vars
=============================================================================
