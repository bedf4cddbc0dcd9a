-------------------------- MODULE DashboardProofs --------------------------
(***************************************************************************)
(* Proofs about Dashboard, for any feed of events, limits and number of    *)
(* fetches under way.                                                      *)
(***************************************************************************)
EXTENDS Dashboard, SequenceTheorems, TLAPS

\* The dashboard's four results agree (see StatsCoherent).
Agree(got, seen) ==
    /\ \A q \in 1..3 : got[q] \subseteq got[4]
    /\ got[4] \ got[1] \subseteq seen + 1 .. Len(Feed)

\* How far a handler is shows in what it got; while its first result set is read
\* nobody inserts.
Progress(f) ==
    /\ f.pc \in {"sent", "failed"} => f.got = <<>>
    /\ f.pc \in {"query", "rows"} => Len(f.got) < Queries(f.view)
    /\ f.pc = "answered" => Len(f.got) = Queries(f.view)
    /\ f.seen <= table
    /\ f.pc = "rows" /\ f.got = <<>> => f.seen = table

\* Until all four are there, each result is within the window as it is now, and the
\* first one is the window as it was.
Coherent(f) ==
    f.view.page = "stats" /\ ~f.cut =>
        /\ f.pc \in {"query", "rows"} =>
              /\ \A q \in 1..Len(f.got) : f.got[q] \subseteq Window(f)
              /\ f.got # <<>> => f.got[1] = {i \in 1..f.seen : i > f.from}
        /\ f.pc = "answered" => Agree(f.got, f.seen)

HandlerInv == \A n \in Fetches : fetch[n] # None =>
                 /\ Progress(fetch[n]) /\ Coherent(fetch[n])
                 /\ fetch[n].pc = "rows" => conn = n

\* The page waits for one answer at most, and that is one for what it shows.
WantedInv ==
    /\ \A m, n \in Fetches : Wanted(m) /\ Wanted(n) => m = n
    /\ \A n \in Fetches : Wanted(n) => fetch[n].view = view

\* A fetch the page waits for, once it has looked at the table, has seen no less than
\* is on display.
SeenInv ==
    data # None =>
        /\ data.seen <= table
        /\ \A n \in Fetches : Wanted(n) /\ (fetch[n].pc = "rows" \/ fetch[n].got # <<>>) =>
              data.seen <= fetch[n].seen

DisplayInv == ShownForView /\ SeenInv

PageInv == TypeOK /\ HandlerInv /\ WantedInv /\ DisplayInv
-----------------------------------------------------------------------------
\* The constants, and the parts of a fetch.
LEMMA FeedTypes == Len(Feed) \in Nat /\ DOMAIN Feed = 1..Len(Feed)
BY DashboardAssumption

LEMMA FetchTypes ==
    ASSUME NEW f \in Fetch
    PROVE  /\ f.view \in View /\ f.pc \in Pcs /\ f.from \in 0..Len(Feed)
           /\ f.got \in Seq(SUBSET DOMAIN Feed) /\ f.seen \in 0..Len(Feed)
           /\ f.cut \in BOOLEAN /\ f.cancelled \in BOOLEAN
           /\ f # None /\ f.seen \in Int /\ f.from \in Int
           /\ Len(f.got) \in Nat /\ DOMAIN f.got = 1..Len(f.got)
<1>1. /\ f.view \in View /\ f.pc \in Pcs /\ f.from \in 0..Len(Feed)
      /\ f.got \in Seq(SUBSET DOMAIN Feed) /\ f.seen \in 0..Len(Feed)
      /\ f.cut \in BOOLEAN /\ f.cancelled \in BOOLEAN
  BY DEF Fetch
<1>2. f # None
  BY NoneAssumption
<1>3. QED BY <1>1, <1>2, FeedTypes

LEMMA QueriesOf == ASSUME NEW v \in View PROVE Queries(v) \in {1, 4}
BY DEF Queries

\* A step is one of these.
LEMMA Steps ==
    ASSUME [Next]_vars
    PROVE  \/ \E v \in View : Show(v)
           \/ Poll
           \/ \E n \in Fetches : Begin(n) \/ Query(n) \/ Read(n) \/ BreakOff(n) \/ Fail(n) \/ Deliver(n)
           \/ Insert \/ Age \/ UNCHANGED vars
BY DEF Next, Serve

\* The results of a query are sets of rows of the table, and for the totals and the
\* timeline they are the window.
LEMMA ResultTypes ==
    ASSUME NEW f \in Fetch, table \in 0..Len(Feed), Len(f.got) < Queries(f.view),
           NEW S \in Results(f)
    PROVE  /\ S \subseteq DOMAIN Feed
           /\ f.view.page = "stats" => S \subseteq Window(f)
           /\ f.view.page = "stats" /\ Len(f.got) \in {0, 3} => S = Window(f)
<1>1. 1..table \subseteq DOMAIN Feed
  BY FeedTypes
<1>2. Window(f) \subseteq 1..table
  BY DEF Window
<1>3. \A W, g : \A X \in Top(W, g) : X \subseteq W
  BY DEF Top
<1>4. CASE f.view.page = "stats"
  <2>1. S \in Stats(f) /\ Len(f.got) \in {0, 1, 2, 3}
    <3>1. Len(f.got) \in Nat /\ Len(f.got) < 4
      BY <1>4, FetchTypes DEF Queries
    <3>2. \A k \in Nat : k < 4 => k \in {0, 1, 2, 3}
      OBVIOUS
    <3>3. S \in Stats(f)
      BY <1>4 DEF Results
    <3>4. QED BY <3>1, <3>2, <3>3
  <2>2. CASE Len(f.got) \in {0, 3}
    <3>1. PICK k \in {0, 3} : k = Len(f.got)
      BY <2>2
    <3>2. ASSUME NEW A, NEW B, NEW C
          PROVE  (CASE k \in {0, 3} -> A [] k = 1 -> B [] k = 2 -> C) = A
      OBVIOUS
    <3>3. Stats(f) = {Window(f)}
      BY <3>1, <3>2 DEF Stats
    <3>4. QED BY <1>1, <1>2, <2>1, <3>3
  <2>3. CASE Len(f.got) = 1
    <3>1. S \in Top({i \in Window(f) : Feed[i].rule # 0}, "rule")
      BY <2>1, <2>3 DEF Stats
    <3>2. S \subseteq Window(f)
      BY <1>3, <3>1
    <3>3. QED BY <1>1, <1>2, <2>3, <3>2
  <2>4. CASE Len(f.got) = 2
    <3>1. S \in Top(Window(f), "client")
      BY <2>1, <2>4 DEF Stats
    <3>2. S \subseteq Window(f)
      BY <1>3, <3>1
    <3>3. QED BY <1>1, <1>2, <2>4, <3>2
  <2>5. QED BY <2>1, <2>2, <2>3, <2>4
<1>5. CASE f.view.page # "stats"
  <2>1. S \in ListEvents(f)
    BY <1>5 DEF Results
  <2>2. S \subseteq 1..table
    BY <2>1 DEF ListEvents
  <2>3. QED BY <1>1, <1>5, <2>2
<1>6. QED BY <1>4, <1>5

-----------------------------------------------------------------------------
(***************************************************************************)
(* The handlers: a step of one changes its own fetch f into g and leaves   *)
(* the table, the page and what f is for alone.                            *)
(***************************************************************************)
HandlerStep(n) == Begin(n) \/ Query(n) \/ Read(n) \/ BreakOff(n) \/ Fail(n)

Advances(f, g) ==
    /\ g \in Fetch /\ g.view = f.view /\ g.cancelled = f.cancelled
    /\ g.pc = "rows" \/ g.got # <<>> =>
          \/ g.seen = table
          \/ g.seen = f.seen /\ (f.pc = "rows" \/ f.got # <<>>)

HandlerResult(n) ==
    /\ fetch[n] \in Fetch /\ Advances(fetch[n], fetch'[n])
    /\ \A m \in Fetches : m # n => fetch'[m] = fetch[m]
    /\ fetch' \in [Fetches -> Fetch \cup {None}]
    /\ conn' \in {conn, None, n} /\ faults' \in 0..MaxFaults
    /\ table' = table /\ aged' = aged /\ clicks' = clicks
    /\ view' = view /\ data' = data /\ error' = error

\* A result set is over.
LEMMA CloseEffect ==
    ASSUME TypeOK, NEW n \in Fetches, fetch[n] \in Fetch, NEW S \in SUBSET DOMAIN Feed,
           NEW broken \in BOOLEAN, Close(n, S, broken)
    PROVE  LET f == fetch[n]
               g == fetch'[n]
           IN /\ g \in Fetch /\ g.view = f.view /\ g.cancelled = f.cancelled /\ g.seen = f.seen
              /\ g.got = Append(f.got, S) /\ g.cut = (f.cut \/ broken)
              /\ g.from = IF Done(f) THEN 0 ELSE f.from
              /\ g.pc = IF Done(f) THEN "answered" ELSE "query"
              /\ \A m \in Fetches : m # n => fetch'[m] = fetch[m]
              /\ fetch' \in [Fetches -> Fetch \cup {None}]
<1>1. PICK f \in Fetch : f = fetch[n]
  OBVIOUS
<1>2. Append(f.got, S) \in Seq(SUBSET DOMAIN Feed)
  BY FetchTypes
<1>3. fetch'[n] = [f EXCEPT !.got = Append(f.got, S), !.cut = f.cut \/ broken,
                            !.from = IF Done(f) THEN 0 ELSE f.from,
                            !.pc = IF Done(f) THEN "answered" ELSE "query"]
  BY <1>1 DEF Close, TypeOK, Fetch
<1>4. \A m \in Fetches : m # n => fetch'[m] = fetch[m]
  BY DEF Close, TypeOK
<1>5. fetch'[n] \in Fetch
  <2>1. 0 \in 0..Len(Feed)
    BY FeedTypes
  <2>2. (f.cut \/ broken) \in BOOLEAN
    BY Zenon
  <2>3. (IF Done(f) THEN "answered" ELSE "query") \in Pcs
    BY DEF Pcs
  <2>4. (IF Done(f) THEN 0 ELSE f.from) \in 0..Len(Feed)
    BY <2>1, FetchTypes
  <2>5. QED BY <1>2, <1>3, <2>2, <2>3, <2>4 DEF Fetch
<1>6. DOMAIN fetch' = Fetches /\ fetch' = [m \in Fetches |-> fetch'[m]]
  BY DEF Close, TypeOK
<1>7. fetch' \in [Fetches -> Fetch \cup {None}]
  BY <1>4, <1>5, <1>6 DEF TypeOK
<1>8. /\ fetch'[n].view = f.view /\ fetch'[n].cancelled = f.cancelled /\ fetch'[n].seen = f.seen
      /\ fetch'[n].got = Append(f.got, S) /\ fetch'[n].cut = (f.cut \/ broken)
      /\ fetch'[n].from = IF Done(f) THEN 0 ELSE f.from
      /\ fetch'[n].pc = IF Done(f) THEN "answered" ELSE "query"
  BY <1>3 DEF Fetch
<1>9. QED BY <1>1, <1>4, <1>5, <1>7, <1>8

\* A handler gives up.
LEMMA FailedEffect ==
    ASSUME TypeOK, NEW n \in Fetches, fetch[n] \in Fetch, Failed(n)
    PROVE  LET g == fetch'[n]
           IN /\ g \in Fetch /\ g.view = fetch[n].view /\ g.cancelled = fetch[n].cancelled
              /\ g.got = <<>> /\ g.pc = "failed" /\ g.seen = 0
              /\ \A m \in Fetches : m # n => fetch'[m] = fetch[m]
              /\ fetch' \in [Fetches -> Fetch \cup {None}]
<1>1. PICK f \in Fetch : f = fetch[n]
  OBVIOUS
<1>2. fetch'[n] = [f EXCEPT !.pc = "failed", !.got = <<>>, !.from = 0, !.seen = 0, !.cut = FALSE]
  BY <1>1 DEF Failed, TypeOK, Fetch
<1>3. \A m \in Fetches : m # n => fetch'[m] = fetch[m]
  BY DEF Failed, TypeOK
<1>4. fetch'[n] \in Fetch
  <2>1. <<>> \in Seq(SUBSET DOMAIN Feed) /\ 0 \in 0..Len(Feed)
    BY FeedTypes
  <2>2. QED BY <1>2, <2>1 DEF Fetch, Pcs
<1>5. DOMAIN fetch' = Fetches /\ fetch' = [m \in Fetches |-> fetch'[m]]
  BY DEF Failed, TypeOK
<1>6. fetch' \in [Fetches -> Fetch \cup {None}]
  BY <1>3, <1>4, <1>5 DEF TypeOK
<1>7. /\ fetch'[n].view = f.view /\ fetch'[n].cancelled = f.cancelled /\ fetch'[n].seen = 0
      /\ fetch'[n].got = <<>> /\ fetch'[n].pc = "failed"
  BY <1>2 DEF Fetch
<1>8. QED BY <1>1, <1>3, <1>4, <1>6, <1>7

\* The handler is told when its window starts, and a query gets the connection.
LEMMA BeginEffect ==
    ASSUME TypeOK, NEW n \in Fetches, fetch[n] \in Fetch, Begin(n)
    PROVE  LET f == fetch[n]
               g == fetch'[n]
           IN /\ g \in Fetch /\ g.view = f.view /\ g.cancelled = f.cancelled /\ g.seen = f.seen
              /\ g.got = f.got /\ g.pc = "query"
              /\ \A m \in Fetches : m # n => fetch'[m] = fetch[m]
              /\ fetch' \in [Fetches -> Fetch \cup {None}]
<1>1. PICK f \in Fetch : f = fetch[n]
  OBVIOUS
<1>2. PICK from : from = IF fetch[n].view = ShortWindow THEN aged ELSE 0
  OBVIOUS
<1>3. from \in 0..Len(Feed)
  BY <1>2, FeedTypes DEF TypeOK
<1>4. fetch'[n] = [f EXCEPT !.pc = "query", !.from = from]
  BY <1>1, <1>2 DEF Begin, TypeOK, Fetch
<1>5. \A m \in Fetches : m # n => fetch'[m] = fetch[m]
  BY DEF Begin, TypeOK
<1>6. fetch'[n] \in Fetch
  BY <1>3, <1>4 DEF Fetch, Pcs
<1>7. DOMAIN fetch' = Fetches /\ fetch' = [m \in Fetches |-> fetch'[m]]
  BY DEF Begin, TypeOK
<1>8. fetch' \in [Fetches -> Fetch \cup {None}]
  BY <1>5, <1>6, <1>7 DEF TypeOK
<1>9. /\ fetch'[n].view = f.view /\ fetch'[n].cancelled = f.cancelled
      /\ fetch'[n].seen = f.seen /\ fetch'[n].got = f.got /\ fetch'[n].pc = "query"
  BY <1>4 DEF Fetch
<1>10. QED BY <1>1, <1>5, <1>6, <1>8, <1>9

LEMMA QueryEffect ==
    ASSUME TypeOK, NEW n \in Fetches, fetch[n] \in Fetch, Query(n)
    PROVE  LET f == fetch[n]
               g == fetch'[n]
           IN /\ g \in Fetch /\ g.view = f.view /\ g.cancelled = f.cancelled
              /\ g.seen = (IF f.got = <<>> THEN table ELSE f.seen)
              /\ g.got = f.got /\ g.pc = "rows" /\ g.from = f.from /\ g.cut = f.cut
              /\ \A m \in Fetches : m # n => fetch'[m] = fetch[m]
              /\ fetch' \in [Fetches -> Fetch \cup {None}]
<1>1. PICK f \in Fetch : f = fetch[n]
  OBVIOUS
<1>2. PICK seen : seen = IF fetch[n].got = <<>> THEN table ELSE fetch[n].seen
  OBVIOUS
<1>3. seen \in 0..Len(Feed)
  BY <1>2, FetchTypes DEF TypeOK
<1>4. fetch'[n] = [f EXCEPT !.pc = "rows", !.seen = seen]
  BY <1>1, <1>2 DEF Query, TypeOK, Fetch
<1>5. \A m \in Fetches : m # n => fetch'[m] = fetch[m]
  BY DEF Query, TypeOK
<1>6. fetch'[n] \in Fetch
  BY <1>3, <1>4 DEF Fetch, Pcs
<1>7. DOMAIN fetch' = Fetches /\ fetch' = [m \in Fetches |-> fetch'[m]]
  BY DEF Query, TypeOK
<1>8. fetch' \in [Fetches -> Fetch \cup {None}]
  BY <1>5, <1>6, <1>7 DEF TypeOK
<1>9. /\ fetch'[n].view = f.view /\ fetch'[n].cancelled = f.cancelled /\ fetch'[n].cut = f.cut
      /\ fetch'[n].seen = seen /\ fetch'[n].got = f.got /\ fetch'[n].pc = "rows"
      /\ fetch'[n].from = f.from
  BY <1>4 DEF Fetch
<1>10. QED BY <1>1, <1>2, <1>5, <1>6, <1>8, <1>9

\* What is known of a fetch survives its next step.
LEMMA CloseInv ==
    ASSUME TypeOK, NEW n \in Fetches, fetch[n] \in Fetch, fetch[n].pc = "rows",
           Progress(fetch[n]), Coherent(fetch[n]), table' = table,
           NEW S \in SUBSET DOMAIN Feed, NEW broken \in BOOLEAN, Close(n, S, broken),
           broken \/ S \in Results(fetch[n])
    PROVE  Progress(fetch[n])' /\ Coherent(fetch[n])'
<1>1. PICK f \in Fetch : f = fetch[n]
  OBVIOUS
<1>2. PICK g : g = fetch'[n]
  OBVIOUS
<1>3. /\ g \in Fetch /\ g.view = f.view /\ g.cancelled = f.cancelled /\ g.seen = f.seen
      /\ g.got = Append(f.got, S) /\ g.cut = (f.cut \/ broken)
      /\ g.from = IF Done(f) THEN 0 ELSE f.from
      /\ g.pc = IF Done(f) THEN "answered" ELSE "query"
  BY <1>1, <1>2, CloseEffect
<1>4. /\ f.got \in Seq(SUBSET DOMAIN Feed) /\ Len(f.got) \in Nat
      /\ g.got \in Seq(SUBSET DOMAIN Feed) /\ Len(g.got) = Len(f.got) + 1
      /\ g.got[Len(f.got) + 1] = S /\ g.got # <<>>
      /\ \A q \in 1..Len(f.got) : g.got[q] = f.got[q]
      /\ f.seen \in Int /\ f.from \in Int
  <2>1. f.got \in Seq(SUBSET DOMAIN Feed) /\ Len(f.got) \in Nat /\ f.seen \in Int /\ f.from \in Int
    BY FetchTypes
  <2>2. QED BY <1>3, <2>1
<1>5. Len(f.got) < Queries(f.view) /\ Queries(f.view) \in {1, 4} /\ f.pc = "rows"
  BY <1>1, QueriesOf, FetchTypes DEF Progress
<1>6. Progress(g)
  <2>1. g.pc = "query" => Len(g.got) < Queries(g.view)
    BY <1>3, <1>4, <1>5 DEF Done
  <2>2. g.pc = "answered" => Len(g.got) = Queries(g.view)
    BY <1>3, <1>4 DEF Done
  <2>3. g.seen <= table
    BY <1>1, <1>3 DEF Progress
  <2>4. g.pc \in {"query", "answered"}
    BY <1>3
  <2>5. QED BY <2>1, <2>2, <2>3, <2>4 DEF Progress
<1>7. ASSUME f.view.page = "stats", ~f.cut, ~broken
      PROVE  /\ g.pc = "query" => /\ \A q \in 1..Len(g.got) : g.got[q] \subseteq Window(g)
                                  /\ g.got[1] = {i \in 1..g.seen : i > g.from}
             /\ g.pc = "answered" => Agree(g.got, g.seen)
  <2>1. Queries(f.view) = 4 /\ table \in 0..Len(Feed)
    BY <1>7 DEF Queries, TypeOK
  <2>2. S \in Results(f)
    BY <1>1, <1>7
  <2>3. /\ S \subseteq Window(f)
        /\ Len(f.got) \in {0, 3} => S = Window(f)
    BY <1>5, <1>7, <2>1, <2>2, ResultTypes
  <2>4. \A q \in 1..Len(f.got) : f.got[q] \subseteq Window(f)
    BY <1>1, <1>5, <1>7 DEF Coherent
  <2>5. \A q \in 1..Len(g.got) : g.got[q] \subseteq Window(f)
    BY <1>4, <2>3, <2>4
  <2>6. g.got[1] = {i \in 1..f.seen : i > f.from}
    <3>1. CASE f.got = <<>>
      <4>1. f.seen = table /\ Len(f.got) = 0
        BY <1>1, <1>5, <3>1 DEF Progress
      <4>2. g.got[1] = S /\ S = Window(f)
        BY <1>4, <2>3, <4>1
      <4>3. QED BY <4>1, <4>2 DEF Window
    <3>2. CASE f.got # <<>>
      <4>1. f.got[1] = {i \in 1..f.seen : i > f.from}
        BY <1>1, <1>5, <1>7, <3>2 DEF Coherent
      <4>2. Len(f.got) # 0
        BY <1>4, <3>2, EmptySeq
      <4>3. g.got[1] = f.got[1]
        BY <1>4, <4>2
      <4>4. QED BY <4>1, <4>3
    <3>3. QED BY <3>1, <3>2
  <2>7. CASE ~Done(f)
    <3>1. g.from = f.from /\ g.pc = "query" /\ Window(g) = Window(f)
      BY <1>3, <2>7 DEF Window
    <3>2. QED BY <1>3, <2>5, <2>6, <3>1
  <2>8. CASE Done(f)
    <3>1. Len(f.got) + 1 = 4
      BY <2>1, <2>8 DEF Done
    <3>2. Len(f.got) = 3 /\ Len(g.got) = 4
      <4>1. Len(f.got) \in Nat /\ Len(g.got) = Len(f.got) + 1
        BY <1>4
      <4>2. \A k \in Nat : k + 1 = 4 => k = 3
        OBVIOUS
      <4>3. QED BY <3>1, <4>1, <4>2, Zenon
    <3>3. g.pc = "answered"
      BY <1>3, <2>8
    <3>4. g.got[4] = Window(f) /\ \A q \in 1..3 : g.got[q] \subseteq g.got[4]
      BY <1>4, <2>3, <2>5, <3>2
    <3>5. g.got[4] \ g.got[1] \subseteq f.seen + 1 .. Len(Feed)
      BY <1>4, <2>1, <2>6, <3>4, FeedTypes DEF Window
    <3>6. QED BY <1>3, <3>3, <3>4, <3>5 DEF Agree
  <2>9. QED BY <2>7, <2>8
<1>8. Coherent(g)
  <2>1. g.pc # "rows" /\ (~g.cut => ~f.cut /\ ~broken) /\ g.view = f.view
    BY <1>3
  <2>2. QED BY <1>4, <1>7, <2>1 DEF Coherent
<1>9. Progress(fetch[n])' /\ Coherent(fetch[n])'
  <2>1. Progress(fetch[n])' <=> Progress(g)
    BY <1>2 DEF Progress, Queries
  <2>2. Coherent(fetch[n])' <=> Coherent(g)
    BY <1>2 DEF Coherent, Window, Agree
  <2>3. QED BY <1>6, <1>8, <2>1, <2>2
<1>10. QED BY <1>9

LEMMA HandlerEffect ==
    ASSUME TypeOK, HandlerInv, NEW n \in Fetches, HandlerStep(n)
    PROVE  HandlerResult(n) /\ HandlerInv'
<1>1. fetch[n] \in Fetch /\ fetch[n] # None
  BY DEF HandlerStep, Begin, Query, Read, BreakOff, Fail, At, TypeOK
<1>2. /\ table' = table /\ aged' = aged /\ clicks' = clicks
      /\ view' = view /\ data' = data /\ error' = error
      /\ faults' \in 0..MaxFaults
  <2>1. /\ table' = table /\ aged' = aged /\ clicks' = clicks
        /\ view' = view /\ data' = data /\ error' = error
    BY DEF HandlerStep, Begin, Query, Read, BreakOff, Fail, browser
  <2>2. faults \in 0..MaxFaults /\ MaxFaults \in Nat
    BY DashboardAssumption DEF TypeOK
  <2>3. faults' = faults \/ (faults < MaxFaults /\ faults' = faults + 1)
    BY DEF HandlerStep, Begin, Query, Read, BreakOff, Fail
  <2>4. QED BY <2>1, <2>2, <2>3
<1>3. Progress(fetch[n]) /\ Coherent(fetch[n]) /\ (fetch[n].pc = "rows" => conn = n)
  BY <1>1 DEF HandlerInv
<1>4. ASSUME HandlerResult(n), Progress(fetch[n])', Coherent(fetch[n])',
             fetch'[n].pc = "rows" => conn' = n,
             conn' = conn \/ conn = n \/ conn = None
      PROVE  HandlerInv'
  <2>1. ASSUME NEW m \in Fetches, m # n, fetch'[m] # None
        PROVE  /\ Progress(fetch[m])' /\ Coherent(fetch[m])'
               /\ fetch'[m].pc = "rows" => conn' = m
    <3>1. fetch'[m] = fetch[m] /\ Progress(fetch[m]) /\ Coherent(fetch[m])
      BY <1>4, <2>1 DEF HandlerInv, HandlerResult
    <3>2. Progress(fetch[m])' /\ Coherent(fetch[m])'
      BY <1>2, <3>1 DEF Progress, Coherent, Window, Agree, Queries
    <3>3. fetch'[m].pc = "rows" => conn = m
      BY <2>1, <3>1 DEF HandlerInv
    <3>4. QED BY <1>4, <2>1, <3>2, <3>3, NoneAssumption
  <2>2. QED BY <1>4, <2>1 DEF HandlerInv
<1>5. CASE Begin(n)
  <2>1. /\ fetch'[n] \in Fetch /\ fetch'[n].view = fetch[n].view
        /\ fetch'[n].cancelled = fetch[n].cancelled /\ fetch'[n].seen = fetch[n].seen
        /\ fetch'[n].got = fetch[n].got /\ fetch'[n].pc = "query"
        /\ \A m \in Fetches : m # n => fetch'[m] = fetch[m]
        /\ fetch' \in [Fetches -> Fetch \cup {None}]
    BY <1>1, <1>5, BeginEffect
  <2>2. fetch[n].got = <<>> /\ conn' = conn
    BY <1>3, <1>5 DEF Begin, At, Progress
  <2>3. HandlerResult(n)
    BY <1>1, <1>2, <2>1, <2>2 DEF HandlerResult, Advances
  <2>4. Progress(fetch[n])'
    <3>1. Len(fetch[n].got) = 0 /\ Queries(fetch[n].view) \in {1, 4}
      BY <1>1, <2>2, QueriesOf, FetchTypes
    <3>2. QED BY <1>2, <1>3, <2>1, <2>2, <3>1 DEF Progress, Queries
  <2>5. Coherent(fetch[n])'
    <3>1. Len(fetch'[n].got) = 0
      BY <2>1, <2>2
    <3>2. QED BY <2>1, <2>2, <3>1 DEF Coherent
  <2>6. QED BY <1>4, <2>1, <2>2, <2>3, <2>4, <2>5
<1>6. CASE Query(n)
  <2>1. /\ fetch'[n] \in Fetch /\ fetch'[n].view = fetch[n].view
        /\ fetch'[n].cancelled = fetch[n].cancelled
        /\ fetch'[n].seen = (IF fetch[n].got = <<>> THEN table ELSE fetch[n].seen)
        /\ fetch'[n].got = fetch[n].got /\ fetch'[n].pc = "rows"
        /\ fetch'[n].from = fetch[n].from /\ fetch'[n].cut = fetch[n].cut
        /\ \A m \in Fetches : m # n => fetch'[m] = fetch[m]
        /\ fetch' \in [Fetches -> Fetch \cup {None}]
    BY <1>1, <1>6, QueryEffect
  <2>2. fetch[n].pc = "query" /\ conn = None /\ conn' = n
    BY <1>6 DEF Query, At
  <2>3. HandlerResult(n)
    BY <1>1, <1>2, <2>1, <2>2 DEF HandlerResult, Advances
  <2>4. Progress(fetch[n])'
    <3>1. fetch'[n].seen <= table
      BY <1>3, <2>1 DEF Progress, TypeOK
    <3>2. QED BY <1>2, <1>3, <2>1, <2>2, <3>1 DEF Progress, Queries
  <2>5. Coherent(fetch[n])'
    BY <1>2, <1>3, <2>1, <2>2 DEF Coherent, Window
  <2>6. QED BY <1>4, <2>2, <2>3, <2>4, <2>5
<1>7. ASSUME NEW S \in SUBSET DOMAIN Feed, NEW broken \in BOOLEAN, Close(n, S, broken),
             At(n, "rows"), broken \/ S \in Results(fetch[n])
      PROVE  HandlerResult(n) /\ HandlerInv'
  <2>1. /\ fetch'[n] \in Fetch /\ fetch'[n].view = fetch[n].view
        /\ fetch'[n].cancelled = fetch[n].cancelled /\ fetch'[n].seen = fetch[n].seen
        /\ fetch'[n].pc \in {"answered", "query"}
        /\ \A m \in Fetches : m # n => fetch'[m] = fetch[m]
        /\ fetch' \in [Fetches -> Fetch \cup {None}]
    BY <1>1, <1>7, CloseEffect
  <2>2. fetch[n].pc = "rows" /\ conn = n /\ conn' = None
    BY <1>3, <1>7 DEF At, Close
  <2>3. HandlerResult(n)
    BY <1>1, <1>2, <2>1, <2>2 DEF HandlerResult, Advances
  <2>4. Progress(fetch[n])' /\ Coherent(fetch[n])'
    BY <1>1, <1>2, <1>3, <1>7, <2>2, CloseInv
  <2>5. QED BY <1>4, <2>1, <2>2, <2>3, <2>4
<1>8. ASSUME Failed(n), conn' = conn \/ (conn = n /\ conn' = None)
      PROVE  HandlerResult(n) /\ HandlerInv'
  <2>1. /\ fetch'[n] \in Fetch /\ fetch'[n].view = fetch[n].view
        /\ fetch'[n].cancelled = fetch[n].cancelled
        /\ fetch'[n].got = <<>> /\ fetch'[n].pc = "failed" /\ fetch'[n].seen = 0
        /\ \A m \in Fetches : m # n => fetch'[m] = fetch[m]
        /\ fetch' \in [Fetches -> Fetch \cup {None}]
    BY <1>1, <1>8, FailedEffect
  <2>2. HandlerResult(n)
    BY <1>1, <1>2, <1>8, <2>1 DEF HandlerResult, Advances
  <2>3. Progress(fetch[n])' /\ Coherent(fetch[n])'
    BY <1>2, <2>1 DEF Progress, Coherent, TypeOK
  <2>4. QED BY <1>4, <1>8, <2>1, <2>2, <2>3
<1>9. CASE Read(n)
  <2>1. PICK S \in Results(fetch[n]) : Close(n, S, FALSE)
    BY <1>9 DEF Read
  <2>2. fetch[n].pc = "rows" /\ table \in 0..Len(Feed)
    BY <1>9 DEF Read, At, TypeOK
  <2>3. Len(fetch[n].got) < Queries(fetch[n].view)
    BY <1>3, <2>2 DEF Progress
  <2>4. S \in SUBSET DOMAIN Feed
    BY <1>1, <2>2, <2>3, ResultTypes
  <2>5. QED BY <1>7, <1>9, <2>1, <2>4 DEF Read
<1>10. CASE BreakOff(n)
  <2>1. At(n, "rows") /\ conn = n
    BY <1>3, <1>10 DEF BreakOff, At
  <2>2. Close(n, {}, TRUE) \/ (conn' = None /\ Failed(n))
    BY <1>10 DEF BreakOff
  <2>3. QED BY <1>7, <1>8, <2>1, <2>2
<1>11. CASE Fail(n)
  BY <1>8, <1>11 DEF Fail
<1>12. QED BY <1>5, <1>6, <1>9, <1>10, <1>11 DEF HandlerStep

LEMMA HandlerPage ==
    ASSUME PageInv, NEW n \in Fetches, HandlerStep(n)
    PROVE  PageInv'
<1> USE DEF PageInv
<1>1. HandlerResult(n) /\ HandlerInv'
  BY HandlerEffect
<1>2. /\ \A m \in Fetches : (Wanted(m)' <=> Wanted(m)) /\ (Wanted(m) => fetch'[m].view = fetch[m].view)
      /\ Outstanding' <=> Outstanding
  BY <1>1, FetchTypes DEF HandlerResult, Advances, Wanted, Outstanding
<1>3. WantedInv'
  BY <1>1, <1>2 DEF WantedInv, HandlerResult
<1>4. ShownForView'
  BY <1>1, <1>2 DEF DisplayInv, ShownForView, HandlerResult
<1>5. SeenInv'
  BY <1>1, <1>2 DEF DisplayInv, SeenInv, HandlerResult, Advances
<1>6. TypeOK'
  BY <1>1 DEF TypeOK, HandlerResult
<1>7. QED BY <1>1, <1>3, <1>4, <1>5, <1>6 DEF DisplayInv

-----------------------------------------------------------------------------
(***************************************************************************)
(* The browser: running the effect leaves one fetch that is wanted, a new  *)
(* one for v, and cancels the others.                                      *)
(***************************************************************************)
RunResult(v, new) ==
    /\ fetch' \in [Fetches -> Fetch \cup {None}]
    /\ fetch'[new] = Request(v) /\ Request(v) \in Fetch
    /\ \A m \in Fetches : m # new =>
          \/ fetch'[m] = None
          \/ /\ fetch[m] \in Fetch /\ fetch'[m] \in Fetch /\ fetch'[m].cancelled
             /\ fetch'[m].pc = fetch[m].pc /\ fetch'[m].view = fetch[m].view
             /\ fetch'[m].from = fetch[m].from /\ fetch'[m].got = fetch[m].got
             /\ fetch'[m].seen = fetch[m].seen /\ fetch'[m].cut = fetch[m].cut

LEMMA RunEffect ==
    ASSUME TypeOK, NEW v \in View, Run(v)
    PROVE  \E new \in Fetches : RunResult(v, new)
<1>1. PICK new \in Fetches : new = CHOOSE n \in Fetches : fetch[n] = None
  BY DEF Run
<1>2. fetch' = [n \in Fetches |-> IF n = new THEN Request(v)
                                  ELSE IF fetch[n] = None THEN None
                                  ELSE [fetch[n] EXCEPT !.cancelled = TRUE]]
  BY <1>1 DEF Run, Cancelled
<1>3. Request(v) \in Fetch
  <2>1. <<>> \in Seq(SUBSET DOMAIN Feed) /\ 0 \in 0..Len(Feed)
    BY FeedTypes
  <2>2. QED BY <2>1 DEF Request, Fetch, Pcs
<1>4. ASSUME NEW f \in Fetch
      PROVE  LET g == [f EXCEPT !.cancelled = TRUE]
             IN /\ g \in Fetch /\ g.cancelled /\ g.pc = f.pc /\ g.view = f.view
                /\ g.from = f.from /\ g.got = f.got /\ g.seen = f.seen /\ g.cut = f.cut
  BY DEF Fetch
<1>5. \A m \in Fetches : fetch[m] # None => fetch[m] \in Fetch
  BY DEF TypeOK
<1>6. \A m \in Fetches : m # new =>
          \/ fetch'[m] = None
          \/ /\ fetch[m] \in Fetch /\ fetch'[m] \in Fetch /\ fetch'[m].cancelled
             /\ fetch'[m].pc = fetch[m].pc /\ fetch'[m].view = fetch[m].view
             /\ fetch'[m].from = fetch[m].from /\ fetch'[m].got = fetch[m].got
             /\ fetch'[m].seen = fetch[m].seen /\ fetch'[m].cut = fetch[m].cut
  BY <1>2, <1>4, <1>5
<1>7. fetch'[new] = Request(v)
  BY <1>2
<1>8. fetch' \in [Fetches -> Fetch \cup {None}]
  BY <1>2, <1>3, <1>4, <1>5
<1>9. QED BY <1>3, <1>6, <1>7, <1>8 DEF RunResult

\* Running the effect keeps the invariants of the fetches.
LEMMA RunInv ==
    ASSUME TypeOK, HandlerInv, NEW v \in View, Run(v),
           table' = table, conn' = conn, view' = v
    PROVE  /\ fetch' \in [Fetches -> Fetch \cup {None}]
           /\ HandlerInv' /\ WantedInv' /\ Outstanding'
           /\ \A n \in Fetches : Wanted(n)' => fetch'[n].pc = "sent" /\ fetch'[n].got = <<>>
<1>1. PICK new \in Fetches : RunResult(v, new)
  BY RunEffect
<1>2. /\ fetch'[new].pc = "sent" /\ fetch'[new].got = <<>> /\ fetch'[new].seen = 0
      /\ fetch'[new].view = v /\ ~fetch'[new].cancelled /\ fetch'[new] # None
  <2>1. fetch'[new] = Request(v) /\ fetch'[new] # None
    BY <1>1, NoneAssumption DEF RunResult
  <2>2. QED BY <2>1 DEF Request
<1>3. \A m \in Fetches : Wanted(m)' <=> m = new
  BY <1>1, <1>2 DEF RunResult, Wanted
<1>4. WantedInv' /\ Outstanding'
  BY <1>2, <1>3 DEF WantedInv, Outstanding
<1>5. Progress(fetch[new])' /\ Coherent(fetch[new])'
  BY <1>2 DEF Progress, Coherent, TypeOK
<1>6. ASSUME NEW m \in Fetches, m # new, fetch'[m] # None
      PROVE  /\ Progress(fetch[m])' /\ Coherent(fetch[m])'
             /\ fetch'[m].pc = "rows" => conn' = m
  <2>1. /\ fetch[m] \in Fetch
        /\ fetch'[m].pc = fetch[m].pc /\ fetch'[m].view = fetch[m].view
        /\ fetch'[m].from = fetch[m].from /\ fetch'[m].got = fetch[m].got
        /\ fetch'[m].seen = fetch[m].seen /\ fetch'[m].cut = fetch[m].cut
    BY <1>1, <1>6 DEF RunResult
  <2>2. Progress(fetch[m]) /\ Coherent(fetch[m]) /\ (fetch[m].pc = "rows" => conn = m)
    BY <2>1, NoneAssumption DEF HandlerInv
  <2>3. Progress(fetch[m])'
    BY <2>1, <2>2 DEF Progress, Queries
  <2>4. Coherent(fetch[m])'
    BY <2>1, <2>2 DEF Coherent, Window, Agree
  <2>5. QED BY <2>1, <2>2, <2>3, <2>4
<1>7. HandlerInv'
  BY <1>2, <1>5, <1>6 DEF HandlerInv
<1>8. QED BY <1>1, <1>2, <1>3, <1>4, <1>7 DEF RunResult

LEMMA ShowPage == ASSUME PageInv, NEW v \in View, Show(v) PROVE PageInv'
<1> USE DEF PageInv
<1>1. /\ table' = table /\ aged' = aged /\ conn' = conn /\ faults' = faults /\ view' = v
      /\ Run(v) /\ clicks < MaxClicks /\ clicks' = clicks + 1
      /\ IF v.page = view.page THEN data' = data /\ error' = error
         ELSE data' = None /\ error' = FALSE
  BY DEF Show
<1>2. /\ fetch' \in [Fetches -> Fetch \cup {None}]
      /\ HandlerInv' /\ WantedInv' /\ Outstanding'
      /\ \A n \in Fetches : Wanted(n)' => fetch'[n].pc = "sent" /\ fetch'[n].got = <<>>
  BY <1>1, RunInv
<1>3. clicks' \in 0..MaxClicks
  BY <1>1, DashboardAssumption DEF TypeOK
<1>4. TypeOK'
  BY <1>1, <1>2, <1>3 DEF TypeOK
<1>5. ShownForView'
  BY <1>1, <1>2 DEF DisplayInv, ShownForView
<1>6. SeenInv'
  BY <1>1, <1>2 DEF DisplayInv, SeenInv
<1>7. QED BY <1>2, <1>4, <1>5, <1>6 DEF DisplayInv

LEMMA PollPage == ASSUME PageInv, Poll PROVE PageInv'
<1> USE DEF PageInv
<1>1. /\ table' = table /\ aged' = aged /\ conn' = conn /\ faults' = faults
      /\ view' = view /\ data' = data /\ error' = error /\ Run(view) /\ view \in View
      /\ clicks' = clicks
  BY DEF Poll, browser, TypeOK
<1>2. PICK v \in View : v = view
  BY <1>1
<1>3. /\ fetch' \in [Fetches -> Fetch \cup {None}]
      /\ HandlerInv' /\ WantedInv' /\ Outstanding'
      /\ \A n \in Fetches : Wanted(n)' => fetch'[n].pc = "sent" /\ fetch'[n].got = <<>>
  BY <1>1, <1>2, RunInv
<1>4. TypeOK'
  BY <1>1, <1>3 DEF TypeOK
<1>5. ShownForView'
  BY <1>1, <1>3 DEF DisplayInv, ShownForView
<1>6. SeenInv'
  BY <1>1, <1>3 DEF DisplayInv, SeenInv
<1>7. QED BY <1>3, <1>4, <1>5, <1>6 DEF DisplayInv

\* An answer arrives: one that is wanted is the only one, and goes on display.
LEMMA DeliverPage ==
    ASSUME PageInv, NEW n \in Fetches, Deliver(n)
    PROVE  /\ PageInv'
           /\ data # None /\ data' # None => data.seen <= data'.seen
<1> USE DEF PageInv
<1>1. /\ table' = table /\ aged' = aged /\ conn' = conn /\ view' = view
      /\ clicks' = clicks /\ faults' = faults
      /\ fetch[n] # None /\ fetch[n] \in Fetch /\ fetch[n].pc \in {"answered", "failed"}
  BY DEF Deliver, TypeOK
<1>2. /\ fetch' \in [Fetches -> Fetch \cup {None}] /\ fetch'[n] = None
      /\ \A m \in Fetches : m # n => fetch'[m] = fetch[m]
  BY DEF Deliver, TypeOK
<1>3. HandlerInv'
  <2>1. ASSUME NEW m \in Fetches, fetch'[m] # None
        PROVE  /\ Progress(fetch[m])' /\ Coherent(fetch[m])'
               /\ fetch'[m].pc = "rows" => conn' = m
    <3>1. /\ fetch'[m] = fetch[m] /\ Progress(fetch[m]) /\ Coherent(fetch[m])
          /\ fetch[m].pc = "rows" => conn = m
      BY <1>2, <2>1 DEF HandlerInv
    <3>2. QED BY <1>1, <3>1 DEF Progress, Coherent, Window, Agree, Queries
  <2>2. QED BY <2>1 DEF HandlerInv
<1>4. \A m \in Fetches : Wanted(m)' <=> Wanted(m) /\ m # n
  BY <1>2 DEF Wanted
<1>5. WantedInv'
  BY <1>1, <1>2, <1>4 DEF WantedInv
<1>6. CASE fetch[n].cancelled
  <2>1. data' = data /\ error' = error
    BY <1>6 DEF Deliver, Applies
  <2>2. Outstanding' <=> Outstanding
    BY <1>4, <1>6 DEF Outstanding, Wanted
  <2>3. TypeOK'
    BY <1>1, <1>2, <2>1 DEF TypeOK
  <2>4. ShownForView'
    BY <1>1, <2>1, <2>2 DEF DisplayInv, ShownForView
  <2>5. SeenInv'
    BY <1>1, <1>2, <1>4, <2>1 DEF DisplayInv, SeenInv
  <2>6. data # None => data.seen <= data.seen
    BY DEF DisplayInv, SeenInv, TypeOK, Answer
  <2>7. QED BY <1>3, <1>5, <2>1, <2>3, <2>4, <2>5, <2>6 DEF DisplayInv
<1>7. CASE ~fetch[n].cancelled
  <2>1. Wanted(n) /\ fetch[n].view = view /\ \A m \in Fetches : ~Wanted(m)'
    BY <1>1, <1>4, <1>7 DEF Wanted, WantedInv
  <2>2. CASE fetch[n].pc = "answered"
    <3>1. data' = [view |-> fetch[n].view, seen |-> fetch[n].seen] /\ error' = error
      BY <1>7, <2>2 DEF Deliver, Applies
    <3>2. PICK f \in Fetch : f = fetch[n]
      BY <1>1
    <3>3. /\ f.view \in View /\ f.got \in Seq(SUBSET DOMAIN Feed) /\ f.seen \in 0..Len(Feed)
          /\ Len(f.got) \in Nat
      BY FetchTypes
    <3>4. Progress(f) /\ f.pc = "answered"
      BY <1>1, <2>2, <3>2 DEF HandlerInv
    <3>5. Len(f.got) = Queries(f.view) /\ f.got # <<>> /\ f.seen <= table
      <4>1. Len(f.got) = Queries(f.view) /\ Queries(f.view) \in {1, 4} /\ f.seen <= table
        BY <3>3, <3>4, QueriesOf DEF Progress
      <4>2. QED BY <3>3, <4>1
    <3>6. data'.view = f.view /\ data'.seen = f.seen /\ data' \in Answer
      BY <3>1, <3>2, <3>3 DEF Answer
    <3>7. TypeOK'
      BY <1>1, <1>2, <3>1, <3>6 DEF TypeOK
    <3>8. ShownForView'
      BY <1>1, <2>1, <3>2, <3>6 DEF ShownForView
    <3>9. SeenInv'
      BY <1>1, <2>1, <3>5, <3>6 DEF SeenInv
    <3>10. data # None => data.seen <= data'.seen
      BY <2>1, <3>2, <3>5, <3>6 DEF DisplayInv, SeenInv
    <3>11. QED BY <1>3, <1>5, <3>7, <3>8, <3>9, <3>10 DEF DisplayInv
  <2>3. CASE fetch[n].pc = "failed"
    <3>1. data' = data /\ error' = TRUE
      BY <1>7, <2>3 DEF Deliver, Applies
    <3>2. TypeOK'
      BY <1>1, <1>2, <3>1 DEF TypeOK
    <3>3. ShownForView' /\ SeenInv'
      BY <1>1, <2>1, <3>1 DEF DisplayInv, ShownForView, SeenInv
    <3>4. data # None => data.seen <= data.seen
      BY DEF TypeOK, Answer
    <3>5. QED BY <1>3, <1>5, <3>1, <3>2, <3>3, <3>4 DEF DisplayInv
  <2>4. QED BY <1>1, <2>2, <2>3
<1>8. QED BY <1>6, <1>7

-----------------------------------------------------------------------------
\* The worker inserts while no result set is open, so what the handlers have got stays
\* within the window, which grows.
LEMMA InsertPage == ASSUME PageInv, Insert PROVE PageInv'
<1> USE DEF PageInv
<1>1. /\ conn = None /\ table < Len(Feed) /\ table' = table + 1
      /\ aged' = aged /\ conn' = conn /\ fetch' = fetch /\ view' = view
      /\ data' = data /\ error' = error /\ clicks' = clicks /\ faults' = faults
  BY DEF Insert, browser
<1>2. /\ table \in Nat /\ table' \in 0..Len(Feed) /\ aged \in 0..table'
      /\ 1..table \subseteq 1..table'
  BY <1>1, FeedTypes DEF TypeOK
<1>3. TypeOK'
  BY <1>1, <1>2 DEF TypeOK
<1>4. HandlerInv'
  <2>1. ASSUME NEW n \in Fetches, fetch[n] # None
        PROVE  Progress(fetch[n])' /\ Coherent(fetch[n])' /\ fetch[n].pc # "rows"
    <3>1. PICK f \in Fetch : f = fetch[n]
      BY <2>1 DEF TypeOK
    <3>2. Progress(f) /\ Coherent(f) /\ f.pc # "rows"
      BY <1>1, <2>1, <3>1, NoneAssumption DEF HandlerInv
    <3>3. f.seen \in Int /\ f.seen <= table => f.seen <= table'
      BY <1>1, <1>2
    <3>4. Progress(f)'
      BY <3>2, <3>3, FetchTypes DEF Progress, Queries
    <3>5. \A i \in Window(f) : i \in Window(f)'
      BY <1>2 DEF Window
    <3>6. Coherent(f)'
      BY <3>2, <3>5 DEF Coherent, Agree
    <3>7. QED BY <1>1, <3>1, <3>2, <3>4, <3>6 DEF Progress, Coherent, Queries, Window, Agree
  <2>2. QED BY <1>1, <2>1 DEF HandlerInv
<1>5. WantedInv' /\ ShownForView'
  BY <1>1 DEF WantedInv, Wanted, DisplayInv, ShownForView, Outstanding
<1>6. SeenInv'
  <2>1. data # None => data.seen \in Int
    BY DEF TypeOK, Answer
  <2>2. data # None => data.seen <= table'
    BY <1>1, <1>2, <2>1 DEF DisplayInv, SeenInv
  <2>3. QED BY <1>1, <2>2 DEF DisplayInv, SeenInv, Wanted
<1>7. QED BY <1>3, <1>4, <1>5, <1>6 DEF DisplayInv

\* Nothing that a fetch or the page holds depends on how old the rows are by now.
LEMMA IdlePage ==
    ASSUME PageInv, table' = table, conn' = conn, fetch' = fetch, view' = view, data' = data,
           error' = error, clicks' = clicks, faults' = faults, aged' \in 0..table
    PROVE  PageInv'
<1> USE DEF PageInv
<1>1. TypeOK'
  BY DEF TypeOK
<1>2. HandlerInv'
  BY DEF HandlerInv, Progress, Coherent, Window, Agree, Queries
<1>3. WantedInv' /\ DisplayInv'
  BY DEF WantedInv, Wanted, DisplayInv, ShownForView, Outstanding, SeenInv
<1>4. QED BY <1>1, <1>2, <1>3

LEMMA AgePage == ASSUME PageInv, Age PROVE PageInv'
<1>1. aged' \in 0..table
  BY DEF Age, PageInv, TypeOK
<1>2. QED BY <1>1, IdlePage DEF Age, browser

\* The page is mounted with one fetch under way.
LEMMA InitPage == Init => PageInv
<1> SUFFICES ASSUME Init PROVE PageInv
  OBVIOUS
<1>1. /\ table = 0 /\ aged = 0 /\ conn = None /\ data = None /\ error = FALSE
      /\ clicks = 0 /\ faults = 0 /\ view \in View
  BY DEF Init, View
<1>2. Request(view) \in Fetch
  <2>1. <<>> \in Seq(SUBSET DOMAIN Feed) /\ 0 \in 0..Len(Feed)
    BY FeedTypes
  <2>2. QED BY <1>1, <2>1 DEF Request, Fetch, Pcs
<1>3. \A n \in Fetches : fetch[n] # None =>
          n = (CHOOSE m \in Fetches : TRUE) /\ fetch[n] = Request(view)
  BY DEF Init
<1>4. fetch \in [Fetches -> Fetch \cup {None}]
  BY <1>2 DEF Init
<1>5. TypeOK
  <2>1. /\ 0 \in 0..Len(Feed) /\ 0 \in 0..table
        /\ 0 \in 0..MaxClicks /\ 0 \in 0..MaxFaults
    BY <1>1, FeedTypes, DashboardAssumption
  <2>2. QED BY <1>1, <1>4, <2>1 DEF TypeOK
<1>6. \A n \in Fetches : fetch[n] # None =>
          /\ fetch[n].pc = "sent" /\ fetch[n].got = <<>> /\ fetch[n].seen = 0
          /\ fetch[n].view = view
  BY <1>3 DEF Request
<1>7. HandlerInv
  <2>1. ASSUME NEW n \in Fetches, fetch[n] # None
        PROVE  Progress(fetch[n]) /\ Coherent(fetch[n]) /\ fetch[n].pc # "rows"
    BY <1>1, <1>6, <2>1 DEF Progress, Coherent
  <2>2. QED BY <2>1 DEF HandlerInv
<1>8. WantedInv /\ DisplayInv
  BY <1>1, <1>3, <1>6 DEF WantedInv, Wanted, DisplayInv, ShownForView, SeenInv
<1>9. QED BY <1>5, <1>7, <1>8 DEF PageInv

\* Every step keeps the invariant, and none takes the display back.
LEMMA PageStep ==
    ASSUME PageInv, [Next]_vars
    PROVE  /\ PageInv'
           /\ data # None /\ data' # None /\ data'.view = data.view => data.seen <= data'.seen
<1>1. data # None => data.seen <= data.seen
  BY DEF PageInv, TypeOK, Answer
<1>2. CASE \E v \in View : Show(v)
  BY <1>1, <1>2, ShowPage DEF Show
<1>3. CASE Poll
  BY <1>1, <1>3, PollPage DEF Poll, browser
<1>4. ASSUME NEW n \in Fetches, Begin(n) \/ Query(n) \/ Read(n) \/ BreakOff(n) \/ Fail(n)
      PROVE  PageInv' /\ data' = data
  <2>1. data' = data
    BY <1>4 DEF Begin, Query, Read, BreakOff, Fail, browser
  <2>2. QED BY <1>4, <2>1, HandlerPage DEF HandlerStep
<1>5. ASSUME NEW n \in Fetches, Deliver(n)
      PROVE  PageInv' /\ (data # None /\ data' # None => data.seen <= data'.seen)
  BY <1>5, DeliverPage
<1>6. CASE Insert
  BY <1>1, <1>6, InsertPage DEF Insert, browser
<1>7. CASE Age
  BY <1>1, <1>7, AgePage DEF Age, browser
<1>8. CASE UNCHANGED vars
  <2>1. aged \in 0..table
    BY DEF PageInv, TypeOK
  <2>2. QED BY <1>1, <1>8, <2>1, IdlePage DEF vars, browser
<1>9. QED BY <1>1, <1>2, <1>3, <1>4, <1>5, <1>6, <1>7, <1>8, Steps

-----------------------------------------------------------------------------
(***************************************************************************)
(* The page and the handlers stay within their types.                      *)
(***************************************************************************)
THEOREM PageTypeCorrect == Spec => []TypeOK
<1>1. PageInv => TypeOK
  BY DEF PageInv
<1>2. PageInv /\ [Next]_vars => PageInv'
  BY PageStep
<1>3. QED BY <1>1, <1>2, InitPage, PTL DEF Spec

(***************************************************************************)
(* However clicks, polls and answers interleave, a page shows answers to   *)
(* its own queries, and those of another filter only while the right       *)
(* answer is on its way or an error is on display (useAsync).              *)
(***************************************************************************)
THEOREM DisplayIsForView == Spec => []ShownForView
<1>1. PageInv => ShownForView
  BY DEF PageInv, DisplayInv
<1>2. PageInv /\ [Next]_vars => PageInv'
  BY PageStep
<1>3. QED BY <1>1, <1>2, InitPage, PTL DEF Spec

(***************************************************************************)
(* The four queries of Stats give numbers that agree, whatever is inserted *)
(* or grows old between them.                                              *)
(***************************************************************************)
THEOREM StatsAgree == Spec => []StatsCoherent
<1>1. PageInv => StatsCoherent
  BY DEF PageInv, HandlerInv, Progress, Coherent, Agree, Queries, At, StatsCoherent
<1>2. PageInv /\ [Next]_vars => PageInv'
  BY PageStep
<1>3. QED BY <1>1, <1>2, InitPage, PTL DEF Spec

(***************************************************************************)
(* The display never goes back to an answer that had seen fewer rows       *)
(* (the cleanup of the effect in useAsync).                                *)
(***************************************************************************)
THEOREM DisplayNeverGoesBack == Spec => NeverBackwards
<1>1. PageInv /\ [Next]_vars => PageInv'
  BY PageStep
<1>2. PageInv /\ [Next]_vars =>
        [data # None /\ data' # None /\ data'.view = data.view => data.seen <= data'.seen]_vars
  BY PageStep
<1>3. QED BY <1>1, <1>2, InitPage, PTL DEF Spec, NeverBackwards
=============================================================================
