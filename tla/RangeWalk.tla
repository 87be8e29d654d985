----------------------------- MODULE RangeWalk -----------------------------
(***************************************************************************)
(* src/api/range.rs: `plan` validates a caller's date range, `walk` fetches *)
(* it whole, one query per window and cursor, newest window first.  Both   *)
(* orders().historical_range and trades().private_range are this walk.     *)
(*                                                                         *)
(* The endpoint is the environment.  It answers a query with a page of the *)
(* items of the window it has not yet served under that cursor, a rate     *)
(* limit, or an error.  Which ends of a window it counts in, and whether   *)
(* it lists the newest first, is its own convention (`server`); it counts  *)
(* at least one end in.  A cursor is opaque to the walk: here, the set of  *)
(* items already served.  Items do not change while a walk is under way.   *)
(*                                                                         *)
(* A definition marked "Fault" is a plausible slip in the definition that  *)
(* follows it, kept to confirm that the properties notice it.              *)
(***************************************************************************)
EXTENDS Integers, Sequences, FiniteSets, SequencesExt

CONSTANTS
  MaxInt,         \* the greatest integer a date can be given as (i64::MAX)
  MAX_WINDOW_MS,  \* widest query (30 days less a millisecond)
  MAX_WINDOWS,    \* widest walk, in windows (100)
  RetryBudget,    \* rate limits tolerated in one walk (10)
  PageSize,       \* items the endpoint returns at most in one page
  Requests,       \* what callers ask
  Histories,      \* what the account holds: sets of items [id, at]
  Now             \* now_unix_millis()

None      == {}
Some(x)   == {x}
Option(S) == {None} \union {Some(x) : x \in S}
The(o)    == CHOOSE x \in o : TRUE
Bigger(a, b)  == IF a >= b THEN a ELSE b
Smaller(a, b) == IF a <= b THEN a ELSE b

Lowest == -MaxInt - 1

Dates == Lowest..MaxInt

ASSUME RangeAssumption ==
  /\ MaxInt \in Nat
  /\ MAX_WINDOW_MS \in Nat \ {0}
  /\ MAX_WINDOWS \in Nat \ {0}
  /\ RetryBudget \in Nat
  /\ PageSize \in Nat \ {0}
  /\ Now \in Dates

ASSUME RequestAssumption ==
  \A r \in Requests :
    /\ {r.start_date, r.end_date} \subseteq Option(Dates)
    /\ r.cursor \in BOOLEAN
    /\ r.limit = None \/ \E l \in r.limit : l \in Nat /\ r.limit = Some(l)

(* Different items have different ids. *)
ASSUME HistoryAssumption ==
  \A h \in Histories :
    /\ IsFiniteSet(h)
    /\ \A x, y \in h : x.at \in Int /\ (x.id = y.id => x = y)

VARIABLES
  request,            \* start_date, end_date, cursor, limit
  history, server,    \* the endpoint's side
  pc,                 \* "Plan", "Fetch", "Sent", "Done", "Refused", "Failed"
  start, end, cap,    \* the RangePlan
  window_end,
  cursor,             \* None, or the items served under it
  items,              \* collected so far; their ids are the `seen` set
  rate_limit_budget,
  windows             \* history variable: windows begun, counted up to one
                      \* more than there may be

inputs == <<request, history, server>>
plan   == <<start, end, cap>>
vars   == <<inputs, pc, plan, window_end, cursor, items, rate_limit_budget, windows>>

-----------------------------------------------------------------------------
(* plan.                                                                   *)

(* What a release build's subtraction leaves of n: two's complement. *)
Wrapped(n) == ((n - Lowest) % (MaxInt - Lowest + 1)) + Lowest

(* Integer division rounds toward zero. *)
Quotient(n, d) == IF n >= 0 THEN n \div d ELSE -((-n) \div d)

EndOf(r) == IF r.end_date = None THEN Now ELSE The(r.end_date)

(* Fault: a span of exactly MAX_WINDOWS windows gets through. *)
WiderThanAllowed(span) == Quotient(span, MAX_WINDOW_MS) > MAX_WINDOWS

TooWide(span) == Quotient(span, MAX_WINDOW_MS) >= MAX_WINDOWS

Acceptable(r) ==
  /\ ~r.cursor
  /\ r.start_date # None
  /\ EndOf(r) >= The(r.start_date)
  /\ ~TooWide(Wrapped(EndOf(r) - The(r.start_date)))

Init ==
  /\ request \in Requests
  /\ history \in Histories
  /\ server \in [counts_in : {"Both", "Start", "End"}, newest_first : BOOLEAN]
  /\ pc = "Plan"
  /\ start = 0 /\ end = 0 /\ cap = None
  /\ window_end = 0
  /\ cursor = None
  /\ items = <<>>
  /\ rate_limit_budget = RetryBudget
  /\ windows = 0

Refuse ==
  /\ pc = "Plan"
  /\ ~Acceptable(request)
  /\ pc' = "Refused"
  /\ UNCHANGED <<inputs, plan, window_end, cursor, items, rate_limit_budget, windows>>

Plan ==
  /\ pc = "Plan"
  /\ Acceptable(request)
  /\ pc' = "Fetch"
  /\ start' = The(request.start_date)
  /\ end' = EndOf(request)
  /\ cap' = request.limit
  /\ window_end' = EndOf(request)
  /\ windows' = 1
  /\ UNCHANGED <<inputs, cursor, items, rate_limit_budget>>

-----------------------------------------------------------------------------
(* walk.                                                                   *)

(* A query goes out. *)
Fetch ==
  /\ pc = "Fetch"
  /\ pc' = "Sent"
  /\ UNCHANGED <<inputs, plan, window_end, cursor, items, rate_limit_budget, windows>>

(* Fault: the oldest window is not cut at the start of the range. *)
UncutWindow == Bigger(window_end - MAX_WINDOW_MS, Lowest)

window_start == Bigger(Bigger(window_end - MAX_WINDOW_MS, Lowest), start)

Within(x, from, to) ==
  \/ from < x.at /\ x.at < to
  \/ x.at = from /\ server.counts_in # "End" /\ (from < to \/ server.counts_in = "Both")
  \/ x.at = to /\ server.counts_in # "Start" /\ (from < to \/ server.counts_in = "Both")

(* What the endpoint has yet to serve of the current query. *)
Unserved ==
  {x \in history : Within(x, window_start, window_end)} \ UNION cursor

(* A page: some of it, in the endpoint's order. *)
Pages ==
  {page \in UNION {SetToSeqs(S) : S \in SUBSET Unserved} :
     /\ Len(page) <= PageSize
     /\ \A l \in request.limit : Len(page) <= l
     /\ Unserved # {} => page # <<>>
     /\ server.newest_first =>
          /\ \A i, j \in DOMAIN page : i < j => page[i].at >= page[j].at
          /\ \A x \in Unserved \ ToSet(page), i \in DOMAIN page : page[i].at >= x.at}

(* Fault: what an overlap brings twice is kept twice. *)
Unseen(x, collected) == TRUE

NotSeen(x, collected) == \A i \in DOMAIN collected : collected[i].id # x.id

(* Fault: one item over the cap. *)
CapPassed(n) == \E l \in cap : n > l

CapReached(n) == \E l \in cap : n >= l

(* The members of before's domain in order: before[k] is the set of those   *)
(* that come before k.                                                     *)
InOrder(before) ==
  [n \in 1..Cardinality(DOMAIN before) |->
     CHOOSE k \in DOMAIN before : Cardinality(before[k]) = n - 1]

(* The items of a page that are new, each where it first comes. *)
NewPlaces(page) ==
  {k \in DOMAIN page : NotSeen(page[k], items) /\ \A j \in 1..(k - 1) : page[j].id # page[k].id}

NewItems(page) ==
  LET places == InOrder([k \in NewPlaces(page) |-> {j \in NewPlaces(page) : j < k}])
  IN [n \in DOMAIN places |-> page[places[n]]]

(* The loop over a page's items: new ones are pushed until the cap. *)
Collect(page) ==
  LET new    == NewItems(page)
      stops  == {n \in DOMAIN new : CapReached(Len(items) + n)}
      pushed == IF stops = {} THEN Len(new) ELSE Min(stops)
  IN [items |-> items \o SubSeq(new, 1, pushed), full |-> stops # {}]

(* Fault: left in the order the windows and the endpoint gave. *)
AsCollected(s) == s

(* A stable sort. *)
NewestFirst(s) ==
  LET newer(j, k) == s[j].at > s[k].at \/ (s[j].at = s[k].at /\ j < k)
      places == InOrder([k \in DOMAIN s |-> {j \in DOMAIN s : newer(j, k)}])
  IN [n \in DOMAIN places |-> s[places[n]]]

(* Fault: only a window wholly before the range ends the walk. *)
WindowBeforeStart == window_start < start

LastWindow == window_start <= start

(* Fault: windows side by side rather than sharing their boundary. *)
NextToWindow == window_start - 1

NextWindowEnd == window_start

(* A page arrived: its items are collected, then the walk follows its      *)
(* cursor, goes on to the next older window, or is complete.               *)
PageArrives(page, more) ==
  \E collected \in {Collect(page)} :
  LET complete  == collected.full \/ (~more /\ LastWindow)
  IN /\ pc = "Sent"
     /\ Unserved \ ToSet(page) # {} => more
     /\ more => page # <<>>
     /\ pc' = IF complete THEN "Done" ELSE "Fetch"
     /\ items' = IF complete THEN NewestFirst(collected.items) ELSE collected.items
     /\ cursor' = IF more /\ ~complete THEN Some((UNION cursor) \union ToSet(page)) ELSE None
     /\ IF complete \/ more
          THEN UNCHANGED <<window_end, windows>>
          ELSE /\ window_end' = NextWindowEnd
               /\ windows' = Smaller(windows + 1, MAX_WINDOWS + 1)
     /\ UNCHANGED <<inputs, plan, rate_limit_budget>>

(* Fault: the budget is checked but never spent. *)
KeepBudget == UNCHANGED rate_limit_budget

SpendBudget == rate_limit_budget' = rate_limit_budget - 1

(* Fault: the budget is never looked at. *)
AlwaysRetry == TRUE

BudgetLeft == rate_limit_budget > 0

(* A 429 is waited out and the query repeated, while the budget lasts. *)
RateLimited ==
  /\ pc = "Sent"
  /\ BudgetLeft
  /\ SpendBudget
  /\ pc' = "Fetch"
  /\ UNCHANGED <<inputs, plan, window_end, cursor, items, windows>>

(* Any other error, or a 429 too many: what was collected is dropped. *)
FetchFails ==
  /\ pc = "Sent"
  /\ pc' = "Failed"
  /\ items' = <<>>
  /\ UNCHANGED <<inputs, plan, window_end, cursor, rate_limit_budget, windows>>

Next ==
  \/ Refuse \/ Plan \/ Fetch
  \/ \E page \in Pages, more \in BOOLEAN : PageArrives(page, more)
  \/ RateLimited \/ FetchFails

Spec == Init /\ [][Next]_vars

(* Every query is answered, if only with an error. *)
FairSpec == Spec /\ WF_vars(Next)

-----------------------------------------------------------------------------
(* Type invariant. *)
TypeOK ==
  /\ pc \in {"Plan", "Fetch", "Sent", "Done", "Refused", "Failed"}
  /\ {start, end, window_end} \subseteq Int
  /\ \A l \in cap : l \in Nat
  /\ cursor = None \/ cursor \in {Some(S) : S \in SUBSET history}
  /\ ToSet(items) \subseteq history
  /\ rate_limit_budget \in 0..RetryBudget
  /\ windows \in 0..(MAX_WINDOWS + 1)

Wanted == {x \in history : Within(x, start, end)}

(* An uncapped walk that completes has every item of the range, whichever  *)
(* ends of a window the endpoint counts in and however it cuts its pages:  *)
(* no item falls between two windows or between two cursors.               *)
Complete == pc = "Done" /\ cap = None => ToSet(items) = Wanted

(* The merged page lists each item once, newest first, though neighbouring *)
(* windows overlap and the endpoint's own order may be any.                *)
EachOnceNewestFirst ==
  pc = "Done" =>
    \A i, j \in DOMAIN items :
      i < j => items[i].id # items[j].id /\ items[i].at >= items[j].at

(* "limit caps the total number returned, newest first": a capped walk     *)
(* returns exactly the cap's worth if there is that much, and, from an     *)
(* endpoint that lists the newest first, leaves out nothing newer than     *)
(* what it returns.                                                        *)
CapKeepsTheNewest ==
  pc = "Done" /\ cap # None =>
    /\ Len(items) = Smaller(The(cap), Cardinality(Wanted))
    /\ server.newest_first =>
         \A x \in Wanted \ ToSet(items), i \in DOMAIN items : items[i].at >= x.at

(* Every query stays inside what the endpoint accepts and inside the range *)
(* asked for, and a walk makes no more windows than plan admitted.         *)
QueriesAcceptable ==
  pc \in {"Fetch", "Sent"} =>
    /\ start <= window_start /\ window_start <= window_end /\ window_end <= end
    /\ window_end - window_start <= MAX_WINDOW_MS
    /\ windows <= MAX_WINDOWS

(* A walk comes to an end: windows always get older, cursors run out, and  *)
(* rate limits are outwaited only a bounded number of times.               *)
WalkEnds == <>(pc \in {"Done", "Refused", "Failed"})

(* "Absurdly wide ranges are refused": a walk that starts spans fewer than *)
(* MAX_WINDOWS whole windows.                                              *)
AbsurdRangesRefused ==
  pc = "Fetch" => (end - start) \div MAX_WINDOW_MS < MAX_WINDOWS
=============================================================================
