--------------------------- MODULE CandleHistory ----------------------------
(***************************************************************************)
(* The candles of one account, instrument and timeframe: get_candles of    *)
(* brokers/tradelocker/client.py, the pagination and the completion        *)
(* contract of services/market_data/history.py and the durable cache of    *)
(* candle_cache.py, over the pages that RequestLimiter meters.             *)
(*                                                                         *)
(* Bar t lasts from t to t + 1; now is the bar that is forming.  A bar is a *)
(* number, and of its prices we keep whether they were read before it       *)
(* ended (part).  The broker may answer with any of the bars it has.       *)
(***************************************************************************)
EXTENDS RequestLimiter, FiniteSets

CONSTANTS
  Requests,               \* [count, first, min]: count = 0 asks for the bars since first
  Closed,                 \* bars of a closed market
  Opening, Horizon,       \* the forming bar at first, and the last one
  PageBars,               \* bars a page spans
  MaxStale,               \* tradelocker_candle_cache_max_stale_seconds
  Reach, Lead             \* how far before and after now a request may end

Bars == 0..Horizon
Active == Bars \ Closed

ASSUME BarsAreNumbers == /\ Opening \in Nat /\ Horizon \in Nat /\ Opening <= Horizon
                         /\ PageBars \in Nat \ {0} /\ MaxStale \in Nat
                         /\ Reach \in Nat /\ Lead \in Nat
                         /\ Closed \subseteq Bars
ASSUME RequestsAreRecords == Requests \subseteq [count : Nat, first : Nat, min : Nat \ {0}]

VARIABLES
  now,
  cache,                  \* the row of tradelocker_candle_cache, or None
  fetch,                  \* the calls of get_candles
  ahead                   \* history: bars some request asked up to before they ended

candles == <<now, cache, fetch, ahead>>
vars    == <<limiter, candles>>

\* part: bars read before they ended; asked: metadata.requested_count.
EntryType == [bars : SUBSET Bars, part : SUBSET Bars, asked : Nat, fetched : Bars, expires : Nat]
\* stop: termination_reason; left: history, what the broker left out of the last page.
ReplyType == [ask : Requests \cup {None}, end : Nat, bars : SUBSET Bars, part : SUBSET Bars,
              whole : BOOLEAN, stop : {"covered", "cut", "cache_hit"}, left : SUBSET Bars]
NoReply   == [ask |-> None, end |-> 0, bars |-> {}, part |-> {},
              whole |-> FALSE, stop |-> "cut", left |-> {}]
NoFetch   == [at |-> "idle", ask |-> None, start |-> 0, end |-> 0, snap |-> None,
              bars |-> {}, part |-> {}, reply |-> NoReply]

Oldest(S) == CHOOSE t \in S : \A u \in S : t <= u
Newest(S) == CHOOSE t \in S : \A u \in S : u <= t
LastOf(n, S) == {t \in S : Cardinality({u \in S : u > t}) < n}

Init ==
  /\ LimiterInit
  /\ now = Opening /\ cache = None
  /\ fetch = [c \in Calls |-> NoFetch] /\ ahead = {}
-----------------------------------------------------------------------------
(* The completion contract.                                                 *)

\* validate_candle_result: the last row is left out if it is still forming.
SlipJudgesNow(bars, end) ==   \* a slip: the time of the answer, not of the request
  IF bars # {} /\ Newest(bars) >= now THEN bars \ {Newest(bars)} ELSE bars
Usable(bars, end) ==
  IF bars # {} /\ Newest(bars) >= end THEN bars \ {Newest(bars)} ELSE bars

\* next_completed_candle_due_ms: the end of the next bar of an open market.
Due(t) == 1 + Oldest({u \in t + 1 .. Horizon + 1 : u \notin Closed})

\* Enough, nothing of an open market missing in between, and up to date.
Whole(bars, end, least) ==
  LET good == Usable(bars, end) IN
  /\ good # {} /\ Cardinality(good) >= least
  /\ \A t \in Active : Oldest(good) <= t /\ t <= Newest(good) => t \in good
  /\ \A t \in Active : t < end => t <= Newest(good)

Covers(entry, ask, start, end) ==
  LET inside == {t \in entry.bars : t <= end /\ (ask.count = 0 => t >= start)} IN
  /\ Cardinality(inside) >= ask.min
  /\ ask.count = 0 => Oldest(inside) <= start + 1

\* _cached_candle_result: the cached bars of the range, validated again.
FromCache(entry, ask, start, end) ==
  LET inside == {t \in entry.bars : t <= end /\ (ask.count = 0 => t >= start)} IN
  [ask |-> ask, end |-> end, bars |-> Usable(inside, end), part |-> entry.part \cap Usable(inside, end),
   whole |-> Whole(inside, end, ask.min), stop |-> "cache_hit", left |-> {}]

Serves(entry, ask, start, end) ==
  Covers(entry, ask, start, end) /\ FromCache(entry, ask, start, end).whole
-----------------------------------------------------------------------------
(* get_candles.                                                             *)

Done(c, reply) ==
  fetch' = [fetch EXCEPT ![c] = [NoFetch EXCEPT !.at = "done", !.reply = reply]]

\* Within the bar in which an entry expires it is fresh for the grace seconds.
MayBeFresh == cache # None /\ now <= cache.expires
MayBeStale == cache = None \/ now >= cache.expires

\* An incremental refresh starts one bar before the newest cached one.
StartOf(ask, end) ==
  LET full == IF ask.count = 0 THEN ask.first ELSE IF end < ask.count THEN 0 ELSE end + 1 - ask.count
      refreshes == /\ ask.count > 0 /\ cache # None
                   /\ Cardinality(cache.bars) >= ask.min
                   /\ cache.asked >= ask.count \/ Cardinality(cache.bars) >= ask.count
  IN  IF refreshes THEN Longer(full, Less(Newest(cache.bars))) ELSE full

\* end_ms is the caller's, or the time.
Ends == {end \in 0..Horizon + 1 : now <= end + Reach /\ end <= now + Lead}
ToEnd(end) == {t \in Bars : now <= t /\ t < end}

Hits(ask, end)   == MayBeFresh /\ Serves(cache, ask, StartOf(ask, end), end)
Misses(ask, end) == Hits(ask, end) => MayBeStale

Hit(c, ask, end) ==
  /\ fetch[c].at = "idle" /\ Hits(ask, end)
  /\ Done(c, FromCache(cache, ask, StartOf(ask, end), end))
  /\ UNCHANGED <<limiter, now, cache, ahead>>

\* invalid_time_range, also when the cache holds bars after the end asked for.
Begin(c, ask, end) ==
  /\ fetch[c].at = "idle" /\ Misses(ask, end)
  /\ IF StartOf(ask, end) <= end
     THEN /\ fetch' = [fetch EXCEPT ![c] = [NoFetch EXCEPT !.at = "paging", !.ask = ask,
                          !.start = StartOf(ask, end), !.end = end, !.snap = cache]]
          /\ ahead' = ahead \cup ToEnd(end)
          /\ StartPage(c)
     ELSE /\ Done(c, NoReply)
          /\ UNCHANGED <<page, ahead>>
  /\ UNCHANGED <<row, told, now, cache>>

\* What the call has when its pages are over: the cached bars under the new ones.
SnapBars(f) == IF f.snap = None THEN {} ELSE f.snap.bars
SnapPart(f) == IF f.snap = None THEN {} ELSE f.snap.part
Merged(f, bars) ==
  LET all == SnapBars(f) \cup bars IN IF f.ask.count = 0 THEN all ELSE LastOf(f.ask.count, all)
Parts(f, bars, part) == part \cup (SnapPart(f) \ bars)

\* put: the row is replaced, and expires when the next bar of an open market ends.
SlipExpiresByClock(f, good, rough) ==   \* a slip: the bar after the forming one
  [bars |-> good, part |-> rough, asked |-> f.ask.count, fetched |-> now, expires |-> Due(now)]
EntryOf(f, good, rough) ==
  [bars |-> good, part |-> rough, asked |-> f.ask.count, fetched |-> now,
   expires |-> Longer(now, Due(Newest(good)))]

\* _decorate_and_cache: only a complete result is stored, and used by the callers.
Conclude(c, bars, part, stop, left) ==
  LET f     == fetch[c]
      good  == Usable(Merged(f, bars), f.end)
      rough == Parts(f, bars, part) \cap good
      whole == Whole(Merged(f, bars), f.end, f.ask.min)
  IN  IF whole
      THEN /\ Done(c, [ask |-> f.ask, end |-> f.end, bars |-> good, part |-> rough,
                        whole |-> TRUE, stop |-> stop, left |-> left])
           /\ cache' = EntryOf(f, good, rough)
      ELSE Done(c, NoReply) /\ UNCHANGED cache

\* get_candles_paginated: pages go backwards from the end.
BoundOf(f) == IF f.bars = {} THEN f.end ELSE Oldest(f.bars) - 1
SlipOpensPageEarly(f) == BoundOf(f) <= f.start + PageBars   \* a slip: one bar more than a page spans
AtStart(f) == BoundOf(f) + 1 <= f.start + PageBars
Window(f)  == {t \in Active : f.start <= t /\ t <= BoundOf(f) /\ BoundOf(f) < t + PageBars}
Enough(f, bars) == Cardinality(bars) >= f.end + 1 - f.start
Left(f)    == IF f.ask.count = 0 THEN {t \in Window(f) : t <= now} ELSE {}

\* Of the bars had and read, those whose prices were read before they ended.
Rough(f, new) == (f.part \ new) \cup {t \in new : t >= now}

Answer(c, new) ==
  LET f    == fetch[c]
      bars == f.bars \cup new
      part == Rough(f, new)
      cut  == new = {} \/ (f.bars # {} /\ Oldest(new) >= Oldest(f.bars))
      all  == \/ Oldest(bars) <= f.start \/ Enough(f, bars)
              \/ f.ask.count = 0 /\ AtStart(f)
  IN
  /\ f.at = "paging" /\ PageIsOver(c)
  /\ new \subseteq {t \in Active : f.start <= t /\ t <= f.end /\ t <= now}
  /\ IF cut \/ all
     THEN /\ IF cut THEN Conclude(c, bars, part, "cut", {})
             ELSE Conclude(c, bars, part, "covered", Left(f) \ bars)
          /\ LeavePage(c)
     ELSE /\ fetch' = [fetch EXCEPT ![c].bars = bars, ![c].part = part]
          /\ StartPage(c) /\ UNCHANGED cache
  /\ UNCHANGED <<now, ahead>>

\* After a first page any error, and the page limit, end the pages.
CutShort(c) ==
  /\ fetch[c].at = "paging" /\ fetch[c].bars # {}
  /\ PageIsOver(c) \/ Exhausted(c)
  /\ Conclude(c, fetch[c].bars, fetch[c].part, "cut", {}) /\ LeavePage(c)
  /\ UNCHANGED <<now, ahead>>

Fails(c) ==
  /\ fetch[c].at = "paging" /\ fetch[c].bars = {}
  /\ PageIsOver(c)
  /\ Done(c, NoReply) /\ LeavePage(c)
  /\ UNCHANGED <<now, cache, ahead>>

\* _rate_limit_cache_fallback: the entry read at first, if it is not too old.
FallsBack(c) ==
  LET f    == fetch[c]
      ok   == /\ f.snap # None /\ now - f.snap.fetched <= MaxStale
              /\ Serves(f.snap, f.ask, f.start, f.end)
  IN
  /\ f.at = "paging" /\ f.bars = {}
  /\ Exhausted(c)
  /\ Done(c, IF ok THEN FromCache(f.snap, f.ask, f.start, f.end) ELSE NoReply) /\ LeavePage(c)
  /\ UNCHANGED <<now, cache, ahead>>

\* The process stops: the lease stays until its time.
Die(c) ==
  /\ fetch[c].at = "paging"
  /\ Done(c, NoReply) /\ LeavePage(c)
  /\ UNCHANGED <<row, told, now, cache, ahead>>

\* An entry goes when others need its place or it is too old.
Evict ==
  /\ cache # None /\ cache' = None
  /\ UNCHANGED <<limiter, now, fetch, ahead>>

Tick ==
  /\ LimiterTick
  /\ now' \in {now, now + 1} \cap Bars
  /\ UNCHANGED <<cache, fetch, ahead>>

PageStep(c) ==
  \/ LimiterStep(c) /\ UNCHANGED candles
  \/ \E new \in SUBSET Active : Answer(c, new)
  \/ CutShort(c) \/ Fails(c) \/ FallsBack(c)

Next ==
  \/ Tick \/ Evict
  \/ \E c \in Calls : \/ PageStep(c) \/ Die(c)
                      \/ \E ask \in Requests, end \in Ends : Hit(c, ask, end) \/ Begin(c, ask, end)

Spec == Init /\ [][Next]_vars
FairSpec == Spec /\ WF_vars(Tick) /\ \A c \in Calls : WF_vars(PageStep(c))
-----------------------------------------------------------------------------
TypeOK ==
  /\ LimiterTypeOK
  /\ now \in Bars /\ ahead \subseteq Bars
  /\ cache = None \/ cache \in EntryType
  /\ \A c \in Calls : \E f \in {fetch[c]} :
       /\ f.at \in {"idle", "paging", "done"} /\ f.ask \in Requests \cup {None}
       /\ f.start \in Nat /\ f.end \in Nat
       /\ (f.snap = None \/ f.snap \in EntryType)
       /\ f.bars \subseteq Bars /\ f.part \subseteq Bars /\ f.reply \in ReplyType

\* candle_cache.py:146, "Completed candles are required for cache storage":
\* the row holds a bar whose prices were read before it ended only where some
\* request asked up to an end that was still ahead of the clock and took that
\* bar in; a bar that ends between a request, its pages and the answer does not.
CacheIsFinal ==
  cache # None => cache.part \subseteq ahead /\ \A t \in cache.bars : t < now \/ t \in ahead

\* Until the row expires requests are answered from it without asking the
\* broker: no bar of an open market has ended meanwhile that it does not reach,
\* also when a slow call with an earlier end wrote it last.
FreshIsCurrent ==
  cache # None /\ now < cache.expires => \A t \in Active : t < now => t <= Newest(cache.bars)

\* A result reported as complete, fetched, merged or cached, has as many bars as
\* asked for, final but for those some request asked up to ahead of the clock,
\* and misses none of an open market from its oldest one up to the end.  For a
\* range the oldest is the first asked for (from the cache, or the next one)
\* whenever the result says so, by the reason its pages ended; if not, the last
\* page is where the broker left bars out.
WholeReply ==
  \A c \in Calls : \E r \in {fetch[c].reply} : r.whole =>
    /\ Cardinality(r.bars) >= r.ask.min
    /\ r.part \subseteq ahead
    /\ \A t \in Active : t < r.end /\ (\E u \in r.bars : u <= t) => t \in r.bars
    /\ r.ask.count = 0 /\ r.stop # "cut" =>
         \A t \in Active : r.ask.first <= t /\ t < r.end
           => \/ t \in r.bars \cup r.left
              \/ t = r.ask.first /\ r.stop = "cache_hit"

\* Every call is answered, whoever dies with the lease and however often the
\* broker says 429.
CallsAnswered == <>[](\A c \in Calls : fetch[c].at # "paging")
=============================================================================
