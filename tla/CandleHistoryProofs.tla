------------------------- MODULE CandleHistoryProofs -------------------------
(***************************************************************************)
(* Theorems about CandleHistory for every set of calls and requests and    *)
(* every lease, interval, backoff and page: the shared lease and cooldown  *)
(* of RequestLimiter, the types of the rows and the answers, how long a    *)
(* row may be served, and, when no request may end after now, the bars of  *)
(* the row and of the answers.                                             *)
(***************************************************************************)
EXTENDS CandleHistory, FiniteSetTheorems, TLAPS

USE DEF row, limiter, candles, vars
-----------------------------------------------------------------------------
\* The lease and the cooldown.  A call that counts on time of a lease owns it,
\* and the row never promises less than the call counts on; the row waits at
\* least as long as the longest wait the broker asked for.
Leased == \A c \in Calls : page[c].held > 0 => owner = c /\ page[c].held <= lease
Waits  == told <= cool
LimiterInv == LimiterTypeOK /\ Leased /\ Waits

LEMMA LimiterStarts == ASSUME LimiterInit PROVE LimiterInv
BY LimiterTimes DEF LimiterInit, LimiterInv, LimiterTypeOK, Leased, Waits, NoPage, PageType, PageStages

LEMMA PageMoves ==
  ASSUME LimiterInv, NEW c \in Calls, StartPage(c) \/ LeavePage(c) \/ UNCHANGED page
  PROVE  /\ page' \in [Calls -> PageType]
         /\ \A d \in Calls : page'[d].held > 0 => page'[d] = page[d] /\ (d = c => UNCHANGED page)
BY DEF LimiterInv, LimiterTypeOK, StartPage, LeavePage, NoPage, PageType, PageStages

\* A call that gives its page up, or has none, leaves the row to the others.
LEMMA RowStands ==
  ASSUME LimiterInv, NEW c \in Calls, UNCHANGED <<row, told>>,
         StartPage(c) \/ LeavePage(c) \/ UNCHANGED page
  PROVE  LimiterInv'
BY PageMoves DEF LimiterInv, LimiterTypeOK, Leased, Waits

\* A late release frees nothing that another call counts on.
LEMMA PageEnds ==
  ASSUME LimiterInv, NEW c \in Calls, PageIsOver(c), StartPage(c) \/ LeavePage(c)
  PROVE  LimiterInv'
<1>1. /\ page' \in [Calls -> PageType] /\ page'[c].held = 0
      /\ \A d \in Calls \ {c} : page'[d] = page[d]
  BY DEF LimiterInv, LimiterTypeOK, StartPage, LeavePage, NoPage, PageType, PageStages
<1>2. Leased' BY <1>1 DEF LimiterInv, Leased, PageIsOver, Release
<1>3. LimiterTypeOK' BY <1>1 DEF LimiterInv, LimiterTypeOK, PageIsOver, Release
<1> QED BY <1>2, <1>3 DEF LimiterInv, Waits, PageIsOver

LEMMA WaitIsKept ==
  ASSUME LimiterInv, NEW delay \in Nat, SetCooldown(delay), told' = Longer(told, delay)
  PROVE  told' \in Nat /\ cool' \in Nat /\ told' <= cool'
BY DEF LimiterInv, LimiterTypeOK, Waits, SetCooldown, Longer

LEMMA GivesUp ==
  ASSUME LimiterInv, NEW c \in Calls, Exhausted(c), LeavePage(c) PROVE LimiterInv'
<1>1. PICK delay \in 0..MaxCooldown : Throttle(c, delay) /\ Release(c)
  BY DEF Exhausted
<1>2. /\ page' \in [Calls -> PageType] /\ page'[c].held = 0
      /\ \A d \in Calls \ {c} : page'[d] = page[d]
  BY DEF LimiterInv, LimiterTypeOK, LeavePage, NoPage, PageType, PageStages
<1>3. told' \in Nat /\ cool' \in Nat /\ told' <= cool'
  BY <1>1, WaitIsKept, LimiterTimes DEF Throttle
<1>4. Leased' BY <1>1, <1>2 DEF LimiterInv, Leased, Release
<1>5. LimiterTypeOK' BY <1>1, <1>2, <1>3 DEF LimiterInv, LimiterTypeOK, Release, Throttle
<1> QED BY <1>3, <1>4, <1>5 DEF LimiterInv, Waits

LEMMA RestKeeps ==
  ASSUME LimiterInv, NEW c \in Calls, NEW delay \in 0..MaxBackoff, Rest(c, delay)
  PROVE  page' \in [Calls -> PageType] /\ \A d \in Calls : page'[d].held = page[d].held
<1>1. page \in [Calls -> PageType] BY DEF LimiterInv, LimiterTypeOK
<1>2. delay \in Nat BY LimiterTimes
<1>3. page'[c] = [page[c] EXCEPT !.at = "resting", !.nap = delay]
  BY <1>1 DEF Rest
<1>4. page'[c] \in PageType /\ page'[c].held = page[c].held
  BY <1>1, <1>2, <1>3 DEF PageType, PageStages
<1>5. \A d \in Calls \ {c} : page'[d] = page[d] BY <1>1 DEF Rest
<1>6. page' \in [Calls -> PageType]
  <2>1. DOMAIN page' = Calls /\ page' = [d \in Calls |-> page'[d]] BY <1>1 DEF Rest
  <2> QED BY <1>1, <1>4, <1>5, <2>1
<1> QED BY <1>4, <1>5, <1>6

LEMMA LimiterSteps ==
  ASSUME LimiterInv, NEW c \in Calls, LimiterStep(c) PROVE LimiterInv'
<1> USE DEF LimiterInv, LimiterTypeOK, Leased, Waits
<1>1. CASE Acquire(c)
  <2>1. \A d \in Calls : page[d].held = 0
    BY <1>1 DEF Acquire, Available, PageType
  <2>2. page'[c] = [at |-> "asking", nap |-> 0, tries |-> page[c].tries + 1, held |-> LeaseTime]
    BY <1>1 DEF Acquire
  <2>3. page'[c] \in PageType BY <2>2, LimiterTimes DEF PageType, PageStages
  <2>4. page' \in [Calls -> PageType] /\ \A d \in Calls \ {c} : page'[d] = page[d]
    BY <1>1, <2>3 DEF Acquire
  <2>5. Leased' BY <1>1, <2>1, <2>2, <2>4, LimiterTimes DEF Acquire
  <2> QED BY <1>1, <2>4, <2>5, LimiterTimes DEF Acquire
<1>2. CASE LookAgain(c)
  <2>1. Shorter(Longer(lease, Longer(gap, cool)), MaxBackoff) \in Nat
    BY LimiterTimes DEF Shorter, Longer
  <2>2. page' \in [Calls -> PageType] /\ \A d \in Calls : page'[d].held = page[d].held
    BY <1>2, <2>1 DEF LookAgain, PageType
  <2> QED BY <1>2, <2>2 DEF LookAgain
<1>3. CASE Stumble(c)
  <2>1. page' \in [Calls -> PageType] /\ \A d \in Calls : page'[d].held = page[d].held
    BY <1>3, RestKeeps DEF Stumble
  <2> QED BY <1>3, <2>1 DEF Stumble
<1>4. CASE Throttled(c)
  <2>1. PICK delay \in 0..MaxBackoff :
          Throttle(c, delay) /\ Rest(c, delay) /\ UNCHANGED <<owner, lease>>
    BY <1>4 DEF Throttled
  <2>2. page' \in [Calls -> PageType] /\ \A d \in Calls : page'[d].held = page[d].held
    BY <2>1, RestKeeps
  <2>3. told' \in Nat /\ cool' \in Nat /\ told' <= cool'
    BY <2>1, WaitIsKept, LimiterTimes DEF Throttle
  <2> QED BY <2>1, <2>2, <2>3 DEF Throttle
<1>5. CASE Retry(c)
  <2>1. /\ page' \in [Calls -> PageType] /\ page'[c].held = 0
        /\ \A d \in Calls \ {c} : page'[d] = page[d]
    BY <1>5 DEF Retry, PageType, PageStages
  <2>2. Leased' BY <1>5, <2>1 DEF Retry, Release
  <2> QED BY <1>5, <2>1, <2>2 DEF Retry, Release
<1> QED BY <1>1, <1>2, <1>3, <1>4, <1>5 DEF LimiterStep

LEMMA LimiterTicks == ASSUME LimiterInv, LimiterTick PROVE LimiterInv'
<1> USE DEF LimiterInv, LimiterTypeOK, Leased, Waits
<1>1. \A n \in Nat : Less(n) \in Nat /\ Less(n) <= n BY DEF Less
<1>2. \A m, n \in Nat : m <= n => Less(m) <= Less(n) BY DEF Less
<1>3. ASSUME NEW c \in Calls
      PROVE  /\ page'[c] \in PageType /\ page'[c].held = Less(page[c].held)
  BY <1>1 DEF LimiterTick, PageType
<1>4. page' \in [Calls -> PageType] BY <1>3 DEF LimiterTick
<1>5. Leased'
  <2> SUFFICES ASSUME NEW c \in Calls, page'[c].held > 0
               PROVE  owner' = c /\ page'[c].held <= lease'
    OBVIOUS
  <2>1. page[c].held \in Nat BY DEF PageType
  <2>2. page[c].held > 0 BY <1>1, <1>3, <2>1
  <2> QED BY <1>2, <1>3, <2>1, <2>2 DEF LimiterTick
<1> QED BY <1>1, <1>2, <1>4, <1>5 DEF LimiterTick

LEMMA LimiterNext == ASSUME LimiterInv, [Next]_vars PROVE LimiterInv'
<1>1. CASE UNCHANGED vars
  BY <1>1 DEF LimiterInv, LimiterTypeOK, Leased, Waits
<1>2. CASE Tick BY <1>2, LimiterTicks DEF Tick
<1>3. CASE Evict BY <1>3 DEF Evict, LimiterInv, LimiterTypeOK, Leased, Waits
<1>4. ASSUME NEW c \in Calls, PageStep(c) PROVE LimiterInv'
  <2>1. CASE LimiterStep(c) BY <2>1, LimiterSteps
  <2>2. CASE \E new \in SUBSET Active : Answer(c, new)
    BY <2>2, PageEnds DEF Answer
  <2>3. CASE CutShort(c) BY <2>3, PageEnds, GivesUp DEF CutShort
  <2>4. CASE Fails(c) BY <2>4, PageEnds DEF Fails
  <2>5. CASE FallsBack(c) BY <2>5, GivesUp DEF FallsBack
  <2> QED BY <1>4, <2>1, <2>2, <2>3, <2>4, <2>5 DEF PageStep
<1>5. ASSUME NEW c \in Calls, Die(c) PROVE LimiterInv'
  BY <1>5, RowStands DEF Die
<1>6. ASSUME NEW c \in Calls, NEW ask \in Requests, NEW end \in Ends,
             Hit(c, ask, end) \/ Begin(c, ask, end)
      PROVE  LimiterInv'
  BY <1>6, RowStands DEF Hit, Begin
<1> QED BY <1>1, <1>2, <1>3, <1>4, <1>5, <1>6 DEF Next

\* In every reachable state the row promises no less than the calls count on,
\* and waits at least as long as the broker asked.
THEOREM LimiterHolds == Spec => []LimiterInv
<1>1. Init => LimiterInv BY LimiterStarts DEF Init
<1> QED BY <1>1, LimiterNext, PTL DEF Spec

\* At most one call is within the time of its lease, however late another one
\* lets go of a lease that ran out.
THEOREM LeaseIsExclusive == Spec => []OneWithinLease
<1>1. LimiterInv => OneWithinLease BY DEF LimiterInv, Leased, OneWithinLease
<1> QED BY <1>1, LimiterHolds, PTL

\* No attempt begins within the longest wait that the broker asked of anybody.
THEOREM CooldownHolds == Spec => CooldownIsKept
<1> DEFINE Kept ==
      \A c \in Calls : page[c].at = "waiting" /\ page'[c].at = "asking" => told = 0
<1>1. LimiterInv /\ [Next]_vars => [Kept]_limiter
  <2> SUFFICES ASSUME LimiterInv, [Next]_vars, NEW c \in Calls,
                      page[c].at = "waiting", page'[c].at = "asking"
               PROVE  told = 0
    OBVIOUS
  <2> USE DEF LimiterInv, LimiterTypeOK
  <2>1. CASE Acquire(c) BY <2>1 DEF Acquire, Available, Waits
  <2>2. ~UNCHANGED page OBVIOUS
  <2>3. ASSUME NEW d \in Calls, Acquire(d) PROVE d = c
    BY <2>3 DEF Acquire
  <2>4. ASSUME NEW d \in Calls, StartPage(d) \/ LeavePage(d) PROVE FALSE
    BY <2>4 DEF StartPage, LeavePage, NoPage
  <2>5. ~Tick
    BY DEF Tick, LimiterTick, PageType
  <2>6. ASSUME NEW d \in Calls, LookAgain(d) \/ Retry(d) PROVE FALSE
    BY <2>6 DEF LookAgain, Retry, PageType
  <2>7. ASSUME NEW d \in Calls, Stumble(d) \/ Throttled(d) PROVE FALSE
    <3>1. PICK delay \in 0..MaxBackoff : Rest(d, delay)
      BY <2>7 DEF Stumble, Throttled
    <3>2. page'[d].at = "resting" /\ (d # c => page'[c] = page[c])
      BY <3>1 DEF Rest, PageType
    <3> QED BY <3>2
  <2>8. ASSUME NEW d \in Calls, LimiterStep(d) PROVE told = 0
    BY <2>1, <2>3, <2>6, <2>7, <2>8 DEF LimiterStep
  <2>9. ASSUME NEW d \in Calls, PageStep(d) PROVE told = 0
    BY <2>4, <2>8, <2>9 DEF PageStep, Answer, CutShort, Fails, FallsBack
  <2>10. ASSUME NEW d \in Calls, Die(d) PROVE FALSE
    BY <2>4, <2>10 DEF Die
  <2>11. ASSUME NEW d \in Calls, NEW ask \in Requests, NEW end \in Ends,
                Hit(d, ask, end) \/ Begin(d, ask, end)
         PROVE  FALSE
    BY <2>2, <2>4, <2>11 DEF Hit, Begin
  <2>12. Next /\ ~Evict BY <2>2 DEF Evict
  <2>13. PICK d \in Calls : \/ PageStep(d) \/ Die(d)
                            \/ \E ask \in Requests, end \in Ends : Hit(d, ask, end) \/ Begin(d, ask, end)
    BY <2>5, <2>12 DEF Next
  <2>14. CASE PageStep(d) BY <2>9, <2>14
  <2>15. CASE Die(d) BY <2>10, <2>15
  <2>16. CASE \E ask \in Requests, end \in Ends : Hit(d, ask, end) \/ Begin(d, ask, end)
    BY <2>11, <2>16
  <2> QED BY <2>13, <2>14, <2>15, <2>16
<1> QED BY <1>1, LimiterHolds, PTL DEF Spec, CooldownIsKept
-----------------------------------------------------------------------------
(* Bars.  A set of naturals that is not empty has a least member, since < is *)
(* well founded; a set of bars has a newest one, the nearest to the horizon. *)

LEMMA OldestIsLeast ==
  ASSUME NEW S, S \subseteq Nat, S # {}
  PROVE  Oldest(S) \in S /\ \A u \in S : Oldest(S) <= u
<1> DEFINE R == OpToRel(<, Nat)
<1>1. PICK m \in S : \A n \in S : ~(<<n, m>> \in R)
  <2>1. IsWellFoundedOn(R, Nat) BY NatLessThanWellFounded
  <2> HIDE DEF R
  <2> QED BY <2>1, WFMin
<1>2. ASSUME NEW n \in S PROVE m <= n
  <2>1. <<n, m>> \in R <=> n < m BY DEF OpToRel
  <2>2. m \in Nat /\ n \in Nat OBVIOUS
  <2>3. ~(n < m) BY <1>1, <2>1
  <2> HIDE DEF R
  <2> QED BY ONLY <2>2, <2>3
<1>3. \E t \in S : \A u \in S : t <= u BY <1>2
<1> QED BY <1>3 DEF Oldest

LEMMA NewestIsGreatest ==
  ASSUME NEW S, S \subseteq Bars, S # {}
  PROVE  Newest(S) \in S /\ \A u \in S : u <= Newest(S)
<1> DEFINE D == {Horizon - t : t \in S}
<1>1. Horizon \in Nat /\ \A t \in S : t \in Nat /\ t <= Horizon BY BarsAreNumbers DEF Bars
<1>2. D \subseteq Nat /\ D # {} BY <1>1
<1>3. PICK d \in D : \A x \in D : d <= x
  <2> HIDE DEF D
  <2> QED BY <1>2, OldestIsLeast
<1>4. PICK m \in S : d = Horizon - m OBVIOUS
<1>5. ASSUME NEW u \in S PROVE u <= m
  <2>1. Horizon - m <= Horizon - u BY <1>3, <1>4
  <2> QED BY <1>1, <2>1
<1>6. \E t \in S : \A u \in S : u <= t BY <1>5
<1> QED BY <1>6 DEF Newest

\* The next bar of an open market ends at a time, no later than any other that
\* is to come.
LEMMA DueIsNext ==
  ASSUME NEW t \in Bars
  PROVE  Due(t) \in Nat /\ \A u \in Active : t < u => Due(t) <= u + 1
<1> DEFINE U == {u \in t + 1 .. Horizon + 1 : u \notin Closed}
<1>1. /\ Horizon \in Nat /\ t \in Nat /\ t <= Horizon
      /\ \A u \in Closed : u \in Nat /\ u <= Horizon
  BY BarsAreNumbers DEF Bars
<1>2. U \subseteq Nat BY <1>1
<1>3. Horizon + 1 \in U BY <1>1
<1>4. \A u \in Active : t < u => u \in U BY <1>1 DEF Active, Bars
<1>5. Due(t) = 1 + Oldest(U) BY DEF Due
<1> HIDE DEF U
<1>6. Oldest(U) \in U /\ \A u \in U : Oldest(U) <= u BY <1>2, <1>3, OldestIsLeast
<1>7. Oldest(U) \in Nat BY <1>2, <1>6
<1>8. ASSUME NEW u \in Active, t < u PROVE Due(t) <= u + 1
  <2>1. Oldest(U) <= u /\ u \in Nat BY <1>2, <1>4, <1>6, <1>8
  <2> QED BY ONLY <1>5, <1>7, <2>1
<1> QED BY <1>5, <1>7, <1>8

\* What a complete result has: enough bars, and every bar of an open market
\* from its oldest to the end asked for.
LEMMA WholeMissesNothing ==
  ASSUME NEW bars, bars \subseteq Bars, NEW end \in Nat, NEW least, Whole(bars, end, least),
         NEW good, good = Usable(bars, end)
  PROVE  /\ good \subseteq Bars /\ good # {} /\ Cardinality(good) >= least
         /\ Newest(good) \in Bars /\ \A t \in Active : t < end => t <= Newest(good)
         /\ \A t \in Active : t < end /\ (\E u \in good : u <= t) => t \in good
<1>1. good \subseteq bars BY DEF Usable
<1>2. /\ good # {} /\ Cardinality(good) >= least
      /\ \A t \in Active : Oldest(good) <= t /\ t <= Newest(good) => t \in good
      /\ \A t \in Active : t < end => t <= Newest(good)
  BY DEF Whole
<1>3. good \subseteq Bars /\ good \subseteq Nat /\ Active \subseteq Nat
  <2>1. good \subseteq Bars BY <1>1
  <2>2. Bars \subseteq Nat BY BarsAreNumbers DEF Bars
  <2>3. Active \subseteq Bars BY DEF Active
  <2> QED BY ONLY <2>1, <2>2, <2>3
<1>4. /\ Oldest(good) \in good /\ \A u \in good : Oldest(good) <= u
      /\ Newest(good) \in good
  BY <1>2, <1>3, OldestIsLeast, NewestIsGreatest
<1>5. ASSUME NEW t \in Active, t < end, NEW u \in good, u <= t PROVE t \in good
  <2>1. Oldest(good) \in Nat /\ u \in Nat /\ t \in Nat BY <1>3, <1>4
  <2>2. Oldest(good) <= u BY <1>4
  <2>3. Oldest(good) <= t BY ONLY <1>5, <2>1, <2>2
  <2> QED BY <1>2, <1>5, <2>3
<1> QED BY <1>2, <1>3, <1>4, <1>5
-----------------------------------------------------------------------------
(* The types of the candles.  A call is a record; one that is paging has a   *)
(* request.                                                                 *)

Fields(f) == f = [at |-> f.at, ask |-> f.ask, start |-> f.start, end |-> f.end, snap |-> f.snap,
                  bars |-> f.bars, part |-> f.part, reply |-> f.reply]

LEMMA FieldsStay ==
  ASSUME NEW f, Fields(f), NEW bars, NEW part, NEW g, g = [f EXCEPT !.bars = bars, !.part = part]
  PROVE  Fields(g)
<1>1. g = [at |-> f.at, ask |-> f.ask, start |-> f.start, end |-> f.end, snap |-> f.snap,
           bars |-> bars, part |-> part, reply |-> f.reply]
  BY DEF Fields
<1> QED BY <1>1 DEF Fields

LEMMA FieldsOfRecord ==
  ASSUME NEW at, NEW ask, NEW start, NEW end, NEW snap, NEW bars, NEW part, NEW reply, NEW f,
         f = [at |-> at, ask |-> ask, start |-> start, end |-> end, snap |-> snap,
              bars |-> bars, part |-> part, reply |-> reply]
  PROVE  /\ f.at = at /\ f.ask = ask /\ f.start = start /\ f.end = end /\ f.snap = snap
         /\ f.bars = bars /\ f.part = part /\ f.reply = reply /\ Fields(f)
<1>1. /\ f.at = at /\ f.ask = ask /\ f.start = start /\ f.end = end /\ f.snap = snap
      /\ f.bars = bars /\ f.part = part /\ f.reply = reply
  OBVIOUS
<1>2. Fields(f) BY <1>1 DEF Fields
<1> QED BY <1>1, <1>2

FetchTyped(f) ==
  /\ f.at \in {"idle", "paging", "done"} /\ f.ask \in Requests \cup {None}
  /\ f.at = "paging" => f.ask \in Requests /\ (f.ask.count = 0 => f.start = f.ask.first)
  /\ f.start \in Nat /\ f.end \in Nat
  /\ (f.snap = None \/ f.snap \in EntryType)
  /\ f.bars \subseteq Bars /\ f.part \subseteq Bars /\ f.reply \in ReplyType

CacheTyped == cache = None \/ cache \in EntryType

BarTypes ==
  /\ now \in Bars /\ CacheTyped /\ ahead \subseteq Bars
  /\ DOMAIN fetch = Calls /\ fetch = [c \in Calls |-> fetch[c]]
  /\ \A c \in Calls : Fields(fetch[c]) /\ FetchTyped(fetch[c])

LEMMA CallMoves ==
  ASSUME BarTypes, NEW c \in Calls, NEW g, fetch' = [fetch EXCEPT ![c] = g]
  PROVE  /\ DOMAIN fetch' = Calls /\ fetch' = [d \in Calls |-> fetch'[d]]
         /\ fetch'[c] = g /\ \A d \in Calls \ {c} : fetch'[d] = fetch[d]
BY DEF BarTypes

LEMMA TypesMove ==
  ASSUME BarTypes, NEW c \in Calls, NEW g, Fields(g), FetchTyped(g), fetch' = [fetch EXCEPT ![c] = g],
         now' \in Bars, CacheTyped', ahead' \subseteq Bars
  PROVE  BarTypes'
<1>1. /\ DOMAIN fetch' = Calls /\ fetch' = [d \in Calls |-> fetch'[d]]
      /\ fetch'[c] = g /\ \A d \in Calls \ {c} : fetch'[d] = fetch[d]
  BY CallMoves
<1>2. \A d \in Calls : Fields(fetch'[d]) /\ FetchTyped(fetch'[d]) BY <1>1 DEF BarTypes
<1> QED BY <1>1, <1>2 DEF BarTypes

\* The answer of a call.
LEMMA DoneIs ==
  ASSUME NEW c \in Calls, NEW reply, Done(c, reply)
  PROVE  \E g : /\ fetch' = [fetch EXCEPT ![c] = g] /\ Fields(g)
                /\ g.at = "done" /\ g.ask = None /\ g.start = 0 /\ g.end = 0
                /\ g.snap = None /\ g.bars = {} /\ g.part = {} /\ g.reply = reply
<1>1. PICK g : g = [NoFetch EXCEPT !.at = "done", !.reply = reply] OBVIOUS
<1>2. g = [at |-> "done", ask |-> None, start |-> 0, end |-> 0, snap |-> None,
           bars |-> {}, part |-> {}, reply |-> reply]
  BY ONLY <1>1 DEF NoFetch
<1>3. /\ g.at = "done" /\ g.ask = None /\ g.start = 0 /\ g.end = 0
      /\ g.snap = None /\ g.bars = {} /\ g.part = {} /\ g.reply = reply /\ Fields(g)
  BY ONLY <1>2, FieldsOfRecord
<1>4. fetch' = [fetch EXCEPT ![c] = g] BY <1>1 DEF Done
<1> QED BY <1>3, <1>4

LEMMA DoneTypes ==
  ASSUME BarTypes, NEW c \in Calls, NEW reply \in ReplyType, Done(c, reply),
         UNCHANGED <<now, ahead>>, CacheTyped'
  PROVE  BarTypes'
<1>1. PICK g : /\ fetch' = [fetch EXCEPT ![c] = g] /\ Fields(g)
               /\ g.at = "done" /\ g.ask = None /\ g.start = 0 /\ g.end = 0
               /\ g.snap = None /\ g.bars = {} /\ g.part = {} /\ g.reply = reply
  BY DoneIs
<1>2. FetchTyped(g) BY <1>1 DEF FetchTyped
<1>3. now' \in Bars /\ ahead' \subseteq Bars BY DEF BarTypes
<1> QED BY <1>1, <1>2, <1>3, TypesMove

LEMMA NoReplyIsTyped == NoReply \in ReplyType
BY DEF NoReply, ReplyType

\* The bars of a cached range.
LEMMA FromCacheIsTyped ==
  ASSUME NEW entry \in EntryType, NEW ask \in Requests, NEW start, NEW end \in Nat
  PROVE  FromCache(entry, ask, start, end) \in ReplyType
<1>1. entry.bars \subseteq Bars /\ entry.part \subseteq Bars BY DEF EntryType
<1>2. PICK inside : inside = {t \in entry.bars : t <= end /\ (ask.count = 0 => t >= start)} OBVIOUS
<1>3. PICK good : good = Usable(inside, end) OBVIOUS
<1>4. good \subseteq Bars BY <1>1, <1>2, <1>3 DEF Usable
<1>5. PICK whole \in BOOLEAN : whole = Whole(inside, end, ask.min) BY DEF Whole
<1>6. FromCache(entry, ask, start, end)
        = [ask |-> ask, end |-> end, bars |-> good, part |-> entry.part \cap good, whole |-> whole,
           stop |-> "cache_hit", left |-> {}]
  BY <1>2, <1>3, <1>5 DEF FromCache
<1> QED BY <1>1, <1>4, <1>6 DEF ReplyType

\* What a call has at its end, and what it stores: nothing, or bars that are whole.
Concluded(c, bars, part, stop, left, f, all, good, rough) ==
  /\ f = fetch[c] /\ all = Merged(f, bars) /\ good = Usable(all, f.end)
  /\ rough = Parts(f, bars, part) \cap good
  /\ \/ Done(c, NoReply) /\ UNCHANGED cache
     \/ /\ Whole(all, f.end, f.ask.min) /\ cache' = EntryOf(f, good, rough)
        /\ Done(c, [ask |-> f.ask, end |-> f.end, bars |-> good, part |-> rough,
                     whole |-> TRUE, stop |-> stop, left |-> left])

LEMMA ConcludeIs ==
  ASSUME NEW c \in Calls, NEW bars, NEW part, NEW stop, NEW left, Conclude(c, bars, part, stop, left)
  PROVE  \E f, all, good, rough : Concluded(c, bars, part, stop, left, f, all, good, rough)
<1>1. PICK f, all, good : f = fetch[c] /\ all = Merged(f, bars) /\ good = Usable(all, f.end) OBVIOUS
<1>2. PICK rough : rough = Parts(f, bars, part) \cap good OBVIOUS
<1>3. Concluded(c, bars, part, stop, left, f, all, good, rough)
  BY <1>1, <1>2 DEF Conclude, Concluded
<1> QED BY <1>3

LEMMA MergedBars ==
  ASSUME NEW f, FetchTyped(f), NEW bars, bars \subseteq Bars
  PROVE  Merged(f, bars) \subseteq Bars /\ SnapBars(f) \subseteq Bars
<1>1. SnapBars(f) \subseteq Bars BY DEF SnapBars, FetchTyped, EntryType
<1> QED BY <1>1 DEF Merged, LastOf

LEMMA ConcludeTypes ==
  ASSUME BarTypes, NEW c \in Calls, fetch[c].at = "paging", NEW bars, NEW part,
         bars \subseteq Bars, part \subseteq Bars, NEW stop \in {"covered", "cut"},
         NEW left, left \subseteq Bars, Conclude(c, bars, part, stop, left), UNCHANGED <<now, ahead>>
  PROVE  BarTypes'
<1>1. PICK f, all, good, rough : Concluded(c, bars, part, stop, left, f, all, good, rough)
  BY ConcludeIs
<1>3. /\ f = fetch[c] /\ all = Merged(f, bars)
      /\ \/ Done(c, NoReply) /\ UNCHANGED cache
         \/ /\ Whole(all, f.end, f.ask.min) /\ cache' = EntryOf(f, good, rough)
            /\ Done(c, [ask |-> f.ask, end |-> f.end, bars |-> good, part |-> rough,
                         whole |-> TRUE, stop |-> stop, left |-> left])
  BY <1>1 DEF Concluded
<1>2. FetchTyped(f) /\ f.ask \in Requests /\ now \in Bars BY <1>3 DEF BarTypes, FetchTyped
<1>4. good = Usable(all, f.end) BY <1>1 DEF Concluded
<1>5. rough = Parts(f, bars, part) \cap good BY <1>1 DEF Concluded
<1>6. all \subseteq Bars BY <1>2, <1>3, MergedBars
<1>7. good \subseteq Bars /\ rough \subseteq Bars BY <1>4, <1>5, <1>6 DEF Usable
<1>8. CASE Done(c, NoReply) /\ UNCHANGED cache
  <2>1. CacheTyped' BY <1>8 DEF BarTypes, CacheTyped
  <2> QED BY <1>8, <2>1, NoReplyIsTyped, DoneTypes
<1>9. CASE /\ Whole(all, f.end, f.ask.min) /\ cache' = EntryOf(f, good, rough)
           /\ Done(c, [ask |-> f.ask, end |-> f.end, bars |-> good, part |-> rough,
                        whole |-> TRUE, stop |-> stop, left |-> left])
  <2>1. f.end \in Nat BY <1>2 DEF FetchTyped
  <2>2. Newest(good) \in Bars BY ONLY <1>4, <1>6, <1>9, <2>1, WholeMissesNothing
  <2>3. PICK due \in Nat : due = Due(Newest(good)) BY <2>2, DueIsNext
  <2>4. now \in Nat BY <1>2, BarsAreNumbers DEF Bars
  <2>5. PICK expires \in Nat : expires = Longer(now, Due(Newest(good)))
    BY <2>3, <2>4 DEF Longer
  <2>6. PICK asked \in Nat : asked = f.ask.count BY <1>2, RequestsAreRecords
  <2>7. cache' = [bars |-> good, part |-> rough, asked |-> asked, fetched |-> now, expires |-> expires]
    BY <1>9, <2>5, <2>6 DEF EntryOf
  <2>8. cache' \in EntryType BY <1>2, <1>7, <2>7 DEF EntryType
  <2>9. [ask |-> f.ask, end |-> f.end, bars |-> good, part |-> rough,
         whole |-> TRUE, stop |-> stop, left |-> left] \in ReplyType
    BY <1>2, <1>7, <2>1 DEF ReplyType
  <2> QED BY <1>9, <2>8, <2>9, DoneTypes DEF CacheTyped
<1> QED BY <1>3, <1>8, <1>9

\* A page ends the call, or it goes on with more bars.
Reached(f, bars) ==
  (Oldest(bars) <= f.start \/ Enough(f, bars)) \/ (f.ask.count = 0 /\ AtStart(f))

Answered(c, new, f, bars, part) ==
  /\ f = fetch[c] /\ bars = f.bars \cup new /\ part = Rough(f, new)
  /\ f.at = "paging" /\ UNCHANGED <<now, ahead>>
  /\ new \subseteq {t \in Active : f.start <= t /\ t <= f.end /\ t <= now}
  /\ \/ Conclude(c, bars, part, "cut", {})
     \/ Conclude(c, bars, part, "covered", Left(f) \ bars) /\ new # {} /\ Reached(f, bars)
     \/ fetch' = [fetch EXCEPT ![c].bars = bars, ![c].part = part] /\ UNCHANGED cache

LEMMA AnswerIs ==
  ASSUME NEW c \in Calls, NEW new, Answer(c, new)
  PROVE  \E f, bars, part : Answered(c, new, f, bars, part)
<1>1. PICK f : f = fetch[c] OBVIOUS
<1>2. PICK bars, part : bars = f.bars \cup new /\ part = Rough(f, new) OBVIOUS
<1>3. Answered(c, new, f, bars, part) BY <1>1, <1>2 DEF Answer, Answered, Reached
<1> QED BY <1>3

LEMMA AnswerTypes ==
  ASSUME BarTypes, NEW c \in Calls, NEW new \in SUBSET Active, Answer(c, new)
  PROVE  BarTypes'
<1>1. PICK f, bars, part : Answered(c, new, f, bars, part) BY AnswerIs
<1>2. /\ f = fetch[c] /\ bars = f.bars \cup new /\ part = Rough(f, new)
      /\ f.at = "paging" /\ UNCHANGED <<now, ahead>>
  BY <1>1 DEF Answered
<1>3. \/ Conclude(c, bars, part, "cut", {})
      \/ Conclude(c, bars, part, "covered", Left(f) \ bars)
      \/ fetch' = [fetch EXCEPT ![c].bars = bars, ![c].part = part] /\ UNCHANGED cache
  BY <1>1 DEF Answered
<1>4. Fields(f) /\ FetchTyped(f) BY <1>2 DEF BarTypes
<1>5. bars \subseteq Bars /\ part \subseteq Bars
  BY <1>2, <1>4 DEF FetchTyped, Active, Rough
<1>6. Left(f) \ bars \subseteq Bars BY DEF Left, Window, Active
<1>7. ASSUME NEW stop \in {"covered", "cut"}, NEW left, left \subseteq Bars,
             Conclude(c, bars, part, stop, left)
      PROVE  BarTypes'
  BY <1>2, <1>5, <1>7, ConcludeTypes
<1>8. CASE fetch' = [fetch EXCEPT ![c].bars = bars, ![c].part = part] /\ UNCHANGED cache
  <2>1. PICK g : g = [f EXCEPT !.bars = bars, !.part = part] OBVIOUS
  <2>2. fetch' = [fetch EXCEPT ![c] = g] BY <1>2, <1>8, <2>1 DEF BarTypes
  <2>3. g = [at |-> f.at, ask |-> f.ask, start |-> f.start, end |-> f.end, snap |-> f.snap,
             bars |-> bars, part |-> part, reply |-> f.reply]
    BY ONLY <1>4, <2>1 DEF Fields
  <2>4. Fields(g) /\ FetchTyped(g)
    BY ONLY <1>4, <1>5, <2>3, FieldsOfRecord DEF FetchTyped
  <2>5. now' \in Bars /\ CacheTyped' /\ ahead' \subseteq Bars
    BY <1>2, <1>8 DEF BarTypes, CacheTyped
  <2> QED BY <2>2, <2>4, <2>5, TypesMove
<1>9. CASE Conclude(c, bars, part, "cut", {})
  <2>1. "cut" \in {"covered", "cut"} /\ {} \subseteq Bars OBVIOUS
  <2> QED BY <1>7, <1>9, <2>1
<1>10. CASE Conclude(c, bars, part, "covered", Left(f) \ bars)
  <2>1. "covered" \in {"covered", "cut"} OBVIOUS
  <2> QED BY <1>6, <1>7, <1>10, <2>1
<1> QED BY <1>3, <1>8, <1>9, <1>10

\* Where the pages of a request start.
LEMMA StartIsTyped ==
  ASSUME BarTypes, NEW ask \in Requests, NEW end \in Nat
  PROVE  StartOf(ask, end) \in Nat /\ (ask.count = 0 => StartOf(ask, end) = ask.first)
<1>1. ask.count \in Nat /\ ask.first \in Nat /\ ask.min \in Nat \ {0} BY RequestsAreRecords
<1>2. PICK full \in Nat :
        full = IF ask.count = 0 THEN ask.first ELSE IF end < ask.count THEN 0 ELSE end + 1 - ask.count
  BY <1>1
<1>3. ASSUME cache # None, Cardinality(cache.bars) >= ask.min
      PROVE  Longer(full, Less(Newest(cache.bars))) \in Nat
  <2>1. cache.bars \subseteq Bars BY <1>3 DEF BarTypes, CacheTyped, EntryType
  <2>2. cache.bars # {}
    <3>1. Cardinality({}) = 0 BY FS_EmptySet
    <3> QED BY <1>1, <1>3, <3>1
  <2>3. Newest(cache.bars) \in cache.bars BY ONLY <2>1, <2>2, NewestIsGreatest
  <2>4. Newest(cache.bars) \in Nat BY <2>1, <2>3, BarsAreNumbers DEF Bars
  <2> QED BY <1>2, <2>4 DEF Longer, Less
<1>4. StartOf(ask, end) \in {full} \cup
        (IF cache # None /\ Cardinality(cache.bars) >= ask.min
         THEN {Longer(full, Less(Newest(cache.bars)))} ELSE {})
  BY <1>2 DEF StartOf
<1>5. ask.count = 0 => StartOf(ask, end) = ask.first BY <1>1, <1>2 DEF StartOf
<1> QED BY <1>2, <1>3, <1>4, <1>5

LEMMA EndsAreTyped == ASSUME BarTypes, NEW end \in Ends PROVE end \in Nat
BY BarsAreNumbers DEF BarTypes, Bars, Ends

LEMMA HitTypes ==
  ASSUME BarTypes, NEW c \in Calls, NEW ask \in Requests, NEW end \in Ends, Hit(c, ask, end)
  PROVE  BarTypes'
<1>1. PICK reply : reply = FromCache(cache, ask, StartOf(ask, end), end) OBVIOUS
<1>2. reply \in ReplyType
  <2>1. cache \in EntryType BY DEF Hit, Hits, MayBeFresh, BarTypes, CacheTyped
  <2>2. end \in Nat BY EndsAreTyped
  <2> QED BY <1>1, <2>1, <2>2, FromCacheIsTyped
<1>3. Done(c, reply) /\ UNCHANGED <<now, cache, ahead>> BY <1>1 DEF Hit
<1>4. CacheTyped' BY <1>3 DEF BarTypes, CacheTyped
<1> QED BY <1>2, <1>3, <1>4, DoneTypes

\* A call starts with nothing, or is answered at once.
LEMMA BeginIs ==
  ASSUME NEW c \in Calls, NEW ask, NEW end, Begin(c, ask, end), NEW start, start = StartOf(ask, end)
  PROVE  /\ UNCHANGED <<now, cache>>
         /\ \/ Done(c, NoReply) /\ UNCHANGED ahead
            \/ /\ ahead' = ahead \cup ToEnd(end)
               /\ \E f : /\ fetch' = [fetch EXCEPT ![c] = f] /\ Fields(f)
                         /\ f.at = "paging" /\ f.ask = ask /\ f.start = start /\ f.end = end
                         /\ f.snap = cache /\ f.bars = {} /\ f.part = {} /\ f.reply = NoReply
<1>1. PICK f : f = [NoFetch EXCEPT !.at = "paging", !.ask = ask, !.start = start, !.end = end,
                                   !.snap = cache]
  OBVIOUS
<1>2. f = [at |-> "paging", ask |-> ask, start |-> start, end |-> end, snap |-> cache,
           bars |-> {}, part |-> {}, reply |-> NoReply]
  BY ONLY <1>1 DEF NoFetch
<1>3. /\ f.at = "paging" /\ f.ask = ask /\ f.start = start /\ f.end = end
      /\ f.snap = cache /\ f.bars = {} /\ f.part = {} /\ f.reply = NoReply /\ Fields(f)
  BY ONLY <1>2, FieldsOfRecord
<1>4. /\ UNCHANGED <<now, cache>>
      /\ \/ Done(c, NoReply) /\ UNCHANGED ahead
         \/ ahead' = ahead \cup ToEnd(end) /\ fetch' = [fetch EXCEPT ![c] = f]
  BY <1>1 DEF Begin
<1> QED BY <1>3, <1>4

LEMMA BeginTypes ==
  ASSUME BarTypes, NEW c \in Calls, NEW ask \in Requests, NEW end \in Ends, Begin(c, ask, end)
  PROVE  BarTypes'
<1>1. PICK start \in Nat : start = StartOf(ask, end) /\ (ask.count = 0 => start = ask.first)
  BY EndsAreTyped, StartIsTyped
<1>2. /\ UNCHANGED <<now, cache>> /\ end \in Nat
      /\ now \in Bars /\ CacheTyped /\ ahead \subseteq Bars /\ ToEnd(end) \subseteq Bars
  BY <1>1, BeginIs, EndsAreTyped DEF BarTypes, ToEnd
<1>3. CacheTyped' BY <1>2 DEF CacheTyped
<1>4. CASE Done(c, NoReply) /\ UNCHANGED ahead
  BY <1>2, <1>3, <1>4, NoReplyIsTyped, DoneTypes
<1>5. ASSUME ahead' = ahead \cup ToEnd(end),
             NEW f, fetch' = [fetch EXCEPT ![c] = f], Fields(f),
             f.at = "paging", f.ask = ask, f.start = start, f.end = end,
             f.snap = cache, f.bars = {}, f.part = {}, f.reply = NoReply
      PROVE  BarTypes'
  <2>1. FetchTyped(f) BY <1>1, <1>2, <1>5, NoReplyIsTyped DEF FetchTyped, CacheTyped
  <2> QED BY <1>2, <1>3, <1>5, <2>1, TypesMove
<1> QED BY <1>1, <1>4, <1>5, BeginIs

LEMMA EndTypes ==
  ASSUME BarTypes, NEW c \in Calls, CutShort(c) \/ Fails(c) \/ FallsBack(c) \/ Die(c)
  PROVE  BarTypes'
<1>1. PICK f : f = fetch[c] OBVIOUS
<1>2. FetchTyped(f) BY <1>1 DEF BarTypes
<1>3. CASE CutShort(c)
  <2>1. PICK stop, left : stop = "cut" /\ left = {} OBVIOUS
  <2>2. /\ fetch[c].at = "paging" /\ Conclude(c, f.bars, f.part, stop, left)
        /\ UNCHANGED <<now, ahead>>
    BY <1>1, <1>3, <2>1 DEF CutShort
  <2>3. /\ stop \in {"covered", "cut"} /\ left \subseteq Bars
        /\ f.bars \subseteq Bars /\ f.part \subseteq Bars
    BY <1>2, <2>1 DEF FetchTyped
  <2> QED BY <2>2, <2>3, ConcludeTypes
<1>4. CASE Fails(c) \/ Die(c)
  <2>1. Done(c, NoReply) /\ UNCHANGED <<now, cache, ahead>> BY <1>4 DEF Fails, Die
  <2>2. CacheTyped' BY <2>1 DEF BarTypes, CacheTyped
  <2> QED BY <2>1, <2>2, NoReplyIsTyped, DoneTypes
<1>5. CASE FallsBack(c)
  <2>1. PICK reply : /\ Done(c, reply) /\ UNCHANGED <<now, cache, ahead>>
                     /\ \/ reply = NoReply
                        \/ f.snap # None /\ reply = FromCache(f.snap, f.ask, f.start, f.end)
    BY <1>1, <1>5 DEF FallsBack
  <2>2. reply \in ReplyType
    BY <1>1, <1>2, <1>5, <2>1, NoReplyIsTyped, FromCacheIsTyped DEF FetchTyped, FallsBack
  <2>3. CacheTyped' BY <2>1 DEF BarTypes, CacheTyped
  <2> QED BY <2>1, <2>2, <2>3, DoneTypes
<1> QED BY <1>3, <1>4, <1>5

LEMMA TypesNext == ASSUME BarTypes, [Next]_vars PROVE BarTypes'
<1>1. ASSUME UNCHANGED <<fetch, ahead>>, now' \in Bars, CacheTyped' PROVE BarTypes'
  BY <1>1 DEF BarTypes, Fields, FetchTyped
<1>2. CASE UNCHANGED candles BY <1>1, <1>2 DEF BarTypes, CacheTyped
<1>3. CASE Tick BY <1>1, <1>3 DEF Tick, BarTypes, CacheTyped
<1>4. CASE Evict BY <1>1, <1>4 DEF Evict, BarTypes, CacheTyped
<1>5. ASSUME NEW c \in Calls, PageStep(c) PROVE BarTypes'
  BY <1>2, <1>5, AnswerTypes, EndTypes DEF PageStep
<1>6. ASSUME NEW c \in Calls, NEW ask \in Requests, NEW end \in Ends,
             Hit(c, ask, end) \/ Begin(c, ask, end)
      PROVE  BarTypes'
  BY <1>6, HitTypes, BeginTypes
<1> QED BY <1>2, <1>3, <1>4, <1>5, <1>6, EndTypes DEF Next

LEMMA TypesStart == ASSUME Init PROVE BarTypes
<1>1. PICK g : g = NoFetch OBVIOUS
<1>2. g = [at |-> "idle", ask |-> None, start |-> 0, end |-> 0, snap |-> None,
           bars |-> {}, part |-> {}, reply |-> NoReply]
  BY ONLY <1>1 DEF NoFetch
<1>3. Fields(g) /\ FetchTyped(g) BY <1>2, NoReplyIsTyped, FieldsOfRecord DEF FetchTyped
<1>4. fetch = [c \in Calls |-> g] /\ now = Opening /\ cache = None /\ ahead = {} BY <1>1 DEF Init
<1>5. now \in Bars /\ CacheTyped BY <1>4, BarsAreNumbers DEF Bars, CacheTyped
<1> QED BY <1>3, <1>4, <1>5 DEF BarTypes

\* Every variable keeps its type, the cached rows and the answers too.
THEOREM TypeCorrect == Spec => []TypeOK
<1>1. BarTypes /\ LimiterInv => TypeOK
  BY DEF BarTypes, CacheTyped, FetchTyped, LimiterInv, TypeOK
<1> QED BY <1>1, TypesStart, TypesNext, LimiterHolds, PTL DEF Spec
-----------------------------------------------------------------------------
(* The cache.  A bar that a call has is settled: it has ended, or some       *)
(* request asked up to it ahead of the clock.  A bar whose prices were read *)
(* before it ended is in ahead too, or it is the bar the call asked up to;  *)
(* that one is the newest of what the call has, so Usable leaves it out,    *)
(* unless the row had a newer one: then a request ahead of the clock took   *)
(* both in.                                                                 *)

Settled(t)   == t < now \/ t \in ahead
Final(entry) == entry.part \subseteq ahead /\ entry.bars \subseteq Bars /\ \A t \in entry.bars : Settled(t)

\* Who asks ahead of the clock takes every bar in from now on.
AheadIsSolid == \A u \in ahead, t \in Bars : now <= t /\ t <= u => t \in ahead

Gathered(f) ==
  /\ f.end \in Nat /\ \A t \in Bars : t < f.end => Settled(t)
  /\ f.start \in Nat
  /\ f.bars \subseteq Bars /\ \A t \in f.bars : f.start <= t /\ t <= f.end /\ t <= now
  /\ f.part \subseteq {f.end} \cup ahead
  /\ SnapPart(f) \subseteq ahead /\ SnapBars(f) \subseteq Bars /\ \A t \in SnapBars(f) : Settled(t)
  /\ f.end \in f.part => f.end \in ahead \/ \A t \in SnapBars(f) : t <= f.end

CacheInv ==
  /\ now \in Nat /\ ahead \subseteq Bars /\ AheadIsSolid
  /\ cache # None => Final(cache)
  /\ DOMAIN fetch = Calls /\ fetch = [c \in Calls |-> fetch[c]]
  /\ \A c \in Calls : Fields(fetch[c]) /\ (fetch[c].at = "paging" => Gathered(fetch[c]))

LEMMA BarsAreNat == Bars \subseteq Nat /\ Active \subseteq Bars
BY BarsAreNumbers DEF Bars, Active

\* The newest of a set with a largest member is that member.
LEMMA NewestIsLargest ==
  ASSUME NEW S, S \subseteq Nat, NEW m, m \in S, \A u \in S : u <= m
  PROVE  Newest(S) = m
<1> DEFINE n == Newest(S)
<1>1. \E t \in S : \A u \in S : u <= t OBVIOUS
<1>2. n \in S /\ \A u \in S : u <= n BY <1>1 DEF Newest
<1> HIDE DEF n
<1>3. n \in Nat /\ m \in Nat /\ n <= m /\ m <= n BY <1>2
<1>4. n = m BY <1>3
<1> QED BY <1>4 DEF n

\* What a call keeps at its end is settled, and so is what it read too early.
LEMMA UsableIsFinal ==
  ASSUME CacheInv, NEW f, NEW bars, NEW part,
         Gathered([f EXCEPT !.bars = bars, !.part = part]), Fields(f),
         NEW good, good = Usable(Merged(f, bars), f.end)
  PROVE  /\ good \subseteq Bars /\ \A t \in good : Settled(t)
         /\ Parts(f, bars, part) \cap good \subseteq ahead
<1> DEFINE g == [f EXCEPT !.bars = bars, !.part = part]
<1>1. /\ g.end = f.end /\ g.start = f.start /\ g.bars = bars /\ g.part = part
      /\ SnapBars(g) = SnapBars(f) /\ SnapPart(g) = SnapPart(f)
  BY DEF Fields, SnapBars, SnapPart
<1>2. PICK snap : snap = SnapBars(f) OBVIOUS
<1>3. /\ f.end \in Nat /\ \A t \in Bars : t < f.end => Settled(t)
      /\ bars \subseteq Bars /\ \A t \in bars : t <= f.end /\ t <= now
      /\ part \subseteq {f.end} \cup ahead
      /\ SnapPart(f) \subseteq ahead /\ snap \subseteq Bars /\ \A t \in snap : Settled(t)
      /\ f.end \in part => f.end \in ahead \/ \A t \in snap : t <= f.end
  BY <1>1, <1>2 DEF Gathered
<1>4. PICK all : all = Merged(f, bars) OBVIOUS
<1>5. all \subseteq snap \cup bars BY <1>2, <1>4 DEF Merged, LastOf
<1>6. good \subseteq all BY <1>4 DEF Usable
<1>7. all \subseteq Nat /\ all \subseteq Bars /\ now \in Nat BY <1>3, <1>5, BarsAreNat DEF CacheInv
<1>8. f.end \in good => \E u \in snap : f.end < u
  <2> SUFFICES ASSUME f.end \in good, \A u \in snap : ~(f.end < u) PROVE FALSE OBVIOUS
  <2>1. \A u \in all : u <= f.end BY <1>3, <1>5, <1>7
  <2>2. f.end \in all BY <1>6
  <2>3. Newest(all) = f.end BY ONLY <1>7, <2>1, <2>2, NewestIsLargest
  <2> QED BY <1>3, <1>4, <2>2, <2>3 DEF Usable
<1>9. ASSUME f.end \in good, now <= f.end PROVE f.end \in ahead
  <2>1. PICK u \in snap : f.end < u BY <1>8, <1>9
  <2>2. u \in Nat /\ f.end \in Bars BY <1>3, <1>6, <1>7, <1>9, BarsAreNat
  <2>3. ~(u < now) BY ONLY <1>3, <1>7, <1>9, <2>1, <2>2
  <2>4. u \in ahead BY <1>3, <2>1, <2>3 DEF Settled
  <2>5. f.end <= u BY ONLY <1>3, <2>1, <2>2
  <2> QED BY <1>9, <2>2, <2>4, <2>5 DEF CacheInv, AheadIsSolid
<1>10. ASSUME NEW t \in good PROVE Settled(t)
  <2>1. t \in snap \/ t \in bars BY <1>5, <1>6
  <2>2. t \in Nat /\ t \in Bars BY <1>6, <1>7
  <2>3. CASE t \in bars
    <3>1. t < f.end \/ t = f.end BY ONLY <1>3, <2>2, <2>3
    <3>2. CASE t = f.end
      <4>1. t < now \/ now <= t BY ONLY <1>7, <2>2
      <4> QED BY <1>9, <3>2, <4>1 DEF Settled
    <3> QED BY <1>3, <2>2, <3>1, <3>2
  <2> QED BY <1>3, <2>1, <2>3
<1>11. ASSUME NEW t \in Parts(f, bars, part) \cap good PROVE t \in ahead
  <2>1. t \in part \/ t \in ahead BY <1>3, <1>11 DEF Parts
  <2>2. ASSUME t = f.end, t \in part PROVE t \in ahead
    <3>1. PICK u \in snap : f.end < u BY <1>8, <1>11, <2>2
    <3>2. u \in Nat /\ ~(u <= f.end) BY <1>3, <3>1, BarsAreNat
    <3> QED BY <1>3, <2>2, <3>2
  <2> QED BY <1>3, <2>1, <2>2
<1> QED BY <1>6, <1>7, <1>10, <1>11

\* A page adds bars up to the end of the call; those that are forming are ahead
\* of the clock, but for the one at the end.
LEMMA GathersMore ==
  ASSUME CacheInv, NEW c \in Calls, NEW new \in SUBSET Active, Answer(c, new),
         NEW f, f = fetch[c], NEW bars, bars = f.bars \cup new,
         NEW part, part = Rough(f, new)
  PROVE  Gathered([f EXCEPT !.bars = bars, !.part = part])
<1> DEFINE g == [f EXCEPT !.bars = bars, !.part = part]
<1>1. /\ f.at = "paging"
      /\ new \subseteq {t \in Active : f.start <= t /\ t <= f.end /\ t <= now}
  <2>1. PICK h, more, rough : Answered(c, new, h, more, rough) BY AnswerIs
  <2> QED BY <2>1 DEF Answered
<1> USE DEF Rough
<1>2. /\ Fields(f) /\ Gathered(f) /\ now \in Nat
      /\ new \subseteq Bars /\ \A t \in new : f.start <= t /\ t <= f.end /\ t <= now
  BY <1>1, BarsAreNat DEF CacheInv
<1>3. /\ g.end = f.end /\ g.start = f.start /\ g.bars = bars /\ g.part = part
      /\ SnapBars(g) = SnapBars(f) /\ SnapPart(g) = SnapPart(f)
  BY <1>2 DEF Fields, SnapBars, SnapPart
<1>4. f.end \in Nat /\ \A t \in Bars : t < f.end => Settled(t) BY <1>2 DEF Gathered
<1>5. \A t \in new : t >= now => t = f.end \/ t \in ahead
  <2> SUFFICES ASSUME NEW t \in new, t >= now, t # f.end PROVE t \in ahead OBVIOUS
  <2>1. t \in Nat /\ t \in Bars /\ t <= f.end BY <1>2, BarsAreNat
  <2>2. t < f.end /\ ~(t < now) BY <1>2, <1>4, <2>1
  <2> QED BY <1>4, <2>1, <2>2 DEF Settled
<1>6. part \subseteq {f.end} \cup ahead BY <1>2, <1>5 DEF Gathered
<1>7. ASSUME f.end \in part PROVE f.end \in ahead \/ \A t \in SnapBars(f) : t <= f.end
  <2>1. CASE f.end \in f.part BY <1>2, <2>1 DEF Gathered
  <2>2. CASE f.end \in new /\ f.end >= now
    <3>1. ASSUME NEW u \in SnapBars(f), ~(u <= f.end) PROVE f.end \in ahead
      <4>1. u \in Bars /\ u \in Nat /\ Settled(u) BY <1>2, <3>1, BarsAreNat DEF Gathered
      <4>2. ~(u < now) /\ f.end <= u /\ now <= f.end BY <1>2, <1>4, <2>2, <3>1, <4>1
      <4>3. u \in ahead /\ f.end \in Bars BY <1>2, <2>2, <4>1, <4>2 DEF Settled
      <4> QED BY <4>2, <4>3 DEF CacheInv, AheadIsSolid
    <3> QED BY <3>1
  <2> QED BY <1>7, <2>1, <2>2
<1>8. bars \subseteq Bars /\ \A t \in bars : f.start <= t /\ t <= f.end /\ t <= now
  BY <1>2 DEF Gathered
<1> HIDE DEF g
<1>9. Gathered(g)
  BY ONLY <1>2, <1>3, <1>6, <1>7, <1>8 DEF Gathered
<1> QED BY <1>9 DEF g

LEMMA EntryIsFinal ==
  ASSUME CacheInv, NEW c \in Calls, NEW bars, NEW part, NEW stop, NEW left,
         Conclude(c, bars, part, stop, left),
         Gathered([fetch[c] EXCEPT !.bars = bars, !.part = part]), UNCHANGED <<now, ahead>>
  PROVE  cache' # None => Final(cache)'
<1>1. PICK f, all, good, rough : Concluded(c, bars, part, stop, left, f, all, good, rough)
  BY ConcludeIs
<1>2. /\ f = fetch[c] /\ good = Usable(Merged(f, bars), f.end)
      /\ rough = Parts(f, bars, part) \cap good
      /\ cache' = EntryOf(f, good, rough) \/ cache' = cache
  BY <1>1 DEF Concluded
<1>4. Fields(f) BY <1>2 DEF CacheInv
<1>5. good \subseteq Bars /\ (\A t \in good : Settled(t)) /\ rough \subseteq ahead
  BY <1>2, <1>4, UsableIsFinal
<1>6. cache' = EntryOf(f, good, rough) \/ cache' = cache BY <1>2
<1>7. CASE cache' = cache BY <1>7 DEF CacheInv, Final, Settled
<1>8. CASE cache' = EntryOf(f, good, rough)
  <2>1. cache'.bars = good /\ cache'.part = rough BY <1>8 DEF EntryOf
  <2> QED BY <1>5, <2>1 DEF Final, Settled
<1> QED BY <1>6, <1>7, <1>8

\* Time and requests ahead of it take nothing away from what is settled.
LEMMA SettledStays ==
  ASSUME now \in Nat, now' \in Nat, now <= now', ahead \subseteq ahead'
  PROVE  /\ \A t \in Bars : Settled(t) => Settled(t)'
         /\ \A entry : Final(entry) => /\ entry.part \subseteq ahead' /\ entry.bars \subseteq Bars
                                       /\ \A t \in entry.bars : Settled(t)'
<1>1. ASSUME NEW t \in Bars, Settled(t) PROVE Settled(t)'
  <2>1. t \in Nat BY BarsAreNat
  <2>2. t < now => t < now' BY <2>1
  <2> QED BY <1>1, <2>2 DEF Settled
<1> QED BY <1>1 DEF Final

LEMMA GatheredStays ==
  ASSUME now \in Nat, now' \in Nat, now <= now', ahead \subseteq ahead',
         NEW c \in Calls, UNCHANGED fetch[c], Gathered(fetch[c])
  PROVE  Gathered(fetch[c])'
<1>1. \A t \in Bars : Settled(t) => Settled(t)' BY SettledStays
<1>2. \A t \in fetch[c].bars : t \in Nat /\ t <= now => t <= now' OBVIOUS
<1>3. fetch[c].bars \subseteq Nat BY BarsAreNat DEF Gathered
<1> QED BY <1>1, <1>2, <1>3 DEF Gathered, SnapBars, SnapPart

LEMMA CacheNext ==
  ASSUME BarTypes, CacheInv, [Next]_vars
  PROVE  CacheInv'
<1> USE DEF CacheInv
<1>1. ASSUME now' \in Nat, now <= now', UNCHANGED <<ahead, fetch>>, cache' # None => cache' = cache
      PROVE  CacheInv'
  <2>1. AheadIsSolid'
    <3> SUFFICES ASSUME NEW u \in ahead, NEW t \in Bars, now' <= t, t <= u PROVE t \in ahead
      BY <1>1 DEF AheadIsSolid
    <3>1. now <= t BY <1>1, BarsAreNat
    <3> QED BY <3>1 DEF AheadIsSolid
  <2>2. cache' # None => Final(cache)' BY <1>1, SettledStays DEF Final
  <2>3. \A c \in Calls : fetch[c].at = "paging" => Gathered(fetch[c])' BY <1>1, GatheredStays
  <2> QED BY <1>1, <2>1, <2>2, <2>3 DEF Fields
<1>2. CASE UNCHANGED candles BY <1>1, <1>2 DEF candles
<1>3. CASE Tick BY <1>1, <1>3, BarsAreNumbers DEF Tick, Bars
<1>4. CASE Evict BY <1>1, <1>4 DEF Evict
<1>5. ASSUME NEW c \in Calls, NEW reply, Done(c, reply), UNCHANGED <<now, ahead>>,
             cache' # None => Final(cache)'
      PROVE  CacheInv'
  <2>1. PICK g : fetch' = [fetch EXCEPT ![c] = g] /\ Fields(g) /\ g.at = "done" BY <1>5, DoneIs
  <2>2. /\ DOMAIN fetch' = Calls /\ fetch' = [d \in Calls |-> fetch'[d]]
        /\ fetch'[c] = g /\ \A d \in Calls \ {c} : fetch'[d] = fetch[d]
    BY <2>1
  <2>3. \A d \in Calls \ {c} : fetch[d].at = "paging" => Gathered(fetch[d])'
    BY <1>5, <2>2, GatheredStays
  <2>4. AheadIsSolid' BY <1>5 DEF AheadIsSolid
  <2> QED BY <1>5, <2>1, <2>2, <2>3, <2>4 DEF Fields
<1>6. ASSUME NEW c \in Calls, NEW new \in SUBSET Active, Answer(c, new) PROVE CacheInv'
  <2>1. PICK f, bars, part : Answered(c, new, f, bars, part) BY <1>6, AnswerIs
  <2>2. /\ f = fetch[c] /\ bars = f.bars \cup new /\ part = Rough(f, new)
        /\ f.at = "paging" /\ UNCHANGED <<now, ahead>>
    BY <2>1 DEF Answered
  <2>3. \/ Conclude(c, bars, part, "cut", {})
        \/ Conclude(c, bars, part, "covered", Left(f) \ bars)
        \/ fetch' = [fetch EXCEPT ![c].bars = bars, ![c].part = part] /\ UNCHANGED cache
    BY <2>1 DEF Answered
  <2>4. PICK g : g = [f EXCEPT !.bars = bars, !.part = part] OBVIOUS
  <2>5. Fields(f) /\ Gathered(g) /\ UNCHANGED <<now, ahead>>
    BY <1>6, <2>2, <2>4, GathersMore
  <2>7. ASSUME NEW stop, NEW left, Conclude(c, bars, part, stop, left) PROVE CacheInv'
    <3>1. cache' # None => Final(cache)' BY <2>2, <2>4, <2>5, <2>7, EntryIsFinal
    <3>2. \E reply : Done(c, reply) BY <2>7 DEF Conclude
    <3> QED BY <1>5, <2>5, <3>1, <3>2
  <2>8. CASE fetch' = [fetch EXCEPT ![c].bars = bars, ![c].part = part] /\ UNCHANGED cache
    <3>1. fetch' = [fetch EXCEPT ![c] = g] BY <2>2, <2>4, <2>8
    <3>2. /\ DOMAIN fetch' = Calls /\ fetch' = [d \in Calls |-> fetch'[d]]
          /\ fetch'[c] = g /\ \A d \in Calls \ {c} : fetch'[d] = fetch[d]
      BY <3>1
    <3>3. Fields(g) BY <2>4, <2>5, FieldsStay
    <3>4. \A d \in Calls \ {c} : fetch[d].at = "paging" => Gathered(fetch[d])'
      BY <2>5, <3>2, GatheredStays
    <3>5. Gathered(fetch[c])' BY <2>5, <3>2 DEF Gathered, Settled, SnapBars, SnapPart
    <3>6. AheadIsSolid' /\ (cache' # None => Final(cache)')
      BY <2>5, <2>8 DEF AheadIsSolid, Final, Settled
    <3> QED BY <2>5, <2>8, <3>2, <3>3, <3>4, <3>5, <3>6 DEF Fields
  <2> QED BY <2>3, <2>7, <2>8
<1>7. ASSUME NEW c \in Calls, CutShort(c) PROVE CacheInv'
  <2>1. PICK f : f = fetch[c] OBVIOUS
  <2>2. /\ f.at = "paging" /\ Fields(f) /\ Gathered(f) /\ UNCHANGED <<now, ahead>>
        /\ Conclude(c, f.bars, f.part, "cut", {})
    BY <1>7, <2>1 DEF CutShort
  <2>3. [f EXCEPT !.bars = f.bars, !.part = f.part] = f BY <2>2 DEF Fields
  <2>4. cache' # None => Final(cache)' BY <2>1, <2>2, <2>3, EntryIsFinal
  <2>5. \E reply : Done(c, reply) BY <2>2 DEF Conclude
  <2> QED BY <1>5, <2>2, <2>4, <2>5
<1>8. ASSUME NEW c \in Calls, NEW reply, Done(c, reply), UNCHANGED <<now, cache, ahead>>
      PROVE  CacheInv'
  <2>1. cache' # None => Final(cache)' BY <1>8 DEF Final, Settled
  <2> QED BY <1>5, <1>8, <2>1
<1>9. ASSUME NEW c \in Calls, Fails(c) \/ FallsBack(c) \/ Die(c) PROVE CacheInv'
  <2>1. UNCHANGED <<now, cache, ahead>> /\ \E reply : Done(c, reply)
    BY <1>9 DEF Fails, FallsBack, Die
  <2> QED BY <1>8, <2>1
<1>10. ASSUME NEW c \in Calls, NEW ask \in Requests, NEW end \in Ends, Hit(c, ask, end) PROVE CacheInv'
  <2>1. UNCHANGED <<now, cache, ahead>> /\ \E reply : Done(c, reply) BY <1>10 DEF Hit
  <2> QED BY <1>8, <2>1
<1>11. ASSUME NEW c \in Calls, NEW ask \in Requests, NEW end \in Ends, Begin(c, ask, end) PROVE CacheInv'
  <2>1. PICK start : start = StartOf(ask, end) OBVIOUS
  <2>2. UNCHANGED <<now, cache>> BY <1>11, <2>1, BeginIs
  <2>3. CASE Done(c, NoReply) /\ UNCHANGED ahead BY <1>8, <2>2, <2>3
  <2>4. ASSUME ahead' = ahead \cup ToEnd(end),
               NEW f, fetch' = [fetch EXCEPT ![c] = f], Fields(f),
               f.start = start, f.end = end, f.snap = cache, f.bars = {}, f.part = {}
        PROVE  CacheInv'
    <3>1. /\ DOMAIN fetch' = Calls /\ fetch' = [d \in Calls |-> fetch'[d]]
          /\ fetch'[c] = f /\ \A d \in Calls \ {c} : fetch'[d] = fetch[d]
      BY <2>4
    <3>2. end \in Nat /\ now' = now /\ ahead \subseteq ahead' /\ ahead' \subseteq Bars /\ start \in Nat
      BY <2>1, <2>2, <2>4, StartIsTyped, EndsAreTyped DEF ToEnd
    <3>3. \A d \in Calls \ {c} : fetch[d].at = "paging" => Gathered(fetch[d])'
      <4>1. now' \in Nat /\ now <= now' BY <3>2
      <4> QED BY <3>1, <3>2, <4>1, GatheredStays
    <3>4. AheadIsSolid'
      <4> SUFFICES ASSUME NEW u \in ahead', NEW t \in Bars, now <= t, t <= u PROVE t \in ahead'
        BY <3>2 DEF AheadIsSolid
      <4>1. CASE u \in ahead BY <2>4, <4>1 DEF AheadIsSolid
      <4>2. CASE u \in ToEnd(end)
        <5>1. t \in Nat /\ u \in Nat /\ u < end BY <4>2, BarsAreNat DEF ToEnd
        <5>2. t < end BY <3>2, <5>1
        <5> QED BY <2>4, <5>2 DEF ToEnd
      <4> QED BY <2>4, <4>1, <4>2
    <3>5. cache' # None => Final(cache)'
      <4>1. now' \in Nat /\ now <= now' BY <3>2
      <4> QED BY <2>2, <3>2, <4>1, SettledStays DEF Final
    <3>6. Gathered(f)'
      <4>1. \A t \in Bars : t < end => Settled(t)'
        BY <2>4, <3>2, BarsAreNat DEF Settled, ToEnd
      <4>2. /\ SnapPart(f) \subseteq ahead' /\ SnapBars(f) \subseteq Bars
            /\ \A t \in SnapBars(f) : Settled(t)'
        BY <2>2, <2>4, <3>5 DEF SnapPart, SnapBars, Final
      <4> QED BY <2>4, <3>2, <4>1, <4>2 DEF Gathered, SnapPart, SnapBars
    <3> QED BY <2>4, <3>1, <3>2, <3>3, <3>4, <3>5, <3>6 DEF Fields, Gathered
  <2> QED BY <1>11, <2>1, <2>3, <2>4, BeginIs
<1>12. ASSUME NEW c \in Calls, PageStep(c) PROVE CacheInv'
  BY <1>2, <1>6, <1>7, <1>9, <1>12 DEF PageStep
<1> QED BY <1>2, <1>3, <1>4, <1>9, <1>10, <1>11, <1>12 DEF Next, vars

LEMMA CacheStarts == ASSUME Init PROVE CacheInv
BY BarsAreNumbers DEF Init, CacheInv, AheadIsSolid, NoFetch, Fields

\* Of the bars whose prices were read before they had ended the cache holds only
\* those that some request asked up to ahead of the clock, however slow the
\* pages, whoever else writes and however far ahead the ends are.
THEOREM CacheHolds == Spec => []CacheIsFinal
<1>1. CacheInv => CacheIsFinal BY DEF CacheInv, Final, Settled, CacheIsFinal
<1> QED BY <1>1, TypesStart, TypesNext, CacheStarts, CacheNext, PTL DEF Spec

\* The row expires when it was stored or when the next bar ends after its newest.
Timed ==
  cache # None => /\ Newest(cache.bars) \in Bars
                  /\ cache.expires <= now \/ cache.expires = Due(Newest(cache.bars))

LEMMA EntryIsTimed ==
  ASSUME BarTypes, Timed, NEW c \in Calls, fetch[c].at = "paging", NEW bars, NEW part,
         bars \subseteq Bars, NEW stop, NEW left, Conclude(c, bars, part, stop, left), UNCHANGED now
  PROVE  Timed'
<1>1. PICK f, all, good, rough : Concluded(c, bars, part, stop, left, f, all, good, rough)
  BY ConcludeIs
<1>2. /\ f = fetch[c] /\ all = Merged(f, bars)
      /\ \/ cache' = cache
         \/ Whole(all, f.end, f.ask.min) /\ cache' = EntryOf(f, good, rough)
  BY <1>1 DEF Concluded
<1>3. FetchTyped(f) /\ now \in Nat BY <1>2, BarsAreNumbers DEF BarTypes, Bars
<1>4. good = Usable(all, f.end) BY <1>1 DEF Concluded
<1>7. all \subseteq Bars BY <1>2, <1>3, MergedBars
<1>8. CASE cache' = cache BY <1>8 DEF Timed
<1>9. CASE Whole(all, f.end, f.ask.min) /\ cache' = EntryOf(f, good, rough)
  <2>1. Newest(good) \in Bars
    <3>1. f.end \in Nat BY <1>3 DEF FetchTyped
    <3> QED BY ONLY <1>4, <1>7, <1>9, <3>1, WholeMissesNothing
  <2>2. PICK due \in Nat : due = Due(Newest(good)) BY <2>1, DueIsNext
  <2>3. cache'.bars = good /\ cache'.expires = Longer(now, due) BY <1>9, <2>2 DEF EntryOf
  <2>4. cache'.expires <= now \/ cache'.expires = due BY <1>3, <2>2, <2>3 DEF Longer
  <2> QED BY <2>1, <2>2, <2>3, <2>4 DEF Timed
<1> QED BY <1>2, <1>8, <1>9

LEMMA TimedNext ==
  ASSUME BarTypes, Timed, [Next]_vars
  PROVE  Timed'
<1>1. CASE UNCHANGED <<now, cache>> BY <1>1 DEF Timed
<1>2. CASE Evict BY <1>2 DEF Evict, Timed
<1>3. CASE Tick
  <2>1. UNCHANGED cache /\ now \in Nat /\ now' \in Nat /\ now <= now'
    BY <1>3, BarsAreNumbers DEF Tick, BarTypes, Bars
  <2>2. cache # None => cache.expires \in Nat BY DEF BarTypes, CacheTyped, EntryType
  <2> QED BY <2>1, <2>2 DEF Timed
<1>4. ASSUME NEW c \in Calls, NEW new \in SUBSET Active, Answer(c, new) PROVE Timed'
  <2>1. PICK f, bars, part : Answered(c, new, f, bars, part) BY <1>4, AnswerIs
  <2>2. f = fetch[c] /\ bars = f.bars \cup new /\ f.at = "paging" /\ UNCHANGED now
    BY <2>1 DEF Answered
  <2>3. \/ Conclude(c, bars, part, "cut", {})
        \/ Conclude(c, bars, part, "covered", Left(f) \ bars)
        \/ UNCHANGED cache
    BY <2>1 DEF Answered
  <2>4. bars \subseteq Bars BY <2>2 DEF BarTypes, FetchTyped, Active
  <2> QED BY <1>1, <2>2, <2>3, <2>4, EntryIsTimed
<1>5. ASSUME NEW c \in Calls, CutShort(c) PROVE Timed'
  <2>1. fetch[c].bars \subseteq Bars BY DEF BarTypes, FetchTyped
  <2> QED BY <1>5, <2>1, EntryIsTimed DEF CutShort
<1>6. ASSUME NEW c \in Calls, PageStep(c) PROVE Timed'
  BY <1>1, <1>4, <1>5, <1>6 DEF PageStep, Fails, FallsBack
<1> QED BY <1>1, <1>2, <1>3, <1>6 DEF Next, Die, Hit, Begin

\* A row that is served without a request misses no bar that has ended.
THEOREM FreshRowsAreCurrent == Spec => []FreshIsCurrent
<1>1. Init => Timed BY DEF Init, Timed
<1>2. ASSUME BarTypes, Timed PROVE FreshIsCurrent
  <2> SUFFICES ASSUME cache # None, now < cache.expires, NEW t \in Active, t < now
               PROVE  t <= Newest(cache.bars)
    BY DEF FreshIsCurrent
  <2>1. PICK newest : newest = Newest(cache.bars) OBVIOUS
  <2>2. newest \in Bars /\ newest \in Nat /\ t \in Nat /\ now \in Nat /\ cache.expires \in Nat
    BY <1>2, <2>1, BarsAreNumbers DEF Timed, BarTypes, CacheTyped, EntryType, Active, Bars
  <2>3. Due(newest) \in Nat /\ (newest < t => Due(newest) <= t + 1) BY <2>2, DueIsNext
  <2>4. cache.expires = Due(newest) BY <1>2, <2>1, <2>2 DEF Timed
  <2>5. ASSUME newest < t PROVE FALSE
    <3>1. now < t + 1 BY <2>2, <2>3, <2>4, <2>5
    <3> QED BY <2>2, <3>1
  <2> QED BY <2>1, <2>2, <2>5
<1> QED BY <1>1, <1>2, TypesStart, TypesNext, TimedNext, PTL DEF Spec
-----------------------------------------------------------------------------
(* The answers.  A whole one is made of bars that Whole accepted, and the   *)
(* bars it was made of are settled, by CacheInv.  A range reaches back to   *)
(* its first bar because the window of the page that ended it did, or       *)
(* because Covers looked.                                                   *)

Complete(reply) ==
  reply.whole =>
    /\ Cardinality(reply.bars) >= reply.ask.min
    /\ reply.part \subseteq ahead
    /\ \A t \in Active : t < reply.end /\ (\E u \in reply.bars : u <= t) => t \in reply.bars
    /\ reply.ask.count = 0 /\ reply.stop # "cut" =>
         \A t \in Active : reply.ask.first <= t /\ t < reply.end
           => \/ t \in reply.bars \cup reply.left
              \/ t = reply.ask.first /\ reply.stop = "cache_hit"

ReplyInv == \A c \in Calls : Complete(fetch[c].reply)

LEMMA NoReplyIsComplete == Complete(NoReply)
BY DEF Complete, NoReply

\* Usable takes nothing that ended before the end of the request.
LEMMA UsableKeeps ==
  ASSUME NEW bars, bars \subseteq Bars, NEW end \in Nat, NEW t \in bars, t < end
  PROVE  t \in Usable(bars, end)
<1>1. t \in Nat BY BarsAreNat
<1>2. Newest(bars) >= end => Newest(bars) # t BY <1>1
<1> QED BY <1>2 DEF Usable

\* Whole bars whose oldest is not after t, which ended before the end, have t.
LEMMA ReachesFrom ==
  ASSUME NEW bars, bars \subseteq Bars, NEW end \in Nat, NEW least, Whole(bars, end, least),
         NEW good, good = Usable(bars, end), NEW u \in bars, NEW t \in Active, u <= t, t < end
  PROVE  t \in good
<1>1. u \in Nat /\ t \in Nat BY BarsAreNat
<1>2. u < end BY <1>1
<1>3. u \in good BY <1>2, UsableKeeps
<1> QED BY <1>3, WholeMissesNothing

\* From the row: Covers has seen that the oldest bar is the first or the next.
LEMMA ServedIsComplete ==
  ASSUME NEW entry \in EntryType, entry.part \subseteq ahead, NEW ask \in Requests,
         NEW start \in Nat, ask.count = 0 => start = ask.first, NEW end \in Nat,
         Serves(entry, ask, start, end), NEW reply, reply = FromCache(entry, ask, start, end)
  PROVE  Complete(reply)
<1>1. PICK inside : inside = {t \in entry.bars : t <= end /\ (ask.count = 0 => t >= start)} OBVIOUS
<1>2. PICK good : good = Usable(inside, end) OBVIOUS
<1>3. PICK whole \in BOOLEAN : whole = Whole(inside, end, ask.min) BY DEF Whole
<1>4. reply = [ask |-> ask, end |-> end, bars |-> good, part |-> entry.part \cap good, whole |-> whole,
               stop |-> "cache_hit", left |-> {}]
  BY <1>1, <1>2, <1>3 DEF FromCache
<1>5. inside \subseteq Bars BY <1>1 DEF EntryType
<1>6. ASSUME whole, ask.count = 0, NEW t \in Active, ask.first <= t, t < end, t # ask.first
      PROVE  t \in good
  <2>1. PICK oldest : oldest = Oldest(inside) OBVIOUS
  <2>2. inside # {} BY <1>2, <1>3, <1>5, <1>6, WholeMissesNothing DEF Usable
  <2>3. oldest \in inside BY <1>5, <2>1, <2>2, BarsAreNat, OldestIsLeast
  <2>4. oldest <= ask.first + 1 BY <1>1, <1>6, <2>1 DEF Serves, Covers
  <2>5. oldest \in Nat /\ t \in Nat /\ ask.first \in Nat BY <1>5, <1>6, <2>3, BarsAreNat
  <2>6. oldest <= t BY <1>6, <2>4, <2>5
  <2> QED BY <1>2, <1>3, <1>5, <1>6, <2>3, <2>6, ReachesFrom
<1>7. entry.part \cap good \subseteq ahead OBVIOUS
<1>8. /\ reply.ask = ask /\ reply.end = end /\ reply.bars = good
      /\ reply.part = entry.part \cap good /\ reply.whole = whole /\ reply.stop = "cache_hit"
  BY ONLY <1>4
<1>9. ASSUME whole
      PROVE  /\ Cardinality(good) >= ask.min
             /\ \A t \in Active : t < end /\ (\E u \in good : u <= t) => t \in good
  BY <1>2, <1>3, <1>5, <1>9, WholeMissesNothing
<1> QED BY <1>6, <1>7, <1>8, <1>9 DEF Complete

\* As many bars as a range has are all of its bars.
LEMMA EnoughIsAll ==
  ASSUME NEW start \in Nat, NEW end \in Nat, NEW bars, bars \subseteq start..end,
         Cardinality(bars) >= end + 1 - start, NEW t \in start..end
  PROVE  t \in bars
<1>1. IsFiniteSet(start..end) /\ Cardinality(start..end) = end - start + 1 BY FS_Interval
<1>2. IsFiniteSet(bars) /\ Cardinality(bars) <= Cardinality(start..end)
      /\ (Cardinality(start..end) = Cardinality(bars) => start..end = bars)
  BY <1>1, FS_Subset
<1>3. Cardinality(bars) \in Nat /\ Cardinality(start..end) \in Nat BY <1>1, <1>2, FS_CardinalityType
<1>4. Cardinality(start..end) = Cardinality(bars) BY ONLY <1>1, <1>2, <1>3, Cardinality(bars) >= end + 1 - start, start \in Nat, end \in Nat
<1> QED BY <1>2, <1>4

\* From the broker: a call ends its pages as covered where it has its first bar,
\* every bar of the range, or a window that begins at the first bar.
LEMMA CoveredFrom ==
  ASSUME CacheInv, NEW c \in Calls, NEW new \in SUBSET Active, Answer(c, new),
         NEW f, f = fetch[c], FetchTyped(f), NEW bars, bars = f.bars \cup new, new # {},
         Reached(f, bars),
         f.ask.count = 0, NEW t \in Active, f.start <= t, t < f.end
  PROVE  (\E u \in bars : u <= t) \/ t \in Left(f) \ bars
<1>1. PICK part : part = Rough(f, new) /\ f.at = "paging"
  <2>1. PICK h, more, rough : Answered(c, new, h, more, rough) BY AnswerIs
  <2> QED BY <2>1 DEF Answered
<1>2. Fields(f) /\ f.at = "paging" /\ Gathered(f) /\ now \in Nat BY <1>1 DEF CacheInv
<1>3. PICK g : g = [f EXCEPT !.bars = bars, !.part = part] OBVIOUS
<1>4. Gathered(g) /\ g.bars = bars /\ g.start = f.start /\ g.end = f.end
  BY <1>1, <1>2, <1>3, GathersMore DEF Fields
<1>5. /\ bars \subseteq Bars /\ bars \subseteq Nat /\ f.start \in Nat /\ f.end \in Nat /\ t \in Nat
      /\ \A u \in bars : f.start <= u /\ u <= f.end /\ u <= now
  BY <1>4, BarsAreNat DEF Gathered
<1>6. PICK oldest : oldest = Oldest(bars) OBVIOUS
<1>7. oldest \in bars /\ oldest \in Nat /\ oldest <= now /\ \A u \in bars : oldest <= u
  BY <1>5, <1>6, OldestIsLeast
<1>8. CASE oldest <= t BY <1>7, <1>8
<1>9. CASE t < oldest
  <2>1. CASE oldest <= f.start BY <1>5, <1>7, <1>9, <2>1
  <2>2. CASE Enough(f, bars)
    <3>1. bars \subseteq f.start .. f.end /\ t \in f.start .. f.end BY <1>5
    <3>2. Cardinality(bars) >= f.end + 1 - f.start BY <2>2 DEF Enough
    <3>3. t \in bars BY ONLY <1>5, <3>1, <3>2, EnoughIsAll
    <3> QED BY <1>5, <3>3
  <2>3. CASE AtStart(f)
    <3>1. t <= BoundOf(f) /\ BoundOf(f) \in Int
      <4>1. CASE f.bars = {} BY <1>5, <4>1 DEF BoundOf
      <4>2. CASE f.bars # {}
        <5>1. f.bars \subseteq Nat BY <1>2, BarsAreNat DEF Gathered
        <5>2. PICK last : last = Oldest(f.bars) OBVIOUS
        <5>3. last \in f.bars BY <4>2, <5>1, <5>2, OldestIsLeast
        <5>4. last \in Nat /\ oldest <= last BY <1>7, <5>1, <5>3
        <5>5. BoundOf(f) = last - 1 BY <4>2, <5>2 DEF BoundOf
        <5> QED BY ONLY <1>5, <1>7, <1>9, <5>4, <5>5
      <4> QED BY <4>1, <4>2
    <3>2. PICK bound \in Int : bound = BoundOf(f) BY <3>1
    <3>3. bound + 1 <= f.start + PageBars BY <2>3, <3>2 DEF AtStart
    <3>4. PageBars \in Nat BY BarsAreNumbers
    <3>5. bound < t + PageBars BY <1>5, <3>3, <3>4
    <3>6. t \in Window(f) BY <3>1, <3>2, <3>5 DEF Window
    <3>7. t <= now BY <1>2, <1>5, <1>7, <1>9
    <3>8. t \notin bars BY <1>5, <1>7, <1>9
    <3> QED BY <3>6, <3>7, <3>8 DEF Left
  <2> QED BY <1>6, <2>1, <2>2, <2>3 DEF Reached
<1> QED BY <1>5, <1>7, <1>8, <1>9

LEMMA ReplyMoves ==
  ASSUME BarTypes, ReplyInv, NEW c \in Calls, NEW g, fetch' = [fetch EXCEPT ![c] = g],
         Complete(g.reply), ahead \subseteq ahead'
  PROVE  ReplyInv'
<1>1. \A r \in {fetch[d].reply : d \in Calls} \cup {g.reply} : Complete(r) => Complete(r)'
  BY DEF Complete
<1> QED BY <1>1, CallMoves DEF ReplyInv

LEMMA DoneReplies ==
  ASSUME BarTypes, ReplyInv, NEW c \in Calls, NEW reply, Done(c, reply), Complete(reply), UNCHANGED ahead
  PROVE  ReplyInv'
BY DoneIs, ReplyMoves

\* A range goes back to its first bar, but for what the broker left out.
Reaches(f, bars, stop, left) ==
  f.ask.count = 0 /\ stop # "cut" =>
    \A t \in Active : f.start <= t /\ t < f.end => (\E u \in bars : u <= t) \/ t \in left

LEMMA ConcludeReplies ==
  ASSUME BarTypes, CacheInv, ReplyInv, NEW c \in Calls, fetch[c].at = "paging",
         NEW f, f = fetch[c], NEW bars, NEW part, bars \subseteq Bars, NEW stop, NEW left,
         Gathered([f EXCEPT !.bars = bars, !.part = part]),
         Conclude(c, bars, part, stop, left), UNCHANGED ahead,
         Reaches(f, bars, stop, left)
  PROVE  ReplyInv'
<1>1. FetchTyped(f) /\ Fields(f) /\ f.end \in Nat /\ f.ask \in Requests
  BY DEF BarTypes, CacheInv, FetchTyped
<1>2. PICK h, all, good, rough : Concluded(c, bars, part, stop, left, h, all, good, rough)
  BY ConcludeIs
<1>3. /\ h = f /\ all = Merged(f, bars) /\ good = Usable(all, f.end)
      /\ rough = Parts(f, bars, part) \cap good
  BY <1>2 DEF Concluded
<1>4. \/ Done(c, NoReply)
      \/ /\ Whole(all, f.end, f.ask.min)
         /\ Done(c, [ask |-> f.ask, end |-> f.end, bars |-> good, part |-> rough,
                      whole |-> TRUE, stop |-> stop, left |-> left])
  BY <1>2, <1>3 DEF Concluded
<1>5. rough \subseteq ahead BY <1>1, <1>3, UsableIsFinal
<1>6. all \subseteq Bars BY <1>1, <1>3, MergedBars
<1>7. CASE Done(c, NoReply)
  BY <1>7, NoReplyIsComplete, DoneReplies
<1>8. ASSUME Whole(all, f.end, f.ask.min),
             Done(c, [ask |-> f.ask, end |-> f.end, bars |-> good, part |-> rough,
                      whole |-> TRUE, stop |-> stop, left |-> left])
      PROVE  ReplyInv'
  <2>1. ASSUME f.ask.count = 0, stop # "cut", NEW t \in Active, f.ask.first <= t, t < f.end
        PROVE  t \in good \cup left
    <3>1. f.start <= t BY <1>1, <2>1 DEF FetchTyped, BarTypes
    <3>2. CASE t \in left BY <3>2
    <3>3. ASSUME NEW u \in bars, u <= t PROVE t \in good
      <4>1. u \in all BY <1>3, <2>1 DEF Merged
      <4> QED BY <1>1, <1>3, <1>6, <1>8, <2>1, <3>3, <4>1, ReachesFrom
    <3> QED BY <2>1, <3>1, <3>2, <3>3 DEF Reaches
  <2>2. PICK reply : reply = [ask |-> f.ask, end |-> f.end, bars |-> good, part |-> rough,
                              whole |-> TRUE, stop |-> stop, left |-> left]
    OBVIOUS
  <2>3. /\ reply.ask = f.ask /\ reply.end = f.end /\ reply.bars = good /\ reply.part = rough
        /\ reply.stop = stop /\ reply.left = left
    BY ONLY <2>2
  <2>4. /\ Cardinality(good) >= f.ask.min
        /\ \A t \in Active : t < f.end /\ (\E u \in good : u <= t) => t \in good
    <3>1. PICK end, least : end = f.end /\ end \in Nat /\ least = f.ask.min BY <1>1
    <3>2. Whole(all, end, least) /\ good = Usable(all, end) BY <1>3, <1>8, <3>1
    <3>3. /\ Cardinality(good) >= least
          /\ \A t \in Active : t < end /\ (\E u \in good : u <= t) => t \in good
      BY ONLY <1>6, <3>1, <3>2, WholeMissesNothing
    <3> QED BY <3>1, <3>3
  <2>5. Complete(reply) BY <1>5, <2>1, <2>3, <2>4 DEF Complete
  <2> QED BY <1>8, <2>2, <2>5, DoneReplies
<1> QED BY <1>4, <1>7, <1>8

LEMMA AnswerReplies ==
  ASSUME BarTypes, CacheInv, ReplyInv, NEW c \in Calls, NEW new \in SUBSET Active, Answer(c, new)
  PROVE  ReplyInv'
<1>1. PICK f, bars, part : Answered(c, new, f, bars, part) BY AnswerIs
<1>2. /\ f = fetch[c] /\ bars = f.bars \cup new /\ part = Rough(f, new)
      /\ f.at = "paging" /\ UNCHANGED ahead
  BY <1>1 DEF Answered
<1>3. \/ Conclude(c, bars, part, "cut", {})
      \/ Conclude(c, bars, part, "covered", Left(f) \ bars) /\ new # {} /\ Reached(f, bars)
      \/ fetch' = [fetch EXCEPT ![c].bars = bars, ![c].part = part]
  BY <1>1 DEF Answered
<1>4. Fields(f) /\ FetchTyped(f) BY <1>2 DEF BarTypes
<1>5. bars \subseteq Bars BY <1>2, <1>4 DEF FetchTyped, Active
<1>6. Gathered([f EXCEPT !.bars = bars, !.part = part]) BY <1>2, GathersMore
<1>7. CASE Conclude(c, bars, part, "cut", {})
  <2>1. Reaches(f, bars, "cut", {}) BY DEF Reaches
  <2> QED BY <1>2, <1>5, <1>6, <1>7, <2>1, ConcludeReplies
<1>8. CASE Conclude(c, bars, part, "covered", Left(f) \ bars) /\ new # {} /\ Reached(f, bars)
  <2>1. ASSUME f.ask.count = 0, NEW t \in Active, f.start <= t, t < f.end
        PROVE  (\E u \in bars : u <= t) \/ t \in Left(f) \ bars
    BY <1>2, <1>4, <1>8, <2>1, CoveredFrom
  <2>2. Reaches(f, bars, "covered", Left(f) \ bars) BY <2>1 DEF Reaches
  <2> QED BY <1>2, <1>5, <1>6, <1>8, <2>2, ConcludeReplies
<1>9. CASE fetch' = [fetch EXCEPT ![c].bars = bars, ![c].part = part]
  <2>1. PICK g : g = [f EXCEPT !.bars = bars, !.part = part] OBVIOUS
  <2>2. fetch' = [fetch EXCEPT ![c] = g] BY <1>2, <1>9, <2>1 DEF BarTypes
  <2>3. g = [at |-> f.at, ask |-> f.ask, start |-> f.start, end |-> f.end, snap |-> f.snap,
             bars |-> bars, part |-> part, reply |-> f.reply]
    BY ONLY <1>4, <2>1 DEF Fields
  <2>4. g.reply = f.reply BY ONLY <2>3, FieldsOfRecord
  <2>5. Complete(g.reply) BY <1>2, <2>4 DEF ReplyInv
  <2> QED BY <1>2, <2>2, <2>5, ReplyMoves
<1> QED BY <1>3, <1>7, <1>8, <1>9

LEMMA EndReplies ==
  ASSUME BarTypes, CacheInv, ReplyInv, NEW c \in Calls,
         CutShort(c) \/ Fails(c) \/ FallsBack(c) \/ Die(c)
  PROVE  ReplyInv'
<1>1. PICK f : f = fetch[c] OBVIOUS
<1>2. f.at = "paging" /\ FetchTyped(f) /\ UNCHANGED ahead
  BY <1>1 DEF BarTypes, CutShort, Fails, FallsBack, Die
<1>3. Fields(f) /\ Gathered(f) BY <1>1, <1>2 DEF CacheInv
<1>4. CASE CutShort(c)
  <2>1. [f EXCEPT !.bars = f.bars, !.part = f.part] = f BY <1>3 DEF Fields
  <2>2. Conclude(c, f.bars, f.part, "cut", {}) BY <1>1, <1>4 DEF CutShort
  <2>3. PICK bars, part : bars = f.bars /\ part = f.part OBVIOUS
  <2>4. bars \subseteq Bars BY <1>2, <2>3 DEF FetchTyped
  <2>5. Reaches(f, bars, "cut", {}) BY DEF Reaches
  <2> QED BY <1>1, <1>2, <1>3, <2>1, <2>2, <2>3, <2>4, <2>5, ConcludeReplies
<1>5. CASE Fails(c) \/ Die(c)
  <2>1. Done(c, NoReply) BY <1>5 DEF Fails, Die
  <2> QED BY <1>2, <2>1, NoReplyIsComplete, DoneReplies
<1>6. CASE FallsBack(c)
  <2>1. PICK reply : /\ Done(c, reply)
                     /\ \/ reply = NoReply
                        \/ /\ f.snap # None /\ Serves(f.snap, f.ask, f.start, f.end)
                           /\ reply = FromCache(f.snap, f.ask, f.start, f.end)
    BY <1>1, <1>6 DEF FallsBack
  <2>2. CASE reply = NoReply BY <1>2, <2>1, <2>2, NoReplyIsComplete, DoneReplies
  <2>3. CASE /\ f.snap # None /\ Serves(f.snap, f.ask, f.start, f.end)
             /\ reply = FromCache(f.snap, f.ask, f.start, f.end)
    <3>1. f.snap \in EntryType /\ f.snap.part \subseteq ahead
      BY <1>2, <1>3, <2>3 DEF FetchTyped, Gathered, SnapPart
    <3>2. f.ask \in Requests /\ (f.ask.count = 0 => f.start = f.ask.first) /\ f.start \in Nat /\ f.end \in Nat
      BY <1>2 DEF FetchTyped
    <3>3. Complete(reply) BY <2>3, <3>1, <3>2, ServedIsComplete
    <3> QED BY <1>2, <2>1, <3>3, DoneReplies
  <2> QED BY <2>1, <2>2, <2>3
<1> QED BY <1>4, <1>5, <1>6

LEMMA HitReplies ==
  ASSUME BarTypes, CacheInv, ReplyInv, NEW c \in Calls, NEW ask \in Requests, NEW end \in Ends,
         Hit(c, ask, end)
  PROVE  ReplyInv'
<1>1. PICK start \in Nat : start = StartOf(ask, end) /\ (ask.count = 0 => start = ask.first)
  BY EndsAreTyped, StartIsTyped
<1>2. PICK reply : reply = FromCache(cache, ask, start, end) OBVIOUS
<1>3. Done(c, reply) /\ UNCHANGED ahead BY <1>1, <1>2 DEF Hit
<1>4. /\ cache \in EntryType /\ cache.part \subseteq ahead /\ end \in Nat
      /\ Serves(cache, ask, start, end)
  BY <1>1, EndsAreTyped DEF Hit, Hits, MayBeFresh, BarTypes, CacheTyped, CacheInv, Final
<1>5. Complete(reply) BY <1>1, <1>2, <1>4, ServedIsComplete
<1> QED BY <1>3, <1>5, DoneReplies

LEMMA BeginReplies ==
  ASSUME BarTypes, ReplyInv, NEW c \in Calls, NEW ask, NEW end, Begin(c, ask, end)
  PROVE  ReplyInv'
<1>1. PICK start : start = StartOf(ask, end) OBVIOUS
<1>2. CASE Done(c, NoReply) /\ UNCHANGED ahead BY <1>2, NoReplyIsComplete, DoneReplies
<1>3. ASSUME ahead' = ahead \cup ToEnd(end), NEW f, fetch' = [fetch EXCEPT ![c] = f], f.reply = NoReply
      PROVE  ReplyInv'
  BY <1>3, NoReplyIsComplete, ReplyMoves
<1> QED BY <1>1, <1>2, <1>3, BeginIs

LEMMA RepliesNext ==
  ASSUME BarTypes, CacheInv, ReplyInv, [Next]_vars
  PROVE  ReplyInv'
<1>1. CASE UNCHANGED <<fetch, ahead>> BY <1>1 DEF ReplyInv, Complete
<1>2. CASE UNCHANGED candles \/ Tick \/ Evict BY <1>1, <1>2 DEF candles, Tick, Evict
<1>3. ASSUME NEW c \in Calls, PageStep(c) PROVE ReplyInv'
  BY <1>2, <1>3, AnswerReplies, EndReplies DEF PageStep
<1>4. ASSUME NEW c \in Calls, NEW ask \in Requests, NEW end \in Ends,
             Hit(c, ask, end) \/ Begin(c, ask, end)
      PROVE  ReplyInv'
  BY <1>4, HitReplies, BeginReplies
<1> QED BY <1>2, <1>3, <1>4, EndReplies DEF Next, vars

\* An answer reported as complete has as many bars as asked for, final but for
\* those asked for ahead of the clock, misses none from its oldest one up to
\* its end, and for a range none at all where its reason says it was covered,
\* whether it was fetched, merged, served from the row or from the row read at
\* first.
THEOREM RepliesAreWhole == Spec => []WholeReply
<1>1. Init => ReplyInv
  <2> SUFFICES ASSUME Init, NEW c \in Calls PROVE Complete(fetch[c].reply) BY DEF ReplyInv
  <2>1. fetch[c].reply = NoReply BY DEF Init, NoFetch
  <2> QED BY <2>1, NoReplyIsComplete
<1>2. ReplyInv => WholeReply BY DEF ReplyInv, Complete, WholeReply
<1> QED BY <1>1, <1>2, TypesStart, TypesNext, CacheStarts, CacheNext, RepliesNext, PTL DEF Spec
=============================================================================
