--------------------------- MODULE RequestLimiter ---------------------------
(***************************************************************************)
(* One page of candle history: _history_page of brokers/tradelocker/       *)
(* client.py behind the lease and cooldown of services/tradelocker/        *)
(* rate_limiter.py, which the processes share in one database row.         *)
(*                                                                         *)
(* Times are what is left of them: a tick takes one from each.  A request  *)
(* has no bound of its own (the http timeouts are per operation and a 401  *)
(* logs in and asks again), so its lease may run out under it, and the     *)
(* lease is kept through the sleep between two attempts.                   *)
(***************************************************************************)
EXTENDS Naturals

CONSTANTS
  Calls,                  \* pages being asked for, each in a process of its own
  LeaseTime,              \* 30 seconds
  MinInterval, MaxBackoff, MaxTries,
  MaxCooldown,            \* the largest Retry-After
  None

ASSUME LimiterTimes == /\ LeaseTime \in Nat \ {0} /\ MinInterval \in Nat
                       /\ MaxBackoff \in Nat \ {0} /\ MaxCooldown \in Nat
ASSUME NoneIsNoCall == None \notin Calls

VARIABLES
  owner, lease,           \* lease_owner, lease_until
  gap, cool,              \* next_allowed_at, cooldown_until
  page,                   \* where each call is in _history_page
  told                    \* history: what is left of the longest wait the broker asked for

row     == <<owner, lease, gap, cool>>
limiter == <<row, page, told>>

Longer(a, b)  == IF a > b THEN a ELSE b
Shorter(a, b) == IF a < b THEN a ELSE b
Less(a)       == IF a = 0 THEN 0 ELSE a - 1

\* nap: what is left to sleep; held: of the lease as the call took it.
PageStages == {"idle", "waiting", "asking", "resting"}
NoPage == [at |-> "idle", nap |-> 0, tries |-> 0, held |-> 0]
PageType == [at : PageStages, nap : Nat, tries : Nat, held : Nat]

LimiterInit ==
  /\ owner = None /\ lease = 0 /\ gap = 0 /\ cool = 0 /\ told = 0
  /\ page = [c \in Calls |-> NoPage]
-----------------------------------------------------------------------------
\* acquire: the row is read and written in one transaction; until it is free
\* the call sleeps and looks again.
SlipWaitsForOwner == owner = None /\ gap = 0 /\ cool = 0   \* a slip: the owner must let go
Available == lease = 0 /\ gap = 0 /\ cool = 0

Acquire(c) ==
  /\ page[c].at = "waiting" /\ page[c].nap = 0 /\ Available
  /\ owner' = c /\ lease' = LeaseTime /\ gap' = MinInterval
  /\ page' = [page EXCEPT ![c] = [at |-> "asking", nap |-> 0, tries |-> @.tries + 1, held |-> LeaseTime]]
  /\ UNCHANGED <<cool, told>>

LookAgain(c) ==
  /\ page[c].at = "waiting" /\ page[c].nap = 0 /\ ~Available
  /\ page' = [page EXCEPT ![c].nap = Shorter(Longer(lease, Longer(gap, cool)), MaxBackoff)]
  /\ UNCHANGED <<row, told>>

SlipFreesAny(c) ==   \* a slip: the owner is not compared
  owner' = None /\ lease' = 0

\* release: only the owner of the lease frees it.
Release(c) ==
  /\ owner' = IF owner = c THEN None ELSE owner
  /\ lease' = IF owner = c THEN 0 ELSE lease

StartPage(c) == page' = [page EXCEPT ![c] = [NoPage EXCEPT !.at = "waiting"]]
LeavePage(c) == page' = [page EXCEPT ![c] = NoPage]

\* The request is answered, or refused for good.
PageIsOver(c) ==
  /\ page[c].at = "asking"
  /\ Release(c) /\ UNCHANGED <<gap, cool, told>>

Rest(c, delay) == page' = [page EXCEPT ![c].at = "resting", ![c].nap = delay]

\* A timeout, an unusable answer or a 5xx: a short sleep, then again.
Stumble(c) ==
  /\ page[c].at = "asking" /\ page[c].tries < MaxTries
  /\ \E delay \in 0..MaxBackoff : Rest(c, delay)
  /\ UNCHANGED <<row, told>>

\* 429: every process waits.  set_cooldown never shortens the wait.
SlipLastCooldown(delay) == cool' = delay   \* a slip: the last 429 wins
SetCooldown(delay) == cool' = Longer(cool, delay)

Throttle(c, delay) ==
  /\ page[c].at = "asking"
  /\ SetCooldown(delay) /\ told' = Longer(told, delay)
  /\ UNCHANGED gap
Throttled(c) ==
  \E delay \in 0..MaxBackoff :
    /\ page[c].tries < MaxTries /\ Throttle(c, delay)
    /\ Rest(c, delay) /\ UNCHANGED <<owner, lease>>
\* The last attempt, or a wait longer than the bounded retry window.
Exhausted(c) ==
  \E delay \in 0..MaxCooldown :
    /\ page[c].tries = MaxTries \/ delay > MaxBackoff
    /\ Throttle(c, delay) /\ Release(c)

Retry(c) ==
  /\ page[c].at = "resting" /\ page[c].nap = 0
  /\ Release(c)
  /\ page' = [page EXCEPT ![c] = [@ EXCEPT !.at = "waiting", !.held = 0]]
  /\ UNCHANGED <<gap, cool, told>>

LimiterStep(c) ==
  Acquire(c) \/ LookAgain(c) \/ Stumble(c) \/ Throttled(c) \/ Retry(c)

LimiterTick ==
  /\ lease' = Less(lease) /\ gap' = Less(gap) /\ cool' = Less(cool) /\ told' = Less(told)
  /\ page' = [c \in Calls |-> [page[c] EXCEPT !.nap = Less(@), !.held = Less(@)]]
  /\ UNCHANGED owner
-----------------------------------------------------------------------------
LimiterTypeOK ==
  /\ owner \in Calls \cup {None}
  /\ lease \in Nat /\ gap \in Nat /\ cool \in Nat /\ told \in Nat
  /\ page \in [Calls -> PageType]

\* A lease that ran out under a slow request lets a second call in; what the
\* first does late must not let in a third while the second is within its time.
OneWithinLease ==
  \A c, d \in Calls : page[c].held > 0 /\ page[d].held > 0 => c = d

\* No attempt begins before the longest wait is over that any 429 announced to
\* any process, whatever the order of the answers.
CooldownIsKept ==
  [][\A c \in Calls : page[c].at = "waiting" /\ page'[c].at = "asking" => told = 0]_limiter
=============================================================================
