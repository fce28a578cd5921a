----------------------- MODULE DispatchScheduleProofs -----------------------
(***************************************************************************)
(* Theorems about DispatchSchedule for every number of occurrences, worker  *)
(* lives and retries and every batch size.                                  *)
(***************************************************************************)
EXTENDS DispatchSchedule, TLAPS

USE DEF clock, schedule, dispatch, worker, vars, Instants, Never

LEMMA HiredAre ==
  ASSUME TypeOK, NEW R \in SUBSET Reclaimable
  PROVE  /\ Hired(R) \subseteq Instants
         /\ Inserted(R) \subseteq {t \in Instants : t = next /\ disp[t] = "none" /\ IsDue(R)}
         /\ \A t \in Hired(R) : disp[t] \in Open \cup {"none"}
         /\ \A t \in Hired(R) : disp[t] = "none" => t \in Inserted(R) /\ ~Stale
<1>1. Inserted(R) \subseteq {t \in Instants : t = next /\ disp[t] = "none" /\ IsDue(R)}
  BY SizeAssumption DEF Inserted, IsDue, TypeOK
<1>2. \A t \in R : t \in Instants /\ disp[t] \in Open
  BY DEF Reclaimable, Open
<1> QED
  BY <1>1, <1>2 DEF Hired, Open

-----------------------------------------------------------------------------
\* Types.

LEMMA AttemptsAre ==
  ASSUME NEW r \in {"none", "safe", "skipped", "done"}, NEW a \in Attempts(r)
  PROVE  /\ a[1] \in {"none", "safe", "skipped", "done"}
         /\ a[2] \in {"safe", "skipped", "done"}
BY DEF Attempts

CurTyped == \A w \in Workers : pc[w] \in {"running", "reporting"} => cur[w] \in Instants

TypeInv == TypeOK /\ CurTyped

LEMMA TypeInit == Init => TypeInv
BY SizeAssumption DEF Init, TypeInv, TypeOK, CurTyped

LEMMA TypeStep == TypeInv /\ [Next]_vars => TypeInv'
<1> SUFFICES ASSUME TypeInv, [Next]_vars PROVE TypeInv'
  OBVIOUS
<1> USE SizeAssumption DEF TypeInv, TypeOK, CurTyped, Open, Ended
<1>1. CASE Pass \/ GrowLate
  <2>1. passed' \in 0..Last /\ late' \in 0..Last
    BY <1>1 DEF Pass, GrowLate
  <2>2. UNCHANGED <<schedule, dispatch, result, worker>>
    BY <1>1 DEF Pass, GrowLate
  <2> QED
    BY <2>1, <2>2
<1>2. CASE BeginSave \/ Save \/ Pause
  <2>1. enabled' \in BOOLEAN
    BY <1>2 DEF BeginSave, Save, Pause
  <2>2. next' \in 0..(Last + 1) /\ draft' \in 0..(Last + 1)
    BY <1>2 DEF BeginSave, Save, Pause
  <2>3. UNCHANGED <<clock, dispatch, result, worker>>
    BY <1>2 DEF BeginSave, Save, Pause
  <2> QED
    BY <2>1, <2>2, <2>3
<1>3. CASE Delete
  <2>1. enabled' \in BOOLEAN
    BY <1>3 DEF Delete
  <2>9. next' \in 0..(Last + 1)
    BY <1>3 DEF Delete
  <2>2. /\ disp' \in [Instants -> Open \cup Ended \cup {"none"}]
        /\ lease' \in [Instants -> Workers \cup {None}]
        /\ expired' \in [Instants -> BOOLEAN]
        /\ due' \in [Instants -> BOOLEAN]
        /\ retries' \in [Instants -> 0..MaxRetries]
    BY <1>3 DEF Delete
  <2>3. UNCHANGED <<clock, draft, result, worker>>
    BY <1>3 DEF Delete
  <2> QED
    BY <2>1, <2>9, <2>2, <2>3
<1>4. ASSUME NEW t \in Instants, Timer(t) \/ RequestSafeRetry(t) PROVE TypeInv'
  BY <1>4 DEF Timer, LeaseEnds, DelayEnds, RequestSafeRetry
<1>5. ASSUME NEW w \in Workers, StartWorker(w) PROVE TypeInv'
  BY <1>5 DEF StartWorker
<1>6. ASSUME NEW w \in Workers, ClaimDue(w) PROVE TypeInv'
  <2>1. PICK R \in SUBSET Reclaimable :
          /\ disp' = [t \in Instants |-> NewState(R, t)]
          /\ lease' = [t \in Instants |-> IF t \in Hired(R) THEN w ELSE lease[t]]
          /\ expired' = [t \in Instants |-> expired[t] /\ t \notin Hired(R)]
          /\ due' = [t \in Instants |-> due[t] /\ t \notin Hired(R)]
          /\ next' = NewNext(R)
          /\ batch' = [batch EXCEPT ![w] =
               Hired(R) \cup {t \in Instants : IsDue(R) /\ t = next /\ ~Stale /\ lease[t] = w}]
          /\ took' = [took EXCEPT ![w] =
               [t \in Instants |-> IF t \in Hired(R) THEN retries[t] ELSE 0]]
    BY <1>6 DEF ClaimDue
  <2>2. Hired(R) \subseteq Instants
    BY HiredAre
  <2>3. disp' \in [Instants -> Open \cup Ended \cup {"none"}]
    BY <2>1 DEF NewState
  <2>4. /\ lease' \in [Instants -> Workers \cup {None}]
        /\ expired' \in [Instants -> BOOLEAN]
        /\ due' \in [Instants -> BOOLEAN]
    BY <2>1
  <2>5. next' \in 0..(Last + 1)
    BY <2>1 DEF NewNext, Following, IsDue
  <2>6. /\ batch' \in [Workers -> SUBSET Instants]
        /\ took' \in [Workers -> [Instants -> 0..MaxRetries]]
    <3>1. {t \in Instants : IsDue(R) /\ t = next /\ ~Stale /\ lease[t] = w} \subseteq Instants
      OBVIOUS
    <3> QED
      BY <2>1, <2>2, <3>1
  <2> QED
    BY <1>6, <2>3, <2>4, <2>5, <2>6 DEF ClaimDue
<1>7. ASSUME NEW w \in Workers, NEW t \in Instants, MarkRunning(w, t)
      PROVE  TypeInv'
  BY <1>7 DEF MarkRunning
<1>8. ASSUME NEW w \in Workers, NEW t \in Instants, SkipContended(w, t)
      PROVE  TypeInv'
  BY <1>8 DEF SkipContended
<1>9. ASSUME NEW w \in Workers, RunReturns(w) PROVE TypeInv'
  <2>1. PICK a \in Attempts(result[cur[w]]) :
          /\ result' = [result EXCEPT ![cur[w]] = a[1]]
          /\ answer' = [answer EXCEPT ![w] = a[2]]
    BY <1>9 DEF RunReturns
  <2>2. result[cur[w]] \in {"none", "safe", "skipped", "done"}
    BY <1>9 DEF RunReturns
  <2>3. /\ a[1] \in {"none", "safe", "skipped", "done"}
        /\ a[2] \in {"safe", "skipped", "done"}
    BY <2>2, AttemptsAre
  <2> QED
    BY <1>9, <2>1, <2>3 DEF RunReturns
<1>10. ASSUME NEW w \in Workers, Report(w) PROVE TypeInv'
  <2>1. FinalState(w) \in Open \cup Ended
    BY DEF FinalState
  <2>2. cur[w] \in Instants /\ took[w][cur[w]] \in 0..MaxRetries
    BY <1>10 DEF Report
  <2>3. RetryCount(w) \in 0..MaxRetries
    BY <2>2 DEF RetryCount, RetryLeft
  <2>4. /\ disp' \in [Instants -> Open \cup Ended \cup {"none"}]
        /\ lease' \in [Instants -> Workers \cup {None}]
        /\ expired' \in [Instants -> BOOLEAN]
        /\ due' \in [Instants -> BOOLEAN]
        /\ retries' \in [Instants -> 0..MaxRetries]
    <3>1. CASE disp[cur[w]] = "none" BY <1>10, <3>1 DEF Report
    <3>2. CASE disp[cur[w]] # "none" BY <1>10, <2>1, <2>3, <3>2 DEF Report
    <3> QED BY <3>1, <3>2
  <2> QED
    BY <1>10, <2>4 DEF Report
<1>11. ASSUME NEW w \in Workers, WorkerDies(w) PROVE TypeInv'
  <2>1. result' \in [Instants -> {"none", "safe", "skipped", "done"}]
    BY <1>11 DEF WorkerDies
  <2> QED
    BY <1>11, <2>1 DEF WorkerDies
<1>12. CASE UNCHANGED vars
  BY <1>12
<1> QED
  BY <1>1, <1>2, <1>3, <1>4, <1>5, <1>6, <1>7, <1>8, <1>9, <1>10, <1>11, <1>12
  DEF Next, Work

\* Every variable of the scheduler keeps its type; retry_count never exceeds
\* autonomous_scheduler_max_retries, and next_run_at never leaves the horizon.
THEOREM ScheduleTypes == Spec => []TypeOK
<1>1. TypeInv => TypeOK
  BY DEF TypeInv
<1> QED
  BY <1>1, TypeInit, TypeStep, PTL DEF Spec

-----------------------------------------------------------------------------
\* One worker at a time: what it runs is its own until it reports.

Alone == \A v, w \in Workers : Up(v) /\ Up(w) => v = w

RunsItsOwn == \A w \in Workers :
  pc[w] \in {"running", "reporting"} => disp[cur[w]] \in {"running", "none"}

SoloInv == TypeInv /\ Alone /\ RunsItsOwn

LEMMA SoloStep ==
  ASSUME ~Overlap, SoloInv, [Next]_vars
  PROVE  SoloInv'
<1> DEFINE Solo == Alone /\ RunsItsOwn
<1>0. TypeInv'
  BY TypeStep DEF SoloInv
<1>t. /\ pc \in [Workers -> {"new", "up", "running", "reporting", "down"}]
      /\ cur \in [Workers -> Instants \cup {Never}]
      /\ disp \in [Instants -> Open \cup Ended \cup {"none"}]
      /\ \A w \in Workers : pc[w] \in {"running", "reporting"} => cur[w] \in Instants
  BY DEF SoloInv, TypeInv, TypeOK, CurTyped
<1>a. Solo
  BY DEF SoloInv
<1> USE <1>t, <1>a DEF Alone, RunsItsOwn, Up
<1>1. ASSUME Pass \/ GrowLate \/ BeginSave \/ Save \/ Pause PROVE Solo'
  <2>1. UNCHANGED <<pc, cur, disp>>
    BY <1>1 DEF Pass, GrowLate, BeginSave, Save, Pause
  <2> QED
    BY <2>1
<1>2. ASSUME Delete PROVE Solo'
  <2>1. disp' = [t \in Instants |-> "none"] /\ UNCHANGED <<pc, cur>>
    BY <1>2 DEF Delete
  <2> QED
    BY <2>1
<1>3. ASSUME NEW t \in Instants, Timer(t) \/ RequestSafeRetry(t) PROVE Solo'
  <2>1. UNCHANGED <<pc, cur>>
    BY <1>3 DEF Timer, LeaseEnds, DelayEnds, RequestSafeRetry
  <2>2. \/ UNCHANGED disp
        \/ disp[t] = "retry_exhausted" /\ disp' = [disp EXCEPT ![t] = "retry_wait"]
    BY <1>3 DEF Timer, LeaseEnds, DelayEnds, RequestSafeRetry
  <2> QED
    BY <2>1, <2>2
<1>4. ASSUME NEW w \in Workers, StartWorker(w) PROVE Solo'
  BY <1>4 DEF StartWorker
<1>5. ASSUME NEW w \in Workers, ClaimDue(w) PROVE Solo'
  <2>1. pc[w] = "up" /\ UNCHANGED <<pc, cur>>
    BY <1>5 DEF ClaimDue
  <2>2. \A v \in Workers : pc[v] \notin {"running", "reporting"}
    BY <2>1
  <2> QED
    BY <2>1, <2>2
<1>6. ASSUME NEW w \in Workers, NEW t \in Instants, MarkRunning(w, t)
      PROVE  Solo'
  BY <1>6 DEF MarkRunning
<1>7. ASSUME NEW w \in Workers, NEW t \in Instants, SkipContended(w, t)
      PROVE  Solo'
  BY <1>7 DEF SkipContended
<1>8. ASSUME NEW w \in Workers, RunReturns(w) PROVE Solo'
  <2>1. /\ pc[w] = "running" /\ pc' = [pc EXCEPT ![w] = "reporting"]
        /\ UNCHANGED <<disp, cur>>
    BY <1>8 DEF RunReturns
  <2> QED
    BY <2>1
<1>9. ASSUME NEW w \in Workers, Report(w) PROVE Solo'
  <2>1. pc[w] = "reporting" /\ pc' = [pc EXCEPT ![w] = "up"]
    BY <1>9 DEF Report
  <2>2. \A v \in Workers : pc'[v] \notin {"running", "reporting"}
    BY <2>1
  <2> QED
    BY <2>1, <2>2
<1>10. ASSUME NEW w \in Workers, WorkerDies(w) PROVE Solo'
  <2>1. Up(w) /\ pc' = [pc EXCEPT ![w] = "down"]
    BY <1>10 DEF WorkerDies
  <2>2. \A v \in Workers : pc'[v] \in {"new", "down"}
    BY <2>1
  <2> QED
    BY <2>1, <2>2
<1>11. ASSUME UNCHANGED vars PROVE Solo'
  BY <1>11
<1> QED
  BY <1>0, <1>1, <1>2, <1>3, <1>4, <1>5, <1>6, <1>7, <1>8, <1>9, <1>10, <1>11
  DEF SoloInv, Next, Work

\* With one scheduler process at a time, which the operations guide requires, a
\* completed, skipped or misfired dispatch is never reopened, although neither
\* finish_dispatch nor the save of a schedule tests what it overwrites.
THEOREM EndedIsFinal == ASSUME ~Overlap PROVE Spec => EndedStays
<1> DEFINE Stays(t) == disp[t] \in {"completed", "skipped", "misfired"} =>
                         disp'[t] \in {disp[t], "none"}
<1>1. Init => SoloInv
  <2>1. Init => Alone /\ RunsItsOwn
    BY DEF Alone, RunsItsOwn, Init, Up
  <2> QED
    BY <2>1, TypeInit DEF SoloInv
<1>2. SoloInv /\ [Next]_vars => SoloInv'
  BY SoloStep
<1>3. ASSUME SoloInv, Next, NEW t \in Instants PROVE Stays(t)
  <2>0. disp \in [Instants -> Open \cup Ended \cup {"none"}] /\ TypeOK
    BY <1>3 DEF SoloInv, TypeInv, TypeOK
  <2>1. CASE Pass \/ GrowLate \/ BeginSave \/ Save \/ Pause
    <3>1. UNCHANGED disp
      BY <2>1 DEF Pass, GrowLate, BeginSave, Save, Pause
    <3> QED
      BY <3>1
  <2>2. CASE Delete
    <3>1. disp'[t] = "none"
      BY <2>2 DEF Delete
    <3> QED
      BY <3>1
  <2>3. ASSUME NEW u \in Instants, Timer(u) \/ RequestSafeRetry(u) PROVE Stays(t)
    BY <2>0, <2>3 DEF Timer, LeaseEnds, DelayEnds, RequestSafeRetry
  <2>4. ASSUME NEW w \in Workers, StartWorker(w) \/ WorkerDies(w) PROVE Stays(t)
    <3>1. UNCHANGED disp
      BY <2>4 DEF StartWorker, WorkerDies
    <3> QED
      BY <3>1
  <2>5. ASSUME NEW w \in Workers, ClaimDue(w) PROVE Stays(t)
    <3>1. PICK R \in SUBSET Reclaimable : disp' = [u \in Instants |-> NewState(R, u)]
      BY <2>5 DEF ClaimDue
    <3>2. /\ \A u \in Hired(R) : disp[u] \in Open \cup {"none"}
          /\ \A u \in Inserted(R) : disp[u] = "none"
      BY <2>0, HiredAre
    <3>3. disp[t] \in {"completed", "skipped", "misfired"} => disp'[t] = disp[t]
      BY <3>1, <3>2 DEF NewState, Open
    <3> QED
      BY <3>3
  <2>6. ASSUME NEW w \in Workers, NEW u \in Instants,
               MarkRunning(w, u) \/ SkipContended(w, u)
        PROVE  Stays(t)
    BY <2>0, <2>6 DEF MarkRunning, SkipContended
  <2>7. ASSUME NEW w \in Workers, RunReturns(w) PROVE Stays(t)
    BY <2>7 DEF RunReturns
  <2>8. ASSUME NEW w \in Workers, Report(w) PROVE Stays(t)
    <3>1. disp[cur[w]] \in {"running", "none"}
      BY <1>3, <2>8 DEF Report, SoloInv, RunsItsOwn
    <3>2. \/ UNCHANGED disp
          \/ disp' = [disp EXCEPT ![cur[w]] = FinalState(w)]
      BY <2>8 DEF Report
    <3> QED
      BY <2>0, <3>1, <3>2
  <2> QED
    BY <1>3, <2>1, <2>2, <2>3, <2>4, <2>5, <2>6, <2>7, <2>8 DEF Next, Work
<1>4. SoloInv /\ [Next]_vars => [\A t \in Instants : Stays(t)]_vars
  BY <1>3
<1> QED
  BY <1>1, <1>2, <1>4, PTL DEF Spec, EndedStays

-----------------------------------------------------------------------------
\* A schedule nobody edits, with any number of workers at once.

Ahead ==
  /\ enabled /\ draft = Never /\ next \in 1..(passed + 1) /\ late <= passed
  /\ \A t \in Instants : next <= t => disp[t] = "none"

Dispatched ==
  /\ \A w \in Workers : pc[w] \in {"running", "reporting"} =>
                          disp[cur[w]] \notin {"none", "misfired"}
  /\ \A t \in Instants : disp[t] = "none" => result[t] = "none"

LeftAlone == TypeInv /\ Ahead /\ Dispatched /\ OccurrencesAccounted /\ MisfiredNeverRan

LEMMA LeftAloneInit == Init => LeftAlone
BY TypeInit, SizeAssumption DEF LeftAlone, Ahead, Dispatched, OccurrencesAccounted,
   MisfiredNeverRan, Init

\* What a poll does to the schedule and to the dispatches: nothing is lost, and
\* at most the occurrence at next_run_at is new.
Moves ==
  \/ /\ next' = next
     /\ \A t \in Instants : \/ disp'[t] = disp[t]
                            \/ disp[t] \in Open /\ disp'[t] = "claimed"
  \/ /\ next \in Instants /\ next <= passed /\ disp[next] = "none"
     /\ \/ next' = next + 1 /\ disp'[next] = "claimed"
        \/ next' = passed + 1 /\ disp'[next] = "misfired"
     /\ \A t \in Instants \ {next} : \/ disp'[t] = disp[t]
                                     \/ disp[t] \in Open /\ disp'[t] = "claimed"

LEMMA PollMoves ==
  ASSUME LeftAlone, NEW w \in Workers, ClaimDue(w)
  PROVE  Moves
<1>0. /\ TypeOK
      /\ disp \in [Instants -> Open \cup Ended \cup {"none"}]
      /\ passed \in 0..Last /\ next \in 1..(Last + 1) /\ Last \in Nat
      /\ \A t \in Instants : next <= t => disp[t] = "none"
  BY SizeAssumption DEF LeftAlone, TypeInv, TypeOK, Ahead
<1>1. PICK R \in SUBSET Reclaimable : /\ disp' = [u \in Instants |-> NewState(R, u)]
                                      /\ next' = NewNext(R)
  BY DEF ClaimDue
<1>2. /\ Hired(R) \subseteq Instants
      /\ Inserted(R) \subseteq {t \in Instants : t = next /\ disp[t] = "none" /\ IsDue(R)}
      /\ \A t \in Hired(R) : disp[t] \in Open \cup {"none"}
      /\ \A t \in Hired(R) : disp[t] = "none" => t \in Inserted(R) /\ ~Stale
  BY <1>0, HiredAre
<1>3. \A t \in Instants : t \notin Inserted(R) =>
        \/ disp'[t] = disp[t]
        \/ disp[t] \in Open /\ disp'[t] = "claimed"
  BY <1>1, <1>2 DEF NewState
<1>4. CASE ~IsDue(R)
  <2>1. Inserted(R) = {} /\ next' = next
    BY <1>1, <1>4 DEF Inserted, NewNext
  <2> QED
    BY <1>3, <2>1 DEF Moves
<1>5. CASE IsDue(R)
  <2>1. next \in Instants /\ next <= passed
    BY <1>0, <1>5 DEF IsDue
  <2>2. Inserted(R) = {next} /\ disp[next] = "none"
    BY <1>0, <1>5, <2>1 DEF Inserted
  <2>3. CASE Stale
    <3>1. next' = passed + 1
      BY <1>1, <1>5, <2>3 DEF NewNext, Following
    <3>2. next \notin Hired(R)
      BY <1>2, <2>2, <2>3
    <3>3. disp'[next] = "misfired"
      BY <1>1, <2>1, <2>2, <3>2 DEF NewState
    <3> QED
      BY <1>3, <2>1, <2>2, <3>1, <3>3 DEF Moves
  <2>4. CASE ~Stale
    <3>1. next' = next + 1
      BY <1>1, <1>5, <2>4 DEF NewNext, Following
    <3>2. disp'[next] = "claimed"
      BY <1>1, <2>1, <2>2, <2>4 DEF NewState, Hired
    <3> QED
      BY <1>3, <2>1, <2>2, <3>1, <3>2 DEF Moves
  <2> QED
    BY <2>3, <2>4
<1> QED
  BY <1>4, <1>5

\* What every other step of the unedited schedule leaves as it is.
Unworked == {"none", "misfired"}

Quiet ==
  /\ enabled' = enabled /\ next' = next /\ draft' = draft
  /\ passed' \in Nat /\ passed <= passed' /\ late' <= passed'
  /\ \A t \in Instants : disp[t] \in Unworked \/ disp'[t] \in Unworked =>
                           disp'[t] = disp[t]
  /\ \A t \in Instants : disp[t] \in Unworked => result'[t] = result[t]
  /\ \A w \in Workers : pc'[w] \in {"running", "reporting"} =>
       \/ pc[w] \in {"running", "reporting"} /\ cur'[w] = cur[w]
       \/ disp'[cur'[w]] = "running"

LEMMA OthersAreQuiet ==
  ASSUME ~OwnerEdits, LeftAlone, Next, \A w \in Workers : ~ClaimDue(w)
  PROVE  Quiet
<1>t. /\ disp \in [Instants -> Open \cup Ended \cup {"none"}]
      /\ result \in [Instants -> {"none", "safe", "skipped", "done"}]
      /\ pc \in [Workers -> {"new", "up", "running", "reporting", "down"}]
      /\ cur \in [Workers -> Instants \cup {Never}]
      /\ \A w \in Workers : pc[w] \in {"running", "reporting"} =>
           cur[w] \in Instants /\ disp[cur[w]] \notin Unworked
      /\ passed \in Nat /\ late \in Nat /\ late <= passed
  BY SizeAssumption
  DEF LeftAlone, TypeInv, TypeOK, CurTyped, Ahead, Dispatched, Unworked
<1>1. CASE Pass \/ GrowLate
  <2>1. /\ passed' \in Nat /\ passed <= passed' /\ late' <= passed'
        /\ UNCHANGED <<enabled, next, draft, disp, result, pc, cur>>
    BY <1>1, <1>t DEF Pass, GrowLate
  <2> QED
    BY <2>1 DEF Quiet
<1>2. CASE BeginSave \/ Save \/ Pause \/ Delete
  BY <1>2 DEF BeginSave, Save, Pause, Delete, LeftAlone, Ahead
<1>3. ASSUME NEW t \in Instants, Timer(t) \/ RequestSafeRetry(t) PROVE Quiet
  <2>1. UNCHANGED <<passed, late, enabled, next, draft, result, pc, cur>>
    BY <1>3 DEF Timer, LeaseEnds, DelayEnds, RequestSafeRetry
  <2>2. \/ UNCHANGED disp
        \/ disp[t] = "retry_exhausted" /\ disp' = [disp EXCEPT ![t] = "retry_wait"]
    BY <1>3 DEF Timer, LeaseEnds, DelayEnds, RequestSafeRetry
  <2>3. \A u \in Instants : disp[u] \in Unworked \/ disp'[u] \in Unworked =>
                             disp'[u] = disp[u]
    BY <1>t, <2>2 DEF Unworked
  <2> QED
    BY <1>t, <2>1, <2>3 DEF Quiet
<1>4. ASSUME NEW w \in Workers, StartWorker(w) PROVE Quiet
  <2>1. /\ UNCHANGED <<passed, late, enabled, next, draft, disp, result, cur>>
        /\ pc' = [pc EXCEPT ![w] = "up"]
    BY <1>4 DEF StartWorker
  <2> QED
    BY <1>t, <2>1 DEF Quiet
<1>5. ASSUME NEW w \in Workers, NEW t \in Instants, MarkRunning(w, t) PROVE Quiet
  <2>1. /\ UNCHANGED <<passed, late, enabled, next, draft, result>>
        /\ disp[t] = "claimed" /\ disp' = [disp EXCEPT ![t] = "running"]
        /\ pc' = [pc EXCEPT ![w] = "running"] /\ cur' = [cur EXCEPT ![w] = t]
    BY <1>5 DEF MarkRunning
  <2> QED
    BY <1>t, <2>1 DEF Quiet, Unworked
<1>6. ASSUME NEW w \in Workers, NEW t \in Instants, SkipContended(w, t) PROVE Quiet
  <2>1. UNCHANGED <<passed, late, enabled, next, draft, disp, result, pc, cur>>
    BY <1>6 DEF SkipContended
  <2> QED
    BY <1>t, <2>1 DEF Quiet
<1>7. ASSUME NEW w \in Workers, RunReturns(w) PROVE Quiet
  <2>1. /\ UNCHANGED <<passed, late, enabled, next, draft, disp, cur>>
        /\ pc[w] = "running" /\ pc' = [pc EXCEPT ![w] = "reporting"]
        /\ \E x : result' = [result EXCEPT ![cur[w]] = x]
    BY <1>7 DEF RunReturns
  <2> QED
    BY <1>t, <2>1 DEF Quiet
<1>8. ASSUME NEW w \in Workers, Report(w) PROVE Quiet
  <2>1. /\ UNCHANGED <<passed, late, enabled, next, draft, result>>
        /\ pc[w] = "reporting" /\ pc' = [pc EXCEPT ![w] = "up"]
        /\ cur' = [cur EXCEPT ![w] = Never]
        /\ UNCHANGED disp \/ disp' = [disp EXCEPT ![cur[w]] = FinalState(w)]
    BY <1>8 DEF Report
  <2>2. FinalState(w) \notin Unworked
    BY DEF FinalState, Unworked
  <2>3. \A u \in Instants : disp[u] \in Unworked \/ disp'[u] \in Unworked =>
                             disp'[u] = disp[u]
    BY <1>t, <2>1, <2>2
  <2>4. \A v \in Workers : pc'[v] \in {"running", "reporting"} =>
                            pc[v] \in {"running", "reporting"} /\ cur'[v] = cur[v]
    BY <1>t, <2>1
  <2> QED
    BY <1>t, <2>1, <2>3, <2>4 DEF Quiet
<1>9. ASSUME NEW w \in Workers, WorkerDies(w) PROVE Quiet
  <2>1. /\ UNCHANGED <<passed, late, enabled, next, draft, disp>>
        /\ pc' = [pc EXCEPT ![w] = "down"] /\ cur' = [cur EXCEPT ![w] = Never]
    BY <1>9 DEF WorkerDies
  <2>2. \/ result' = result
        \/ \E t \in Instants : /\ t = cur[w] /\ pc[w] = "running"
                               /\ result' = [result EXCEPT ![t] = "done"]
    BY <1>9 DEF WorkerDies
  <2>3. \A t \in Instants : disp[t] \in Unworked => result'[t] = result[t]
    BY <1>t, <2>2
  <2> QED
    BY <1>t, <2>1, <2>3 DEF Quiet
<1> QED
  BY <1>1, <1>2, <1>3, <1>4, <1>5, <1>6, <1>7, <1>8, <1>9 DEF Next, Work

LEMMA QuietStep ==
  ASSUME LeftAlone, TypeInv', Quiet
  PROVE  LeftAlone'
<1>1. Ahead'
  <2>1. /\ enabled' = enabled /\ draft' = draft /\ late' <= passed'
        /\ enabled /\ draft = Never
    BY DEF LeftAlone, Ahead, Quiet
  <2>4. /\ next' = next /\ next \in 1..(passed + 1)
        /\ passed \in Nat /\ passed' \in Nat /\ passed <= passed'
    BY SizeAssumption DEF LeftAlone, Ahead, Quiet, TypeInv, TypeOK
  <2>2. \A t \in Instants : next' <= t => disp'[t] = "none"
    BY DEF LeftAlone, Ahead, Quiet, Unworked
  <2>3. next' \in 1..(passed' + 1)
    <3>1. \A a, b \in Nat : a <= b => 1..(a + 1) \subseteq 1..(b + 1)
      OBVIOUS
    <3> QED
      BY <2>4, <3>1
  <2> QED
    BY <2>1, <2>2, <2>3 DEF Ahead
<1>2. Dispatched'
  <2>1. \A w \in Workers : pc'[w] \in {"running", "reporting"} => cur'[w] \in Instants
    BY DEF TypeInv, CurTyped
  <2> QED
    BY <2>1 DEF LeftAlone, Dispatched, Quiet, Unworked
<1>3. OccurrencesAccounted'
  <2> SUFFICES ASSUME NEW t \in Instants, t < next', disp'[t] = "none"
               PROVE  \E u \in Instants : /\ u < t /\ disp'[u] = "misfired"
                                          /\ \A v \in (u + 1)..t : disp'[v] = "none"
    BY DEF OccurrencesAccounted
  <2>1. t < next /\ disp[t] = "none"
    BY DEF Quiet, Unworked
  <2>2. PICK u \in Instants : /\ u < t /\ disp[u] = "misfired"
                              /\ \A v \in (u + 1)..t : disp[v] = "none"
    BY <2>1 DEF LeftAlone, OccurrencesAccounted
  <2>3. \A v \in (u + 1)..t : v \in Instants
    BY SizeAssumption
  <2> QED
    BY <2>2, <2>3 DEF Quiet, Unworked
<1>4. MisfiredNeverRan'
  BY DEF LeftAlone, MisfiredNeverRan, Quiet, Unworked
<1> QED
  BY <1>1, <1>2, <1>3, <1>4 DEF LeftAlone

LEMMA PollStep ==
  ASSUME LeftAlone, TypeInv', NEW w \in Workers, ClaimDue(w)
  PROVE  LeftAlone'
<1>0. /\ Moves
      /\ UNCHANGED <<passed, late, enabled, draft, result, pc, cur>>
  BY PollMoves DEF ClaimDue
<1>t. /\ passed \in Nat /\ next \in Nat /\ next <= passed + 1 /\ Last \in Nat
      /\ \A t \in Instants : t \in Nat /\ (next <= t => disp[t] = "none")
  BY SizeAssumption DEF LeftAlone, Ahead, TypeInv, TypeOK
<1>1. Ahead'
  <2>1. next' \in 1..(passed + 1) /\ next <= next'
    BY <1>0, <1>t DEF Moves, LeftAlone, Ahead
  <2>2. \A t \in Instants : next' <= t => disp'[t] = "none"
    BY <1>0, <1>t, <2>1 DEF Moves, Open
  <2> QED
    BY <1>0, <2>1, <2>2 DEF LeftAlone, Ahead
<1>2. \A t \in Instants : /\ disp'[t] = "none" => disp[t] = "none"
                          /\ disp[t] = "none" => \/ disp'[t] = "none"
                                                 \/ t = next /\ next < next'
                          /\ disp[t] = "misfired" <=> disp'[t] = "misfired" /\ disp[t] # "none"
  BY <1>0, <1>t DEF Moves, Open
<1>3. Dispatched'
  BY <1>0, <1>2 DEF LeftAlone, Dispatched, TypeInv, CurTyped
<1>4. OccurrencesAccounted'
  <2> SUFFICES ASSUME NEW t \in Instants, t < next', disp'[t] = "none"
               PROVE  \E u \in Instants : /\ u < t /\ disp'[u] = "misfired"
                                          /\ \A v \in (u + 1)..t : disp'[v] = "none"
    BY DEF OccurrencesAccounted
  <2>1. CASE t < next
    <3>1. PICK u \in Instants : /\ u < t /\ disp[u] = "misfired"
                                /\ \A v \in (u + 1)..t : disp[v] = "none"
      BY <1>2, <2>1 DEF LeftAlone, OccurrencesAccounted
    <3>2. disp'[u] = "misfired"
      BY <1>2, <3>1
    <3>3. \A v \in (u + 1)..t : v \in Instants /\ v # next
      BY <1>t, <2>1
    <3>4. \A v \in (u + 1)..t : disp'[v] = "none"
      BY <1>2, <3>1, <3>3
    <3> QED
      BY <3>1, <3>2, <3>4
  <2>2. CASE next <= t
    <3>1. /\ next \in Instants /\ disp'[next] = "misfired" /\ next < t
          /\ \A v \in Instants \ {next} : disp[v] = "none" => disp'[v] = "none"
      BY <1>0, <1>t, <2>2 DEF Moves, Open
    <3>2. \A v \in (next + 1)..t : v \in Instants \ {next} /\ disp[v] = "none"
      BY <1>t, <3>1
    <3> QED
      BY <3>1, <3>2
  <2> QED
    BY <1>t, <2>1, <2>2
<1>5. MisfiredNeverRan'
  BY <1>0, <1>2 DEF LeftAlone, MisfiredNeverRan, Dispatched
<1> QED
  BY <1>1, <1>3, <1>4, <1>5 DEF LeftAlone

LEMMA LeftAloneStep ==
  ASSUME ~OwnerEdits, LeftAlone, [Next]_vars
  PROVE  LeftAlone'
<1>1. TypeInv'
  BY TypeStep DEF LeftAlone
<1>2. CASE UNCHANGED vars
  <2>1. UNCHANGED <<passed, late, enabled, next, draft, disp, result, pc, cur>>
    BY <1>2
  <2> QED
    BY <1>1, <2>1
    DEF LeftAlone, Ahead, Dispatched, OccurrencesAccounted, MisfiredNeverRan
<1>3. ASSUME NEW w \in Workers, ClaimDue(w) PROVE LeftAlone'
  BY <1>1, <1>3, PollStep
<1>4. CASE Next /\ \A w \in Workers : ~ClaimDue(w)
  BY <1>1, <1>4, OthersAreQuiet, QuietStep
<1> QED
  BY <1>2, <1>3, <1>4

\* However many workers poll at once, an occurrence of an unedited schedule is
\* passed over only in the jump that a misfire makes: claim_due moves
\* next_run_at and inserts the dispatch in one transaction.
THEOREM NothingIsLost == ASSUME ~OwnerEdits PROVE Spec => []OccurrencesAccounted
<1>1. LeftAlone /\ [Next]_vars => LeftAlone'
  BY LeftAloneStep
<1>2. LeftAlone => OccurrencesAccounted
  BY DEF LeftAlone
<1> QED
  BY <1>1, <1>2, LeftAloneInit, PTL DEF Spec

\* An occurrence recorded as misfired was never handed to the runner, whichever
\* worker recorded it and whichever others were running at the time.
THEOREM MisfiresDoNotRun == ASSUME ~OwnerEdits PROVE Spec => []MisfiredNeverRan
<1>1. LeftAlone /\ [Next]_vars => LeftAlone'
  BY LeftAloneStep
<1>2. LeftAlone => MisfiredNeverRan
  BY DEF LeftAlone
<1> QED
  BY <1>1, <1>2, LeftAloneInit, PTL DEF Spec
=============================================================================
