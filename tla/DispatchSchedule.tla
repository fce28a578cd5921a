-------------------------- MODULE DispatchSchedule --------------------------
(***************************************************************************)
(* One autonomous schedule and the worker that dispatches it: claim_due     *)
(* reclaims waiting and abandoned dispatches and turns a due occurrence     *)
(* into a dispatch, the worker marks it running, calls the runner, and      *)
(* finish_dispatch records the answer or a retry.  The owner edits the      *)
(* schedule meanwhile; the worker may die at any await.                     *)
(*                                                                          *)
(* Time is what the code compares it with: the occurrences are 1..Last in   *)
(* order, "passed" says how many lie in the past and "late" how many are    *)
(* past their maximum lateness; a lease and a retry delay are running or    *)
(* over.  Last bounds the horizon: next_run_at = Last + 1 is beyond it.     *)
(* A Worker is one life of a worker process: worker_id is drawn at start.   *)
(***************************************************************************)
EXTENDS Naturals, FiniteSets

CONSTANTS
  Workers, None,
  Last,          \* the occurrences looked at
  BatchSize,     \* autonomous_scheduler_batch_size
  MaxRetries,    \* autonomous_scheduler_max_retries
  Overlap,       \* may a worker start while another is up?
  OwnerEdits,    \* may the owner pause, resume, save and delete the schedule?
  OwnerRetries   \* may the owner ask for a safe retry?

ASSUME NoneIsNoWorker == None \notin Workers
ASSUME SizeAssumption == /\ Last \in Nat /\ BatchSize \in Nat \ {0}
                         /\ MaxRetries \in Nat
ASSUME ChoiceAssumption == /\ Overlap \in BOOLEAN /\ OwnerEdits \in BOOLEAN
                           /\ OwnerRetries \in BOOLEAN
\* A dispatch is known here by its occurrence, in the code by its id: the two
\* differ when a worker reports to a dispatch that was deleted and inserted again
\* by another worker.
ASSUME EditsOfOne == ~(Overlap /\ OwnerEdits)

Instants == 1..Last
Never    == 0          \* NULL: a paused schedule has no next_run_at

VARIABLES
  passed, late,                 \* the clock
  enabled, next, draft,         \* the schedule, and a save under way
  disp, lease, expired, due, retries,   \* the dispatch of each instant
  result,                       \* what the runner keeps for its run key
  pc, batch, took, cur, answer  \* the workers

clock    == <<passed, late>>
schedule == <<enabled, next, draft>>
dispatch == <<disp, lease, expired, due, retries>>
worker   == <<pc, batch, took, cur, answer>>
vars == <<clock, schedule, dispatch, result, worker>>

Open  == {"claimed", "running", "retry_wait"}
Ended == {"completed", "skipped", "retry_exhausted", "misfired"}

TypeOK ==
  /\ passed \in 0..Last /\ late \in 0..Last
  /\ enabled \in BOOLEAN /\ next \in 0..(Last + 1) /\ draft \in 0..(Last + 1)
  /\ disp \in [Instants -> Open \cup Ended \cup {"none"}]
  /\ lease \in [Instants -> Workers \cup {None}]
  /\ expired \in [Instants -> BOOLEAN]
  /\ due \in [Instants -> BOOLEAN]
  /\ retries \in [Instants -> 0..MaxRetries]
  /\ result \in [Instants -> {"none", "safe", "skipped", "done"}]
  /\ pc \in [Workers -> {"new", "up", "running", "reporting", "down"}]
  /\ batch \in [Workers -> SUBSET Instants]
  /\ took \in [Workers -> [Instants -> 0..MaxRetries]]
  /\ cur \in [Workers -> Instants \cup {Never}]
  /\ answer \in [Workers -> {"safe", "skipped", "done"}]

Init ==
  /\ passed = 0 /\ late = 0
  /\ enabled = TRUE /\ next = 1 /\ draft = Never
  /\ disp = [t \in Instants |-> "none"]
  /\ lease = [t \in Instants |-> None]
  /\ expired = [t \in Instants |-> FALSE]
  /\ due = [t \in Instants |-> FALSE]
  /\ retries = [t \in Instants |-> 0]
  /\ result = [t \in Instants |-> "none"]
  /\ pc = [w \in Workers |-> "new"]
  /\ batch = [w \in Workers |-> {}]
  /\ took = [w \in Workers |-> [t \in Instants |-> 0]]
  /\ cur = [w \in Workers |-> Never]
  /\ answer = [w \in Workers |-> "done"]

-----------------------------------------------------------------------------
\* Time.

Pass ==
  /\ passed < Last /\ passed' = passed + 1
  /\ UNCHANGED <<late, schedule, dispatch, result, worker>>

GrowLate ==
  /\ late < passed /\ late' = late + 1
  /\ UNCHANGED <<passed, schedule, dispatch, result, worker>>

LeaseEnds(t) ==
  /\ disp[t] \in {"claimed", "running"} /\ ~expired[t]
  /\ expired' = [expired EXCEPT ![t] = TRUE]
  /\ UNCHANGED <<clock, schedule, disp, lease, due, retries, result, worker>>

DelayEnds(t) ==
  /\ disp[t] = "retry_wait" /\ ~due[t]
  /\ due' = [due EXCEPT ![t] = TRUE]
  /\ UNCHANGED <<clock, schedule, disp, lease, expired, retries, result, worker>>

-----------------------------------------------------------------------------
\* The owner.  A save computes next_run_at first and writes it later.

BeginSave ==
  /\ OwnerEdits /\ draft = Never
  /\ draft' = passed + 1
  /\ UNCHANGED <<clock, enabled, next, dispatch, result, worker>>

Save ==
  /\ draft # Never
  /\ enabled' = TRUE /\ next' = draft /\ draft' = Never
  /\ UNCHANGED <<clock, dispatch, result, worker>>

Pause ==
  /\ OwnerEdits /\ enabled
  /\ enabled' = FALSE /\ next' = Never
  /\ UNCHANGED <<clock, draft, dispatch, result, worker>>

\* ON DELETE CASCADE takes the dispatches along, running or not.
Delete ==
  /\ OwnerEdits
  /\ enabled' = FALSE /\ next' = Never
  /\ disp' = [t \in Instants |-> "none"]
  /\ lease' = [t \in Instants |-> None]
  /\ expired' = [t \in Instants |-> FALSE]
  /\ due' = [t \in Instants |-> FALSE]
  /\ retries' = [t \in Instants |-> 0]
  /\ UNCHANGED <<clock, draft, result, worker>>

\* safe_retry is set in every dispatch that ends retry_exhausted.
RequestSafeRetry(t) ==
  /\ OwnerRetries /\ disp[t] = "retry_exhausted"
  /\ disp' = [disp EXCEPT ![t] = "retry_wait"]
  /\ due' = [due EXCEPT ![t] = FALSE]
  /\ UNCHANGED <<clock, schedule, lease, expired, retries, result, worker>>

-----------------------------------------------------------------------------
\* The worker.

Up(w) == pc[w] \notin {"new", "down"}

StartWorker(w) ==
  /\ pc[w] = "new"
  /\ Overlap \/ \A v \in Workers : ~Up(v)
  /\ pc' = [pc EXCEPT ![w] = "up"]
  /\ UNCHANGED <<clock, schedule, dispatch, result, batch, took, cur, answer>>

\* claim_due, one BEGIN IMMEDIATE transaction.

Reclaimable == {t \in Instants : \/ disp[t] = "retry_wait" /\ due[t]
                                 \/ disp[t] \in {"claimed", "running"} /\ expired[t]}

\* What is left of the batch goes to the schedule, when its time has come.
IsDue(R) == Cardinality(R) < BatchSize /\ enabled /\ next \in 1..passed

Stale == next <= late

SlipFollowsNow == passed + 1   \* a slip: always on from now

Following == IF Stale THEN passed + 1 ELSE next + 1

\* UNIQUE(schedule_id, scheduled_for): an occurrence is inserted once.
SlipReplaced(R) == IF IsDue(R) THEN {next} ELSE {}   \* a slip: INSERT OR REPLACE

Inserted(R) == IF IsDue(R) /\ disp[next] = "none" THEN {next} ELSE {}

Hired(R) == R \cup (IF Stale THEN {} ELSE Inserted(R))

SlipMisfiresRetries(R, t) ==   \* a slip: lateness is asked of reclaimed rows too
  IF t \in R \cup Inserted(R) /\ t <= late THEN "misfired"
  ELSE IF t \in Hired(R) THEN "claimed" ELSE disp[t]

NewState(R, t) == IF t \in Hired(R) THEN "claimed"
                  ELSE IF t \in Inserted(R) THEN "misfired" ELSE disp[t]

SlipStuckOnDuplicate(R) ==   \* a slip: a suppressed INSERT ends the iteration
  IF Inserted(R) # {} THEN Following ELSE next

\* next_run_at moves on whether or not the INSERT was suppressed.
NewNext(R) == IF IsDue(R) THEN Following ELSE next

ClaimDue(w) ==
  /\ pc[w] = "up" /\ batch[w] = {}
  /\ \E R \in SUBSET Reclaimable :
       /\ R = Reclaimable \/ Cardinality(R) = BatchSize
       /\ Cardinality(R) <= BatchSize
       /\ R # {} \/ IsDue(R)
       /\ disp' = [t \in Instants |-> NewState(R, t)]
       /\ lease' = [t \in Instants |-> IF t \in Hired(R) THEN w ELSE lease[t]]
       /\ expired' = [t \in Instants |-> expired[t] /\ t \notin Hired(R)]
       /\ due' = [t \in Instants |-> due[t] /\ t \notin Hired(R)]
       /\ next' = NewNext(R)
       /\ batch' = [batch EXCEPT ![w] =
            Hired(R) \cup {t \in Instants : IsDue(R) /\ t = next /\ ~Stale /\ lease[t] = w}]
       /\ took' = [took EXCEPT ![w] =
            [t \in Instants |-> IF t \in Hired(R) THEN retries[t] ELSE 0]]
  /\ UNCHANGED <<clock, enabled, draft, retries, result, pc, cur, answer>>

MarkRunning(w, t) ==
  /\ pc[w] = "up" /\ t \in batch[w]
  /\ disp[t] = "claimed" /\ lease[t] = w
  /\ disp' = [disp EXCEPT ![t] = "running"]
  /\ expired' = [expired EXCEPT ![t] = FALSE]
  /\ pc' = [pc EXCEPT ![w] = "running"]
  /\ cur' = [cur EXCEPT ![w] = t]
  /\ batch' = [batch EXCEPT ![w] = @ \ {t}]
  /\ UNCHANGED <<clock, schedule, lease, due, retries, result, took, answer>>

\* Another worker has the dispatch, or it is gone: "lock contention".
SkipContended(w, t) ==
  /\ pc[w] = "up" /\ t \in batch[w]
  /\ disp[t] # "claimed" \/ lease[t] # w
  /\ batch' = [batch EXCEPT ![w] = @ \ {t}]
  /\ UNCHANGED <<clock, schedule, dispatch, result, pc, took, cur, answer>>

\* What a call of the runner may leave behind and answer.  A fresh or safely
\* failed run is attempted: it ends, or it raises before or after its preview,
\* or the runner answers with another active run of the profile.  An ended run
\* is answered as it is; one stuck in preview or submission counts as ended, for
\* the worker turns the RUNNING it gets into an error that is not retried.  Any
\* call may also raise before it reads its row (profile_not_found), which the
\* worker takes for a safe failure, be the run ended or not.
Attempts(r) ==
  IF r \in {"none", "safe"}
  THEN {<<x, x>> : x \in {"safe", "skipped", "done"}}
         \cup {<<r, "safe">>, <<"done", "safe">>, <<r, "done">>}
  ELSE {<<r, r>>, <<r, "safe">>}

RunReturns(w) ==
  /\ pc[w] = "running"
  /\ \E a \in Attempts(result[cur[w]]) :
       /\ result' = [result EXCEPT ![cur[w]] = a[1]]
       /\ answer' = [answer EXCEPT ![w] = a[2]]
  /\ pc' = [pc EXCEPT ![w] = "reporting"]
  /\ UNCHANGED <<clock, schedule, dispatch, batch, took, cur>>

\* finish_dispatch: the UPDATE names the dispatch and nothing else.

RetryLeft(w) == answer[w] = "safe" /\ took[w][cur[w]] < MaxRetries

FinalState(w) == IF RetryLeft(w) THEN "retry_wait"
                 ELSE IF answer[w] = "skipped" THEN "skipped"
                 ELSE IF answer[w] = "safe" THEN "retry_exhausted"
                 ELSE "completed"

SlipForgetsCount(w) == took[w][cur[w]]   \* a slip: retry_count is not stored

RetryCount(w) == took[w][cur[w]] + IF RetryLeft(w) THEN 1 ELSE 0

Report(w) ==
  /\ pc[w] = "reporting"
  /\ IF disp[cur[w]] = "none" THEN UNCHANGED dispatch
     ELSE /\ disp' = [disp EXCEPT ![cur[w]] = FinalState(w)]
          /\ lease' = [lease EXCEPT ![cur[w]] = None]
          /\ expired' = [expired EXCEPT ![cur[w]] = FALSE]
          /\ due' = [due EXCEPT ![cur[w]] = FALSE]
          /\ retries' = [retries EXCEPT ![cur[w]] = RetryCount(w)]
  /\ pc' = [pc EXCEPT ![w] = "up"]
  /\ cur' = [cur EXCEPT ![w] = Never]
  /\ answer' = [answer EXCEPT ![w] = "done"]
  /\ UNCHANGED <<clock, schedule, result, batch, took>>

\* A crash or a shutdown; an attempt it cuts off may have got as far as its
\* preview.  Bound: a worker dies only while another one can still start.
WorkerDies(w) ==
  /\ Up(w) /\ \E v \in Workers : pc[v] = "new"
  /\ result' \in {result} \cup
       {[result EXCEPT ![t] = "done"] : t \in {cur[w]} \cap
          {u \in Instants : pc[w] = "running" /\ result[u] \in {"none", "safe"}}}
  /\ pc' = [pc EXCEPT ![w] = "down"]
  /\ batch' = [batch EXCEPT ![w] = {}]
  /\ cur' = [cur EXCEPT ![w] = Never]
  /\ answer' = [answer EXCEPT ![w] = "done"]
  /\ UNCHANGED <<clock, schedule, dispatch, took>>

Work(w) == \/ ClaimDue(w) \/ RunReturns(w) \/ Report(w)
           \/ \E t \in Instants : MarkRunning(w, t) \/ SkipContended(w, t)

Timer(t) == LeaseEnds(t) \/ DelayEnds(t)

Next == \/ Pass \/ GrowLate \/ BeginSave \/ Save \/ Pause \/ Delete
        \/ \E t \in Instants : Timer(t) \/ RequestSafeRetry(t)
        \/ \E w \in Workers : StartWorker(w) \/ Work(w) \/ WorkerDies(w)

Spec == Init /\ [][Next]_vars

\* A supervisor restarts the worker, run_forever polls for ever, a call of the
\* runner returns, and leases and delays run out.  Nothing makes the owner act.
FairSpec ==
  /\ Spec
  /\ \A w \in Workers : WF_vars(Work(w))
  /\ WF_vars(\E w \in Workers : (\A v \in Workers : ~Up(v)) /\ StartWorker(w))
  /\ \A t \in Instants : WF_vars(Timer(t))

-----------------------------------------------------------------------------
\* Properties.

\* What the scheduler records as final for an occurrence stays so: a completed,
\* skipped or misfired dispatch is not reopened by a later poll, a stale save, a
\* restart or the owner's retry.  It goes only when the schedule is deleted.
EndedStays ==
  [][\A t \in Instants : disp[t] \in {"completed", "skipped", "misfired"} =>
       disp'[t] \in {disp[t], "none"}]_vars

\* No occurrence is lost: the schedule moves past one only by dispatching it, or
\* in the jump over everything already past that a misfire makes.
OccurrencesAccounted ==
  \A t \in Instants : t < next /\ disp[t] = "none" =>
    \E u \in Instants : /\ u < t /\ disp[u] = "misfired"
                        /\ \A v \in (u + 1)..t : disp[v] = "none"

\* An occurrence recorded as misfired has never been run, and one whose run has
\* started was claimed in time.
MisfiredNeverRan ==
  \A t \in Instants : disp[t] = "misfired" => result[t] = "none"

\* Every dispatch ends, whatever dies meanwhile and however often its run fails
\* before the preview; a safe failure does not retry for ever.
DispatchEnds == \A t \in Instants : disp[t] \in Open ~> disp[t] \notin Open

\* The schedule keeps up: a due occurrence does not stay next_run_at for ever.
ScheduleMoves ==
  \A t \in Instants : enabled /\ next = t /\ t <= passed ~> ~enabled \/ next # t
=============================================================================
