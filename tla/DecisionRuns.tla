---------------------------- MODULE DecisionRuns ----------------------------
(***************************************************************************)
(* The runner of one execution profile: a run key is claimed as a row of    *)
(* autonomous_decision_runs, the row is driven through snapshot, decision,  *)
(* validation, preview and submission, and every ending is written back by  *)
(* _finish.  A second call with the same key, or with another key while a   *)
(* run is active, finds the row in the way and either returns it or, for    *)
(* the scheduler, resumes it.                                               *)
(*                                                                          *)
(* A Caller is one in-flight AutonomousDecisionRunner.run: the scheduler's  *)
(* worker, an MCP tool or the immediate run of AutonomyControl.start.  Each *)
(* database transaction and each await is a step, so calls interleave.      *)
(***************************************************************************)
EXTENDS Naturals

CONSTANTS
  RunKeys, Callers, Previews, None,
  Schedulers      \* the callers that pass allow_safe_retry=True

ASSUME NoneIsFresh == None \notin RunKeys /\ None \notin Previews
ASSUME SchedulersCall == Schedulers \subseteq Callers

VARIABLES
  state,          \* state[k]: the row of run key k, "absent" before its claim
  safe,           \* its reason codes meet SAFE_PRE_SUBMIT_RETRY_REASONS
  rowPreview, rowExecution,   \* its preview_id; is its execution_id set?
  made,           \* the previews review has written
  subRun,         \* subRun[p]: the run whose idempotency key claimed p
  subState,       \* broker_submissions of p
  pc, run, mine   \* the calls: step, key of the row at work, preview in hand

rows  == <<state, safe, rowPreview, rowExecution>>
subs  == <<made, subRun, subState>>
calls == <<pc, run, mine>>
vars  == <<rows, subs, calls>>

Active == {"claimed", "snapshotting", "deciding", "validating", "previewing",
           "submitting"}
Final  == {"trade", "no_trade", "blocked", "market_closed", "error", "skipped"}

Driving == {"claimed", "snapshotting", "deciding", "validating", "previewing",
            "reviewed", "stored", "submitting", "conflict", "sending",
            "rejected", "answered", "clashed"}
Steps   == Driving \cup {"idle", "starting", "lookup", "retry"}

TypeOK ==
  /\ state \in [RunKeys -> Active \cup Final \cup {"absent"}]
  /\ safe \in [RunKeys -> BOOLEAN]
  /\ rowPreview \in [RunKeys -> Previews \cup {None}]
  /\ rowExecution \in [RunKeys -> BOOLEAN]
  /\ made \subseteq Previews
  /\ subRun \in [Previews -> RunKeys \cup {None}]
  /\ subState \in [Previews -> {"none", "claimed", "answered", "rejected"}]
  /\ pc \in [Callers -> Steps]
  /\ run \in [Callers -> RunKeys \cup {None}]
  /\ mine \in [Callers -> Previews \cup {None}]

Init ==
  /\ state = [k \in RunKeys |-> "absent"]
  /\ safe = [k \in RunKeys |-> FALSE]
  /\ rowPreview = [k \in RunKeys |-> None]
  /\ rowExecution = [k \in RunKeys |-> FALSE]
  /\ made = {}
  /\ subRun = [p \in Previews |-> None]
  /\ subState = [p \in Previews |-> "none"]
  /\ pc = [c \in Callers |-> "idle"]
  /\ run = [c \in Callers |-> None]
  /\ mine = [c \in Callers |-> None]

\* The partial unique index one_active_autonomous_decision_run.
IndexFree(k) == \A j \in RunKeys \ {k} : state[j] \notin Active

Goto(c, step) == pc' = [pc EXCEPT ![c] = step]

\* The call returns or raises; its locals go with it.
Return(c) ==
  /\ Goto(c, "idle")
  /\ run' = [run EXCEPT ![c] = None]
  /\ mine' = [mine EXCEPT ![c] = None]

-----------------------------------------------------------------------------
\* Claiming the run key.

Start(c, k) ==
  /\ pc[c] = "idle"
  /\ Goto(c, "starting")
  /\ run' = [run EXCEPT ![c] = k]
  /\ UNCHANGED <<rows, subs, mine>>

ClaimIsFree(k) == state[k] = "absent" /\ IndexFree(k)

Claim(c) ==
  /\ pc[c] = "starting" /\ ClaimIsFree(run[c])
  /\ state' = [state EXCEPT ![run[c]] = "claimed"]
  /\ Goto(c, "claimed")
  /\ UNCHANGED <<safe, rowPreview, rowExecution, subs, run, mine>>

ClaimFails(c) ==
  /\ pc[c] = "starting" /\ ~ClaimIsFree(run[c])
  /\ Goto(c, "lookup")
  /\ UNCHANGED <<rows, subs, run, mine>>

\* The SELECT of a second transaction: the row of the key, else an active one.
Found(k) == IF state[k] # "absent" THEN {k}
            ELSE {j \in RunKeys : state[j] \in Active}

Resumable(k) == state[k] \in {"claimed", "snapshotting", "deciding", "validating"}
Retryable(k) == state[k] \in {"no_trade", "blocked", "error"} /\ safe[k]

SlipRetriesSent(c, k) ==   \* a slip: the preview_id of the row is not looked at
  c \in Schedulers /\ ~rowExecution[k] /\ (Resumable(k) \/ Retryable(k))

MayResume(c, k) ==
  /\ c \in Schedulers
  /\ rowPreview[k] = None /\ ~rowExecution[k]
  /\ Resumable(k) \/ Retryable(k)

\* The row was there, or has just left the index: it is returned as it is.
Suppress(c) ==
  /\ pc[c] = "lookup"
  /\ \A k \in Found(run[c]) : ~MayResume(c, k)
  /\ Return(c)
  /\ UNCHANGED <<rows, subs>>

Adopt(c) ==
  /\ pc[c] = "lookup"
  /\ \E k \in Found(run[c]) : MayResume(c, k) /\ run' = [run EXCEPT ![c] = k]
  /\ Goto(c, "retry")
  /\ UNCHANGED <<rows, subs, mine>>

\* The UPDATE that resets the row: a third transaction, on what was read before.
Resume(c) ==
  /\ pc[c] = "retry" /\ IndexFree(run[c])
  /\ state' = [state EXCEPT ![run[c]] = "claimed"]
  /\ safe' = [safe EXCEPT ![run[c]] = FALSE]
  /\ Goto(c, "claimed")
  /\ UNCHANGED <<rowPreview, rowExecution, subs, run, mine>>

\* The index refuses the reset, outside the try: the call raises.
ResumeClashes(c) ==
  /\ pc[c] = "retry" /\ ~IndexFree(run[c])
  /\ Return(c)
  /\ UNCHANGED <<rows, subs>>

-----------------------------------------------------------------------------
\* Driving the row.

After == [claimed |-> "snapshotting", snapshotting |-> "deciding",
          deciding |-> "validating", validating |-> "previewing",
          stored |-> "submitting"]

Advance(c) ==
  /\ pc[c] \in DOMAIN After /\ IndexFree(run[c])
  /\ state' = [state EXCEPT ![run[c]] = After[pc[c]]]
  /\ Goto(c, After[pc[c]])
  /\ UNCHANGED <<safe, rowPreview, rowExecution, subs, run, mine>>

\* Another call finished the row and a new run took the index meanwhile.
AdvanceClashes(c) ==
  /\ pc[c] \in DOMAIN After /\ ~IndexFree(run[c])
  /\ Goto(c, "clashed")
  /\ UNCHANGED <<rows, subs, run, mine>>

Review(c) ==
  /\ pc[c] = "previewing"
  /\ \E p \in Previews \ made :
       /\ made' = made \cup {p}
       /\ mine' = [mine EXCEPT ![c] = p]
  /\ Goto(c, "reviewed")
  /\ UNCHANGED <<rows, subRun, subState, run>>

StorePreview(c) ==
  /\ pc[c] = "reviewed"
  /\ rowPreview' = [rowPreview EXCEPT ![run[c]] = mine[c]]
  /\ Goto(c, "stored")
  /\ UNCHANGED <<state, safe, rowExecution, subs, run, mine>>

\* The idempotency key is autonomous:{run_id}, UNIQUE in broker_submissions.
SlipKeyOfPreview(c) == subRun[mine[c]] = None   \* a slip: the key is the preview's

KeyFree(c) == \A p \in Previews : subRun[p] # run[c]

SubmitClaims(c) ==
  /\ pc[c] = "submitting" /\ KeyFree(c)
  /\ subRun' = [subRun EXCEPT ![mine[c]] = run[c]]
  /\ subState' = [subState EXCEPT ![mine[c]] = "claimed"]
  /\ Goto(c, "sending")
  /\ UNCHANGED <<rows, made, run, mine>>

SlipConflictTrades(c) ==   \* a slip: a lost key is answered with the other's result
  /\ pc[c] = "submitting" /\ ~KeyFree(c)
  /\ Goto(c, "answered")
  /\ UNCHANGED <<rows, subs, run, mine>>

SubmitConflicts(c) ==
  /\ pc[c] = "submitting" /\ ~KeyFree(c)
  /\ Goto(c, "conflict")
  /\ UNCHANGED <<rows, subs, run, mine>>

\* submit returns an execution, or proves that the broker refused.
SubmitReturns(c) ==
  /\ pc[c] = "sending"
  /\ subState' = [subState EXCEPT ![mine[c]] = "answered"]
  /\ Goto(c, "answered")
  /\ UNCHANGED <<rows, made, subRun, run, mine>>

SubmitRejects(c) ==
  /\ pc[c] = "sending"
  /\ subState' = [subState EXCEPT ![mine[c]] = "rejected"]
  /\ Goto(c, "rejected")
  /\ UNCHANGED <<rows, made, subRun, run, mine>>

-----------------------------------------------------------------------------
\* Endings.  _finish writes the row whatever it holds.

FinishTrade(c) ==
  /\ pc[c] = "answered"
  /\ state' = [state EXCEPT ![run[c]] = "trade"]
  /\ safe' = [safe EXCEPT ![run[c]] = FALSE]
  /\ rowExecution' = [rowExecution EXCEPT ![run[c]] = TRUE]
  /\ Return(c)
  /\ UNCHANGED <<rowPreview, subs>>

\* What _finish may write at each step: the state and whether a retry is safe.
Skipped  == {"skipped", "market_closed"} \X {FALSE}
Refused  == {"blocked"} \X BOOLEAN
Internal == {"error"} \X {TRUE}

EndsOf == [claimed      |-> Skipped \cup Refused \cup Internal,
           snapshotting |-> Refused \cup Internal,
           deciding     |-> Internal,
           validating   |-> ({"no_trade", "blocked", "error"} \X BOOLEAN),
           previewing   |-> ({"skipped"} \X {FALSE}) \cup Refused \cup Internal,
           stored       |-> ({"skipped", "blocked"} \X {FALSE}) \cup Internal,
           submitting   |-> Refused \cup Internal,
           conflict     |-> {"blocked"} \X {FALSE},
           sending      |-> Internal,
           rejected     |-> Refused,
           clashed      |-> Internal]

SlipRefusalEscapes(c) ==   \* a slip: no except clause for a rejected submission
  /\ pc[c] \in DOMAIN EndsOf
  /\ IF pc[c] = "rejected" THEN UNCHANGED <<state, safe>>
     ELSE \E end \in EndsOf[pc[c]] :
            /\ state' = [state EXCEPT ![run[c]] = end[1]]
            /\ safe' = [safe EXCEPT ![run[c]] = end[2]]
  /\ Return(c)
  /\ UNCHANGED <<rowPreview, rowExecution, subs>>

Finish(c) ==
  /\ pc[c] \in DOMAIN EndsOf
  /\ \E end \in EndsOf[pc[c]] :
       /\ state' = [state EXCEPT ![run[c]] = end[1]]
       /\ safe' = [safe EXCEPT ![run[c]] = end[2]]
  /\ Return(c)
  /\ UNCHANGED <<rowPreview, rowExecution, subs>>

\* A crash or a cancelled task: no except clause of run sees it.
Die(c) ==
  /\ pc[c] # "idle"
  /\ Return(c)
  /\ UNCHANGED <<rows, subs>>

Work(c) ==
  \/ Claim(c) \/ ClaimFails(c) \/ Suppress(c) \/ Adopt(c)
  \/ Resume(c) \/ ResumeClashes(c)
  \/ Advance(c) \/ AdvanceClashes(c) \/ Review(c) \/ StorePreview(c)
  \/ SubmitClaims(c) \/ SubmitConflicts(c)
  \/ SubmitReturns(c) \/ SubmitRejects(c) \/ FinishTrade(c) \/ Finish(c)

Next == \E c \in Callers : \/ \E k \in RunKeys : Start(c, k)
                           \/ Work(c) \/ Die(c)

Spec == Init /\ [][Next]_vars

\* While no process dies, the event loop resumes every call whose await is over;
\* nothing makes anybody start a call.
Living == \E c \in Callers : Work(c) \/ \E k \in RunKeys : Start(c, k)
FairSpec == Init /\ [][Living]_vars /\ \A c \in Callers : WF_vars(Work(c))
-----------------------------------------------------------------------------
\* Properties.

\* One run sends at most one preview, whoever resumes it and however often: the
\* idempotency key is the run's, so a second driver of a row cannot order again.
OneSubmissionPerRun ==
  \A p, q \in Previews : subRun[p] = subRun[q] /\ subRun[p] # None => p = q

\* The scheduler never decides to retry a run that has sent an order, whatever
\* its answer was: preview_id is stored before the submission is claimed and no
\* reset clears it.
NoRetryAfterSend ==
  [][\A c \in Callers : pc[c] = "lookup" /\ pc'[c] = "retry" =>
       \A p \in Previews : subRun[p] # run'[c]]_vars

\* A run that reports TRADE has an answered submission of its own; a call that
\* lost the idempotency key to another driver never reports one.
TradeHasOrder ==
  \A k \in RunKeys : state[k] = "trade" =>
    \E p \in Previews : subRun[p] = k /\ subState[p] = "answered"

\* Every active run ends, so the profile's single active slot is given back:
\* whatever fails while a row is driven, some _finish writes its ending.
RunEnds == \A k \in RunKeys : state[k] \in Active ~> state[k] \in Final
=============================================================================
