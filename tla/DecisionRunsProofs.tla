------------------------- MODULE DecisionRunsProofs -------------------------
(***************************************************************************)
(* Theorems about DecisionRuns for every set of run keys, callers and       *)
(* previews, whichever callers may retry and whether or not calls die.      *)
(***************************************************************************)
EXTENDS DecisionRuns, TLAPS

USE DEF rows, subs, calls, vars

LEMMA EndsAreFinal ==
  ASSUME NEW s \in DOMAIN EndsOf, NEW end \in EndsOf[s]
  PROVE  end[1] \in Final \ {"trade"} /\ end[2] \in BOOLEAN
<1> DEFINE Ends == Skipped \cup Refused \cup Internal
                     \cup ({"no_trade", "blocked", "error"} \X BOOLEAN)
                     \cup ({"skipped", "blocked"} \X {FALSE})
                     \cup ({"skipped"} \X {FALSE}) \cup ({"blocked"} \X {FALSE})
<1>1. end \in Ends
  <2>1. CASE s = "claimed"
    BY <2>1 DEF EndsOf
  <2>2. CASE s = "snapshotting"
    BY <2>2 DEF EndsOf
  <2>3. CASE s = "deciding"
    BY <2>3 DEF EndsOf
  <2>4. CASE s = "validating"
    BY <2>4 DEF EndsOf
  <2>5. CASE s = "previewing"
    BY <2>5 DEF EndsOf
  <2>6. CASE s = "stored"
    BY <2>6 DEF EndsOf
  <2>7. CASE s = "submitting"
    BY <2>7 DEF EndsOf
  <2>8. CASE s = "conflict"
    BY <2>8 DEF EndsOf
  <2>9. CASE s = "sending"
    BY <2>9 DEF EndsOf
  <2>10. CASE s = "rejected"
    BY <2>10 DEF EndsOf
  <2>11. CASE s = "clashed"
    BY <2>11 DEF EndsOf
  <2> QED
    BY <2>1, <2>2, <2>3, <2>4, <2>5, <2>6, <2>7, <2>8, <2>9, <2>10, <2>11
    DEF EndsOf
<1>2. end[1] \in Final \ {"trade"}
  BY <1>1 DEF Skipped, Refused, Internal, Final
<1>3. end[2] \in BOOLEAN
  BY <1>1 DEF Skipped, Refused, Internal
<1> QED
  BY <1>2, <1>3

LEMMA AfterIsActive ==
  ASSUME NEW s \in DOMAIN After
  PROVE  After[s] \in Active /\ After[s] \in Driving
BY DEF After, Active, Driving

-----------------------------------------------------------------------------
\* The inductive invariant.  A call at work has a row; one past review has a
\* preview of its own; one past StorePreview has told the row; and the
\* submission follows the call that claimed it.

AtWork == \A c \in Callers : pc[c] # "idle" => run[c] \in RunKeys

InHand == {"reviewed", "stored", "submitting", "conflict", "sending",
           "rejected", "answered"}

OwnPreview ==
  /\ \A c \in Callers : mine[c] # None => mine[c] \in made
  /\ \A c, d \in Callers : mine[c] = mine[d] /\ mine[c] # None => c = d
  /\ \A c \in Callers : pc[c] \in InHand => mine[c] \in Previews

Unsent ==
  /\ \A p \in Previews \ made : subRun[p] = None
  /\ \A c \in Callers : pc[c] \in {"reviewed", "stored", "submitting"} =>
                          subRun[mine[c]] = None

RowKnows ==
  /\ \A c \in Callers : pc[c] \in {"stored", "submitting", "sending"} =>
                          rowPreview[run[c]] # None
  /\ \A p \in Previews : subRun[p] # None => rowPreview[subRun[p]] # None

SentByOne ==
  /\ \A c \in Callers : pc[c] \in {"sending", "answered", "rejected"} =>
                          subRun[mine[c]] = run[c]
  /\ \A c \in Callers : pc[c] = "sending" => subState[mine[c]] = "claimed"
  /\ \A c \in Callers : pc[c] = "answered" => subState[mine[c]] = "answered"

IInv == /\ TypeOK /\ AtWork /\ OwnPreview /\ Unsent /\ RowKnows /\ SentByOne
        /\ OneSubmissionPerRun /\ TradeHasOrder

LEMMA InvInit == Init => IInv
BY NoneIsFresh DEF Init, IInv, TypeOK, AtWork, OwnPreview, Unsent, RowKnows,
   SentByOne, OneSubmissionPerRun, TradeHasOrder, InHand, Steps, Driving, Active,
   Final

LEMMA AdoptFinds ==
  ASSUME AtWork, NEW c \in Callers, Adopt(c)
  PROVE  \E k \in RunKeys : MayResume(c, k) /\ run' = [run EXCEPT ![c] = k]
<1>1. run[c] \in RunKeys
  BY DEF AtWork, Adopt
<1>2. Found(run[c]) \subseteq RunKeys
  BY <1>1 DEF Found
<1> QED
  BY <1>2 DEF Adopt

-----------------------------------------------------------------------------
\* Types.

LEMMA TypeStep ==
  ASSUME TypeOK, AtWork, [Next]_vars
  PROVE  TypeOK'
<1> USE DEF TypeOK, Goto, Return
<1>1. ASSUME NEW c \in Callers, NEW k \in RunKeys, Start(c, k) PROVE TypeOK'
  BY <1>1 DEF Start, Steps
<1>2. ASSUME NEW c \in Callers, Claim(c) \/ Resume(c) PROVE TypeOK'
  BY <1>2 DEF Claim, Resume, Steps, Driving, Active
<1>3. ASSUME NEW c \in Callers, ClaimFails(c) PROVE TypeOK'
  BY <1>3 DEF ClaimFails, Steps
<1>4. ASSUME NEW c \in Callers, Suppress(c) \/ ResumeClashes(c) \/ Die(c)
      PROVE  TypeOK'
  BY <1>4 DEF Suppress, ResumeClashes, Die, Steps
<1>5. ASSUME NEW c \in Callers, Adopt(c) PROVE TypeOK'
  <2>1. PICK k \in RunKeys : run' = [run EXCEPT ![c] = k]
    BY <1>5, AdoptFinds
  <2> QED
    BY <1>5, <2>1 DEF Adopt, Steps
<1>6. ASSUME NEW c \in Callers, Advance(c) PROVE TypeOK'
  <2>1. After[pc[c]] \in Active /\ After[pc[c]] \in Driving
    BY <1>6, AfterIsActive DEF Advance
  <2> QED
    BY <1>6, <2>1 DEF Advance, Steps
<1>7. ASSUME NEW c \in Callers, AdvanceClashes(c) \/ SubmitConflicts(c)
      PROVE  TypeOK'
  BY <1>7 DEF AdvanceClashes, SubmitConflicts, Steps, Driving
<1>8. ASSUME NEW c \in Callers, Review(c) PROVE TypeOK'
  BY <1>8 DEF Review, Steps, Driving
<1>9. ASSUME NEW c \in Callers, StorePreview(c) PROVE TypeOK'
  BY <1>9 DEF StorePreview, Steps, Driving
<1>10. ASSUME NEW c \in Callers, SubmitClaims(c) PROVE TypeOK'
  BY <1>10 DEF SubmitClaims, Steps, Driving
<1>11. ASSUME NEW c \in Callers, SubmitReturns(c) \/ SubmitRejects(c)
       PROVE  TypeOK'
  BY <1>11 DEF SubmitReturns, SubmitRejects, Steps, Driving
<1>12. ASSUME NEW c \in Callers, FinishTrade(c) PROVE TypeOK'
  BY <1>12 DEF FinishTrade, Steps, Final
<1>13. ASSUME NEW c \in Callers, Finish(c) PROVE TypeOK'
  <2>1. PICK end \in EndsOf[pc[c]] :
          /\ state' = [state EXCEPT ![run[c]] = end[1]]
          /\ safe' = [safe EXCEPT ![run[c]] = end[2]]
    BY <1>13 DEF Finish
  <2>2. end[1] \in Final /\ end[2] \in BOOLEAN
    BY <1>13, EndsAreFinal DEF Finish
  <2> QED
    BY <1>13, <2>1, <2>2 DEF Finish, Steps
<1> QED
  BY <1>1, <1>2, <1>3, <1>4, <1>5, <1>6, <1>7, <1>8, <1>9, <1>10, <1>11, <1>12,
     <1>13 DEF Next, Work

-----------------------------------------------------------------------------
\* The inductive step, action by action.

LEMMA InvStep ==
  ASSUME IInv, [Next]_vars
  PROVE  IInv'
<1> USE NoneIsFresh DEF IInv, AtWork, OwnPreview, Unsent, RowKnows, SentByOne,
        OneSubmissionPerRun, TradeHasOrder, InHand
<1>0. TypeOK'
  BY TypeStep DEF IInv
<1> USE <1>0 DEF TypeOK
<1>1. ASSUME NEW c \in Callers, NEW k \in RunKeys, Start(c, k) PROVE IInv'
  BY <1>1 DEF Start, Goto
<1>2. ASSUME NEW c \in Callers, Claim(c) PROVE IInv'
  BY <1>2 DEF Claim, ClaimIsFree, Goto
<1>3. ASSUME NEW c \in Callers, ClaimFails(c) PROVE IInv'
  BY <1>3 DEF ClaimFails, Goto
<1>4. ASSUME NEW c \in Callers, Suppress(c) \/ ResumeClashes(c) \/ Die(c)
      PROVE  IInv'
  <2>1. /\ UNCHANGED <<state, rowPreview, made, subRun, subState>>
        /\ pc' = [pc EXCEPT ![c] = "idle"]
        /\ run' = [run EXCEPT ![c] = None]
        /\ mine' = [mine EXCEPT ![c] = None]
    BY <1>4 DEF Suppress, ResumeClashes, Die, Return, Goto
  <2> QED
    BY <2>1
<1>5. ASSUME NEW c \in Callers, Adopt(c) PROVE IInv'
  <2>1. PICK k \in RunKeys : run' = [run EXCEPT ![c] = k]
    BY <1>5, AdoptFinds
  <2> QED
    BY <1>5, <2>1 DEF Adopt, Goto
<1>6. ASSUME NEW c \in Callers, Resume(c) PROVE IInv'
  BY <1>6 DEF Resume, Goto
<1>7. ASSUME NEW c \in Callers, Advance(c) PROVE IInv'
  <2>1. After[pc[c]] \in Active /\ After[pc[c]] \in Driving
    BY <1>7, AfterIsActive DEF Advance
  <2>2. /\ After[pc[c]] \in InHand => pc[c] = "stored"
        /\ After[pc[c]] \notin {"reviewed", "stored", "sending", "answered",
                                "rejected", "idle", "trade"}
    BY <1>7 DEF Advance, After
  <2>3. CASE pc[c] = "stored"
    <3>1. After[pc[c]] = "submitting"
      BY <2>3 DEF After
    <3> QED
      BY <1>7, <2>3, <3>1 DEF Advance, Goto
  <2>4. CASE pc[c] # "stored"
    <3>1. After[pc[c]] \notin InHand
      BY <2>2, <2>4
    <3> QED
      BY <1>7, <2>2, <3>1 DEF Advance, Goto
  <2> QED
    BY <2>3, <2>4
<1>8. ASSUME NEW c \in Callers, AdvanceClashes(c) PROVE IInv'
  BY <1>8 DEF AdvanceClashes, After, Goto
<1>9. ASSUME NEW c \in Callers, Review(c) PROVE IInv'
  <2>1. PICK p \in Previews \ made : /\ made' = made \cup {p}
                                     /\ mine' = [mine EXCEPT ![c] = p]
    BY <1>9 DEF Review
  <2> QED
    BY <1>9, <2>1 DEF Review, Goto
<1>10. ASSUME NEW c \in Callers, StorePreview(c) PROVE IInv'
  BY <1>10 DEF StorePreview, Goto
<1>11. ASSUME NEW c \in Callers, SubmitClaims(c) PROVE IInv'
  BY <1>11 DEF SubmitClaims, KeyFree, Goto
<1>12. ASSUME NEW c \in Callers, SubmitConflicts(c) PROVE IInv'
  BY <1>12 DEF SubmitConflicts, Goto
<1>13. ASSUME NEW c \in Callers, SubmitReturns(c) \/ SubmitRejects(c)
       PROVE  IInv'
  BY <1>13 DEF SubmitReturns, SubmitRejects, Goto
<1>14. ASSUME NEW c \in Callers, FinishTrade(c) PROVE IInv'
  BY <1>14 DEF FinishTrade, Return, Goto
<1>15. ASSUME NEW c \in Callers, Finish(c) PROVE IInv'
  <2>1. PICK end \in EndsOf[pc[c]] : state' = [state EXCEPT ![run[c]] = end[1]]
    BY <1>15 DEF Finish
  <2>2. end[1] # "trade"
    BY <1>15, EndsAreFinal DEF Finish
  <2> QED
    BY <1>15, <2>1, <2>2 DEF Finish, Return, Goto
<1>16. CASE UNCHANGED vars
  BY <1>16
<1> QED
  BY <1>1, <1>2, <1>3, <1>4, <1>5, <1>6, <1>7, <1>8, <1>9, <1>10, <1>11, <1>12,
     <1>13, <1>14, <1>15, <1>16 DEF Next, Work

\* Every reachable state of the runner satisfies the inductive invariant.
THEOREM RunInvariant == Spec => []IInv
BY InvInit, InvStep, PTL DEF Spec

\* Every variable of the runner keeps its type.
THEOREM RunTypes == Spec => []TypeOK
<1>1. IInv => TypeOK
  BY DEF IInv
<1> QED
  BY <1>1, RunInvariant, PTL

\* However often a run is resumed, and by however many calls at once, at most one
\* of its previews is ever sent (runner.run with allow_safe_retry, and the
\* UNIQUE idempotency key of claim_submission).
THEOREM RunSendsOnce == Spec => []OneSubmissionPerRun
<1>1. IInv => OneSubmissionPerRun
  BY DEF IInv
<1> QED
  BY <1>1, RunInvariant, PTL

\* A run that reports TRADE has an answered submission of its own.
THEOREM TradeIsBacked == Spec => []TradeHasOrder
<1>1. IInv => TradeHasOrder
  BY DEF IInv
<1> QED
  BY <1>1, RunInvariant, PTL

\* No call decides to retry a run that has sent an order: the submission's run
\* has a preview_id (RowKnows), and the retry conditions of run reject such a row.
THEOREM SentIsNotRetried == Spec => NoRetryAfterSend
<1> DEFINE NoRetry == \A c \in Callers :
                        pc[c] = "lookup" /\ pc'[c] = "retry" =>
                          \A p \in Previews : subRun[p] # run'[c]
<1>1. ASSUME IInv, Next, NEW c \in Callers, pc[c] = "lookup", pc'[c] = "retry",
             NEW p \in Previews
      PROVE  subRun[p] # run'[c]
  <2>1. Adopt(c)
    <3>1. PICK d \in Callers : Work(d) \/ Die(d) \/ \E k \in RunKeys : Start(d, k)
      BY <1>1 DEF Next
    <3>2. c = d
      <4>1. pc' = [pc EXCEPT ![d] = pc'[d]]
        BY <1>1, <3>1 DEF Work, Claim, ClaimFails, Suppress, Adopt, Resume,
           ResumeClashes, Advance, AdvanceClashes, Review, StorePreview,
           SubmitClaims, SubmitConflicts, SubmitReturns, SubmitRejects,
           FinishTrade, Finish, Die, Start, Goto, Return, IInv, TypeOK
      <4> QED
        BY <1>1, <4>1 DEF IInv, TypeOK
    <3>3. "lookup" \notin DOMAIN After /\ "lookup" \notin DOMAIN EndsOf
      BY DEF After, EndsOf
    <3> QED
      BY <1>1, <3>1, <3>2, <3>3 DEF Work, Claim, ClaimFails, Suppress, Adopt,
         Resume, ResumeClashes, Advance, AdvanceClashes, Review, StorePreview,
         SubmitClaims, SubmitConflicts, SubmitReturns, SubmitRejects,
         FinishTrade, Finish, Die, Start, Goto, Return, IInv, TypeOK
  <2>2. PICK k \in RunKeys : /\ MayResume(c, k)
                             /\ run' = [run EXCEPT ![c] = k]
    BY <1>1, <2>1, AdoptFinds DEF IInv
  <2>3. rowPreview[k] = None /\ run'[c] = k
    BY <1>1, <2>2 DEF MayResume, IInv, TypeOK
  <2> QED
    BY <1>1, <2>3, NoneIsFresh DEF IInv, RowKnows
<1>2. IInv /\ [Next]_vars => [NoRetry]_vars
  BY <1>1
<1> QED
  BY <1>2, RunInvariant, PTL DEF Spec, NoRetryAfterSend
=============================================================================
