---------------------- MODULE AutonomousControlsProofs ----------------------
(***************************************************************************)
(* AutonomousControls implements DecisionRuns, so what DecisionRunsProofs  *)
(* shows of the runs holds of the governed runs too, and what the switches *)
(* stop stays stopped.                                                     *)
(***************************************************************************)
EXTENDS AutonomousControls, DecisionRunsProofs

USE DEF rows, subs, calls, vars

\* Every step of the governed runs is a step of the runs, or leaves them alone.
LEMMA StepsAreRunSteps ==
  ASSUME [ControlledNext]_cvars PROVE [Next]_vars
<1>1. CASE UNCHANGED cvars BY <1>1 DEF cvars
<1>2. CASE Handler BY <1>2 DEF Handler
<1>3. CASE StartAutonomy BY <1>3, SchedulersCall DEF StartAutonomy, Next
<1>4. ASSUME NEW c \in Callers, Call(c) PROVE [Next]_vars
  <2>1. CASE Look(c) BY <2>1 DEF Look
  <2>2. CASE Post(c) BY <2>2 DEF Post
  <2>3. CASE GatedWork(c) BY <2>3 DEF GatedWork, Next
  <2>4. CASE Die(c) \/ \E k \in RunKeys : Start(c, k) BY <2>4 DEF Next
  <2> QED BY <1>4, <2>1, <2>2, <2>3, <2>4 DEF Call
<1> QED BY <1>1, <1>2, <1>3, <1>4 DEF ControlledNext

\* The runs under the switches are runs of DecisionRuns: the switches and the
\* looks of the calls take behaviours away and add none.
THEOREM ControlledRefines == ControlledSpec => Spec
<1>1. ControlledInit => Init BY DEF ControlledInit
<1>2. [ControlledNext]_cvars => [Next]_vars BY StepsAreRunSteps
<1> QED BY <1>1, <1>2, PTL DEF ControlledSpec, Spec

\* Under the switches too, a run is submitted at most once.
THEOREM ControlledSendsOnce == ControlledSpec => []OneSubmissionPerRun
BY ControlledRefines, RunSendsOnce, PTL

Looks ==
  /\ controls \in [exists : BOOLEAN, kill : BOOLEAN, demo : BOOLEAN]
  /\ looks \in [Callers -> 0..2]
  /\ ordered \subseteq Previews
  /\ barred \subseteq Callers

\* The strengthening of StoppedOrdersNothing: no call that was stopped is past
\* the last look of submit, since a look needs autonomy on, which empties barred.
StoppedInv == Looks /\ \A c \in barred : ~Cleared(c)

LEMMA StoppedInit == ASSUME ControlledInit PROVE StoppedInv
<1> USE DEF ControlledInit
<1>a. controls \in [exists : BOOLEAN, kill : BOOLEAN, demo : BOOLEAN]
  <2>1. PICK k, d \in BOOLEAN : controls = [exists |-> FALSE, kill |-> k, demo |-> d]
    OBVIOUS
  <2> QED BY <2>1
<1>b. looks \in [Callers -> 0..2]
  <2>1. 0 \in 0..2 OBVIOUS
  <2> QED BY <2>1
<1>1. Looks BY <1>a, <1>b DEF Looks
<1>2. ASSUME NEW c \in Callers PROVE ~Cleared(c)
  BY DEF ControlledInit, Init, Cleared
<1> QED BY <1>1, <1>2 DEF StoppedInv, Looks

LEMMA NeedsAreFew ==
  /\ DOMAIN Needs = {"claimed", "snapshotting", "previewing", "stored", "sending"}
  /\ \A s \in DOMAIN Needs : Needs[s] \in 1..2
  /\ Needs["sending"] = 2
BY DEF Needs

LEMMA LooksStep ==
  ASSUME IInv, Looks, ControlledNext PROVE Looks'
<1>1. barred' \subseteq Callers BY DEF ControlledNext, Looks
<1>2. CASE Handler
  <2>1. controls' \in [exists : BOOLEAN, kill : BOOLEAN, demo : BOOLEAN]
    <3>1. CASE PatchControls
      <4>1. PICK k, d \in BOOLEAN : Writes(k, d) BY <3>1 DEF PatchControls
      <4> QED BY <4>1 DEF Writes
    <3>2. CASE Stop BY <3>2 DEF Stop, Writes, Looks
    <3>3. CASE EmergencyStop \/ EnableKillSwitch
      <4>1. controls.demo \in BOOLEAN BY DEF Looks
      <4>2. controls' = [exists |-> TRUE, kill |-> TRUE, demo |-> controls.demo]
        BY <3>3 DEF EmergencyStop, EnableKillSwitch, Writes
      <4> QED BY <4>1, <4>2
    <3>4. CASE EnsureControls \/ EnableCrashes
      BY <3>4 DEF EnsureControls, EnableCrashes, Looks
    <3> QED BY <1>2, <3>1, <3>2, <3>3, <3>4 DEF Handler
  <2> QED BY <1>1, <1>2, <2>1 DEF Handler, Looks
<1>3. CASE StartAutonomy BY <1>1, <1>3 DEF StartAutonomy, Looks, Writes
<1>4. ASSUME NEW c \in Callers, Call(c) PROVE Looks'
  <2>1. CASE Look(c)
    <3>1. looks[c] + 1 \in 0..2
      BY <2>1, NeedsAreFew DEF Look, Passed, Looks
    <3> QED BY <1>1, <2>1, <3>1 DEF Look, Looks
  <2>2. CASE Post(c)
    <3>1. mine[c] \in Previews
      BY <2>2 DEF Post, Cleared, IInv, OwnPreview, InHand
    <3> QED BY <1>1, <2>2, <3>1 DEF Post, Looks
  <2>3. CASE GatedWork(c) BY <1>1, <2>3 DEF GatedWork, Looks
  <2>4. CASE /\ Die(c) \/ \E k \in RunKeys : Start(c, k)
             /\ looks' = [looks EXCEPT ![c] = 0]
             /\ UNCHANGED <<controls, ordered>>
    BY <1>1, <2>4 DEF Looks
  <2> QED BY <1>4, <2>1, <2>2, <2>3, <2>4 DEF Call
<1> QED BY <1>2, <1>3, <1>4 DEF ControlledNext

\* A step of one call leaves the step of the others.
LEMMA OthersStand ==
  ASSUME TypeOK, NEW c \in Callers, NEW d \in Callers, c # d,
         Work(d) \/ Die(d) \/ \E k \in RunKeys : Start(d, k)
  PROVE  pc'[c] = pc[c]
BY DEF TypeOK, Work, Die, Start, Goto, Return, Claim, ClaimFails, Suppress, Adopt, Resume, ResumeClashes,
  Advance, AdvanceClashes, Review, StorePreview, SubmitClaims, SubmitConflicts, SubmitReturns,
  SubmitRejects, FinishTrade, Finish

\* A call is past the last look only by a look, which needs autonomy on.
LEMMA StoppedStep ==
  ASSUME IInv, StoppedInv, [ControlledNext]_cvars PROVE StoppedInv'
<1>1. CASE UNCHANGED cvars
  BY <1>1 DEF StoppedInv, Looks, Cleared, Passed, cvars
<1> SUFFICES ASSUME ControlledNext PROVE StoppedInv'
  BY <1>1
<1>2. Looks' BY LooksStep DEF StoppedInv
<1>3. ASSUME NEW c \in barred' PROVE ~Cleared(c)'
  <2>1. CASE On' BY <1>3, <2>1 DEF ControlledNext
  <2> SUFFICES ASSUME ~On' PROVE ~Cleared(c)'
    BY <2>1
  <2>2. c \in Callers BY <1>2, <1>3 DEF Looks
  <2>3. CASE c \notin barred BY <1>3, <2>3 DEF ControlledNext
  <2> SUFFICES ASSUME c \in barred PROVE ~Cleared(c)'
    BY <2>3
  <2>4. ~Cleared(c) BY DEF StoppedInv
  <2>5. CASE Handler BY <2>4, <2>5 DEF Handler, Cleared, Passed
  <2>6. CASE StartAutonomy BY <2>6 DEF StartAutonomy, Writes, On
  <2>7. ASSUME NEW d \in Callers, Call(d) PROVE ~Cleared(c)'
    <3>1. CASE Look(d) BY <3>1 DEF Look, On
    <3>2. CASE Post(d) BY <2>4, <3>2 DEF Post, Cleared, Passed
    <3>3. ASSUME looks' = [looks EXCEPT ![d] = 0], [Next]_vars,
                 Work(d) \/ Die(d) \/ \E k \in RunKeys : Start(d, k)
          PROVE  ~Cleared(c)'
      <4>1. CASE c = d
        <5>1. looks'[c] = 0 BY <2>2, <3>3, <4>1 DEF StoppedInv, Looks
        <5> QED BY <5>1, NeedsAreFew DEF Cleared, Passed
      <4>2. CASE c # d
        <5>1. looks'[c] = looks[c] BY <2>2, <3>3, <4>2 DEF StoppedInv, Looks
        <5>2. pc'[c] = pc[c]
          BY <2>2, <3>3, <4>2, OthersStand DEF IInv
        <5> QED BY <2>4, <5>1, <5>2 DEF Cleared, Passed
      <4> QED BY <4>1, <4>2
    <3>4. CASE GatedWork(d) BY <3>3, <3>4 DEF GatedWork, Next
    <3>5. CASE /\ Die(d) \/ \E k \in RunKeys : Start(d, k)
               /\ looks' = [looks EXCEPT ![d] = 0]
               /\ UNCHANGED <<controls, ordered>>
      BY <3>3, <3>5 DEF Next
    <3> QED BY <2>7, <3>1, <3>2, <3>4, <3>5 DEF Call
  <2> QED BY <2>5, <2>6, <2>7 DEF ControlledNext
<1> QED BY <1>2, <1>3 DEF StoppedInv

\* In every reachable state a call that a stop has barred is not past the last
\* look of submit.
THEOREM ControlledInvariant == ControlledSpec => []StoppedInv
<1>1. ControlledSpec => []IInv BY ControlledRefines, RunInvariant, PTL
<1>2. ControlledInit => StoppedInv BY StoppedInit
<1>3. IInv /\ StoppedInv /\ [ControlledNext]_cvars => StoppedInv'
  BY StoppedStep
<1> QED BY <1>1, <1>2, <1>3, PTL DEF ControlledSpec

\* Every variable of the governed runs keeps its type.
THEOREM ControlledTypes == ControlledSpec => []ControlsTypeOK
<1>1. ControlledSpec => []TypeOK BY ControlledRefines, RunTypes, PTL
<1>2. StoppedInv /\ TypeOK => ControlsTypeOK
  BY DEF StoppedInv, Looks, ControlsTypeOK
<1> QED BY <1>1, <1>2, ControlledInvariant, PTL

\* From the moment autonomy is off, only a call past the last look of submit
\* posts an order, until it is on again.
THEOREM StoppedStays == ControlledSpec => StoppedOrdersNothing
<1>1. StoppedInv /\ [ControlledNext]_cvars =>
        [\A p \in ordered' \ ordered : \E c \in Callers \ barred : mine[c] = p]_cvars
  <2> SUFFICES ASSUME StoppedInv, ControlledNext, NEW p \in ordered' \ ordered
               PROVE  \E c \in Callers \ barred : mine[c] = p
    BY DEF cvars
  <2>1. PICK c \in Callers : Post(c)
    BY DEF ControlledNext, Handler, StartAutonomy, Call, Look, GatedWork
  <2> QED BY <2>1 DEF Post, StoppedInv
<1> QED BY <1>1, ControlledInvariant, PTL DEF ControlledSpec, StoppedOrdersNothing
=============================================================================
