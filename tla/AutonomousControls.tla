------------------------- MODULE AutonomousControls -------------------------
(***************************************************************************)
(* The owner's switches and the runs they govern: autonomous_controls of   *)
(* storage/execution.py, the start, stop and emergency stop of             *)
(* services/autonomous/control.py and mcp/tools.py, the controls of        *)
(* api/routes/platform.py, and every point where runner.py and             *)
(* execution.py read the switches before a run of DecisionRuns goes on.    *)
(*                                                                         *)
(* A handler of the API process runs to its end without an await, beside   *)
(* the runs of the scheduler's process; its own runs are Callers too.      *)
(* live_autonomous_enabled starts nothing: live execution is not           *)
(* implemented.  DecisionRuns models the rest of a run.                    *)
(***************************************************************************)
EXTENDS DecisionRuns

VARIABLES
  controls,   \* exists: is the row there?  kill, demo: what it says, or would
              \* be made with
  looks,      \* looks[c]: how often c saw autonomy on since its last write
  ordered,    \* the previews whose order was posted to the broker
  barred      \* history: calls that autonomy, off since, has stopped

cvars == <<vars, controls, looks, ordered, barred>>

\* The reads of the switches before a call leaves a step: _blocking_reasons of
\* the runner, and those of snapshot, review and submit after an await.
SlipOneLook ==   \* a slip: submit does not read them after its claim
  [claimed |-> 1, snapshotting |-> 1, previewing |-> 2, stored |-> 1, sending |-> 0]
Needs ==
  [claimed |-> 1, snapshotting |-> 1, previewing |-> 2, stored |-> 1, sending |-> 2]

On == controls.exists /\ controls.demo /\ ~controls.kill
Passed(c) == pc[c] \in DOMAIN Needs => looks[c] >= Needs[pc[c]]
Cleared(c) == pc[c] = "sending" /\ Passed(c)

\* The row is made by its first reader, from the settings and the armed profiles.
ControlledInit ==
  /\ Init
  /\ controls \in [exists : {FALSE}, kill : BOOLEAN, demo : BOOLEAN]
  /\ looks = [c \in Callers |-> 0]
  /\ ordered = {}
  /\ barred = Callers
-----------------------------------------------------------------------------
\* The handlers.
Writes(kill, demo) == controls' = [exists |-> TRUE, kill |-> kill, demo |-> demo]

EnsureControls == ~controls.exists /\ controls' = [controls EXCEPT !.exists = TRUE]

PatchControls ==
  \E kill, demo \in BOOLEAN : <<kill, demo>> # <<controls.kill, controls.demo>> /\ Writes(kill, demo)

Stop == Writes(controls.kill, FALSE)
EmergencyStop == Writes(TRUE, controls.demo)

\* enable_kill_switch writes the switch of operational_controls first, which only
\* a row still to be made looks at: a crash after that write keeps it there, and
\* loses it where the row is.
EnableKillSwitch == Writes(TRUE, controls.demo)
EnableCrashes ==
  ~controls.exists /\ controls' = [controls EXCEPT !.kill = TRUE]

Handler ==
  /\ EnsureControls \/ PatchControls \/ Stop \/ EmergencyStop
     \/ EnableKillSwitch \/ EnableCrashes
  /\ UNCHANGED <<vars, looks, ordered>>

\* start, once its account, profile, decision engine and worker pass, with the
\* immediate run that it awaits, a call that never resumes one.
StartAutonomy ==
  /\ Writes(FALSE, TRUE)
  /\ \/ UNCHANGED vars
     \/ \E c \in Callers \ Schedulers, k \in RunKeys : Start(c, k)
  /\ UNCHANGED <<looks, ordered>>
-----------------------------------------------------------------------------
\* The runs.
Look(c) ==
  /\ On /\ ~Passed(c)
  /\ looks' = [looks EXCEPT ![c] = @ + 1]
  /\ UNCHANGED <<vars, controls, ordered>>

\* place_order, after the last look of submit.
Post(c) ==
  /\ Cleared(c) /\ mine[c] \notin ordered
  /\ ordered' = ordered \cup {mine[c]}
  /\ UNCHANGED <<vars, controls, looks>>

\* A call that has not seen autonomy on can only give up.
GatedWork(c) ==
  /\ Work(c)
  /\ Passed(c) \/ pc'[c] \in {"idle", "rejected"}
  /\ pc'[c] = "answered" /\ pc[c] = "sending" => mine[c] \in ordered
  /\ looks' = [looks EXCEPT ![c] = 0]
  /\ UNCHANGED <<controls, ordered>>

Call(c) ==
  \/ Look(c) \/ Post(c) \/ GatedWork(c)
  \/ /\ Die(c) \/ \E k \in RunKeys : Start(c, k)
     /\ looks' = [looks EXCEPT ![c] = 0]
     /\ UNCHANGED <<controls, ordered>>

ControlledNext ==
  /\ Handler \/ StartAutonomy \/ \E c \in Callers : Call(c)
  /\ barred' = IF On' THEN {} ELSE barred \cup {c \in Callers : ~Cleared(c)'}

ControlledSpec == ControlledInit /\ [][ControlledNext]_cvars
-----------------------------------------------------------------------------
ControlsTypeOK ==
  /\ TypeOK
  /\ controls \in [exists : BOOLEAN, kill : BOOLEAN, demo : BOOLEAN]
  /\ looks \in [Callers -> 0..2]
  /\ ordered \subseteq Previews
  /\ barred \subseteq Callers

\* docs/tradelocker-multi-account.md:64, "blocks new entry snapshots, previews,
\* and submissions": from the moment autonomy is off, whichever switch did it
\* and in whichever process, no call posts an order but the ones past the last
\* look of submit, and a call that begins or goes on later posts none until
\* autonomy is on again.
StoppedOrdersNothing ==
  [][\A p \in ordered' \ ordered : \E c \in Callers \ barred : mine[c] = p]_cvars
=============================================================================
