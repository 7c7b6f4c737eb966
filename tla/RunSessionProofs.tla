-------------------------- MODULE RunSessionProofs --------------------------
(***************************************************************************)
(* Theorems of RunSession, for any number of runs, budgets and             *)
(* disturbances: types, ended runs stay ended, budgets hold; and, when a   *)
(* run is ended from one place at a time, the slot names the run that      *)
(* works on the issue and the runs implement OneRunPerIssue.               *)
(***************************************************************************)
EXTENDS RunSession, TLAPS

----------------------------------------------------------------------------
\* Types

Lease == [owner : {"none", "self", "other"}, by : {"nobody", "launch", "pass"},
          age : {"fresh", "silent", "expired"}]
Issue == [slot : Runs \cup {NoRun}, task : RunTypes \cup {NoTask}, open : BOOLEAN,
          zombie : Nat, attempts : [RepairTypes -> Nat]]
Statuses == {"absent", "ended"} \cup LiveStatus
Await == [pc : Awaits, run : Runs \cup {NoRun}, current : BOOLEAN,
          phase : {"claimed", "thread", "turn"}, took : BOOLEAN]
Launch == [pc : {"idle", "classifying", "admitting", "preparing", "threading", "starting"},
           run : Runs \cup {NoRun}, kind : RunTypes \cup {NoTask},
           spent : SUBSET RepairTypes, strayed : BOOLEAN]

\* TypeOK alone is not inductive: what a handler or the pass is busy with is a
\* run, whose type becomes the issue's task again, and what is admitted is a task.
WellFormed ==
  /\ TypeOK
  /\ \A c \in Runs \cup {Pass} : job[c].pc # "idle" => job[c].run \in Runs
  /\ launch.pc = "admitting" => launch.kind \in RunTypes

\* The parts of WellFormed that a step changes together.
RowsOK == issue \in Issue /\ status \in [Runs -> Statuses]
JobsOK ==
  /\ job \in [Callers -> Await]
  /\ \A c \in Runs \cup {Pass} : job[c].pc # "idle" => job[c].run \in Runs
LaunchOK ==
  /\ launch \in Launch
  /\ launch.pc = "admitting" => launch.kind \in RunTypes
RestOK ==
  /\ lease \in Lease
  /\ kind \in [Runs -> RunTypes]
  /\ phase \in [Runs -> {"claimed", "thread", "turn"}]
  /\ turn \in [Runs -> {"none", "running", "completed", "failed", "limited", "interrupted"}]
  /\ note \subseteq Runs
  /\ queued \in BOOLEAN
  /\ deeds \in 0..MaxDeeds

LEMMA Parts == WellFormed <=> RowsOK /\ JobsOK /\ LaunchOK /\ RestOK
BY DEF WellFormed, TypeOK, RowsOK, JobsOK, LaunchOK, RestOK, Issue, Statuses, Await, Launch, Lease

LEMMA PartsNext == WellFormed' <=> RowsOK' /\ JobsOK' /\ LaunchOK' /\ RestOK'
BY DEF WellFormed, TypeOK, RowsOK, JobsOK, LaunchOK, RestOK, Issue, Statuses, Await, Launch, Lease

LEMMA NoTaskIsNone == NoTask \notin RunTypes
BY RunSessionAssumption DEF RunTypes

LEMMA LeaseTypes ==
  ASSUME RestOK
  PROVE  NoLease \in Lease /\ Released \in Lease /\ Renewed \in Lease
         /\ Taken("launch") \in Lease /\ Taken("pass") \in Lease
BY DEF RestOK, Lease, NoLease, Released, Renewed, Taken

\* What a step that launches nothing may make of the issue row: no attempt is
\* spent, and no recovery beyond the budget.
Cheap(i) ==
  /\ i.zombie <= issue.zombie \/ i.zombie <= ZombieBudget
  /\ \A k \in RepairTypes : i.attempts[k] <= issue.attempts[k]

Row(i, slot) == i \in Issue /\ Cheap(i) /\ i.slot = slot

LEMMA SameRow ==
  ASSUME RowsOK
  PROVE  Row(issue, issue.slot) /\ issue.slot \in Runs \cup {NoRun}
         /\ issue.task \in RunTypes \cup {NoTask}
BY RunSessionAssumption DEF RowsOK, Issue, Row, Cheap

\* Writing slot, task and input request.
LEMMA EditedRow ==
  ASSUME RowsOK, NEW slot, NEW i, Row(i, slot), NEW s \in Runs \cup {NoRun}, NEW open \in BOOLEAN,
         NEW task \in RunTypes \cup {NoTask}
  PROVE  /\ Row([i EXCEPT !.slot = s], s)
         /\ Row([i EXCEPT !.open = open], slot)
         /\ Row([i EXCEPT !.task = task], slot)
         /\ Row([i EXCEPT !.slot = s, !.open = open], s)
         /\ Row([i EXCEPT !.slot = s, !.task = task], s)
         /\ Row([i EXCEPT !.slot = s, !.open = open, !.task = task], s)
         /\ Row([i EXCEPT !.slot = s, !.task = task, !.open = open], s)
BY DEF Row, Issue, Cheap

\* An attempt is given back; the rest of the row stays.
LEMMA RefundedRow ==
  ASSUME RowsOK, NEW k
  PROVE  Row(Refunded(issue, k), issue.slot)
<1>1. issue \in Issue /\ Row(issue, issue.slot)
  BY SameRow DEF RowsOK
<1>2. CASE k \in RepairTypes /\ issue.attempts[k] > 0
  <2> DEFINE a == [issue.attempts EXCEPT ![k] = @ - 1]
  <2>1. issue.attempts \in [RepairTypes -> Nat]
    BY <1>1 DEF Issue
  <2>2. a \in [RepairTypes -> Nat] /\ \A t \in RepairTypes : a[t] <= issue.attempts[t]
    BY <1>2, <2>1
  <2>3. Refunded(issue, k) = [issue EXCEPT !.attempts = a]
    BY <1>2 DEF Refunded
  <2> HIDE DEF a
  <2> QED BY <1>1, <2>2, <2>3 DEF Issue, Row, Cheap
<1>3. CASE ~(k \in RepairTypes /\ issue.attempts[k] > 0)
  BY <1>1, <1>3 DEF Refunded
<1> QED BY <1>2, <1>3

\* The slot is cleared when it is the run's, and the row written with it.
LEMMA FreedRow ==
  ASSUME RowsOK, NEW r, NEW i, Row(i, issue.slot)
  PROVE  Row(Freed(r, i), IF issue.slot = r THEN NoRun ELSE issue.slot)
<1>1. CASE issue.slot = r
  BY <1>1 DEF Row, Issue, Cheap, Freed
<1>2. CASE issue.slot # r
  BY <1>2, SameRow DEF Freed
<1> QED BY <1>1, <1>2

\* A recovery writes the task and the counter, and leaves the slot.
LEMMA RecoveredRow ==
  ASSUME RowsOK, NEW slot, NEW i, Row(i, slot), NEW k \in RunTypes, NEW j \in Recoveries(i, k)
  PROVE  Row(j, slot)
<1> DEFINE again == [i EXCEPT !.open = TRUE, !.task = k]
<1>1. /\ i \in Issue /\ Cheap(i) /\ i.slot = slot
      /\ i.zombie \in Nat /\ ZombieBudget \in Nat /\ issue.zombie \in Nat
  BY RunSessionAssumption DEF Row, Issue, RowsOK
<1>2. \/ j = [i EXCEPT !.open = FALSE]
      \/ j = [i EXCEPT !.open = FALSE, !.zombie = 0]
      \/ j = again
      \/ i.zombie + 1 <= ZombieBudget /\ j = [again EXCEPT !.zombie = @ + 1]
  BY <1>1 DEF Recoveries
<1>3. CASE j = [i EXCEPT !.open = FALSE]
  BY <1>3, EditedRow
<1>4. CASE j = [i EXCEPT !.open = FALSE, !.zombie = 0]
  <2>1. j \in Issue /\ j.slot = i.slot /\ j.attempts = i.attempts /\ j.zombie = 0
    BY <1>1, <1>4 DEF Issue
  <2> QED BY <1>1, <2>1 DEF Row, Cheap
<1>5. /\ again \in Issue /\ again.slot = i.slot /\ again.attempts = i.attempts
      /\ again.zombie = i.zombie
  BY <1>1 DEF Issue
<1>6. CASE j = again
  BY <1>1, <1>5, <1>6 DEF Row, Cheap
<1>7. CASE i.zombie + 1 <= ZombieBudget /\ j = [again EXCEPT !.zombie = @ + 1]
  <2> HIDE DEF again
  <2>1. j \in Issue /\ j.slot = i.slot /\ j.attempts = i.attempts /\ j.zombie = i.zombie + 1
    BY <1>1, <1>5, <1>7 DEF Issue
  <2> QED BY <1>1, <1>7, <2>1 DEF Row, Cheap
<1> QED BY <1>2, <1>3, <1>4, <1>6, <1>7

LEMMA StatusTypes ==
  ASSUME RowsOK, NEW r
  PROVE  Finished(r) \in [Runs -> Statuses] /\ Settled(r) \in [Runs -> Statuses]
BY DEF RowsOK, Finished, Settled, Statuses

\* Whoever is in an await may learn that the row was written.
LEMMA CurrentType ==
  ASSUME NEW x \in Await, NEW unwritten
  PROVE  LET y == [x EXCEPT !.current = @ /\ unwritten] IN
         y \in Await /\ y.pc = x.pc /\ y.run = x.run
<1> DEFINE b == x.current /\ unwritten
<1>1. b \in BOOLEAN
  OBVIOUS
<1> HIDE DEF b
<1>2. LET y == [x EXCEPT !.current = b] IN y \in Await /\ y.pc = x.pc /\ y.run = x.run
  BY <1>1 DEF Await
<1> QED BY <1>2 DEF b

\* A call goes on to its next await, and the others learn of the write.
LEMMA GoesTypes ==
  ASSUME JobsOK, NEW c \in Callers, NEW a \in Await, job' = Goes(c, a),
         c # Operator /\ a.pc # "idle" => a.run \in Runs
  PROVE  /\ JobsOK'
         /\ job'[c].pc = a.pc /\ job'[c].run = a.run
         /\ \A d \in Callers \ {c} : job'[d].pc = job[d].pc /\ job'[d].run = job[d].run
<1>1. \A d \in Callers : job'[d] = [(IF d = c THEN a ELSE job[d]) EXCEPT !.current = @ /\ issue' = issue]
  BY DEF Goes, Touched, JobsOK
<1>2. job' = [d \in Callers |-> job'[d]]
  BY DEF Goes, Touched
<1>3. \A d \in Callers : /\ job'[d] \in Await
                          /\ job'[d].pc = (IF d = c THEN a ELSE job[d]).pc
                          /\ job'[d].run = (IF d = c THEN a ELSE job[d]).run
  <2> SUFFICES ASSUME NEW d \in Callers
               PROVE /\ job'[d] \in Await
                     /\ job'[d].pc = (IF d = c THEN a ELSE job[d]).pc
                     /\ job'[d].run = (IF d = c THEN a ELSE job[d]).run
    OBVIOUS
  <2>1. (IF d = c THEN a ELSE job[d]) \in Await
    BY DEF JobsOK
  <2> QED BY <1>1, <2>1, CurrentType
<1>4. job' \in [Callers -> Await]
  BY <1>2, <1>3
<1>5. /\ job'[c].pc = a.pc /\ job'[c].run = a.run
      /\ \A d \in Callers \ {c} : job'[d].pc = job[d].pc /\ job'[d].run = job[d].run
  BY <1>3
<1> QED BY <1>4, <1>5, RunSessionAssumption DEF JobsOK, Callers

LEMMA TouchedTypes ==
  ASSUME JobsOK, job' = Touched(job)
  PROVE  JobsOK' /\ \A d \in Callers : job'[d].pc = job[d].pc /\ job'[d].run = job[d].run
<1>1. \A d \in Callers : job'[d] = [job[d] EXCEPT !.current = @ /\ issue' = issue]
  BY DEF Touched, JobsOK
<1>2. job' = [d \in Callers |-> job'[d]]
  BY DEF Touched
<1>3. \A d \in Callers : job'[d] \in Await /\ job'[d].pc = job[d].pc /\ job'[d].run = job[d].run
  <2> SUFFICES ASSUME NEW d \in Callers
               PROVE  job'[d] \in Await /\ job'[d].pc = job[d].pc /\ job'[d].run = job[d].run
    OBVIOUS
  <2>1. job[d] \in Await
    BY DEF JobsOK
  <2> QED BY <1>1, <2>1, CurrentType
<1>4. job' \in [Callers -> Await]
  BY <1>2, <1>3
<1> QED BY <1>3, <1>4 DEF JobsOK, Callers

\* The same where no row is written.
LEMMA SetTypes ==
  ASSUME JobsOK, NEW c \in Callers, NEW a \in Await, job' = [job EXCEPT ![c] = a],
         c # Operator /\ a.pc # "idle" => a.run \in Runs
  PROVE  /\ JobsOK'
         /\ job'[c].pc = a.pc /\ job'[c].run = a.run
         /\ \A d \in Callers \ {c} : job'[d].pc = job[d].pc /\ job'[d].run = job[d].run
BY RunSessionAssumption DEF JobsOK, Callers

LEMMA AwaitTypes ==
  ASSUME NEW r \in Runs \cup {NoRun}, NEW pc \in Awaits
  PROVE  Idle \in Await /\ At(pc, r) \in Await /\ At(pc, r).pc = pc /\ At(pc, r).run = r
         /\ Idle.pc = "idle"
BY DEF Idle, At, Await, Awaits

----------------------------------------------------------------------------
\* What the steps do to the runs and to the issue row

\* The run a handler or the pass deals with, and what it was launched for.
LEMMA CallerRun ==
  ASSUME WellFormed, NEW c \in Runs \cup {Pass}, job[c].pc # "idle"
  PROVE  job[c].run \in Runs /\ kind[job[c].run] \in RunTypes
BY Parts DEF WellFormed, RestOK

Resting == status' = status /\ Row(issue', issue.slot)

\* settleRun: the slot is cleared if it is the run's.
Ending(r) ==
  /\ status' \in {Finished(r), Settled(r)}
  /\ Row(issue', IF issue.slot = r THEN NoRun ELSE issue.slot)

\* The run ends and the slot is cleared, whatever it holds.
Clearing(r) == status' = Finished(r) /\ Row(issue', NoRun)

LEMMA EffectTypes ==
  ASSUME RowsOK, NEW r, Resting \/ Ending(r) \/ Clearing(r)
  PROVE  RowsOK'
BY StatusTypes DEF Resting, Ending, Clearing, Row, RowsOK

LEMMA RestingStep ==
  ASSUME RowsOK, UNCHANGED <<status, issue>>
  PROVE  Resting
BY SameRow DEF Resting

LEMMA FinishEffects ==
  ASSUME WellFormed, NEW c \in Runs \cup {Pass}, Finishing(c)
  PROVE  /\ job[c].pc \in {"reading", "failing", "finalizing"}
         /\ Resting \/ Ending(job[c].run) \/ Clearing(job[c].run)
<1> DEFINE r == job[c].run
           i == Refunded(issue, kind[r])
<1>1. RowsOK
  BY Parts
<1>2. job[c].pc \in {"reading", "failing", "finalizing"}
  BY DEF Finishing, DeferLimited, Suppress, ContinueDirty, Verify, CheckCompletion,
         Complete, FailVerification, Reads
<1>3. r \in Runs /\ kind[r] \in RunTypes
  BY <1>2, CallerRun
<1>4. Row(issue, issue.slot) /\ issue.slot \in Runs \cup {NoRun} /\ issue.task \in RunTypes \cup {NoTask}
  BY <1>1, SameRow
<1>5. Row(i, issue.slot)
  BY <1>1, RefundedRow
<1> DEFINE slot == IF issue.slot = r THEN NoRun ELSE issue.slot
<1>6. ASSUME NEW j, Row(j, issue.slot), NEW open \in BOOLEAN, NEW task \in RunTypes \cup {NoTask}
      PROVE  /\ Row(Freed(r, [j EXCEPT !.open = open]), slot)
             /\ Row([Freed(r, [j EXCEPT !.open = open]) EXCEPT !.task = task], slot)
             /\ Row([j EXCEPT !.slot = NoRun, !.open = open], NoRun)
             /\ Row([j EXCEPT !.slot = NoRun, !.open = open, !.task = task], NoRun)
  <2>1. Row([j EXCEPT !.open = open], issue.slot)
    BY <1>1, <1>4, <1>6, EditedRow
  <2>2. Row(Freed(r, [j EXCEPT !.open = open]), slot)
    BY <1>1, <2>1, FreedRow
  <2>3. slot \in Runs \cup {NoRun}
    BY <1>4
  <2> QED BY <1>1, <1>6, <2>2, <2>3, EditedRow
<1> HIDE DEF r, i
<1>7. \A open \in BOOLEAN, task \in RunTypes \cup {NoTask} :
         /\ Row(Freed(r, [issue EXCEPT !.open = open]), slot)
         /\ Row([Freed(r, [issue EXCEPT !.open = open]) EXCEPT !.task = task], slot)
         /\ Row([issue EXCEPT !.slot = NoRun, !.open = open, !.task = task], NoRun)
  BY <1>4, <1>6
<1>8. CASE UNCHANGED <<status, issue>>
  BY <1>1, <1>2, <1>8, RestingStep
<1>9. CASE DeferLimited(c) /\ Held
  <2>1. status' = Settled(r) /\ issue' = [Freed(r, [i EXCEPT !.open = TRUE]) EXCEPT !.task = kind[r]]
    BY <1>9 DEF DeferLimited, r, i
  <2> QED BY <1>2, <1>3, <1>5, <1>6, <2>1 DEF Ending, r
<1>10. CASE Suppress(c) /\ Held
  <2>1. Row([issue EXCEPT !.slot = NoRun], NoRun)
    BY <1>1, <1>4, EditedRow
  <2> QED BY <1>2, <1>10, <2>1 DEF Suppress, Clearing
<1>11. CASE ContinueDirty(c) /\ Held
  <2>1. status' = Finished(r) /\ issue' = [i EXCEPT !.slot = NoRun, !.open = TRUE, !.task = kind[r]]
    BY <1>11 DEF ContinueDirty, r, i
  <2> QED BY <1>2, <1>3, <1>5, <1>6, <2>1 DEF Clearing, r
<1>12. CASE CheckCompletion(c) /\ Held
  <2>1. \/ UNCHANGED <<status, issue>>
        \/ /\ status' = Finished(r)
           /\ \E open \in BOOLEAN, next \in {"implementation", NoTask, issue.task} :
                issue' = [issue EXCEPT !.slot = NoRun, !.open = open, !.task = next]
        \/ status' = Settled(r) /\ issue' = Freed(r, [issue EXCEPT !.open = FALSE])
    BY <1>12 DEF CheckCompletion, r
  <2>2. "implementation" \in RunTypes
    BY DEF RunTypes
  <2>3. CASE status' = Settled(r) /\ issue' = Freed(r, [issue EXCEPT !.open = FALSE])
    <3>1. Row(issue', slot)
      BY <1>7, <2>2, <2>3
    <3> QED BY <1>2, <2>3, <3>1 DEF Ending, r
  <2>4. ASSUME status' = Finished(r), NEW open \in BOOLEAN,
               NEW next \in {"implementation", NoTask, issue.task},
               issue' = [issue EXCEPT !.slot = NoRun, !.open = open, !.task = next]
        PROVE  Clearing(r)
    <3>1. next \in RunTypes \cup {NoTask}
      BY <1>4, <2>2
    <3> QED BY <1>7, <2>4, <3>1 DEF Clearing
  <2> QED BY <1>2, <1>8, <2>1, <2>3, <2>4 DEF r
<1>13. CASE (Complete(c) \/ FailVerification(c)) /\ Held
  <2>1. /\ status' = Settled(r)
        /\ \/ issue' = Freed(r, [issue EXCEPT !.open = FALSE])
           \/ \E next \in RunTypes \cup {issue.task} :
                issue' = [Freed(r, [issue EXCEPT !.open = TRUE]) EXCEPT !.task = next]
    BY <1>3, <1>13 DEF Complete, FailVerification, r
  <2>2. Row(issue', slot)
    BY <1>4, <1>7, <2>1
  <2> QED BY <1>2, <2>1, <2>2 DEF Ending, r
<1>14. \/ UNCHANGED <<status, issue>>
       \/ Held /\ (DeferLimited(c) \/ Suppress(c) \/ ContinueDirty(c) \/ CheckCompletion(c)
                    \/ Complete(c) \/ FailVerification(c))
  BY DEF Finishing, DeferLimited, Suppress, ContinueDirty, Verify, CheckCompletion, Applies,
         Complete, FailVerification, stored
<1> QED BY <1>8, <1>9, <1>10, <1>11, <1>12, <1>13, <1>14

LEMMA FailTurnEffects ==
  ASSUME WellFormed, NEW r \in Runs, FailTurn(r)
  PROVE  Resting \/ Clearing(r)
<1>1. RowsOK
  BY Parts
<1>2. Row([issue EXCEPT !.slot = NoRun, !.open = FALSE], NoRun)
  BY <1>1, SameRow, EditedRow
<1>3. \/ UNCHANGED <<status, issue>>
      \/ status' = Finished(r) /\ issue' = [issue EXCEPT !.slot = NoRun, !.open = FALSE]
  BY DEF FailTurn
<1> QED BY <1>1, <1>2, <1>3, RestingStep DEF Clearing

\* The pass attaches the run it has listed.
Attaching(r) == status' = status /\ Row(issue', r)

LEMMA RecoverEffects ==
  ASSUME WellFormed, job[Pass].pc # "idle", Recover(job[Pass].run)
  PROVE  Resting \/ Ending(job[Pass].run)
<1> DEFINE r == job[Pass].run
           j == IF job[Pass].phase = "turn" THEN issue ELSE Refunded(issue, kind[r])
           slot == IF issue.slot = r THEN NoRun ELSE issue.slot
<1>1. RowsOK
  BY Parts
<1>2. kind[r] \in RunTypes
  BY CallerRun
<1>3. Row(j, issue.slot)
  BY <1>1, SameRow, RefundedRow
<1>4. Row(Freed(r, j), slot)
  BY <1>1, <1>3, FreedRow
<1> HIDE DEF j
<1>5. \/ status' = Settled(r) /\ issue' \in Recoveries(Freed(r, j), kind[r])
      \/ UNCHANGED <<status, issue>>
  BY DEF Recover, j
<1>6. CASE UNCHANGED <<status, issue>>
  BY <1>1, <1>6, RestingStep
<1>7. CASE status' = Settled(r) /\ issue' \in Recoveries(Freed(r, j), kind[r])
  <2>1. Row(issue', slot)
    BY <1>1, <1>2, <1>4, <1>7, RecoveredRow
  <2> QED BY <1>7, <2>1 DEF Ending
<1> QED BY <1>5, <1>6, <1>7

LEMMA VisitEffects ==
  ASSUME WellFormed, Visiting
  PROVE  LET r == job[Pass].run IN
         \/ Resting \/ Ending(r) \/ Clearing(r)
         \/ VisitRun /\ Attaching(r)
<1> DEFINE r == job[Pass].run
           i == Refunded(issue, kind[r])
           slot == IF issue.slot = r THEN NoRun ELSE issue.slot
<1>1. RowsOK /\ job[Pass].pc # "idle"
  BY Parts DEF Visiting, VisitRun, ReleaseUndelegated, FindStranded, LeaveRun, FindInterrupted,
         FailInterrupted, RetryInterrupted, Finishing, DeferLimited, Suppress, ContinueDirty,
         Verify, CheckCompletion, Complete, FailVerification, Reads
<1>2. r \in Runs /\ kind[r] \in RunTypes
  BY <1>1, CallerRun
<1>3. Row(issue, issue.slot) /\ Row(i, issue.slot)
  BY <1>1, SameRow, RefundedRow
<1>4. ASSUME UNCHANGED <<status, issue>> PROVE Resting
  BY <1>1, <1>4, RestingStep
<1> HIDE DEF r, i
<1>5. CASE VisitRun
  <2>1. status' = status /\ issue' \in {issue, [issue EXCEPT !.slot = r]}
    BY <1>5 DEF VisitRun, r
  <2>2. Row([issue EXCEPT !.slot = r], r)
    BY <1>1, <1>2, <1>3, EditedRow
  <2> QED BY <1>4, <1>5, <2>1, <2>2 DEF Attaching, r
<1>6. CASE ReleaseUndelegated
  <2>1. \/ UNCHANGED <<status, issue>>
        \/ status' = Finished(r) /\ issue' = [issue EXCEPT !.slot = NoRun, !.task = NoTask]
    BY <1>6 DEF ReleaseUndelegated, r
  <2>2. Row([issue EXCEPT !.slot = NoRun, !.task = NoTask], NoRun)
    BY <1>1, <1>3, EditedRow
  <2> QED BY <1>4, <2>1, <2>2 DEF Clearing, r
<1>7. CASE FindStranded
  <2>1. CASE LeaveToLaunch
    BY <1>4, <2>1 DEF LeaveToLaunch
  <2>2. CASE Recover(r)
    BY <1>1, <2>2, RecoverEffects DEF r
  <2> QED BY <1>7, <2>1, <2>2 DEF FindStranded, r
<1>8. CASE LeaveRun
  BY <1>4, <1>8 DEF LeaveRun
<1>9. CASE FindInterrupted
  <2>1. \/ UNCHANGED <<status, issue>>
        \/ status' = status /\ issue' = i
        \/ /\ status' = Settled(r)
           /\ \E open \in BOOLEAN :
                issue' = IF issue.slot = r THEN [i EXCEPT !.slot = NoRun, !.open = open] ELSE i
    BY <1>9 DEF FindInterrupted, r, i
  <2>2. CASE status' = status /\ issue' = i
    BY <1>3, <2>2 DEF Resting
  <2>3. ASSUME status' = Settled(r), NEW open \in BOOLEAN,
               issue' = IF issue.slot = r THEN [i EXCEPT !.slot = NoRun, !.open = open] ELSE i
        PROVE  Ending(r)
    <3>1. Row([i EXCEPT !.slot = NoRun, !.open = open], NoRun)
      BY <1>1, <1>3, SameRow, EditedRow
    <3>2. Row(issue', slot)
      BY <1>3, <2>3, <3>1
    <3> QED BY <2>3, <3>2 DEF Ending
  <2> QED BY <1>4, <2>1, <2>2, <2>3 DEF r
<1>10. CASE FailInterrupted
  <2>1. \/ UNCHANGED <<status, issue>>
        \/ /\ status' = Settled(r)
           /\ \E open \in BOOLEAN : issue' = Freed(r, [issue EXCEPT !.open = open])
    BY <1>10 DEF FailInterrupted, r
  <2>2. ASSUME status' = Settled(r), NEW open \in BOOLEAN,
               issue' = Freed(r, [issue EXCEPT !.open = open])
        PROVE  Ending(r)
    <3>1. Row([issue EXCEPT !.open = open], issue.slot)
      BY <1>1, <1>3, SameRow, EditedRow
    <3>2. Row(issue', slot)
      BY <1>1, <2>2, <3>1, FreedRow
    <3> QED BY <2>2, <3>2 DEF Ending
  <2> QED BY <1>4, <2>1, <2>2 DEF r
<1>11. CASE RetryInterrupted
  <2>1. status' = status /\ issue' \in {issue, [issue EXCEPT !.task = kind[r]]}
    BY <1>11 DEF RetryInterrupted, r
  <2>2. Row([issue EXCEPT !.task = kind[r]], issue.slot)
    BY <1>1, <1>2, <1>3, SameRow, EditedRow
  <2> QED BY <1>3, <2>1, <2>2 DEF Resting
<1>12. CASE Finishing(Pass)
  BY <1>12, FinishEffects DEF r
<1> QED BY <1>5, <1>6, <1>7, <1>8, <1>9, <1>10, <1>11, <1>12 DEF Visiting, r

\* A command clears the slot for good, and ends the run it has read there.
LEMMA CommandEffects ==
  ASSUME WellFormed, Commanding
  PROVE  LET r == job[Operator].run IN
         \/ Resting
         \/ (Stop \/ Close) /\ status' = Finished(r) /\ r # NoRun /\ Row(issue', NoRun)
         \/ /\ (Stop \/ Close) /\ (r = NoRun \/ job[Operator].pc = "clearing")
            /\ status' = status /\ Row(issue', NoRun)
         \/ CliEndsRun /\ status' = Finished(r) /\ Row(issue', issue.slot)
<1>1. RowsOK
  BY Parts
<1>2. Row(issue, issue.slot) /\ Row([issue EXCEPT !.slot = NoRun, !.task = NoTask, !.open = FALSE], NoRun)
  BY <1>1, SameRow, EditedRow
<1>3. CASE Stop
  BY <1>1, <1>2, <1>3, RestingStep DEF Stop
<1>4. CASE Close
  BY <1>1, <1>2, <1>4 DEF Close
<1>5. CASE CliEndsRun
  BY <1>1, <1>2, <1>5 DEF CliEndsRun
<1>6. CASE CommandFails
  BY <1>1, <1>6, RestingStep DEF CommandFails, stored
<1> QED BY <1>3, <1>4, <1>5, <1>6 DEF Commanding

LEMMA WorldEffects ==
  ASSUME WellFormed,
         \/ RequeueReady \/ Quiet \/ Overrun \/ Crash
         \/ StartCommand("stopping") \/ StartCommand("closing")
         \/ \E k \in RunTypes : NewWork(k) \/ Retry(k)
         \/ \E r \in Runs : \/ EndTurn(r) \/ Progress(r) \/ Notify(r) \/ ReadFails(r)
                            \/ SeekRecovery(r) \/ ListRun(r)
  PROVE  Resting
<1>1. RowsOK
  BY Parts
<1>2. ASSUME NEW k \in RunTypes, NewWork(k) \/ Retry(k)
      PROVE  Resting
  <2> DEFINE a == IF k \in RepairTypes THEN [issue.attempts EXCEPT ![k] = 0] ELSE issue.attempts
  <2>1. issue \in Issue /\ issue.attempts \in [RepairTypes -> Nat] /\ issue.zombie \in Nat
    BY <1>1 DEF RowsOK, Issue
  <2>2. a \in [RepairTypes -> Nat] /\ \A t \in RepairTypes : a[t] <= issue.attempts[t]
    BY <2>1
  <2>3. \/ issue' = [issue EXCEPT !.task = k]
        \/ issue' = [issue EXCEPT !.open = TRUE, !.task = k, !.attempts = a]
    BY <1>2 DEF NewWork, Retry
  <2> HIDE DEF a
  <2>4. issue' \in Issue /\ issue'.slot = issue.slot /\ issue'.zombie = issue.zombie
    BY <2>1, <2>2, <2>3 DEF Issue
  <2>5. issue'.attempts \in {issue.attempts, a}
    BY <2>1, <2>2, <2>3 DEF Issue
  <2>6. Row(issue', issue.slot)
    BY <2>1, <2>2, <2>4, <2>5 DEF Row, Cheap
  <2> QED BY <1>2, <2>6 DEF NewWork, Retry, Resting
<1>3. CASE ~\E k \in RunTypes : NewWork(k) \/ Retry(k)
  <2>1. UNCHANGED <<status, issue>>
    BY <1>3 DEF RequeueReady, Quiet, Overrun, Crash, StartCommand, EndTurn, Progress, Notify,
                ReadFails, SeekRecovery, ListRun, stored
  <2> QED BY <1>1, <2>1, RestingStep
<1> QED BY <1>2, <1>3

LEMMA SettleDanglingEffects ==
  ASSUME WellFormed, SettleDangling
  PROVE  status' = status /\ Row(issue', NoRun) /\ ~Live(issue.slot)
<1>1. RowsOK
  BY Parts
<1> QED BY <1>1, SameRow, EditedRow DEF SettleDangling, Dangling

\* Unless it claims a run, a launch may only make its run a running one, or a
\* failed one.
LEMMA LaunchEffects ==
  ASSUME WellFormed, Launching
  PROVE  \/ \E r \in Runs : Claim(r)
         \/ Resting
         \/ (\E p : Threaded(launch.run, p)) /\ Row(issue', issue.slot)
         \/ FailLaunch /\ issue.slot = launch.run /\ Clearing(launch.run)
<1>1. RowsOK
  BY Parts
<1>2. Row(issue, issue.slot) /\ Row([issue EXCEPT !.open = FALSE], issue.slot)
  BY <1>1, SameRow, EditedRow
<1>3. CASE Escalate
  <2>1. status' = status /\ issue' \in {issue, [issue EXCEPT !.open = FALSE]}
    BY <1>3 DEF Escalate
  <2> QED BY <1>2, <2>1 DEF Resting
<1>4. CASE StartThread \/ RetryThread
  BY <1>2, <1>4 DEF StartThread, RetryThread
<1>5. CASE RecordTurn
  <2>1. Row([issue EXCEPT !.zombie = 0], issue.slot)
    BY <1>1 DEF RowsOK, Row, Issue, Cheap
  <2>2. issue' \in {issue, [issue EXCEPT !.zombie = 0]}
    BY <1>5 DEF RecordTurn
  <2> QED BY <1>2, <1>5, <2>1, <2>2 DEF RecordTurn
<1>6. CASE FailLaunch
  <2> DEFINE i == Refunded(issue, kind[launch.run])
  <2>1. Row(i, issue.slot)
    BY <1>1, RefundedRow
  <2>2. Row([i EXCEPT !.slot = NoRun, !.open = FALSE], NoRun)
    BY <1>1, <2>1, SameRow, EditedRow
  <2> QED BY <1>1, <1>6, <2>2, RestingStep DEF FailLaunch, Clearing
<1>7. CASE \/ Dequeue \/ AcquireLease \/ Refuse \/ ClaimRefused \/ PrepareWorktree
           \/ AbortLaunch \/ BeginTurn
  <2>1. UNCHANGED <<status, issue>>
    BY <1>7 DEF Dequeue, AcquireLease, Refuse, ClaimRefused, PrepareWorktree, AbortLaunch,
                BeginTurn, stored
  <2> QED BY <1>1, <2>1, RestingStep
<1> QED BY <1>3, <1>4, <1>5, <1>6, <1>7 DEF Launching

----------------------------------------------------------------------------
\* Type correctness of the steps

LEMMA NoLaunchType == NoLaunch \in Launch /\ NoLaunch.pc = "idle"
BY DEF NoLaunch, Launch

\* Nothing but the rows of runs, the lease, Codex or the queue moves.
LEMMA KeptTypes ==
  /\ RowsOK /\ UNCHANGED <<issue, status>> => RowsOK'
  /\ JobsOK /\ UNCHANGED job => JobsOK'
  /\ LaunchOK /\ UNCHANGED launch => LaunchOK'
  /\ LaunchOK /\ launch' = NoLaunch => LaunchOK'
<1>1. RowsOK /\ UNCHANGED <<issue, status>> => RowsOK'
  BY DEF RowsOK
<1>2. JobsOK /\ UNCHANGED job => JobsOK'
  BY DEF JobsOK
<1>3. LaunchOK /\ UNCHANGED launch => LaunchOK'
  BY DEF LaunchOK
<1>4. launch' = NoLaunch => LaunchOK'
  BY NoLaunchType DEF LaunchOK
<1> QED BY <1>1, <1>2, <1>3, <1>4

\* updateRunThread writes two columns.
LEMMA ThreadedTypes ==
  ASSUME RowsOK, RestOK, NEW r, NEW p \in {"claimed", "thread", "turn"}, Threaded(r, p)
  PROVE  /\ status' \in [Runs -> Statuses]
         /\ phase' \in [Runs -> {"claimed", "thread", "turn"}]
BY DEF RowsOK, RestOK, Threaded, Statuses, LiveStatus

\* A run is claimed: its attempt is counted.
LEMMA ClaimTypes ==
  ASSUME WellFormed, NEW r \in Runs, Claim(r)
  PROVE  WellFormed'
<1>1. RowsOK /\ JobsOK /\ LaunchOK /\ RestOK
  BY Parts
<1>2. launch.kind \in RunTypes
  BY <1>1 DEF LaunchOK, Claim
<1> DEFINE a == OneMore(launch.kind)
<1>3. issue.attempts \in [RepairTypes -> Nat]
  BY <1>1 DEF RowsOK, Issue
<1>4. a \in [RepairTypes -> Nat]
  BY <1>3 DEF OneMore
<1>5. issue' = [issue EXCEPT !.slot = r, !.task = NoTask, !.attempts = a]
  BY DEF Claim
<1> HIDE DEF a
<1>6. issue' \in Issue
  BY <1>1, <1>4, <1>5 DEF RowsOK, Issue
<1>7. status' \in [Runs -> Statuses] /\ kind' \in [Runs -> RunTypes]
  BY <1>1, <1>2 DEF Claim, RowsOK, RestOK, Statuses, LiveStatus
<1>8. LaunchOK'
  BY <1>1 DEF Claim, LaunchOK, Launch
<1>9. JobsOK'
  BY <1>1, TouchedTypes DEF Claim
<1>10. RestOK'
  BY <1>1, <1>7 DEF Claim, RestOK, codex
<1> QED BY <1>6, <1>7, <1>8, <1>9, <1>10, PartsNext DEF RowsOK

LEMMA LaunchTypes ==
  ASSUME WellFormed, Launching
  PROVE  WellFormed'
<1>1. RowsOK /\ JobsOK /\ LaunchOK /\ RestOK
  BY Parts
<1>2. NoLease \in Lease /\ Released \in Lease /\ Renewed \in Lease /\ Taken("launch") \in Lease
  BY <1>1, LeaseTypes
<1>3. RowsOK'
  <2>1. ASSUME NEW p, Threaded(launch.run, p), Row(issue', issue.slot)
        PROVE  RowsOK'
    BY <1>1, <2>1 DEF Threaded, Row, RowsOK, Statuses, LiveStatus
  <2>2. ASSUME NEW r \in Runs, Claim(r)
        PROVE  RowsOK'
    BY <2>2, ClaimTypes, PartsNext
  <2> QED BY <1>1, <2>1, <2>2, LaunchEffects, EffectTypes
<1>4. CASE Dequeue
  <2>1. LaunchOK'
    <3>1. Spent \in SUBSET RepairTypes /\ (issue.zombie > 0) \in BOOLEAN
      BY DEF Spent
    <3>2. launch' = launch \/ launch' = [NoLaunch EXCEPT !.pc = "classifying", !.spent = Spent,
                                                        !.strayed = issue.zombie > 0]
      BY <1>4 DEF Dequeue
    <3> DEFINE n == [NoLaunch EXCEPT !.pc = "classifying", !.spent = Spent, !.strayed = issue.zombie > 0]
    <3>3. n \in Launch /\ n.pc = "classifying"
      BY <3>1, NoLaunchType DEF Launch
    <3> QED BY <1>1, <3>2, <3>3 DEF LaunchOK
  <2>2. RestOK'
    BY <1>1, <1>4 DEF Dequeue, RestOK, stored, codex
  <2> QED BY <1>1, <1>4, <2>1, <2>2, KeptTypes, PartsNext DEF Dequeue, stored
<1>5. CASE AcquireLease
  <2>1. LaunchOK'
    <3>1. issue.task \in RunTypes \cup {NoTask}
      BY <1>1 DEF RowsOK, Issue
    <3>2. CASE launch' = NoLaunch
      BY <3>2, NoLaunchType DEF LaunchOK
    <3>3. CASE launch' = [launch EXCEPT !.pc = "admitting", !.kind = issue.task] /\ issue.task # NoTask
      BY <1>1, <3>1, <3>3 DEF LaunchOK, Launch
    <3> QED BY <1>5, <3>2, <3>3 DEF AcquireLease
  <2>2. RestOK'
    BY <1>1, <1>2, <1>5 DEF AcquireLease, RestOK, codex
  <2> QED BY <1>1, <1>5, <2>1, <2>2, KeptTypes, PartsNext DEF AcquireLease
<1>6. CASE Refuse \/ ClaimRefused \/ AbortLaunch
  <2>1. RestOK'
    BY <1>1, <1>2, <1>6 DEF Refuse, ClaimRefused, AbortLaunch, RestOK, codex
  <2> QED BY <1>1, <1>6, <2>1, KeptTypes, PartsNext DEF Refuse, ClaimRefused, AbortLaunch
<1>7. CASE Escalate
  <2>1. RestOK'
    BY <1>1, <1>2, <1>7 DEF Escalate, RestOK, codex
  <2> QED BY <1>1, <1>7, <1>3, <2>1, KeptTypes, TouchedTypes, PartsNext DEF Escalate
<1>8. CASE \E r \in Runs : Claim(r)
  BY <1>8, ClaimTypes
<1>9. CASE PrepareWorktree
  <2>1. LaunchOK'
    BY <1>1, <1>9 DEF PrepareWorktree, LaunchOK, Launch
  <2>2. RestOK'
    BY <1>1, <1>2, <1>9 DEF PrepareWorktree, RestOK, codex
  <2> QED BY <1>1, <1>9, <2>1, <2>2, KeptTypes, PartsNext DEF PrepareWorktree
<1>10. CASE StartThread \/ RetryThread
  <2>1. RestOK'
    BY <1>1, <1>10, ThreadedTypes DEF StartThread, RetryThread, RestOK, codex, process
  <2>2. LaunchOK'
    BY <1>1, <1>10 DEF StartThread, RetryThread, LaunchOK, Launch, process
  <2> QED BY <1>1, <1>10, <1>3, <2>1, <2>2, KeptTypes, PartsNext DEF StartThread, RetryThread, process
<1>11. CASE RecordTurn
  <2>1. phase' \in [Runs -> {"claimed", "thread", "turn"}]
    BY <1>1, <1>11, ThreadedTypes DEF RecordTurn
  <2>2. RestOK'
    BY <1>1, <1>2, <1>11, <2>1 DEF RecordTurn, RestOK, codex
  <2> QED BY <1>1, <1>11, <1>3, <2>2, KeptTypes, TouchedTypes, PartsNext DEF RecordTurn
<1>12. CASE FailLaunch
  <2>1. RestOK'
    BY <1>1, <1>2, <1>12 DEF FailLaunch, RestOK, codex
  <2> QED BY <1>1, <1>12, <1>3, <2>1, KeptTypes, TouchedTypes, PartsNext DEF FailLaunch
<1>13. CASE BeginTurn
  <2>1. RestOK'
    BY <1>1, <1>13 DEF BeginTurn, RestOK, stored, process
  <2> QED BY <1>1, <1>13, <2>1, KeptTypes, PartsNext DEF BeginTurn, stored, process
<1> QED BY <1>4, <1>5, <1>6, <1>7, <1>8, <1>9, <1>10, <1>11, <1>12, <1>13 DEF Launching

\* Whoever deals with a run ends its call: the row and the run were written.
LEMMA EndedTypes ==
  ASSUME WellFormed, NEW c \in Callers, job' = Goes(c, Idle), RowsOK',
         lease' \in {lease, Released, NoLease}, queued' \in BOOLEAN,
         UNCHANGED <<kind, phase, codex, launch, deeds>>
  PROVE  WellFormed'
<1>1. RowsOK /\ JobsOK /\ LaunchOK /\ RestOK
  BY Parts
<1>2. Idle \in Await /\ Idle.pc = "idle"
  BY AwaitTypes DEF Awaits
<1>3. JobsOK'
  BY <1>1, <1>2, GoesTypes
<1>4. RestOK'
  BY <1>1, LeaseTypes DEF RestOK, codex
<1>5. LaunchOK'
  BY <1>1, KeptTypes
<1> QED BY <1>3, <1>4, <1>5, PartsNext

LEMMA FinishTypes ==
  ASSUME WellFormed, NEW c \in Runs \cup {Pass}, Finishing(c)
  PROVE  WellFormed'
<1>1. RowsOK /\ JobsOK /\ LaunchOK /\ RestOK
  BY Parts
<1>2. c \in Callers /\ job[c].pc # "idle" /\ c # Operator
  BY FinishEffects, RunSessionAssumption DEF Callers
<1>3. RowsOK'
  BY <1>1, FinishEffects, EffectTypes
<1>4. CASE Verify(c)
  <2> DEFINE a == Decides(c, "finalizing")
  <2>1. job[c] \in Await
    BY <1>1, <1>2 DEF JobsOK
  <2>2. a \in Await /\ a.run = job[c].run
    BY <2>1 DEF Decides, Await, Awaits
  <2>3. JobsOK'
    BY <1>1, <1>2, <1>4, <2>2, CallerRun, SetTypes DEF Verify
  <2>4. RestOK'
    BY <1>1, <1>4 DEF Verify, RestOK, stored, codex
  <2> QED BY <1>1, <1>3, <1>4, <2>3, <2>4, KeptTypes, PartsNext DEF Verify
<1>5. CASE ~Verify(c)
  <2>1. queued' \in BOOLEAN
    BY <1>1, <1>5 DEF Finishing, DeferLimited, Suppress, ContinueDirty, CheckCompletion, Complete,
         FailVerification, ReleaseRunAndDispatch, RestOK, Ready, Dispatchable
  <2>2. /\ job' = Goes(c, Idle) /\ lease' = Released
        /\ UNCHANGED <<kind, phase, codex, launch, deeds>>
    BY <1>5 DEF Finishing, DeferLimited, Suppress, ContinueDirty, CheckCompletion, Complete,
         FailVerification, ReleaseRunAndDispatch
  <2> QED BY <1>2, <1>3, <2>1, <2>2, EndedTypes
<1> QED BY <1>4, <1>5

LEMMA HandleTypes ==
  ASSUME WellFormed, NEW r \in Runs,
         EndTurn(r) \/ Progress(r) \/ Notify(r) \/ Handling(r) \/ ListRun(r)
  PROVE  WellFormed'
<1>1. RowsOK /\ JobsOK /\ LaunchOK /\ RestOK
  BY Parts
<1>2. r \in Callers /\ Pass \in Callers /\ r # Operator /\ Pass # Operator
  BY RunSessionAssumption DEF Callers
<1>3. Renewed \in Lease /\ Released \in Lease
  BY <1>1, LeaseTypes
<1>4. CASE EndTurn(r) \/ Progress(r)
  <2>1. RestOK'
    BY <1>1, <1>3, <1>4 DEF EndTurn, Progress, RestOK, stored, process, codex
  <2> QED BY <1>1, <1>4, <2>1, KeptTypes, PartsNext DEF EndTurn, Progress, stored, process
<1>5. CASE Notify(r)
  <2>1. At("reading", r) \in Await /\ At("reading", r).run = r
    BY AwaitTypes DEF Awaits
  <2>2. JobsOK'
    BY <1>1, <1>2, <1>5, <2>1, SetTypes DEF Notify, JobsOK
  <2>3. RestOK'
    BY <1>1, <1>3, <1>5 DEF Notify, RestOK
  <2> QED BY <1>1, <1>5, <2>2, <2>3, KeptTypes, PartsNext DEF Notify
<1>6. CASE ReadFails(r)
  <2>1. JobsOK'
    BY <1>1, <1>2, <1>6, AwaitTypes, SetTypes DEF ReadFails, Awaits
  <2>2. RestOK'
    BY <1>1, <1>6 DEF ReadFails, RestOK, stored, codex
  <2> QED BY <1>1, <1>6, <2>1, <2>2, KeptTypes, PartsNext DEF ReadFails, stored
<1>7. CASE SeekRecovery(r)
  <2> DEFINE a == Decides(r, "failing")
  <2>1. job[r] \in Await /\ job[r].pc # "idle"
    BY <1>1, <1>2, <1>7 DEF JobsOK, SeekRecovery, Reads
  <2>2. a \in Await /\ a.run = job[r].run
    BY <2>1 DEF Decides, Await, Awaits
  <2>3. job[r].run \in Runs
    BY <2>1, CallerRun
  <2>4. JobsOK'
    BY <1>1, <1>2, <1>7, <2>2, <2>3, SetTypes DEF SeekRecovery
  <2>5. RestOK'
    BY <1>1, <1>7 DEF SeekRecovery, RestOK, stored, codex
  <2> QED BY <1>1, <1>7, <2>4, <2>5, KeptTypes, PartsNext DEF SeekRecovery, stored
<1>8. CASE FailTurn(r)
  <2>1. RowsOK'
    BY <1>1, <1>8, FailTurnEffects, EffectTypes
  <2>2. queued \in BOOLEAN
    BY <1>1 DEF RestOK
  <2> QED BY <1>2, <1>8, <2>1, <2>2, EndedTypes DEF FailTurn
<1>9. CASE Finishing(r)
  BY <1>9, FinishTypes
<1>10. CASE ListRun(r)
  <2> DEFINE a == [At("listed", r) EXCEPT !.phase = phase[r]]
  <2>1. phase[r] \in {"claimed", "thread", "turn"}
    BY <1>1 DEF RestOK
  <2>2. At("listed", r) \in Await /\ At("listed", r).run = r
    BY AwaitTypes DEF Awaits
  <2>3. a \in Await /\ a.run = r
    BY <2>1, <2>2 DEF Await
  <2>4. JobsOK'
    BY <1>1, <1>2, <1>10, <2>3, SetTypes DEF ListRun
  <2>5. RestOK'
    BY <1>1, <1>10 DEF ListRun, RestOK, stored, codex
  <2> QED BY <1>1, <1>10, <2>4, <2>5, KeptTypes, PartsNext DEF ListRun, stored
<1> QED BY <1>4, <1>5, <1>6, <1>7, <1>8, <1>9, <1>10 DEF Handling

LEMMA VisitTypes ==
  ASSUME WellFormed, Visiting
  PROVE  WellFormed'
<1> DEFINE r == job[Pass].run
<1>1. RowsOK /\ JobsOK /\ LaunchOK /\ RestOK
  BY Parts
<1>2. Pass \in Callers /\ Pass # Operator /\ Pass \in Runs \cup {Pass}
  BY RunSessionAssumption DEF Callers
<1>3. job[Pass].pc # "idle"
  BY DEF Visiting, VisitRun, ReleaseUndelegated, FindStranded, LeaveRun, FindInterrupted,
         FailInterrupted, RetryInterrupted, Finishing, DeferLimited, Suppress, ContinueDirty,
         Verify, CheckCompletion, Complete, FailVerification, Reads
<1>4. r \in Runs /\ job[Pass] \in Await
  BY <1>1, <1>2, <1>3, CallerRun DEF JobsOK
<1>5. RowsOK'
  <2>1. Attaching(r) => RowsOK'
    BY <1>1 DEF Attaching, Row, RowsOK
  <2> QED BY <1>1, <2>1, VisitEffects, EffectTypes
<1>6. Released \in Lease /\ Taken("pass") \in Lease /\ lease \in Lease
  BY <1>1, LeaseTypes DEF RestOK
<1>7. Idle \in Await /\ Idle.pc = "idle"
  BY AwaitTypes DEF Awaits
<1>8. \A pc \in {"refunding", "restoring"} : At(pc, r) \in Await /\ At(pc, r).run = r
  BY <1>4, AwaitTypes DEF Awaits
<1> HIDE DEF r
<1>9. CASE VisitRun
  <2> DEFINE a == [job[Pass] EXCEPT !.pc = "reading", !.took = ~Held]
             b == ~Held
  <2>1. b \in BOOLEAN
    BY DEF Held
  <2> HIDE DEF b
  <2>2. [job[Pass] EXCEPT !.pc = "reading", !.took = b] \in Await
        /\ [job[Pass] EXCEPT !.pc = "reading", !.took = b].run = r
    BY <1>4, <2>1 DEF Await, Awaits, r
  <2>3. a \in Await /\ a.run = r
    BY <2>2 DEF b
  <2> HIDE DEF a
  <2>4. \/ job' = [job EXCEPT ![Pass] = Idle] /\ UNCHANGED lease
        \/ lease' \in {lease, Taken("pass")} /\ job' = Goes(Pass, a)
    BY <1>9 DEF VisitRun, r, a
  <2>5. JobsOK'
    BY <1>1, <1>2, <1>4, <1>7, <2>3, <2>4, GoesTypes, SetTypes
  <2>6. RestOK'
    BY <1>1, <1>6, <1>9, <2>4 DEF VisitRun, RestOK, codex
  <2> QED BY <1>1, <1>5, <1>9, <2>5, <2>6, KeptTypes, PartsNext DEF VisitRun
<1>10. CASE (FindStranded /\ ~LeaveToLaunch) \/ ReleaseUndelegated \/ RetryInterrupted
  <2>1. queued' \in BOOLEAN
    BY <1>1, <1>10 DEF FindStranded, Recover, ReleaseUndelegated, RetryInterrupted, RestOK, Dispatchable
  <2>2. /\ job' = Goes(Pass, Idle) /\ lease' = Released
        /\ UNCHANGED <<kind, phase, codex, launch, deeds>>
    BY <1>10 DEF FindStranded, Recover, ReleaseUndelegated, RetryInterrupted
  <2> QED BY <1>2, <1>5, <2>1, <2>2, EndedTypes
<1>11. CASE (FindStranded /\ LeaveToLaunch) \/ LeaveRun
  <2>1. /\ job' = [job EXCEPT ![Pass] = Idle] /\ lease' \in {lease, Released}
        /\ UNCHANGED <<kind, phase, codex, launch, queued, deeds>>
    BY <1>11 DEF FindStranded, LeaveToLaunch, LeaveRun
  <2>2. JobsOK'
    BY <1>1, <1>2, <1>7, <2>1, SetTypes
  <2>3. RestOK'
    BY <1>1, <1>6, <2>1 DEF RestOK, codex
  <2> QED BY <1>1, <1>5, <2>1, <2>2, <2>3, KeptTypes, PartsNext
<1>12. CASE FindInterrupted \/ FailInterrupted
  <2>1. /\ \/ job' = [job EXCEPT ![Pass] = Idle]
           \/ \E pc \in {"refunding", "restoring"} : job' = Goes(Pass, At(pc, r))
        /\ lease' \in {lease, Released}
        /\ UNCHANGED <<kind, phase, codex, launch, queued, deeds>>
    BY <1>12 DEF FindInterrupted, FailInterrupted, r
  <2>2. JobsOK'
    BY <1>1, <1>2, <1>4, <1>7, <1>8, <2>1, GoesTypes, SetTypes
  <2>3. RestOK'
    BY <1>1, <1>6, <2>1 DEF RestOK, codex
  <2> QED BY <1>1, <1>5, <2>1, <2>2, <2>3, KeptTypes, PartsNext
<1>13. CASE Finishing(Pass)
  BY <1>2, <1>13, FinishTypes
<1> QED BY <1>9, <1>10, <1>11, <1>12, <1>13 DEF Visiting

\* A disturbance is counted.
LEMMA DisturbTypes ==
  ASSUME RestOK, Disturb
  PROVE  deeds' \in 0..MaxDeeds
BY RunSessionAssumption DEF RestOK, Disturb

LEMMA CommandTypes ==
  ASSUME WellFormed, StartCommand("stopping") \/ StartCommand("closing") \/ Commanding
  PROVE  WellFormed'
<1>1. RowsOK /\ JobsOK /\ LaunchOK /\ RestOK
  BY Parts
<1>2. Operator \in Callers /\ job[Operator] \in Await /\ job[Operator].run \in Runs \cup {NoRun}
  BY <1>1 DEF Callers, JobsOK, Await
<1>3. issue.slot \in Runs \cup {NoRun}
  BY <1>1, SameRow
<1>4. Commanding => RowsOK'
  BY <1>1, CommandEffects, StatusTypes DEF Resting, Row, RowsOK
<1>5. NoLease \in Lease /\ queued \in BOOLEAN
  BY <1>1, LeaseTypes DEF RestOK
<1>6. Idle \in Await
  BY AwaitTypes DEF Awaits
<1>7. ASSUME NEW pc \in {"stopping", "closing"}, StartCommand(pc)
      PROVE  WellFormed'
  <2> DEFINE b == pc = "stopping"
  <2>1. At(pc, issue.slot) \in Await /\ b \in BOOLEAN
    BY <1>3, AwaitTypes DEF Awaits
  <2> HIDE DEF b
  <2>2. [At(pc, issue.slot) EXCEPT !.current = b] \in Await
    BY <2>1 DEF Await
  <2>3. JobsOK'
    BY <1>1, <1>2, <1>7, <2>2, SetTypes DEF StartCommand, b
  <2>4. RestOK'
    BY <1>1, <1>7, DisturbTypes DEF StartCommand, RestOK, stored, codex
  <2> QED BY <1>1, <1>7, <2>3, <2>4, KeptTypes, PartsNext DEF StartCommand, stored
<1>8. CASE Stop \/ Close
  BY <1>2, <1>4, <1>5, <1>8, EndedTypes DEF Stop, Close, Commanding
<1>9. CASE CliEndsRun
  <2>1. RowsOK'
    BY <1>4, <1>9 DEF Commanding
  <2>2. [job[Operator] EXCEPT !.pc = "clearing"] \in Await
    BY <1>2 DEF Await, Awaits
  <2>3. job' = [job EXCEPT ![Operator] = [job[Operator] EXCEPT !.pc = "clearing"]]
    BY <1>9 DEF CliEndsRun
  <2>4. JobsOK'
    BY <1>1, <1>2, <2>2, <2>3, SetTypes
  <2>5. RestOK'
    BY <1>1, <1>9 DEF CliEndsRun, RestOK, codex
  <2> QED BY <1>1, <1>9, <2>1, <2>4, <2>5, KeptTypes, PartsNext DEF CliEndsRun
<1>10. CASE CommandFails
  <2>1. JobsOK'
    BY <1>1, <1>2, <1>6, <1>10, SetTypes DEF CommandFails
  <2>2. RestOK'
    BY <1>1, <1>10, DisturbTypes DEF CommandFails, RestOK, stored, codex
  <2> QED BY <1>1, <1>10, <2>1, <2>2, KeptTypes, PartsNext DEF CommandFails, stored
<1> QED BY <1>7, <1>8, <1>9, <1>10 DEF Commanding

LEMMA WorldTypes ==
  ASSUME WellFormed,
         \/ SettleDangling \/ RequeueReady \/ Quiet \/ Overrun \/ Crash
         \/ \E k \in RunTypes : NewWork(k) \/ Retry(k)
  PROVE  WellFormed'
<1>1. RowsOK /\ JobsOK /\ LaunchOK /\ RestOK
  BY Parts
<1>2. issue \in Issue /\ status \in [Runs -> Statuses]
  BY <1>1 DEF RowsOK
<1>3. NoLease \in Lease /\ lease \in Lease
  BY <1>1, LeaseTypes DEF RestOK
<1>4. CASE SettleDangling
  <2>1. RowsOK'
    BY <1>1, <1>4, SettleDanglingEffects DEF Row, RowsOK
  <2>2. RestOK'
    BY <1>1, <1>3, <1>4 DEF SettleDangling, RestOK, codex
  <2> QED BY <1>1, <1>4, <2>1, <2>2, KeptTypes, TouchedTypes, PartsNext DEF SettleDangling
<1>5. CASE RequeueReady
  <2>1. RestOK'
    BY <1>1, <1>5 DEF RequeueReady, RestOK, stored, codex
  <2> QED BY <1>1, <1>5, <2>1, KeptTypes, PartsNext DEF RequeueReady, stored
<1>6. CASE Quiet \/ Overrun
  <2>1. \A age \in {"silent", "expired"} : [lease EXCEPT !.age = age] \in Lease
    BY <1>3 DEF Lease
  <2>2. \E age \in {"silent", "expired"} : lease' = [lease EXCEPT !.age = age]
    BY <1>6 DEF Quiet, Overrun
  <2>3. deeds' \in 0..MaxDeeds
    BY <1>1, <1>6, DisturbTypes DEF Quiet, Overrun, RestOK
  <2>4. RestOK'
    BY <1>1, <1>6, <2>1, <2>2, <2>3 DEF Quiet, Overrun, RestOK, codex, process
  <2> QED BY <1>1, <1>6, <2>4, KeptTypes, PartsNext DEF Quiet, Overrun, process
<1>7. CASE Crash
  <2>1. lease' \in Lease
    BY <1>3, <1>7 DEF Crash, Lease
  <2>2. turn' \in [Runs -> {"none", "running", "completed", "failed", "limited", "interrupted"}]
    BY <1>1, <1>7 DEF Crash, RestOK
  <2>3. JobsOK'
    <3>1. \A c \in Callers : job'[c] \in {Idle, job[c]}
      BY <1>7 DEF Crash
    <3>2. job' = [c \in Callers |-> job'[c]]
      BY <1>7 DEF Crash
    <3>3. Idle \in Await /\ Idle.pc = "idle"
      BY AwaitTypes DEF Awaits
    <3> QED BY <1>1, <3>1, <3>2, <3>3 DEF JobsOK, Callers
  <2>4. queued' \in BOOLEAN /\ note' \subseteq Runs /\ deeds' \in 0..MaxDeeds
    BY <1>1, <1>7, DisturbTypes DEF Crash, Ready
  <2>5. RestOK'
    BY <1>1, <1>7, <2>1, <2>2, <2>4 DEF Crash, RestOK
  <2> QED BY <1>1, <1>7, <2>3, <2>5, KeptTypes, PartsNext DEF Crash
<1>8. ASSUME NEW k \in RunTypes, NewWork(k) \/ Retry(k)
      PROVE  WellFormed'
  <2>1. RowsOK'
    BY <1>1, <1>8, WorldEffects, EffectTypes
  <2>2. queued' \in BOOLEAN /\ deeds' \in 0..MaxDeeds
    BY <1>1, <1>8, DisturbTypes DEF NewWork, Retry, RestOK, Dispatchable
  <2>3. RestOK'
    BY <1>1, <1>8, <2>2 DEF NewWork, Retry, RestOK, codex
  <2> QED BY <1>1, <1>8, <2>1, <2>3, KeptTypes, TouchedTypes, PartsNext DEF NewWork, Retry
<1> QED BY <1>4, <1>5, <1>6, <1>7, <1>8

LEMMA StepTypes ==
  ASSUME WellFormed, [Next]_vars
  PROVE  WellFormed'
<1>1. CASE UNCHANGED vars
  <2>1. UNCHANGED <<lease, issue, status, kind, phase, turn, note, job, launch, queued, deeds>>
    BY <1>1 DEF vars, stored, codex, process
  <2> QED BY <2>1, Parts, KeptTypes, PartsNext DEF RestOK
<1> QED BY <1>1, LaunchTypes, HandleTypes, VisitTypes, CommandTypes, WorldTypes DEF Next

LEMMA InitTypes == Init => WellFormed
<1> SUFFICES ASSUME Init PROVE WellFormed
  OBVIOUS
<1>1. [k \in RepairTypes |-> 0] \in [RepairTypes -> Nat]
  OBVIOUS
<1>2. issue \in Issue
  BY <1>1 DEF Init, Issue, RunTypes
<1>3. status \in [Runs -> Statuses]
  BY DEF Init, Statuses
<1>4. JobsOK
  BY AwaitTypes DEF Init, JobsOK, Awaits, Callers
<1>5. LaunchOK
  BY NoLaunchType DEF Init, LaunchOK
<1>6. NoLease \in Lease
  BY DEF NoLease, Lease
<1>7. RestOK
  BY <1>6, RunSessionAssumption DEF Init, RestOK, RunTypes
<1> QED BY <1>2, <1>3, <1>4, <1>5, <1>7, Parts DEF RowsOK

LEMMA AlwaysWellFormed == Spec => []WellFormed
<1>1. WellFormed /\ [Next]_vars => WellFormed'
  BY StepTypes
<1> QED BY <1>1, InitTypes, PTL DEF Spec

\* Rows, leases, launches and awaits keep their types, whatever is lost,
\* interrupted, refunded or written late.
THEOREM TypeSafety == Spec => []TypeOK
<1>1. WellFormed => TypeOK
  BY DEF WellFormed
<1> QED BY <1>1, AlwaysWellFormed, PTL

----------------------------------------------------------------------------
\* Ended runs stay ended

\* What a step may do to the runs.
Writes ==
  \/ \E r : status' \in {status, Finished(r), Settled(r)}
  \/ \E r, p : Threaded(r, p)
  \/ \E r \in Runs : status[r] = "absent" /\ status' = [status EXCEPT ![r] = "queued"]

LEMMA LaunchWrites ==
  ASSUME Launching
  PROVE  Writes
<1>1. CASE \/ Dequeue \/ AcquireLease \/ Refuse \/ Escalate \/ ClaimRefused \/ PrepareWorktree
           \/ AbortLaunch \/ BeginTurn
  <2>1. UNCHANGED status
    BY <1>1 DEF Dequeue, AcquireLease, Refuse, Escalate, ClaimRefused, PrepareWorktree,
                AbortLaunch, BeginTurn, stored
  <2> QED BY <2>1 DEF Writes
<1>2. CASE \E r \in Runs : Claim(r)
  BY <1>2 DEF Claim, Writes
<1>3. CASE StartThread \/ RetryThread \/ RecordTurn
  BY <1>3 DEF StartThread, RetryThread, RecordTurn, Writes
<1>4. CASE FailLaunch
  <2>1. status' \in {status, Finished(launch.run)}
    BY <1>4 DEF FailLaunch
  <2> QED BY <2>1 DEF Writes
<1> QED BY <1>1, <1>2, <1>3, <1>4 DEF Launching

LEMMA FinishWrites ==
  ASSUME NEW c, Finishing(c)
  PROVE  Writes
<1> DEFINE r == job[c].run
<1>1. status' \in {status, Finished(r), Settled(r)}
  BY DEF Finishing, DeferLimited, Suppress, ContinueDirty, Verify, CheckCompletion, Complete,
         FailVerification, stored
<1> QED BY <1>1 DEF Writes

LEMMA StepWrites ==
  ASSUME [Next]_vars
  PROVE  Writes
<1>1. CASE \E r \in Runs : Handling(r)
  <2> PICK r \in Runs : Handling(r)
    BY <1>1
  <2>1. CASE ReadFails(r) \/ SeekRecovery(r) \/ FailTurn(r)
    <3>1. status' \in {status, Finished(r)}
      BY <2>1 DEF ReadFails, SeekRecovery, FailTurn, stored
    <3> QED BY <3>1 DEF Writes
  <2> QED BY <2>1, FinishWrites DEF Handling
<1>2. CASE Visiting
  <2> DEFINE r == job[Pass].run
  <2>1. CASE ~Finishing(Pass)
    <3>1. status' \in {status, Finished(r), Settled(r)}
      BY <1>2, <2>1 DEF Visiting, VisitRun, ReleaseUndelegated, FindStranded, LeaveToLaunch, Recover,
                 LeaveRun, FindInterrupted, FailInterrupted, RetryInterrupted
    <3> QED BY <3>1 DEF Writes
  <2> QED BY <2>1, FinishWrites
<1>3. CASE Commanding
  <2>1. status' \in {status, Finished(job[Operator].run)}
    BY <1>3 DEF Commanding, Stop, Close, CliEndsRun, CommandFails, stored
  <2> QED BY <2>1 DEF Writes
<1>4. CASE \E r \in Runs : EndTurn(r) \/ Progress(r) \/ Notify(r) \/ ListRun(r)
  <2>1. UNCHANGED status
    BY <1>4 DEF EndTurn, Progress, Notify, ListRun, stored
  <2> QED BY <2>1 DEF Writes
<1>5. CASE \/ SettleDangling \/ RequeueReady \/ StartCommand("stopping") \/ StartCommand("closing")
           \/ (\E k \in RunTypes : NewWork(k) \/ Retry(k))
           \/ Quiet \/ Overrun \/ Crash \/ UNCHANGED vars
  <2>1. UNCHANGED status
    BY <1>5 DEF SettleDangling, RequeueReady, StartCommand, NewWork, Retry, Quiet, Overrun, Crash,
                stored, vars
  <2> QED BY <2>1 DEF Writes
<1> QED BY <1>1, <1>2, <1>3, <1>4, <1>5, LaunchWrites DEF Next

\* An ended run is not taken up again, by a thread that is recorded late or by
\* whoever settles it from a row read before.
THEOREM EndedStaysEnded == Spec => TerminalIsFinal
<1>1. WellFormed /\ [Next]_vars =>
        [\A r \in Runs : status[r] = "ended" => status'[r] = "ended"]_vars
  <2> SUFFICES ASSUME WellFormed, [Next]_vars, NEW r \in Runs, status[r] = "ended"
               PROVE  status'[r] = "ended"
    OBVIOUS
  <2>1. status \in [Runs -> Statuses]
    BY Parts DEF RowsOK
  <2>2. Writes
    BY StepWrites
  <2> QED BY <2>1, <2>2 DEF Writes, Finished, Settled, Threaded, Live, LiveStatus
<1> QED BY <1>1, AlwaysWellFormed, PTL DEF Spec, TerminalIsFinal

----------------------------------------------------------------------------
\* Budgets

\* What a launch has read before its awaits still holds when it claims: nothing
\* but a claim takes an attempt.
Budgeted ==
  /\ RecoveryIsBounded
  /\ launch.pc \in {"classifying", "admitting"} =>
       \A k \in RepairTypes \ launch.spent : issue.attempts[k] < RepairBudget

LEMMA StepEffects ==
  ASSUME WellFormed, [Next]_vars
  PROVE  (\E r \in Runs : Claim(r)) \/ Cheap(issue')
<1>1. RowsOK
  BY Parts
<1>2. CASE \E r \in Runs : Handling(r)
  <2> PICK r \in Runs : Handling(r)
    BY <1>2
  <2>1. CASE ReadFails(r) \/ SeekRecovery(r)
    BY <2>1, WorldEffects DEF Resting, Row
  <2>2. CASE FailTurn(r)
    BY <2>2, FailTurnEffects DEF Resting, Clearing, Row
  <2>3. CASE Finishing(r)
    BY <2>3, FinishEffects DEF Resting, Ending, Clearing, Row
  <2> QED BY <2>1, <2>2, <2>3 DEF Handling
<1>3. CASE Visiting
  BY <1>3, VisitEffects DEF Resting, Ending, Clearing, Attaching, Row
<1>4. CASE Commanding
  BY <1>4, CommandEffects DEF Resting, Row
<1>5. CASE Launching
  BY <1>5, LaunchEffects DEF Resting, Clearing, Row
<1>6. CASE SettleDangling
  BY <1>6, SettleDanglingEffects DEF Row
<1>7. CASE \/ RequeueReady \/ Quiet \/ Overrun \/ Crash
           \/ StartCommand("stopping") \/ StartCommand("closing")
           \/ (\E k \in RunTypes : NewWork(k) \/ Retry(k))
           \/ \E r \in Runs : EndTurn(r) \/ Progress(r) \/ Notify(r) \/ ListRun(r)
  BY <1>7, WorldEffects DEF Resting, Row
<1>8. CASE UNCHANGED vars
  BY <1>1, <1>8, SameRow DEF Row, vars, stored
<1> QED BY <1>2, <1>3, <1>4, <1>5, <1>6, <1>7, <1>8 DEF Next

\* A launch carries what it has read to the claim, and no further.
LEMMA LaunchReads ==
  ASSUME WellFormed, [Next]_vars, launch'.pc \in {"classifying", "admitting"}
  PROVE  \/ issue' = issue /\ launch'.spent = Spent
         \/ launch.pc \in {"classifying", "admitting"} /\ launch'.spent = launch.spent
<1>1. launch \in Launch
  BY Parts DEF LaunchOK
<1>2. CASE launch' \in {launch, NoLaunch}
  BY <1>1, <1>2, NoLaunchType
<1>3. CASE Dequeue
  BY <1>2, <1>3 DEF Dequeue, NoLaunch, stored
<1>4. CASE AcquireLease
  BY <1>1, <1>2, <1>4 DEF AcquireLease, Launch
<1>5. CASE (\E r \in Runs : Claim(r)) \/ PrepareWorktree \/ StartThread
  BY <1>1, <1>5 DEF Claim, PrepareWorktree, StartThread, Launch
<1>6. CASE Refuse \/ Escalate \/ ClaimRefused \/ RetryThread \/ RecordTurn \/ AbortLaunch \/ FailLaunch
           \/ BeginTurn
  BY <1>2, <1>6 DEF Refuse, Escalate, ClaimRefused, RetryThread, RecordTurn, AbortLaunch, FailLaunch,
     BeginTurn, process
<1>7. CASE \E r \in Runs : EndTurn(r) \/ Progress(r) \/ Notify(r) \/ Handling(r) \/ ListRun(r)
  BY <1>2, <1>7 DEF EndTurn, Progress, Notify, ListRun, Handling, ReadFails, SeekRecovery, FailTurn,
     Finishing, DeferLimited, Suppress, ContinueDirty, Verify, CheckCompletion, Complete,
     FailVerification, process
<1>8. CASE Visiting
  BY <1>2, <1>8 DEF Visiting, VisitRun, ReleaseUndelegated, FindStranded, LeaveRun, FindInterrupted,
     FailInterrupted, RetryInterrupted, Finishing, DeferLimited, Suppress, ContinueDirty, Verify,
     CheckCompletion, Complete, FailVerification
<1>9. CASE \/ SettleDangling \/ RequeueReady \/ Quiet \/ Overrun \/ Crash \/ Commanding
           \/ StartCommand("stopping") \/ StartCommand("closing")
           \/ (\E k \in RunTypes : NewWork(k) \/ Retry(k)) \/ UNCHANGED vars
  BY <1>2, <1>9 DEF SettleDangling, RequeueReady, Quiet, Overrun, Crash, Commanding, Stop, Close,
     CliEndsRun, CommandFails, StartCommand, NewWork, Retry, process, vars
<1> QED BY <1>3, <1>4, <1>5, <1>6, <1>7, <1>8, <1>9 DEF Next, Launching

LEMMA ClaimBudget ==
  ASSUME WellFormed, Budgeted, NEW r \in Runs, Claim(r)
  PROVE  RecoveryIsBounded'
<1>1. issue \in Issue /\ issue.attempts \in [RepairTypes -> Nat] /\ RepairBudget \in Nat
  BY Parts, RunSessionAssumption DEF RowsOK, Issue
<1>2. launch.kind \in RepairTypes => issue.attempts[launch.kind] < RepairBudget
  BY DEF Claim, Overspent, Budgeted
<1> DEFINE a == OneMore(launch.kind)
<1>3. \A k \in RepairTypes : a[k] <= RepairBudget
  BY <1>1, <1>2 DEF OneMore, Budgeted, RecoveryIsBounded
<1>4. issue' = [issue EXCEPT !.slot = r, !.task = NoTask, !.attempts = a]
  BY DEF Claim
<1> HIDE DEF a
<1>5. issue'.zombie = issue.zombie /\ issue'.attempts = a
  BY <1>1, <1>4 DEF Issue
<1> QED BY <1>3, <1>5 DEF RecoveryIsBounded, Budgeted

\* Recoveries and repairs stay within their budgets, although a launch judges
\* them by an issue row it read before its awaits.
THEOREM BudgetsHold == Spec => []RecoveryIsBounded
<1>1. Init => Budgeted
  BY RunSessionAssumption DEF Init, Budgeted, RecoveryIsBounded, NoLaunch
<1>2. WellFormed /\ Budgeted /\ [Next]_vars => Budgeted'
  <2> SUFFICES ASSUME WellFormed, Budgeted, [Next]_vars
               PROVE  Budgeted'
    OBVIOUS
  <2>1. /\ issue.attempts \in [RepairTypes -> Nat] /\ issue'.attempts \in [RepairTypes -> Nat]
        /\ issue.zombie \in Nat /\ issue'.zombie \in Nat
        /\ RepairBudget \in Nat /\ ZombieBudget \in Nat
    BY Parts, PartsNext, StepTypes, RunSessionAssumption DEF RowsOK, Issue
  <2>2. CASE \E r \in Runs : Claim(r)
    <3>1. launch'.pc = "preparing"
      BY <2>2, Parts DEF Claim, LaunchOK, Launch
    <3> QED BY <2>2, <3>1, ClaimBudget DEF Budgeted
  <2>3. CASE Cheap(issue')
    <3>1. RecoveryIsBounded'
      BY <2>1, <2>3 DEF Budgeted, RecoveryIsBounded, Cheap
    <3>2. ASSUME launch'.pc \in {"classifying", "admitting"}, NEW k \in RepairTypes \ launch'.spent
          PROVE  issue'.attempts[k] < RepairBudget
      <4>1. CASE issue' = issue /\ launch'.spent = Spent
        BY <2>1, <3>2, <4>1 DEF Spent
      <4>2. CASE launch.pc \in {"classifying", "admitting"} /\ launch'.spent = launch.spent
        BY <2>1, <2>3, <3>2, <4>2 DEF Budgeted, Cheap
      <4> QED BY <3>2, <4>1, <4>2, LaunchReads
    <3> QED BY <3>1, <3>2 DEF Budgeted
  <2> QED BY <2>2, <2>3, StepEffects
<1>3. Budgeted => RecoveryIsBounded
  BY DEF Budgeted
<1> QED BY <1>1, <1>2, <1>3, AlwaysWellFormed, PTL DEF Spec

----------------------------------------------------------------------------
\* The slot, when a run is ended from one place at a time

\* Awaits of a handler or the pass after which a run may be ended.
Working == {"listed", "reading", "failing", "finalizing", "refunding"}

\* LiveRunHoldsSlot is not inductive by itself: no two calls deal with one run,
\* the run somebody is about to end is live, a command knows of every live run,
\* and the slot only ever names a run that was created.
OneCallPerRun ==
  \A c, d \in Callers : c # d /\ job[c].pc # "idle" /\ job[d].pc # "idle" =>
                          job[c].run # job[d].run
OwnRun == \A c \in Runs : job[c].pc # "idle" => job[c].run = c
WorkIsLive == \A c \in Runs \cup {Pass} : job[c].pc \in Working => Live(job[c].run)
CommandKnows ==
  /\ job[Operator].pc \in {"stopping", "closing"} => \A r \in Runs : Live(r) => r = job[Operator].run
  /\ job[Operator].pc = "clearing" => NoneLive(status)
Created ==
  /\ \A r \in Runs : issue.slot = r => status[r] # "absent"
  /\ \A r \in Runs : job[Operator].pc # "idle" /\ job[Operator].run = r => status[r] # "absent"

SlotInv ==
  /\ LiveRunHoldsSlot
  /\ OneCallPerRun
  /\ OwnRun
  /\ WorkIsLive
  /\ CommandKnows
  /\ Created

\* A call goes on with its run, is done, or, the CLI's close, has ended the run.
Onward(d) ==
  \/ job'[d].pc = "idle"
  \/ /\ job[d].pc # "idle" /\ job'[d].run = job[d].run
     /\ \/ job'[d].pc = job[d].pc
        \/ d # Operator /\ job[d].pc \in Working
        \/ d = Operator /\ job'[d].pc = "clearing" /\ NoneLive(status')

\* The steps, as the slot sees them: no run begins or ends ...
Keeps ==
  /\ \A r \in Runs : status'[r] = status[r] \/ (Live(r) /\ status'[r] \in LiveStatus)
  /\ issue'.slot = issue.slot \/ (issue'.slot = NoRun /\ NoneLive(status))
  /\ \A d \in Callers : Onward(d)

\* ... the run that is live ends ...
Ends(r) ==
  /\ Live(r)
  /\ status' = Finished(r)
  /\ issue'.slot \in {NoRun, r}
  /\ \A d \in Callers : /\ Onward(d)
                        /\ job'[d].pc \in Working => job[d].run # r

\* ... or a call takes a run on.
Enters(c, r) ==
  /\ status' = status /\ issue' = issue
  /\ job[c].pc = "idle"
  /\ Alone(r)
  /\ job'[c].run = r
  /\ \A d \in Callers \ {c} : job'[d].pc = job[d].pc /\ job'[d].run = job[d].run
  /\ \/ c \in Runs \cup {Pass} /\ r \in Runs /\ Live(r) /\ (c \in Runs => r = c)
     \/ c = Operator /\ r = issue.slot /\ job'[c].pc \in {"stopping", "closing"}

LEMMA KeepsSlot ==
  ASSUME WellFormed, SlotInv, Keeps
  PROVE  SlotInv'
<1>1. \A r \in Runs : (status'[r] \in LiveStatus <=> Live(r)) /\ (status'[r] = "absent" <=> status[r] = "absent")
  BY DEF Keeps, Live, LiveStatus
<1>2. LiveRunHoldsSlot' /\ (\A r \in Runs : issue'.slot = r => status'[r] # "absent")
  BY <1>1, RunSessionAssumption DEF Keeps, SlotInv, LiveRunHoldsSlot, NoneLive, Created, Live
<1>3. \A d \in Callers : Onward(d)
  BY DEF Keeps
<1>4. OneCallPerRun' /\ OwnRun'
  BY <1>3 DEF SlotInv, OneCallPerRun, OwnRun, Onward, Callers
<1>5. WorkIsLive'
  <2> SUFFICES ASSUME NEW c \in Runs \cup {Pass}, job'[c].pc \in Working
               PROVE  status'[job'[c].run] \in LiveStatus
    BY DEF WorkIsLive, Live
  <2>1. c \in Callers /\ c # Operator /\ job'[c].pc # "idle"
    BY RunSessionAssumption DEF Callers, Working
  <2>2. job'[c].run = job[c].run /\ job[c].pc \in Working
    BY <1>3, <2>1 DEF Onward
  <2>3. Live(job[c].run) /\ job[c].run \in Runs
    BY <2>1, <2>2, CallerRun DEF SlotInv, WorkIsLive, Working
  <2> QED BY <1>1, <2>2, <2>3
<1>6. CommandKnows' /\ (\A r \in Runs : job'[Operator].pc # "idle" /\ job'[Operator].run = r =>
                                          status'[r] # "absent")
  BY <1>1, <1>3 DEF SlotInv, CommandKnows, Created, Onward, Callers, NoneLive, Live
<1> QED BY <1>2, <1>4, <1>5, <1>6 DEF SlotInv, Created

LEMMA EndsSlot ==
  ASSUME WellFormed, SlotInv, NEW r \in Runs, Ends(r)
  PROVE  SlotInv'
<1>1. issue.slot = r /\ \A x \in Runs : Live(x) => x = r
  BY DEF SlotInv, LiveRunHoldsSlot, Ends
<1>2. \A x \in Runs : status'[x] = (IF x = r THEN "ended" ELSE status[x])
  BY Parts DEF RowsOK, Ends, Finished
<1>3. NoneLive(status')
  BY <1>1, <1>2 DEF NoneLive, Live, LiveStatus
<1>4. \A d \in Callers : Onward(d)
  BY DEF Ends
<1>5. OneCallPerRun' /\ OwnRun'
  BY <1>4 DEF SlotInv, OneCallPerRun, OwnRun, Onward, Callers
<1>6. LiveRunHoldsSlot' /\ (\A x \in Runs : issue'.slot = x => status'[x] # "absent")
  BY <1>2, <1>3, RunSessionAssumption DEF LiveRunHoldsSlot, NoneLive, Live, Ends
<1>7. WorkIsLive'
  <2> SUFFICES ASSUME NEW c \in Runs \cup {Pass}, job'[c].pc \in Working
               PROVE  FALSE
    BY DEF WorkIsLive
  <2>1. c \in Callers /\ c # Operator /\ job'[c].pc # "idle"
    BY RunSessionAssumption DEF Callers, Working
  <2>2. job[c].pc \in Working /\ job[c].run # r
    BY <1>4, <2>1 DEF Onward, Ends
  <2>3. Live(job[c].run) /\ job[c].run \in Runs
    BY <2>1, <2>2, CallerRun DEF SlotInv, WorkIsLive, Working
  <2> QED BY <1>1, <2>2, <2>3
<1>8. CommandKnows' /\ (\A x \in Runs : job'[Operator].pc # "idle" /\ job'[Operator].run = x =>
                                          status'[x] # "absent")
  BY <1>2, <1>3, <1>4 DEF SlotInv, CommandKnows, Created, Onward, Callers, NoneLive, Live
<1> QED BY <1>5, <1>6, <1>7, <1>8 DEF SlotInv, Created

LEMMA EntersSlot ==
  ASSUME Serial, WellFormed, SlotInv, NEW c \in Callers, NEW r, Enters(c, r)
  PROVE  SlotInv'
<1>1. \A d \in Callers \ {c} : job'[d].pc = job[d].pc /\ job'[d].run = job[d].run
  BY DEF Enters
<1>2. \A d \in Callers \ {c} : job[d].pc # "idle" => job[d].run # r
  BY DEF Enters, Alone
<1>3. OneCallPerRun'
  BY <1>1, <1>2 DEF Enters, SlotInv, OneCallPerRun
<1>4. OwnRun' /\ WorkIsLive' /\ CommandKnows'
  BY <1>1, RunSessionAssumption
     DEF Enters, SlotInv, OwnRun, WorkIsLive, CommandKnows, LiveRunHoldsSlot, Live, NoneLive, Callers
<1>5. LiveRunHoldsSlot' /\ Created'
  BY <1>1 DEF Enters, SlotInv, LiveRunHoldsSlot, Live, Created, Callers
<1> QED BY <1>3, <1>4, <1>5 DEF SlotInv

LEMMA ClaimSlot ==
  ASSUME Serial, WellFormed, SlotInv, NEW r \in Runs, Claim(r)
  PROVE  SlotInv'
<1>1. NoneLive(status)
  BY RunSessionAssumption DEF Claim, Claimable, SlotInv, LiveRunHoldsSlot, NoneLive, Live
<1>2. \A d \in Callers : job'[d].pc = job[d].pc /\ job'[d].run = job[d].run
  BY Parts, TouchedTypes DEF Claim
<1>3. \A x \in Runs : status'[x] = (IF x = r THEN "queued" ELSE status[x])
  BY Parts DEF RowsOK, Claim
<1>4. issue'.slot = r
  BY Parts DEF RowsOK, Issue, Claim
<1>5. \A c \in Runs \cup {Pass} : job[c].pc \notin Working
  BY <1>1, CallerRun DEF SlotInv, WorkIsLive, NoneLive, Live, Working
<1>6. LiveRunHoldsSlot' /\ OneCallPerRun' /\ OwnRun' /\ WorkIsLive'
  BY <1>1, <1>2, <1>3, <1>4, <1>5
     DEF SlotInv, LiveRunHoldsSlot, OneCallPerRun, OwnRun, WorkIsLive, NoneLive, Live, Callers
<1>7. CommandKnows' /\ Created'
  BY <1>2, <1>3, <1>4 DEF Claim, CommandKnows, Created, Callers
<1> QED BY <1>6, <1>7 DEF SlotInv

\* A write that the others learn of, and a call that goes on or is done.
LEMMA TouchedOnward ==
  ASSUME WellFormed, job' = Touched(job)
  PROVE  \A d \in Callers : Onward(d)
BY Parts, TouchedTypes DEF Onward

LEMMA GoesOnward ==
  ASSUME WellFormed, NEW c \in Callers, NEW a \in Await,
         job' = Goes(c, a) \/ job' = [job EXCEPT ![c] = a],
         a.pc = "idle" \/ (c \in Runs \cup {Pass} /\ job[c].pc \in Working /\ a.run = job[c].run)
  PROVE  (\A d \in Callers : Onward(d)) /\ job'[c].pc = a.pc
<1>1. c # Operator /\ a.pc # "idle" => a.run \in Runs /\ job[c].pc # "idle"
  BY CallerRun DEF Working
<1>2. /\ job'[c].pc = a.pc /\ job'[c].run = a.run
      /\ \A d \in Callers \ {c} : job'[d].pc = job[d].pc /\ job'[d].run = job[d].run
  BY <1>1, Parts, GoesTypes, SetTypes
<1> QED BY <1>1, <1>2, RunSessionAssumption DEF Onward

LEMMA RestingKeeps ==
  ASSUME Resting, \A d \in Callers : Onward(d)
  PROVE  Keeps
BY DEF Resting, Row, Keeps

\* A handler or the pass ends the run it deals with: it is the live one, and
\* holds the slot.
LEMMA CallEnds ==
  ASSUME WellFormed, SlotInv, NEW c \in Runs \cup {Pass}, job[c].pc \in Working,
         job'[c].pc \notin Working, \A d \in Callers : Onward(d),
         Ending(job[c].run) \/ Clearing(job[c].run)
  PROVE  \E r \in Runs : Ends(r)
<1> DEFINE r == job[c].run
<1>1. r \in Runs /\ Live(r) /\ issue.slot = r
  BY CallerRun DEF SlotInv, WorkIsLive, LiveRunHoldsSlot, Working
<1>2. status' = Finished(r) /\ issue'.slot = NoRun
  BY <1>1 DEF Ending, Clearing, Settled, Row
<1>3. ASSUME NEW d \in Callers, job'[d].pc \in Working
      PROVE  job[d].run # r
  <2>1. d # c /\ job[d].pc # "idle" /\ job[c].pc # "idle" /\ c \in Callers
    BY <1>3 DEF Onward, Working, Callers
  <2> QED BY <2>1 DEF SlotInv, OneCallPerRun
<1> HIDE DEF r
<1>4. Ends(r)
  BY <1>1, <1>2, <1>3 DEF Ends, r
<1> QED BY <1>1, <1>4

Shape == Keeps \/ \E r \in Runs : Ends(r)

LEMMA FinishShape ==
  ASSUME WellFormed, SlotInv, NEW c \in Runs \cup {Pass}, Finishing(c)
  PROVE  Shape
<1>1. c \in Callers /\ job[c].pc \in Working /\ job[c].pc # "idle"
  BY FinishEffects DEF Callers, Working
<1>2. CASE Verify(c)
  <2>1. job[c] \in Await
    BY <1>1, Parts DEF JobsOK
  <2>2. Decides(c, "finalizing") \in Await /\ Decides(c, "finalizing").run = job[c].run
    BY <2>1 DEF Decides, Await, Awaits
  <2>3. \A d \in Callers : Onward(d)
    BY <1>1, <1>2, <2>2, GoesOnward DEF Verify
  <2>4. Resting
    BY <1>2, Parts, RestingStep DEF Verify, stored
  <2> QED BY <2>3, <2>4, RestingKeeps DEF Shape
<1>3. CASE ~Verify(c)
  <2>1. job' = Goes(c, Idle)
    BY <1>3 DEF Finishing, DeferLimited, Suppress, ContinueDirty, CheckCompletion, Complete,
         FailVerification, ReleaseRunAndDispatch
  <2>2. (\A d \in Callers : Onward(d)) /\ job'[c].pc = "idle"
    BY <1>1, <2>1, AwaitTypes, GoesOnward DEF Awaits
  <2> QED BY <1>1, <2>2, FinishEffects, RestingKeeps, CallEnds DEF Shape, Working
<1> QED BY <1>2, <1>3

LEMMA HandleShape ==
  ASSUME WellFormed, SlotInv, NEW r \in Runs, Handling(r)
  PROVE  Shape
<1>1. r \in Callers
  BY DEF Callers
<1>2. CASE ReadFails(r)
  <2>1. Resting
    BY <1>2, WorldEffects
  <2>2. \A d \in Callers : Onward(d)
    BY <1>1, <1>2, AwaitTypes, GoesOnward DEF ReadFails, Awaits
  <2> QED BY <2>1, <2>2, RestingKeeps DEF Shape
<1>3. CASE SeekRecovery(r)
  <2>1. Resting
    BY <1>3, WorldEffects
  <2>2. job[r] \in Await /\ job[r].pc \in Working
    BY <1>1, <1>3, Parts DEF JobsOK, SeekRecovery, Reads, Working
  <2>3. Decides(r, "failing") \in Await /\ Decides(r, "failing").run = job[r].run
    BY <2>2 DEF Decides, Await, Awaits
  <2>4. \A d \in Callers : Onward(d)
    BY <1>1, <1>3, <2>2, <2>3, GoesOnward DEF SeekRecovery
  <2> QED BY <2>1, <2>4, RestingKeeps DEF Shape
<1>4. CASE FailTurn(r)
  <2>1. job[r].pc \in Working /\ job[r].pc # "idle" /\ job[r].run = r
    BY <1>4 DEF FailTurn, Working, SlotInv, OwnRun
  <2>2. (\A d \in Callers : Onward(d)) /\ job'[r].pc = "idle"
    BY <1>1, <1>4, AwaitTypes, GoesOnward DEF FailTurn, Awaits
  <2> QED BY <1>4, <2>1, <2>2, FailTurnEffects, RestingKeeps, CallEnds DEF Shape, Working
<1> QED BY <1>2, <1>3, <1>4, FinishShape DEF Handling

LEMMA VisitShape ==
  ASSUME WellFormed, SlotInv, Visiting
  PROVE  Shape
<1> DEFINE r == job[Pass].run
<1>1. Pass \in Callers /\ job[Pass].pc # "idle"
  BY DEF Callers, Visiting, VisitRun, ReleaseUndelegated, FindStranded, LeaveRun, FindInterrupted,
         FailInterrupted, RetryInterrupted, Finishing, DeferLimited, Suppress, ContinueDirty,
         Verify, CheckCompletion, Complete, FailVerification, Reads
<1>2. r \in Runs /\ job[Pass] \in Await
  BY <1>1, Parts, CallerRun DEF JobsOK
<1>3. Idle \in Await /\ Idle.pc = "idle"
  BY AwaitTypes DEF Awaits
<1>4. \A pc \in {"refunding", "restoring"} : /\ At(pc, r) \in Await
                                             /\ At(pc, r).run = r /\ At(pc, r).pc = pc
  BY <1>2, AwaitTypes DEF Awaits
<1>5. CASE VisitRun
  <2> DEFINE b == ~Held
             a == [job[Pass] EXCEPT !.pc = "reading", !.took = b]
  <2>1. b \in BOOLEAN
    BY DEF Held
  <2> HIDE DEF b
  <2>2. a \in Await /\ a.run = r
    BY <1>2, <2>1 DEF Await, Awaits
  <2> HIDE DEF a
  <2>3. job[Pass].pc \in Working /\ (job' = [job EXCEPT ![Pass] = Idle] \/ job' = Goes(Pass, a))
    BY <1>5 DEF VisitRun, Working, a, b
  <2>4. \A d \in Callers : Onward(d)
    BY <1>1, <1>3, <2>2, <2>3, GoesOnward
  <2>5. issue.slot = r
    BY <1>2, <2>3 DEF SlotInv, WorkIsLive, LiveRunHoldsSlot
  <2>6. status' = status /\ issue'.slot = r
    BY <1>5, <2>5, Parts DEF VisitRun, RowsOK, Issue
  <2> QED BY <2>4, <2>5, <2>6 DEF Shape, Keeps
<1>6. CASE FindInterrupted \/ FailInterrupted
  <2>1. /\ job[Pass].pc \in Working
        /\ \/ job' = [job EXCEPT ![Pass] = Idle]
           \/ job' = Goes(Pass, At("restoring", r))
           \/ job' = Goes(Pass, At("refunding", r)) /\ UNCHANGED status /\ issue' = Refunded(issue, kind[r])
    BY <1>6 DEF FindInterrupted, FailInterrupted, Reads, Working
  <2>2. \A d \in Callers : Onward(d)
    BY <1>1, <1>2, <1>3, <1>4, <2>1, GoesOnward
  <2>3. CASE job' = Goes(Pass, At("refunding", r)) /\ UNCHANGED status /\ issue' = Refunded(issue, kind[r])
    <3>1. Resting
      BY <2>3, Parts, RefundedRow DEF Resting
    <3> QED BY <2>2, <3>1, RestingKeeps DEF Shape
  <2>4. CASE job' = [job EXCEPT ![Pass] = Idle] \/ job' = Goes(Pass, At("restoring", r))
    <3>1. job'[Pass].pc \in {"idle", "restoring"}
      BY <1>1, <1>2, <1>3, <1>4, <2>1, <2>4, GoesOnward
    <3>2. ~VisitRun
      BY <1>6, <2>1 DEF FindInterrupted, FailInterrupted, VisitRun, Reads
    <3> QED BY <2>1, <2>2, <3>1, <3>2, VisitEffects, RestingKeeps, CallEnds DEF Shape, Working
  <2> QED BY <2>1, <2>3, <2>4
<1>7. CASE RetryInterrupted
  <2>1. \A d \in Callers : Onward(d)
    BY <1>1, <1>3, <1>7, GoesOnward DEF RetryInterrupted
  <2>2. status' = status /\ issue'.slot = issue.slot
    BY <1>7, Parts DEF RetryInterrupted, RowsOK, Issue
  <2> QED BY <2>1, <2>2 DEF Shape, Keeps
<1>8. CASE ReleaseUndelegated \/ FindStranded \/ LeaveRun
  <2>1. job[Pass].pc = "reading" /\ (job' = [job EXCEPT ![Pass] = Idle] \/ job' = Goes(Pass, Idle))
    BY <1>8 DEF ReleaseUndelegated, FindStranded, LeaveToLaunch, Recover, LeaveRun, Reads
  <2>2. (\A d \in Callers : Onward(d)) /\ job'[Pass].pc = "idle"
    BY <1>1, <1>3, <2>1, GoesOnward
  <2>3. ~VisitRun
    BY <2>1 DEF VisitRun
  <2> QED BY <2>1, <2>2, <2>3, VisitEffects, RestingKeeps, CallEnds DEF Shape, Working
<1>9. CASE Finishing(Pass)
  BY <1>9, FinishShape
<1> QED BY <1>5, <1>6, <1>7, <1>8, <1>9 DEF Visiting

LEMMA CommandIsWrite ==
  ASSUME WellFormed, Stop \/ Close
  PROVE  LET r == job[Operator].run IN
         \/ Resting
         \/ status' = Finished(r) /\ r # NoRun /\ issue'.slot = NoRun /\ job[Operator].pc # "clearing"
         \/ (r = NoRun \/ job[Operator].pc = "clearing") /\ status' = status /\ issue'.slot = NoRun
<1>1. CASE Stop
  BY <1>1, CommandEffects DEF Commanding, Row, Stop, CliEndsRun
<1>2. CASE Close
  <2>1. issue'.slot = NoRun
    BY <1>2, Parts DEF Close, RowsOK, Issue
  <2> QED BY <1>2, <2>1 DEF Close
<1> QED BY <1>1, <1>2

LEMMA CommandShape ==
  ASSUME WellFormed, SlotInv, Commanding
  PROVE  Shape
<1> DEFINE r == job[Operator].run
<1>1. Operator \in Callers /\ job[Operator] \in Await /\ r \in Runs \cup {NoRun}
  BY Parts DEF Callers, JobsOK, Await
<1>2. Idle \in Await /\ Idle.pc = "idle"
  BY AwaitTypes DEF Awaits
<1>3. \A x \in Runs : Live(x) => issue.slot = x
  BY DEF SlotInv, LiveRunHoldsSlot
<1>4. status \in [Runs -> Statuses]
  BY Parts DEF RowsOK
<1>5. CASE Stop \/ Close
  <2>1. job' = Goes(Operator, Idle)
    BY <1>5 DEF Stop, Close
  <2>2. (\A d \in Callers : Onward(d)) /\ job'[Operator].pc = "idle"
    BY <1>1, <1>2, <2>1, GoesOnward
  <2>3. /\ job[Operator].pc \in {"stopping", "closing", "clearing"}
        /\ job[Operator].pc # "clearing" => \A x \in Runs : Live(x) => x = r
        /\ job[Operator].pc = "clearing" => NoneLive(status)
    BY <1>5 DEF Stop, Close, SlotInv, CommandKnows
  <2>4. \/ Resting
        \/ status' = Finished(r) /\ r # NoRun /\ issue'.slot = NoRun /\ job[Operator].pc # "clearing"
        \/ (r = NoRun \/ job[Operator].pc = "clearing") /\ status' = status /\ issue'.slot = NoRun
    BY <1>5, CommandIsWrite
  <2>5. CASE Resting
    BY <2>2, <2>5, RestingKeeps DEF Shape
  <2>6. CASE (r = NoRun \/ job[Operator].pc = "clearing") /\ status' = status /\ issue'.slot = NoRun
    <3>1. NoneLive(status)
      BY <2>3, <2>6, RunSessionAssumption DEF NoneLive, Live
    <3> QED BY <2>2, <2>6, <3>1 DEF Shape, Keeps
  <2>7. CASE status' = Finished(r) /\ r # NoRun /\ issue'.slot = NoRun /\ job[Operator].pc # "clearing"
    <3>1. r \in Runs /\ status[r] # "absent"
      BY <1>1, <2>3, <2>7 DEF SlotInv, Created
    <3>2. CASE Live(r)
      <4>1. ASSUME NEW d \in Callers, job'[d].pc \in Working
            PROVE  job[d].run # r
        <5>1. d # Operator /\ job[d].pc # "idle"
          BY <2>2, <4>1 DEF Onward, Working
        <5> QED BY <1>1, <2>3, <5>1 DEF SlotInv, OneCallPerRun
      <4>2. Ends(r)
        BY <2>2, <2>7, <3>2, <4>1 DEF Ends
      <4> QED BY <3>1, <4>2 DEF Shape
    <3>3. CASE ~Live(r)
      <4>1. status' = status
        BY <1>4, <2>7, <3>1, <3>3 DEF Finished, Live, Statuses
      <4>2. NoneLive(status)
        BY <2>3, <2>7, <3>3 DEF NoneLive, Live
      <4> QED BY <2>2, <2>7, <4>1, <4>2 DEF Shape, Keeps
    <3> QED BY <3>2, <3>3
  <2> QED BY <2>4, <2>5, <2>6, <2>7
<1>6. CASE CliEndsRun
  <2>1. /\ job[Operator].pc = "closing" /\ r \in Runs
        /\ status' = Finished(r) /\ issue'.slot = issue.slot
    BY <1>1, <1>6 DEF CliEndsRun
  <2>2. status[r] # "absent" /\ \A x \in Runs : Live(x) => x = r
    BY <2>1 DEF SlotInv, Created, CommandKnows
  <2>3. NoneLive(status')
    BY <1>4, <2>1, <2>2 DEF NoneLive, Live, Finished, LiveStatus
  <2>4. /\ job'[Operator].pc = "clearing" /\ job'[Operator].run = r
        /\ \A d \in Callers \ {Operator} : job'[d] = job[d]
    BY <1>1, <1>6, Parts DEF CliEndsRun, JobsOK, Await
  <2>5. \A d \in Callers : Onward(d)
    BY <2>1, <2>3, <2>4 DEF Onward
  <2>6. CASE Live(r)
    <3>1. issue'.slot = r
      BY <1>3, <2>1, <2>6
    <3>2. ASSUME NEW d \in Callers, job'[d].pc \in Working
          PROVE  job[d].run # r
      <4>1. d # Operator /\ job[d].pc # "idle"
        BY <2>4, <3>2 DEF Working
      <4> QED BY <1>1, <2>1, <4>1 DEF SlotInv, OneCallPerRun
    <3>3. Ends(r)
      BY <2>1, <2>5, <2>6, <3>1, <3>2 DEF Ends
    <3> QED BY <2>1, <3>3 DEF Shape
  <2>7. CASE ~Live(r)
    <3>1. status' = status
      BY <1>4, <2>1, <2>2, <2>7 DEF Finished, Live, Statuses
    <3> QED BY <2>1, <2>5, <3>1 DEF Shape, Keeps
  <2> QED BY <2>6, <2>7
<1>7. CASE CommandFails
  <2>1. \A d \in Callers : Onward(d)
    BY <1>1, <1>2, <1>7, GoesOnward DEF CommandFails
  <2> QED BY <1>7, <2>1 DEF CommandFails, stored, Shape, Keeps
<1> QED BY <1>5, <1>6, <1>7 DEF Commanding

\* What else happens leaves the runs, the slot and the calls alone; a crash ends
\* the calls.
LEMMA WorldShape ==
  ASSUME WellFormed, SlotInv,
         \/ SettleDangling \/ RequeueReady \/ Quiet \/ Overrun \/ Crash
         \/ (\E k \in RunTypes : NewWork(k) \/ Retry(k))
         \/ \E r \in Runs : EndTurn(r) \/ Progress(r)
  PROVE  Keeps
<1>1. \A d \in Callers : Onward(d)
  <2>1. CASE SettleDangling \/ \E k \in RunTypes : NewWork(k) \/ Retry(k)
    BY <2>1, TouchedOnward DEF SettleDangling, NewWork, Retry
  <2>2. CASE Crash
    BY <2>2, AwaitTypes DEF Crash, Onward, Awaits
  <2>3. CASE \/ RequeueReady \/ Quiet \/ Overrun
             \/ \E r \in Runs : EndTurn(r) \/ Progress(r)
    BY <2>3 DEF RequeueReady, Quiet, Overrun, EndTurn, Progress, process, Onward
  <2> QED BY <2>1, <2>2, <2>3
<1>2. CASE SettleDangling
  <2>1. NoneLive(status)
    BY <1>2, SettleDanglingEffects DEF SlotInv, LiveRunHoldsSlot, NoneLive, Live
  <2> QED BY <1>1, <1>2, <2>1, SettleDanglingEffects DEF Keeps, Row
<1>3. CASE ~SettleDangling
  BY <1>1, <1>3, WorldEffects, RestingKeeps
<1> QED BY <1>2, <1>3

LEMMA LaunchShape ==
  ASSUME Serial, WellFormed, SlotInv, Launching
  PROVE  Shape \/ \E r \in Runs : Claim(r)
<1>1. CASE \E r \in Runs : Claim(r)
  BY <1>1
<1>2. CASE ~\E r \in Runs : Claim(r)
  <2>1. \A d \in Callers : Onward(d)
    <3>1. job' = Touched(job) \/ job' = job
      BY <1>2 DEF Launching, Dequeue, AcquireLease, Refuse, Escalate, ClaimRefused, PrepareWorktree,
         StartThread, RetryThread, RecordTurn, AbortLaunch, FailLaunch, BeginTurn, process
    <3>2. CASE job' = job
      BY <3>2 DEF Onward
    <3> QED BY <3>1, <3>2, TouchedOnward
  <2>2. CASE Resting
    BY <2>1, <2>2, RestingKeeps DEF Shape
  <2>3. ASSUME NEW p, Threaded(launch.run, p), Row(issue', issue.slot)
        PROVE  Keeps
    BY <2>1, <2>3, Parts DEF RowsOK, Threaded, Row, Keeps, Live, LiveStatus
  <2>4. CASE FailLaunch /\ issue.slot = launch.run /\ Clearing(launch.run)
    <3> DEFINE r == launch.run
    <3>1. r \in Runs \cup {NoRun} /\ status \in [Runs -> Statuses]
      BY Parts DEF LaunchOK, Launch, RowsOK
    <3>2. status' = Finished(r) /\ issue'.slot = NoRun
      BY <2>4 DEF Clearing, Row
    <3>3. CASE r \in Runs /\ Live(r)
      <4>1. ASSUME NEW d \in Callers, job'[d].pc \in Working
            PROVE  job[d].run # r
        <5>1. job[d].pc # "idle"
          BY <2>1, <4>1 DEF Onward, Working
        <5> QED BY <2>4, <5>1 DEF FailLaunch, Alone
      <4>2. Ends(r)
        BY <2>1, <3>2, <3>3, <4>1 DEF Ends
      <4> QED BY <3>3, <4>2 DEF Shape
    <3>4. CASE ~(r \in Runs /\ Live(r))
      <4>1. NoneLive(status)
        BY <2>4, <3>4 DEF SlotInv, LiveRunHoldsSlot, NoneLive, Live
      <4>2. r \in Runs => status[r] = "ended"
        BY <2>4, <3>1, <3>4 DEF SlotInv, Created, Live, Statuses
      <4>3. status' = status
        BY <3>1, <3>2, <4>2 DEF Finished
      <4> QED BY <2>1, <3>2, <4>1, <4>3 DEF Shape, Keeps
    <3> QED BY <3>3, <3>4
  <2> QED BY <1>2, <2>2, <2>3, <2>4, LaunchEffects DEF Shape
<1> QED BY <1>1, <1>2

LEMMA EntersShape ==
  ASSUME WellFormed, SlotInv,
         \/ StartCommand("stopping") \/ StartCommand("closing")
         \/ \E r \in Runs : Notify(r) \/ ListRun(r)
  PROVE  Keeps \/ \E c \in Callers : \E r \in Runs \cup {NoRun} : Enters(c, r)
<1>1. JobsOK /\ issue.slot \in Runs \cup {NoRun}
  BY Parts, SameRow
<1>2. ASSUME NEW r \in Runs, Notify(r)
      PROVE  Keeps \/ Enters(r, r)
  <2>1. CASE status[r] = "running" /\ Alive
    <3>1. /\ job'[r].run = r
          /\ \A d \in Callers \ {r} : job'[d] = job[d]
      BY <1>1, <1>2, <2>1 DEF Notify, JobsOK, Callers, At, Idle
    <3> QED BY <1>2, <2>1, <3>1 DEF Notify, Enters, Live, LiveStatus
  <2>2. CASE ~(status[r] = "running" /\ Alive)
    BY <1>2, <2>2 DEF Notify, Keeps, Onward
  <2> QED BY <2>1, <2>2
<1>3. ASSUME NEW r \in Runs, ListRun(r)
      PROVE  Enters(Pass, r)
  <2>1. /\ job'[Pass].run = r
        /\ \A d \in Callers \ {Pass} : job'[d] = job[d]
    BY <1>1, <1>3 DEF ListRun, JobsOK, Callers, At, Idle
  <2> QED BY <1>3, <2>1, RunSessionAssumption DEF ListRun, Enters, stored
<1>4. ASSUME NEW pc \in {"stopping", "closing"}, StartCommand(pc)
      PROVE  Enters(Operator, issue.slot)
  <2>1. /\ job'[Operator].run = issue.slot /\ job'[Operator].pc = pc
        /\ \A d \in Callers \ {Operator} : job'[d] = job[d]
    BY <1>1, <1>4 DEF StartCommand, JobsOK, Callers, At, Idle
  <2> QED BY <1>4, <2>1 DEF StartCommand, Enters, stored
<1> QED BY <1>1, <1>2, <1>3, <1>4 DEF Callers

\* Every step keeps the live run, ends it, claims one, or takes a call up.
LEMMA StepShape ==
  ASSUME Serial, WellFormed, SlotInv, [Next]_vars
  PROVE  \/ Shape
         \/ \E r \in Runs : Claim(r)
         \/ \E c \in Callers : \E r \in Runs \cup {NoRun} : Enters(c, r)
<1>1. CASE UNCHANGED vars
  BY <1>1 DEF vars, stored, process, Shape, Keeps, Onward
<1>2. CASE Launching
  BY <1>2, LaunchShape
<1>3. CASE \E r \in Runs : Handling(r)
  BY <1>3, HandleShape
<1>4. CASE Visiting \/ Commanding
  BY <1>4, VisitShape, CommandShape
<1>5. CASE \/ SettleDangling \/ RequeueReady \/ Quiet \/ Overrun \/ Crash
           \/ (\E k \in RunTypes : NewWork(k) \/ Retry(k))
           \/ \E r \in Runs : EndTurn(r) \/ Progress(r)
  BY <1>5, WorldShape DEF Shape
<1>6. CASE \/ StartCommand("stopping") \/ StartCommand("closing")
           \/ \E r \in Runs : Notify(r) \/ ListRun(r)
  BY <1>6, EntersShape DEF Shape
<1> QED BY <1>1, <1>2, <1>3, <1>4, <1>5, <1>6 DEF Next

LEMMA InitSlot == Init => SlotInv
BY RunSessionAssumption
   DEF Init, SlotInv, LiveRunHoldsSlot, OneCallPerRun, OwnRun, WorkIsLive, CommandKnows, Created,
       Live, LiveStatus, Callers, Idle, Working

LEMMA StepSlot ==
  ASSUME Serial, WellFormed, SlotInv, [Next]_vars
  PROVE  SlotInv'
BY StepShape, KeepsSlot, EndsSlot, ClaimSlot, EntersSlot DEF Shape

LEMMA AlwaysSlot ==
  ASSUME Serial
  PROVE  Spec => []SlotInv
<1>1. WellFormed /\ SlotInv /\ [Next]_vars => SlotInv'
  BY StepSlot
<1> QED BY <1>1, InitSlot, AlwaysWellFormed, PTL DEF Spec

\* The run that works on an issue is the one its slot names, if handler, pass,
\* launch and operator do not end one run at the same time.
THEOREM SlotNamesTheLiveRun ==
  ASSUME Serial
  PROVE  Spec => []LiveRunHoldsSlot
<1>1. SlotInv => LiveRunHoldsSlot
  BY DEF SlotInv
<1> QED BY <1>1, AlwaysSlot, PTL

----------------------------------------------------------------------------
\* Refinement

WorkerOf(st) == IF NoneLive(st) THEN NoRun ELSE CHOOSE r \in Runs : st[r] \in LiveStatus
EndedIn(st) == {r \in Runs : st[r] = "ended"}

LEMMA TheWorker ==
  ASSUME NEW st, NEW r \in Runs, st[r] \in LiveStatus,
         \A x \in Runs : st[x] \in LiveStatus => x = r
  PROVE  WorkerOf(st) = r
BY DEF WorkerOf, NoneLive

LEMMA NoWorker ==
  ASSUME NEW st, NoneLive(st)
  PROVE  WorkerOf(st) = NoRun
BY DEF WorkerOf

\* The same runs live: the same one works.
LEMMA SameWorker ==
  ASSUME NEW st, NEW new, \A r \in Runs : new[r] \in LiveStatus <=> st[r] \in LiveStatus,
         \A r, x \in Runs : st[r] \in LiveStatus /\ st[x] \in LiveStatus => x = r
  PROVE  WorkerOf(new) = WorkerOf(st)
<1>1. CASE NoneLive(st)
  BY <1>1, NoWorker DEF NoneLive
<1>2. ASSUME NEW r \in Runs, st[r] \in LiveStatus
      PROVE  WorkerOf(new) = WorkerOf(st)
  <2>1. WorkerOf(st) = r
    BY <1>2, TheWorker
  <2>2. WorkerOf(new) = r
    BY <1>2, TheWorker
  <2> QED BY <2>1, <2>2
<1> QED BY <1>1, <1>2 DEF NoneLive

LEMMA Mapping ==
  /\ OneRun!AbstractInit <=> WorkerOf(status) = NoRun /\ EndedIn(status) = {}
  /\ OneRun!End <=> /\ WorkerOf(status) # NoRun
                    /\ EndedIn(status') = EndedIn(status) \cup {WorkerOf(status)}
                    /\ WorkerOf(status') = NoRun
  /\ \A r \in Runs : OneRun!Begin(r) <=>
       /\ WorkerOf(status) = NoRun /\ r \notin EndedIn(status)
       /\ WorkerOf(status') = r /\ EndedIn(status') = EndedIn(status)
  /\ UNCHANGED OneRun!abstractVars <=>
       WorkerOf(status') = WorkerOf(status) /\ EndedIn(status') = EndedIn(status)
BY DEF OneRun!AbstractInit, OneRun!End, OneRun!Begin, OneRun!abstractVars, WorkerOf, EndedIn, Live

\* A claim begins the run, whatever ends it ends it, and all else stutters.
THEOREM ImplementsOneRunPerIssue ==
  ASSUME Serial
  PROVE  Spec => OneRunAtATime
<1>1. Init => OneRun!AbstractInit
  BY Mapping DEF Init, WorkerOf, EndedIn, NoneLive, LiveStatus
<1>2. WellFormed /\ SlotInv /\ [Next]_vars => [OneRun!AbstractNext]_(OneRun!abstractVars)
  <2> SUFFICES ASSUME WellFormed, SlotInv, [Next]_vars
               PROVE  [OneRun!AbstractNext]_(OneRun!abstractVars)
    OBVIOUS
  <2>1. status \in [Runs -> Statuses] /\ \A r, x \in Runs : Live(r) /\ Live(x) => x = r
    BY Parts DEF RowsOK, SlotInv, LiveRunHoldsSlot
  <2>2. CASE Keeps
    <3>1. \A r \in Runs : status'[r] \in LiveStatus <=> status[r] \in LiveStatus
      BY <2>2 DEF Keeps, Live
    <3>2. EndedIn(status') = EndedIn(status)
      BY <2>2 DEF Keeps, Live, LiveStatus, EndedIn
    <3> QED BY <2>1, <3>1, <3>2, SameWorker, Mapping DEF Live
  <2>3. ASSUME NEW r \in Runs, Ends(r)
        PROVE  OneRun!End
    <3>1. \A x \in Runs : status'[x] = (IF x = r THEN "ended" ELSE status[x])
      BY <2>1, <2>3 DEF Ends, Finished
    <3>2. WorkerOf(status) = r
      BY <2>1, <2>3, TheWorker DEF Ends, Live
    <3>3. NoneLive(status')
      BY <2>1, <2>3, <3>1 DEF Ends, NoneLive, Live, LiveStatus
    <3>4. EndedIn(status') = EndedIn(status) \cup {r}
      BY <3>1 DEF EndedIn
    <3> QED BY <3>2, <3>3, <3>4, NoWorker, Mapping, RunSessionAssumption
  <2>4. ASSUME NEW r \in Runs, Claim(r)
        PROVE  OneRun!Begin(r)
    <3>1. \A x \in Runs : status'[x] = (IF x = r THEN "queued" ELSE status[x])
      BY <2>1, <2>4 DEF Claim
    <3>2. NoneLive(status)
      BY <2>4, RunSessionAssumption DEF Claim, Claimable, SlotInv, LiveRunHoldsSlot, NoneLive, Live
    <3>3. WorkerOf(status') = r
      BY <3>1, <3>2, TheWorker DEF NoneLive, LiveStatus
    <3>4. EndedIn(status') = EndedIn(status) /\ r \notin EndedIn(status)
      BY <2>4, <3>1 DEF Claim, EndedIn
    <3> QED BY <3>2, <3>3, <3>4, NoWorker, Mapping
  <2>5. ASSUME NEW c, NEW r, Enters(c, r)
        PROVE  UNCHANGED OneRun!abstractVars
    BY <2>5, Mapping DEF Enters
  <2> QED BY <2>2, <2>3, <2>4, <2>5, StepShape DEF Shape, OneRun!AbstractNext
<1> QED BY <1>1, <1>2, AlwaysWellFormed, AlwaysSlot, PTL DEF Spec, OneRunAtATime, OneRun!AbstractSpec

=============================================================================
