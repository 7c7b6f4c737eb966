----------------------------- MODULE RunSession -----------------------------
(***************************************************************************)
(* PatchRelay: the runs of one issue.                                      *)
(*                                                                         *)
(* A launch claims the issue's slot for a new run, prepares a worktree,    *)
(* starts a Codex thread and a turn.  When the turn ends, Codex notifies;  *)
(* the notification handler settles the run, frees the slot and dispatches *)
(* the next task.  A reconcile pass, started by a timer, visits every live *)
(* run and settles those whose launch or notification was lost, so that    *)
(* handler, pass, launch and operator may all be ending the same run.  A   *)
(* lease on the issue, renewed by heartbeats, is to keep them and a former *)
(* process apart.  Every await of the code ends a step.                    *)
(***************************************************************************)
EXTENDS Naturals

CONSTANTS
  Runs,          \* bound: the runs that may be created
  NoRun,         \* an empty slot
  Pass,          \* the reconcile pass
  Operator,      \* the operator's stop and close commands
  RepairTypes,   \* run types that have an attempt budget
  NoTask,        \* no runnable workflow task is open
  ZombieBudget,  \* zombieRecoveryBudget
  RepairBudget,  \* ciRepairBudget, reviewFixBudget
  MaxDeeds,      \* bound: restarts, leases that run out under their holder, commands
  Serial         \* TRUE: a run is ended from one place at a time

ASSUME RunSessionAssumption ==
  /\ NoRun \notin Runs
  /\ Pass \notin Runs /\ Operator \notin Runs /\ Pass # Operator
  /\ RepairTypes \subseteq {"ci_repair", "review_fix"}
  /\ NoTask \notin {"implementation", "ci_repair", "review_fix"}
  /\ ZombieBudget \in Nat
  /\ RepairBudget \in Nat
  /\ MaxDeeds \in Nat
  /\ Serial \in BOOLEAN

RunTypes == {"implementation"} \cup RepairTypes
LiveStatus == {"queued", "running"}

\* A call that awaits something while it deals with a run: the completion
\* handler of that run, the reconcile pass, or an operator's command.
Callers == Runs \cup {Pass, Operator}
Awaits == {"idle", "listed", "reading", "failing", "finalizing", "refunding",
           "restoring", "stopping", "closing", "clearing"}

VARIABLES
  lease,   \* the issue_session_leases row: which worker, acquired where, how old
  issue,   \* the issue row: slot (active_run_id), task, open (it has no outcome and
           \* asks for no input), zombie, attempts
  status,  \* runs.status, "ended" for every terminal one, or "absent"
  kind,    \* runs.run_type
  phase,   \* runs.launch_phase: a run past "claimed" has a thread
  turn,    \* Codex: the turn of the run
  note,    \* Codex: runs whose turn/completed notification is on its way
  job,     \* each caller's await: pc, the run, whether the issue row is still the
           \* version it read; for the pass, the launch phase it listed and
           \* whether it took the lease
  launch,  \* RunOrchestrator.run: pc, the run, its type, what it read
  queued,  \* the issue is in the issue queue
  deeds    \* how many disturbances there were

stored == <<lease, issue, status, kind, phase>>
codex == <<turn, note>>
process == <<job, launch, queued>>
vars == <<stored, codex, process, deeds>>

----------------------------------------------------------------------------
(***************************************************************************)
(* Leases, rows and the queue.                                             *)
(***************************************************************************)

NoLease == [owner |-> "none", by |-> "nobody", age |-> "fresh"]
Taken(who) == [owner |-> "self", by |-> who, age |-> "fresh"]

\* getHeldLease: the row names this worker and has not run out.
Held == lease.owner = "self" /\ lease.age # "expired"
HeldBy(who) == Held /\ lease.by = who
Free == lease.owner = "none" \/ lease.age = "expired"

\* Mutant of Foreign: a lease of another process never runs out.
ForeignForEver == lease.owner = "other"

\* claimForReconciliation "skip": another process may still be at work.
Foreign == lease.owner = "other" /\ lease.age # "expired"

\* release: whichever lease this worker holds goes, an active foreign one stays.
Released == IF Foreign THEN lease ELSE NoLease

\* heartbeat: a worker renews its lease even after it ran out.
Alive == lease.owner = "self"
Renewed == [lease EXCEPT !.age = "fresh"]

Live(r) == status[r] \in LiveStatus
NoneLive(st) == \A r \in Runs : st[r] \notin LiveStatus

\* A task is dispatched when the slot is empty and the issue has no outcome.
Ready(i) == i.slot = NoRun /\ i.task # NoTask /\ i.open

\* dispatchIfWorkflowTaskPending also waits for runs that lost their slot.
Dispatchable(i, st) == Ready(i) /\ NoneLive(st)

\* finishRun.
Finished(r) == [status EXCEPT ![r] = "ended"]

\* Mutant of Settled: the slot is cleared and the run is not finished.
OnlyCleared(r) == status

\* settleRun's share of it leaves a run that has ended alone.
Settled(r) == IF Live(r) THEN Finished(r) ELSE status

\* settleRun's other share: i is written, and the slot cleared, if it is r's.
Freed(r, i) == IF issue.slot = r THEN [i EXCEPT !.slot = NoRun] ELSE issue

\* Mutant of Refunded: an attempt that was given back is given back again.
RefundedTwice(i, k) == IF k \in RepairTypes THEN [i EXCEPT !.attempts[k] = @ - 1] ELSE i

\* buildAttemptRefundFields: the attempt that the launch of a repair took.
Refunded(i, k) ==
  IF k \in RepairTypes /\ i.attempts[k] > 0 THEN [i EXCEPT !.attempts[k] = @ - 1] ELSE i

\* Everybody in an await learns nothing of a write to the issue row.
Touched(j) == [c \in Callers |-> [j[c] EXCEPT !.current = @ /\ issue' = issue]]
Idle == [pc |-> "idle", run |-> NoRun, current |-> FALSE, phase |-> "claimed", took |-> FALSE]
At(pc, r) == [Idle EXCEPT !.pc = pc, !.run = r]
Goes(c, j) == Touched([job EXCEPT ![c] = j])

\* The issue row has just been read: it is current until somebody writes it.
Decides(c, pc) == [job[c] EXCEPT !.pc = pc, !.current = TRUE, !.phase = "claimed", !.took = FALSE]

\* With Serial, whoever ends run r waits for a call that is dealing with it.
Alone(r) == Serial => \A c \in Callers : job[c].pc = "idle" \/ job[c].run # r

NoLaunch == [pc |-> "idle", run |-> NoRun, kind |-> NoTask,
             spent |-> {}, strayed |-> FALSE]

----------------------------------------------------------------------------
(***************************************************************************)
(* Launching a run: one issue at a time leaves the serial issue queue.     *)
(***************************************************************************)

\* Mutant of Spent: the last attempt is counted once too often.
OverSpent == {k \in RepairTypes : issue.attempts[k] > RepairBudget}

\* The run types whose attempt budget is used up.
Spent == {k \in RepairTypes : issue.attempts[k] >= RepairBudget}

\* run(): skipped while this process holds the lease or a run holds the slot.
Dequeue ==
  /\ launch.pc = "idle"
  /\ queued
  /\ queued' = FALSE
  /\ IF Held \/ issue.slot # NoRun
       THEN UNCHANGED launch
       ELSE launch' = [NoLaunch EXCEPT !.pc = "classifying", !.spent = Spent,
                                       !.strayed = issue.zombie > 0]
  /\ UNCHANGED <<stored, codex, job, deeds>>

\* After the triage: the lease is taken, and dropped when no task is open.
AcquireLease ==
  /\ launch.pc = "classifying"
  /\ IF Free /\ issue.slot = NoRun /\ issue.task # NoTask /\ issue.open
       THEN /\ lease' = Taken("launch")
            /\ launch' = [launch EXCEPT !.pc = "admitting", !.kind = issue.task]
       ELSE /\ lease' = IF Free /\ issue.slot = NoRun THEN NoLease ELSE lease
            /\ launch' = NoLaunch
  /\ UNCHANGED <<issue, status, kind, phase, codex, job, queued, deeds>>

\* Blocked, backing off, or no longer wanted: the task stays, the lease goes.
Refuse ==
  /\ launch.pc = "admitting"
  /\ lease' = Released
  /\ launch' = NoLaunch
  /\ UNCHANGED <<issue, status, kind, phase, codex, job, queued, deeds>>

Overspent == launch.kind \in launch.spent

\* The budget, as it was before the awaits, is spent: a human must help.
Escalate ==
  /\ launch.pc = "admitting"
  /\ Overspent
  /\ issue' = IF Held THEN [issue EXCEPT !.open = FALSE] ELSE issue
  /\ lease' = Released
  /\ launch' = NoLaunch
  /\ job' = Touched(job)
  /\ UNCHANGED <<status, kind, phase, codex, queued, deeds>>

Claimable == HeldBy("launch") /\ issue.slot = NoRun
             /\ issue.task = launch.kind /\ issue.open

\* A launch of a repair counts as an attempt.
OneMore(k) ==
  IF k \in RepairTypes THEN [issue.attempts EXCEPT ![k] = @ + 1] ELSE issue.attempts

\* claimRun: the run is created and takes the slot, on the row as it is now.
Claim(r) ==
  /\ launch.pc = "admitting"
  /\ ~Overspent
  /\ Claimable
  /\ status[r] = "absent"
  /\ Serial => job[Operator].pc = "idle"
  /\ status' = [status EXCEPT ![r] = "queued"]
  /\ kind' = [kind EXCEPT ![r] = launch.kind]
  /\ issue' = [issue EXCEPT !.slot = r, !.task = NoTask, !.attempts = OneMore(launch.kind)]
  /\ launch' = [launch EXCEPT !.pc = "preparing", !.run = r, !.spent = {}]
  /\ job' = Touched(job)
  /\ UNCHANGED <<lease, phase, codex, queued, deeds>>

\* The lease, the slot or the task is gone: nothing is claimed.
ClaimRefused ==
  /\ launch.pc = "admitting"
  /\ ~Overspent
  /\ ~Claimable
  /\ lease' = Released
  /\ launch' = NoLaunch
  /\ UNCHANGED <<issue, status, kind, phase, codex, job, queued, deeds>>

\* The worktree is ready and the heartbeat finds a lease of this worker.
PrepareWorktree ==
  /\ launch.pc = "preparing"
  /\ Alive
  /\ lease' = Renewed
  /\ launch' = [launch EXCEPT !.pc = "threading"]
  /\ UNCHANGED <<issue, status, kind, phase, codex, job, queued, deeds>>

\* Mutant of Threaded: the row is updated whatever its status is.
ThreadedAnyway(r, p) ==
  /\ status' = [status EXCEPT ![r] = "running"]
  /\ phase' = [phase EXCEPT ![r] = p]

\* updateRunThread: only a run that is still live becomes a running one.
Threaded(r, p) ==
  /\ status' = IF Live(r) THEN [status EXCEPT ![r] = "running"] ELSE status
  /\ phase' = IF Live(r) THEN [phase EXCEPT ![r] = p] ELSE phase

\* The thread is recorded under the launch's own lease, before the turn starts.
StartThread ==
  /\ launch.pc = "threading"
  /\ HeldBy("launch")
  /\ Threaded(launch.run, "thread")
  /\ launch' = [launch EXCEPT !.pc = "starting"]
  /\ UNCHANGED <<lease, issue, kind, codex, job, queued, deeds>>

\* The thread is stale: a fresh one is recorded, which marks the run "running".
RetryThread ==
  /\ launch.pc = "starting"
  /\ turn[launch.run] = "none"
  /\ HeldBy("launch")
  /\ Threaded(launch.run, "turn")
  /\ UNCHANGED <<lease, issue, kind, codex, process, deeds>>

\* startTurn answers.  Heartbeat, then the turn is recorded and, on a launch
\* that started as a recovery, the recovery counter forgotten.
RecordTurn ==
  /\ launch.pc = "starting"
  /\ turn[launch.run] # "none"
  /\ Threaded(launch.run, "turn")
  /\ issue' = IF HeldBy("launch") /\ launch.strayed THEN [issue EXCEPT !.zombie = 0] ELSE issue
  /\ lease' = IF Alive /\ lease.by = "launch" THEN Renewed ELSE Released
  /\ launch' = NoLaunch
  /\ job' = Touched(job)
  /\ UNCHANGED <<kind, codex, queued, deeds>>

\* A heartbeat or a thread record finds the lease gone: the run is left alone.
AbortLaunch ==
  /\ \/ launch.pc \in {"preparing", "starting"} /\ ~Alive
     \/ launch.pc \in {"threading", "starting"} /\ ~HeldBy("launch")
  /\ lease' = Released
  /\ launch' = NoLaunch
  /\ UNCHANGED <<issue, status, kind, phase, codex, job, queued, deeds>>

\* Git, a hook or Codex fails: the run fails if the slot is still its own.
FailLaunch ==
  /\ launch.pc \in {"preparing", "threading", "starting"}
  /\ Alone(launch.run)
  /\ LET r == launch.run IN
     IF issue.slot = r /\ HeldBy("launch")
       THEN /\ issue' = [Refunded(issue, kind[r]) EXCEPT
                           !.slot = NoRun, !.open = FALSE]
            /\ status' = Finished(r)
       ELSE UNCHANGED <<issue, status>>
  /\ lease' = Released
  /\ launch' = NoLaunch
  /\ job' = Touched(job)
  /\ UNCHANGED <<kind, phase, codex, queued, deeds>>

----------------------------------------------------------------------------
(***************************************************************************)
(* Codex: the turn of a run, and what it tells PatchRelay of it.           *)
(***************************************************************************)

BeginTurn ==
  /\ launch.pc = "starting"
  /\ turn[launch.run] = "none"
  /\ turn' = [turn EXCEPT ![launch.run] = "running"]
  /\ UNCHANGED <<stored, note, process, deeds>>

\* The turn ends; "limited" is a failure for want of capacity.  What becomes of
\* the turn of a run that has ended concerns nobody.
EndTurn(r) ==
  /\ turn[r] = "running"
  /\ Live(r)
  /\ \E how \in {"completed", "failed", "limited", "interrupted"} :
       turn' = [turn EXCEPT ![r] = how]
  /\ note' = note \cup {r}
  /\ UNCHANGED <<stored, process, deeds>>

\* A progress notification is a heartbeat; without a lease the turn is stopped.
Progress(r) ==
  /\ turn[r] = "running"
  /\ status[r] = "running"
  /\ IF Alive
       THEN lease' = Renewed /\ UNCHANGED codex
       ELSE /\ turn' = [turn EXCEPT ![r] = "interrupted"]
            /\ note' = note \cup {r}
            /\ UNCHANGED lease
  /\ UNCHANGED <<issue, status, kind, phase, process, deeds>>

----------------------------------------------------------------------------
(***************************************************************************)
(* A turn has ended: the notification handler of the run, or the pass.     *)
(***************************************************************************)

\* turn/completed: ignored for a run that is not running or without a lease.
Notify(r) ==
  /\ r \in note
  /\ job[r].pc = "idle"
  /\ note' = note \ {r}
  /\ IF status[r] = "running" /\ Alive
       THEN /\ Alone(r)
            /\ lease' = Renewed
            /\ job' = [job EXCEPT ![r] = At("reading", r)]
       ELSE UNCHANGED <<lease, job>>
  /\ UNCHANGED <<issue, status, kind, phase, turn, launch, queued, deeds>>

\* thread/read fails: the handler gives up.
ReadFails(r) ==
  /\ job[r].pc = "reading"
  /\ job' = [job EXCEPT ![r] = Idle]
  /\ UNCHANGED <<stored, codex, launch, queued, deeds>>

\* What the caller has read of its run's thread.  The pass judges by the run
\* row it listed: one that had no thread then is not read.
Reads(c, outcomes) ==
  /\ job[c].pc = "reading"
  /\ c = Pass => job[c].phase # "claimed"
  /\ turn[job[c].run] \in outcomes

\* The end of a call that ends a run: release the lease, dispatch what is open.
ReleaseRunAndDispatch(c) ==
  /\ lease' = Released
  /\ queued' = (queued \/ Ready(issue'))
  /\ job' = Goes(c, Idle)

\* commitIssueState with an expected version and a slot predicate: applied when
\* the row is the one read, whoever holds the slot by then, or the slot is r's.
Applies(c, applied) ==
  /\ applied => Held /\ (job[c].current \/ issue.slot = job[c].run)
  /\ ~applied => ~Held \/ issue.slot # job[c].run

\* deferCapacityLimitedRun: no attempt is spent, the task is kept.
DeferLimited(c) ==
  /\ Reads(c, {"limited"})
  /\ LET r == job[c].run
         i == [Refunded(issue, kind[r]) EXCEPT !.open = TRUE] IN
     IF Held
       THEN /\ status' = Settled(r)
            /\ issue' = [Freed(r, i) EXCEPT !.task = kind[r]]
            /\ queued' = (queued \/ Dispatchable(issue', status'))
       ELSE UNCHANGED <<status, issue, queued>>
  /\ lease' = Released
  /\ job' = Goes(c, Idle)
  /\ UNCHANGED <<kind, phase, codex, launch, deeds>>

\* A failed or interrupted turn: the handler looks for work worth continuing.
SeekRecovery(r) ==
  /\ Reads(r, {"failed", "interrupted"})
  /\ job' = [job EXCEPT ![r] = Decides(r, "failing")]
  /\ UNCHANGED <<stored, codex, launch, queued, deeds>>

\* None is found.
FailTurn(r) ==
  /\ job[r].pc = "failing"
  /\ \E applied \in BOOLEAN :
       /\ Applies(r, applied)
       /\ issue' = IF applied
                     THEN [issue EXCEPT !.slot = NoRun, !.open = FALSE]
                     ELSE issue
       /\ status' = IF applied THEN Finished(r) ELSE status
  /\ lease' = Released
  /\ job' = Goes(r, Idle)
  /\ UNCHANGED <<kind, phase, codex, launch, queued, deeds>>

\* handleNoPrCompletionCheck: an implementation that left no pull request goes
\* on, or asks, is done, or has failed; the check itself may fail as well.
CheckCompletion(c) ==
  /\ job[c].pc \in {"failing", "finalizing"}
  /\ kind[job[c].run] = "implementation"
  /\ LET r == job[c].run IN
     \/ \E applied \in BOOLEAN, open \in BOOLEAN :
          /\ Applies(c, applied)
          /\ status' = IF applied THEN Finished(r) ELSE status
          /\ \E next \in IF open THEN {"implementation"} ELSE {NoTask, issue.task} :
               issue' = IF applied
                          THEN [issue EXCEPT !.slot = NoRun, !.open = open, !.task = next]
                          ELSE issue
     \/ IF Held
          THEN /\ status' = Settled(r)
               /\ issue' = Freed(r, [issue EXCEPT !.open = FALSE])
          ELSE UNCHANGED <<status, issue>>
  /\ ReleaseRunAndDispatch(c)
  /\ UNCHANGED <<kind, phase, codex, launch, deeds>>

\* releaseSuppressedRun: the right to publish was revoked while the turn ran.
Suppress(c) ==
  /\ Reads(c, {"completed"})
  /\ LET r == job[c].run IN
     IF Held
       THEN /\ status' = Finished(r)
            /\ issue' = [issue EXCEPT !.slot = NoRun]
       ELSE UNCHANGED <<status, issue>>
  /\ ReleaseRunAndDispatch(c)
  /\ UNCHANGED <<kind, phase, codex, launch, deeds>>

\* continueDirtyRepairWorktree: a repair left changes it did not publish.
ContinueDirty(c) ==
  /\ Reads(c, {"completed"})
  /\ LET r == job[c].run IN
     /\ kind[r] \in RepairTypes
     /\ IF Held
          THEN /\ status' = Finished(r)
               /\ issue' = [Refunded(issue, kind[r]) EXCEPT
                              !.slot = NoRun, !.open = TRUE, !.task = kind[r]]
          ELSE UNCHANGED <<status, issue>>
  /\ ReleaseRunAndDispatch(c)
  /\ UNCHANGED <<kind, phase, codex, launch, deeds>>

\* Otherwise GitHub is asked what the run has published.
Verify(c) ==
  /\ Reads(c, {"completed"})
  /\ job' = [job EXCEPT ![c] = Decides(c, "finalizing")]
  /\ UNCHANGED <<stored, codex, launch, queued, deeds>>

\* It is as it should be: the run has completed, and may leave a follow-up.
Complete(c) ==
  /\ job[c].pc = "finalizing"
  /\ LET r == job[c].run IN
     IF Held
       THEN /\ status' = Settled(r)
            /\ \/ issue' = Freed(r, [issue EXCEPT !.open = FALSE])
               \/ \E next \in RunTypes \cup {issue.task} :
                    issue' = [Freed(r, [issue EXCEPT !.open = TRUE]) EXCEPT !.task = next]
       ELSE UNCHANGED <<status, issue>>
  /\ ReleaseRunAndDispatch(c)
  /\ UNCHANGED <<kind, phase, codex, launch, deeds>>

\* The branch did not advance, or the run strayed from its task: a CI repair
\* may be tried again, anything else fails or waits for a human.
FailVerification(c) ==
  /\ job[c].pc = "finalizing"
  /\ LET r == job[c].run IN
     /\ kind[r] \in RepairTypes
     /\ IF Held
          THEN /\ status' = Settled(r)
               /\ \/ /\ kind[r] = "ci_repair"
                     /\ issue' = [Freed(r, [issue EXCEPT !.open = TRUE]) EXCEPT !.task = kind[r]]
                  \/ issue' = Freed(r, [issue EXCEPT !.open = FALSE])
          ELSE UNCHANGED <<status, issue>>
  /\ ReleaseRunAndDispatch(c)
  /\ UNCHANGED <<kind, phase, codex, launch, deeds>>

----------------------------------------------------------------------------
(***************************************************************************)
(* The reconcile pass.  It lists the live runs, then visits them one after *)
(* the other, as it listed them.                                           *)
(***************************************************************************)

ListRun(r) ==
  /\ job[Pass].pc = "idle"
  /\ Live(r)
  /\ Alone(r)
  /\ job' = [job EXCEPT ![Pass] = [At("listed", r) EXCEPT !.phase = phase[r]]]
  /\ UNCHANGED <<stored, codex, launch, queued, deeds>>

\* claimForReconciliation and reclaimForeignRecoveryLeaseIfSafe: a foreign
\* lease that was not renewed for two minutes is taken over.
Skips(r) == Foreign /\ ~(lease.age = "silent" /\ issue.slot = r)

\* reconcile: a listed run that does not hold the slot is attached again.
VisitRun ==
  /\ job[Pass].pc = "listed"
  /\ LET r == job[Pass].run IN
     IF Skips(r)
       THEN /\ job' = [job EXCEPT ![Pass] = Idle]
            /\ UNCHANGED <<lease, issue>>
       ELSE /\ lease' = IF Held THEN lease ELSE Taken("pass")
            /\ issue' = [issue EXCEPT !.slot = r]
            /\ job' = Goes(Pass, [job[Pass] EXCEPT !.pc = "reading", !.took = ~Held])
  /\ UNCHANGED <<status, kind, phase, codex, launch, queued, deeds>>

\* Linear says that the issue is no longer delegated.
ReleaseUndelegated ==
  /\ job[Pass].pc = "reading"
  /\ LET r == job[Pass].run IN
     IF Held
       THEN /\ issue' = [issue EXCEPT !.slot = NoRun, !.task = NoTask]
            /\ status' = Finished(r)
       ELSE UNCHANGED <<issue, status>>
  /\ lease' = Released
  /\ job' = Goes(Pass, Idle)
  /\ UNCHANGED <<kind, phase, codex, launch, queued, deeds>>

\* recoverOrEscalate: what becomes of issue i after a run of type k that died.
Recoveries(i, k) ==
  IF k = "review_fix" THEN {[i EXCEPT !.open = FALSE]}
  ELSE {[i EXCEPT !.open = FALSE, !.zombie = 0]} \cup
       (IF i.zombie + 1 > ZombieBudget THEN {[i EXCEPT !.open = FALSE]}
        ELSE LET again == [i EXCEPT !.open = TRUE, !.task = k] IN
             {[again EXCEPT !.zombie = @ + 1]} \cup (IF i.zombie > 0 THEN {again} ELSE {}))

\* settleStrandedRunAndRecover: the run fails, and its task is tried again,
\* at once or after a backoff, until the recovery budget is spent.
Recover(r) ==
  /\ IF Held
       THEN LET i == Freed(r, IF job[Pass].phase = "turn" THEN issue ELSE Refunded(issue, kind[r])) IN
            /\ status' = Settled(r)
            /\ issue' \in Recoveries(i, kind[r])
            /\ queued' = (queued \/ (issue'.zombie > i.zombie /\ Dispatchable(issue', status')))
       ELSE UNCHANGED <<status, issue, queued>>
  /\ lease' = Released
  /\ job' = Goes(Pass, Idle)

\* A launch of this process is left to go on.
LeaveToLaunch ==
  /\ job' = [job EXCEPT ![Pass] = Idle]
  /\ UNCHANGED <<lease, issue, status, queued>>

\* The run has no thread, or a thread whose turn never started, or Codex no
\* longer knows the thread.
FindStranded ==
  /\ job[Pass].pc = "reading"
  /\ LET r == job[Pass].run IN
     \/ /\ \/ job[Pass].phase = "claimed"
           \/ job[Pass].phase = "thread" /\ turn[r] = "none"
        /\ IF ~job[Pass].took THEN LeaveToLaunch ELSE Recover(r)
     \/ job[Pass].phase # "claimed" /\ Recover(r)
  /\ UNCHANGED <<kind, phase, codex, launch, deeds>>

\* Nothing to do: the turn runs, or failed, which is left to the notification, or
\* the run is marked "running" before its turn is there.  (A thread that is not
\* there yet counts as not visited, for its grace is short.)
LeaveRun ==
  /\ Reads(Pass, {"none", "running", "failed"})
  /\ turn[job[Pass].run] = "none" => job[Pass].phase = "turn"
  /\ lease' = IF job[Pass].took THEN Released ELSE lease
  /\ job' = [job EXCEPT ![Pass] = Idle]
  /\ UNCHANGED <<issue, status, kind, phase, codex, launch, queued, deeds>>

\* handleInterruptedRun: the attempt is given back, before the run is settled.
FindInterrupted ==
  /\ Reads(Pass, {"interrupted"})
  /\ LET r == job[Pass].run
         i == Refunded(issue, kind[r]) IN
     IF ~Held
       THEN /\ lease' = Released
            /\ job' = [job EXCEPT ![Pass] = Idle]
            /\ UNCHANGED <<issue, status>>
       ELSE IF kind[r] = "review_fix"
       THEN /\ issue' = i
            /\ job' = Goes(Pass, At("refunding", r))
            /\ UNCHANGED <<lease, status>>
       ELSE /\ status' = Settled(r)
            /\ \E open \in BOOLEAN :
                 issue' = IF issue.slot = r THEN [i EXCEPT !.slot = NoRun, !.open = open] ELSE i
            /\ lease' = Released
            /\ job' = Goes(Pass, At("restoring", r))
  /\ UNCHANGED <<kind, phase, codex, launch, queued, deeds>>

\* handleInterruptedRequestedChangesRun, once GitHub was asked: failRunAndClear.
FailInterrupted ==
  /\ job[Pass].pc = "refunding"
  /\ LET r == job[Pass].run IN
     IF Held
       THEN /\ status' = Settled(r)
            /\ \E open \in BOOLEAN : issue' = Freed(r, [issue EXCEPT !.open = open])
       ELSE UNCHANGED <<status, issue>>
  /\ lease' = Released
  /\ job' = Goes(Pass, At("restoring", job[Pass].run))
  /\ UNCHANGED <<kind, phase, codex, launch, queued, deeds>>

\* The worktree is restored: the task is tried again if the facts still ask for
\* it, a CI repair by a later pass; the lease is released, whoever took it since.
RetryInterrupted ==
  /\ job[Pass].pc = "restoring"
  /\ LET k == kind[job[Pass].run] IN
     \/ UNCHANGED <<issue, queued>>
     \/ /\ k # "ci_repair"
        /\ issue' = [issue EXCEPT !.task = k]
        /\ queued' = (queued \/ Dispatchable(issue', status))
  /\ lease' = Released
  /\ job' = Goes(Pass, Idle)
  /\ UNCHANGED <<status, kind, phase, codex, launch, deeds>>

\* Mutants of Dangling: whatever became of the slot's run; only under a lease
\* that nobody has taken.
AnySlot == issue.slot # NoRun /\ ~Foreign
DanglingIfHeld == issue.slot # NoRun /\ ~Live(issue.slot) /\ HeldBy("pass")

\* The slot names a run that has ended, and nobody else may be settling it.
Dangling == issue.slot # NoRun /\ ~Live(issue.slot) /\ ~Foreign

\* settleDanglingActiveRuns.
SettleDangling ==
  /\ job[Pass].pc = "idle"
  /\ Dangling
  /\ issue' = [issue EXCEPT !.slot = NoRun]
  /\ lease' = IF Held THEN lease ELSE NoLease
  /\ job' = Touched(job)
  /\ UNCHANGED <<status, kind, phase, codex, launch, queued, deeds>>

\* Mutant of Unqueued: a task that is being recovered is left to its backoff.
UnqueuedUntried == Ready(issue) /\ ~queued /\ issue.zombie = 0

Unqueued == Ready(issue) /\ ~queued

\* The end of the pass: what is ready and not queued is queued.
RequeueReady ==
  /\ job[Pass].pc = "idle"
  /\ Unqueued
  /\ queued' = TRUE
  /\ UNCHANGED <<stored, codex, job, launch, deeds>>

----------------------------------------------------------------------------
(***************************************************************************)
(* Operators, webhooks, time and the host.                                 *)
(***************************************************************************)

Disturb == deeds < MaxDeeds /\ deeds' = deeds + 1

\* A command reads the issue and its run, and asks Codex to stop the turn.
StartCommand(pc) ==
  /\ job[Operator].pc = "idle"
  /\ Alone(issue.slot)
  /\ job' = [job EXCEPT ![Operator] = [At(pc, issue.slot) EXCEPT !.current = (pc = "stopping")]]
  /\ Disturb
  /\ UNCHANGED <<stored, codex, launch, queued>>

\* stopIssue: refused if another run has taken the slot since.  The lease row
\* goes, whoever's it is.
Stop ==
  /\ job[Operator].pc = "stopping"
  /\ LET r == job[Operator].run IN
     IF job[Operator].current \/ issue.slot \in {r, NoRun}
       THEN /\ issue' = [issue EXCEPT !.slot = NoRun, !.task = NoTask, !.open = FALSE]
            /\ status' = IF r = NoRun THEN status ELSE Finished(r)
            /\ lease' = NoLease
       ELSE UNCHANGED <<issue, status, lease>>
  /\ job' = Goes(Operator, Idle)
  /\ UNCHANGED <<kind, phase, codex, launch, queued, deeds>>

\* closeIssue: the slot is cleared whatever it holds, the run that was read ends.
Close ==
  /\ job[Operator].pc \in {"closing", "clearing"}
  /\ LET r == job[Operator].run IN
     /\ issue' = [issue EXCEPT !.slot = NoRun, !.task = NoTask, !.open = FALSE]
     /\ status' = IF r = NoRun \/ job[Operator].pc = "clearing" THEN status
                                                               ELSE Finished(r)
  /\ lease' = NoLease
  /\ job' = Goes(Operator, Idle)
  /\ UNCHANGED <<kind, phase, codex, launch, queued, deeds>>

\* The CLI's close, in a process of its own, ends the run in a first transaction
\* and clears the slot in a second one.
CliEndsRun ==
  /\ job[Operator].pc = "closing"
  /\ job[Operator].run # NoRun
  /\ status' = Finished(job[Operator].run)
  /\ job' = [job EXCEPT ![Operator].pc = "clearing"]
  /\ UNCHANGED <<lease, issue, kind, phase, codex, launch, queued, deeds>>

\* Codex refuses to stop the turn, or the CLI's process dies.
CommandFails ==
  /\ \/ job[Operator].pc = "stopping" /\ UNCHANGED deeds
     \/ /\ job[Operator].pc \in {"closing", "clearing"}
        /\ Disturb
  /\ job' = [job EXCEPT ![Operator] = Idle]
  /\ UNCHANGED <<stored, codex, launch, queued>>

\* A webhook's facts open a task; it is dispatched if nothing holds it up.
NewWork(k) ==
  /\ issue.task = NoTask
  /\ issue.open
  /\ issue' = [issue EXCEPT !.task = k]
  /\ queued' = (queued \/ Dispatchable(issue', status))
  /\ job' = Touched(job)
  /\ UNCHANGED <<lease, status, kind, phase, codex, launch, deeds>>

\* retryIssue, with the attempts of the type it retries forgotten.
Retry(k) ==
  /\ issue.slot = NoRun
  /\ issue' = [issue EXCEPT !.open = TRUE, !.task = k,
                 !.attempts = IF k \in RepairTypes THEN [@ EXCEPT ![k] = 0] ELSE @]
  /\ queued' = TRUE
  /\ job' = Touched(job)
  /\ Disturb
  /\ UNCHANGED <<lease, status, kind, phase, codex, launch>>

\* Time passes without a heartbeat: a dead process's lease is presumed dead and
\* then runs out; so does a lease nothing in this process is using.
Quiet ==
  /\ \/ /\ lease.owner = "other"
        /\ lease.age # "expired"
        /\ lease' = [lease EXCEPT !.age = IF @ = "fresh" THEN "silent" ELSE "expired"]
     \/ /\ Held
        /\ launch.pc = "idle"
        /\ \A c \in Callers : job[c].pc = "idle"
        /\ lease' = [lease EXCEPT !.age = "expired"]
  /\ UNCHANGED <<issue, status, kind, phase, codex, process, deeds>>

\* A lease runs out while its holder is in an await.
Overrun ==
  /\ Held
  /\ Disturb
  /\ lease' = [lease EXCEPT !.age = "expired"]
  /\ UNCHANGED <<issue, status, kind, phase, codex, process>>

\* The service dies, and Codex with it, and is started again: under another
\* process id, or under the same one, which makes the old lease its own.  Only
\* the CLI's process lives on.
Crash ==
  /\ Disturb
  /\ lease' \in IF lease.owner = "self"
                  THEN {lease, [lease EXCEPT !.owner = "other", !.by = "nobody"]}
                  ELSE {lease}
  /\ turn' = [r \in Runs |-> IF turn[r] = "running" THEN "interrupted" ELSE turn[r]]
  /\ note' = {}
  /\ job' = [c \in Callers |->
               IF c = Operator /\ job[c].pc \in {"closing", "clearing"} THEN job[c] ELSE Idle]
  /\ launch' = NoLaunch
  /\ queued' = Ready(issue)
  /\ UNCHANGED <<issue, status, kind, phase>>

----------------------------------------------------------------------------
\* An issue that was just delegated.
Init ==
  /\ lease = NoLease
  /\ issue = [slot |-> NoRun, task |-> "implementation", open |-> TRUE,
              zombie |-> 0, attempts |-> [k \in RepairTypes |-> 0]]
  /\ status = [r \in Runs |-> "absent"]
  /\ kind = [r \in Runs |-> "implementation"]
  /\ phase = [r \in Runs |-> "claimed"]
  /\ turn = [r \in Runs |-> "none"]
  /\ note = {}
  /\ job = [c \in Callers |-> Idle]
  /\ launch = NoLaunch
  /\ queued = TRUE
  /\ deeds = 0

Launching ==
  \/ Dequeue \/ AcquireLease
  \/ Refuse \/ Escalate \/ ClaimRefused \/ \E r \in Runs : Claim(r)
  \/ PrepareWorktree \/ StartThread \/ RetryThread \/ RecordTurn
  \/ AbortLaunch \/ FailLaunch \/ BeginTurn

\* What a call does that found the turn of its run completed or out of capacity.
Finishing(c) ==
  \/ DeferLimited(c) \/ Suppress(c) \/ ContinueDirty(c) \/ Verify(c)
  \/ CheckCompletion(c) \/ Complete(c) \/ FailVerification(c)

Handling(r) == ReadFails(r) \/ SeekRecovery(r) \/ FailTurn(r) \/ Finishing(r)

Visiting ==
  \/ VisitRun \/ ReleaseUndelegated \/ FindStranded \/ LeaveRun
  \/ FindInterrupted \/ FailInterrupted \/ RetryInterrupted \/ Finishing(Pass)

Commanding == Stop \/ Close \/ CliEndsRun \/ CommandFails

Next ==
  \/ Launching
  \/ \E r \in Runs : EndTurn(r) \/ Progress(r) \/ Notify(r) \/ Handling(r) \/ ListRun(r)
  \/ Visiting \/ SettleDangling \/ RequeueReady
  \/ StartCommand("stopping") \/ StartCommand("closing") \/ Commanding
  \/ \E k \in RunTypes : NewWork(k) \/ Retry(k)
  \/ Quiet \/ Overrun \/ Crash

Spec == Init /\ [][Next]_vars

\* What is in flight goes on, turns end, the timer keeps starting passes, and
\* time passes.  The strong ones may have to wait for another call each time.
Fairness ==
  /\ WF_vars(Launching)
  /\ \A r \in Runs : /\ WF_vars(EndTurn(r))
                     /\ WF_vars(Handling(r))
                     /\ SF_vars(Notify(r))
                     /\ SF_vars(ListRun(r))
  /\ WF_vars(Visiting)
  /\ WF_vars(Commanding)
  /\ SF_vars(SettleDangling)
  /\ SF_vars(RequeueReady)
  /\ SF_vars(Quiet)

FairSpec == Spec /\ Fairness

----------------------------------------------------------------------------
(***************************************************************************)
(* Properties.                                                             *)
(***************************************************************************)

\* Every row, lease and await has a value of its type, and a run that never
\* was created is not referred to.
TypeOK ==
  /\ lease \in [owner : {"none", "self", "other"}, by : {"nobody", "launch", "pass"},
                age : {"fresh", "silent", "expired"}]
  /\ issue \in [slot : Runs \cup {NoRun}, task : RunTypes \cup {NoTask}, open : BOOLEAN,
                zombie : Nat, attempts : [RepairTypes -> Nat]]
  /\ status \in [Runs -> {"absent", "ended"} \cup LiveStatus]
  /\ kind \in [Runs -> RunTypes]
  /\ phase \in [Runs -> {"claimed", "thread", "turn"}]
  /\ turn \in [Runs -> {"none", "running", "completed", "failed", "limited", "interrupted"}]
  /\ note \subseteq Runs
  /\ job \in [Callers -> [pc : Awaits, run : Runs \cup {NoRun}, current : BOOLEAN,
                       phase : {"claimed", "thread", "turn"}, took : BOOLEAN]]
  /\ launch \in [pc : {"idle", "classifying", "admitting", "preparing", "threading", "starting"},
                 run : Runs \cup {NoRun}, kind : RunTypes \cup {NoTask},
                 spent : SUBSET RepairTypes, strayed : BOOLEAN]
  /\ queued \in BOOLEAN
  /\ deeds \in 0..MaxDeeds

\* The run that works on the issue is the one its slot names, so that at most
\* one does (settleRun, commitRunSlotUpdate: "never clear a slot that was
\* re-pointed at another run").
LiveRunHoldsSlot == \A r \in Runs : Live(r) => issue.slot = r

\* A run that has ended is not taken up again, by a launch that records its
\* thread late or by anybody who has read its row before (updateRunThread).
TerminalIsFinal == [][\A r \in Runs : status[r] = "ended" => status'[r] = "ended"]_vars

\* Recoveries and repairs stay within their budgets, although both are judged by
\* an issue row that was read before the awaits of the launch.
RecoveryIsBounded ==
  /\ issue.zombie <= ZombieBudget
  /\ \A k \in RepairTypes : issue.attempts[k] <= RepairBudget

\* The slot of a live run is cleared, or given to another run, only by ending it.
SlotOutlivesRun == [][\A r \in Runs : issue.slot = r /\ Live(r) =>
                        issue'.slot = r \/ status'[r] \notin LiveStatus]_vars

\* A failed turn whose notification is gone is left to that notification, and a
\* run marked "running" without a turn is left to a launch that is gone.
Abandoned(r) ==
  \/ turn[r] = "failed" /\ r \notin note
  \/ turn[r] = "none" /\ phase[r] = "turn"

\* Whatever is lost, every run ends: by its notification, or by a pass.
RunsEnd == \A r \in Runs : Live(r) ~> ~Live(r) \/ Abandoned(r)

\* A slot left on a run that has ended is freed (settleDanglingActiveRuns).
DanglingCleared ==
  \A r \in Runs : (issue.slot = r /\ status[r] = "ended") ~> issue.slot # r

\* A task that is ready is queued, or being launched, sooner or later.
WorkIsQueued == Ready(issue) ~> queued \/ launch.pc # "idle" \/ ~Ready(issue)

\* Seen from outside: one run works on the issue at a time, and never again once
\* it has ended.
OneRun == INSTANCE OneRunPerIssue WITH
            worker <- IF NoneLive(status) THEN NoRun ELSE CHOOSE r \in Runs : Live(r),
            ended <- {r \in Runs : status[r] = "ended"}

OneRunAtATime == OneRun!AbstractSpec
=============================================================================
