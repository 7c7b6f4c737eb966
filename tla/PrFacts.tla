------------------------------ MODULE PrFacts ------------------------------
(***************************************************************************)
(* What PatchRelay believes of the pull request of one delegated issue.    *)
(* GitHub moves on its own; its webhooks arrive late, in any order or not  *)
(* at all, and are handled concurrently; the idle reconciliation polls.    *)
(* Both write the facts on the issue row, tasks are derived from them, and *)
(* runs are launched for the tasks.                                        *)
(***************************************************************************)
EXTENDS Naturals, FiniteSets

CONSTANTS
  None,         \* no task, run, handler or poll
  MaxHead,      \* bound: the heads of the pull request
  CiBudget,     \* getCiRepairBudget
  ReviewBudget, \* getReviewFixBudget
  MaxHooks,     \* bound: deliveries on their way
  MaxDeeds      \* bound: pushes, reviews, reruns, merges and failures

ASSUME FactsAssumption ==
  /\ MaxHead \in Nat \ {0}
  /\ CiBudget \in Nat
  /\ ReviewBudget \in Nat
  /\ MaxHooks \in Nat \ {0}
  /\ MaxDeeds \in Nat

\* Heads are numbered in the order they are pushed in; 0 is no head.
Heads == 1..MaxHead

VARIABLES
  gh,    \* GitHub: state, head, review decision, gate check of every head
  hooks, \* deliveries on their way
  row,   \* the issue row
  task,  \* the open runnable task of the issue
  run,   \* the active run
  hand,  \* a webhook handler that awaits GitHub
  poll,  \* what a poll has fetched and not yet applied
  deeds

vars == <<gh, hooks, row, task, run, hand, poll, deeds>>

Disturb == deeds < MaxDeeds /\ deeds' = deeds + 1

----------------------------------------------------------------------------
(***************************************************************************)
(* The issue row.                                                          *)
(***************************************************************************)

FreshRow ==
  [ state   |-> "open",    \* prState
    head    |-> 1,         \* prHeadSha
    review  |-> "none",    \* prReviewState
    check   |-> "pending", \* prCheckStatus
    block   |-> 0,         \* lastBlockingReviewHeadSha
    snap    |-> 0,         \* lastGitHubCiSnapshotHeadSha
    json    |-> 0,         \* the head whose stored snapshot is a failure
    failed  |-> 0,         \* lastGitHubFailureHeadSha
    signed  |-> FALSE,     \* lastGitHubFailureSignature is known
    tried   |-> 0,         \* lastAttemptedFailureHeadSha
    ci      |-> 0,         \* ciRepairAttempts
    fixes   |-> 0,         \* reviewFixAttempts
    outcome |-> "none",    \* workflowOutcome
    asked   |-> FALSE ]    \* inputRequestKind

\* CLEARED_FAILURE_PROVENANCE.
Forgiven(r) == [r EXCEPT !.failed = 0, !.signed = FALSE, !.tried = 0]

\* buildClosedPrCleanupFields.
Closed(r) ==
  [r EXCEPT !.state = "closed", !.review = "none", !.check = "none",
            !.block = 0, !.snap = 0, !.json = 0]

\* mayClearFailureProvenance of a branch failure on an open pull request.
MayClear(failed, head, current, green) ==
  \/ failed = 0
  \/ current /\ head # failed
  \/ head = failed /\ green

ForgivenIf(evidence, r) == IF evidence THEN Forgiven(r) ELSE r

\* isStaleGateEvent.
Stale(r, head) == r.snap # 0 /\ r.snap # head

Snapshot(r, head, check, red) ==
  [r EXCEPT !.check = check, !.snap = head, !.json = IF red THEN head ELSE 0]

(***************************************************************************)
(* deriveWorkflowTasks, for a delegated issue with a pull request.         *)
(***************************************************************************)
Red(r) == r.check = "failure"

CiWanted(r) ==
  LET failing == IF r.failed # 0 THEN r.failed ELSE r.head
  IN  /\ r.state = "open"
      /\ r.failed = r.head \/ Red(r)
      /\ r.tried # failing

FixWanted(r) ==
  /\ r.state = "open"
  /\ r.review = "changes"
  /\ r.block \in {0, r.head}

Task(kind, head, signed) == [kind |-> kind, head |-> head, signed |-> signed]

Derived(r, active) ==
  IF \/ r.outcome # "none" \/ r.state = "merged" \/ active # None
     \/ r.asked /\ ~CiWanted(r)
  THEN None
  ELSE IF FixWanted(r) THEN Task("review_fix", r.head, FALSE)
  ELSE IF CiWanted(r) THEN
    Task("ci_repair", IF r.failed # 0 THEN r.failed ELSE r.head, r.signed)
  ELSE IF r.state # "open" THEN Task("implementation", 0, FALSE)
  ELSE None

----------------------------------------------------------------------------
(***************************************************************************)
(* GitHub.                                                                 *)
(***************************************************************************)

Hook(event, head) == [event |-> event, head |-> head]
Sent(event, head) ==
  hooks' = IF Cardinality(hooks) < MaxHooks THEN hooks \cup {Hook(event, head)} ELSE hooks

Advance ==
  /\ gh.state = "open"
  /\ gh.head < MaxHead
  /\ gh' = [gh EXCEPT !.head = @ + 1]
  /\ Sent("synchronize", gh.head + 1)

\* Somebody else pushes.
Push ==
  /\ Disturb
  /\ Advance
  /\ UNCHANGED <<row, task, run, hand, poll>>

\* The gate check of a head concludes, that of an older head as well.
Conclude(head) ==
  /\ head <= gh.head
  /\ gh.state = "open"
  /\ gh.gate[head] = "pending"
  /\ \E verdict \in {"success", "failure"} :
       /\ gh' = [gh EXCEPT !.gate[head] = verdict]
       /\ Sent(IF verdict = "success" THEN "passed" ELSE "failed", head)
  /\ UNCHANGED <<row, task, run, hand, poll, deeds>>

\* The checks of the newest head run again.
Rerun ==
  /\ Disturb
  /\ gh.state = "open"
  /\ gh.gate[gh.head] # "pending"
  /\ gh' = [gh EXCEPT !.gate[gh.head] = "pending"]
  /\ Sent("pending", gh.head)
  /\ UNCHANGED <<row, task, run, hand, poll>>

\* The decision of a review stays when the head moves on.
Judge ==
  /\ Disturb
  /\ gh.state = "open"
  /\ \E verdict \in {"approved", "changes"} \ {gh.review} :
       /\ gh' = [gh EXCEPT !.review = verdict]
       /\ Sent(verdict, gh.head)
  /\ UNCHANGED <<row, task, run, hand, poll>>

End ==
  /\ Disturb
  /\ gh.state = "open"
  /\ \E state \in {"merged", "closed"} :
       /\ gh' = [gh EXCEPT !.state = state]
       /\ Sent(state, gh.head)
  /\ UNCHANGED <<row, task, run, hand, poll>>

----------------------------------------------------------------------------
(***************************************************************************)
(* Webhooks: projectGitHubWebhookState and what follows it.                *)
(***************************************************************************)

Gate == [pending |-> "pending", passed |-> "success", failed |-> "failure"]
OfGate(e) == e.event \in DOMAIN Gate

\* The facts of the payload.  Checks say nothing of the state.
Observed(r, e) ==
  LET verdict == e.event \in {"approved", "changes"}
  IN  [r EXCEPT
         !.head   = e.head,
         !.state  = CASE OfGate(e) -> @
                      [] e.event = "merged" -> "merged"
                      [] OTHER -> "open",
         !.review = IF verdict THEN e.event ELSE @,
         !.block  = CASE e.event = "changes" -> e.head
                      [] e.event = "approved" -> 0
                      [] OTHER -> @,
         !.check  = IF OfGate(e) /\ ~Stale(r, e.head) THEN Gate[e.event] ELSE @]

Arrives(e) == e \in hooks /\ hooks' = hooks \ {e}

\* Tracked: the check event counts for the snapshot.
Tracked(e) == row.state = "open" /\ ~Stale(row, e.head)

HandlePending ==
  \E head \in Heads :
    LET e == Hook("pending", head)
        seen == Observed(row, e)
    IN  /\ Arrives(e)
        /\ row' = IF Tracked(e) THEN Snapshot(seen, head, "pending", FALSE) ELSE seen
        /\ task' = Derived(row', run)
        /\ UNCHANGED <<gh, run, hand, poll, deeds>>

Awaiting(at, e) ==
  [at |-> at, event |-> e.event, head |-> e.head, plan |-> None,
   failed |-> IF e.event = "passed" THEN row.failed ELSE 0]

\* A conclusion awaits the listing of the head's check runs.
HandleConclusion ==
  \E e \in hooks :
    /\ hand = None /\ poll = None
    /\ e.event \in {"passed", "failed"}
    /\ Tracked(e)
    /\ Arrives(e)
    /\ row' = Observed(row, e)
    /\ hand' = Awaiting("checks", e)
    /\ UNCHANGED <<gh, task, run, poll, deeds>>

\* What updateGitHubFailureProvenance does of a conclusion.
Concluded(r, e, failed) ==
  \/ /\ e.event = "passed"
     /\ row' = ForgivenIf(MayClear(failed, e.head, FALSE, TRUE), r)
     /\ task' = Derived(row', run)
     /\ hand' = None
  \/ /\ e.event = "failed"
     /\ row' = r
     /\ IF r.json = e.head
        THEN hand' = Awaiting("context", e) /\ UNCHANGED task
        ELSE hand' = None /\ task' = Derived(r, run)

HandleUntracked ==
  \E e \in hooks :
    /\ hand = None /\ poll = None
    /\ e.event \in {"passed", "failed"}
    /\ ~Tracked(e)
    /\ Arrives(e)
    /\ LET seen == Observed(row, e)
       IN  IF row.state = "open" \/ e.event = "passed"
           THEN Concluded(seen, e, row.failed)
           ELSE /\ row' = seen
                /\ task' = Derived(seen, run)
                /\ UNCHANGED hand
    /\ UNCHANGED <<gh, run, poll, deeds>>

\* The listing is there: it is written whatever has happened meanwhile.
ListChecks ==
  /\ hand # None
  /\ hand.at = "checks"
  /\ LET gate == gh.gate[hand.head]
         check == IF hand.event = "passed" /\ gate = "pending" THEN "success" ELSE gate
     IN  Concluded(Snapshot(row, hand.head, check, gate = "failure"), hand, hand.failed)
  /\ UNCHANGED <<gh, hooks, run, poll, deeds>>

\* GitHub does not answer.
ListingFails ==
  /\ Disturb
  /\ hand # None
  /\ hand.at = "checks"
  /\ LET check == IF hand.event = "passed" THEN "success" ELSE "pending"
     IN  Concluded(Snapshot(row, hand.head, check, FALSE), hand, hand.failed)
  /\ UNCHANGED <<gh, hooks, run, poll>>

\* The context of the failure is there.
RecordFailure ==
  /\ hand # None
  /\ hand.at = "context"
  /\ row' = [row EXCEPT !.failed = hand.head, !.signed = TRUE]
  /\ task' = Derived(row', run)
  /\ hand' = None
  /\ UNCHANGED <<gh, hooks, run, poll, deeds>>

HandlePush ==
  \E head \in Heads :
    LET e == Hook("synchronize", head)
        seen == Snapshot(Observed(row, e), head, "pending", FALSE)
        kept == ForgivenIf(MayClear(row.failed, head, TRUE, FALSE), seen)
    IN  /\ Arrives(e)
        /\ row' = IF run = None THEN [kept EXCEPT !.ci = 0] ELSE kept
        /\ task' = Derived(row', run)
        /\ UNCHANGED <<gh, run, hand, poll, deeds>>

\* An approval of the head a review fix started from suppresses the run.
HandleApproval ==
  \E head \in Heads :
    LET e == Hook("approved", head)
    IN  /\ Arrives(e)
        /\ row' = Observed(row, e)
        /\ run' = IF run # None /\ run.kind = "review_fix" /\ run.src = head
                  THEN [run EXCEPT !.superseded = TRUE] ELSE run
        /\ task' = Derived(row', run)
        /\ UNCHANGED <<gh, hand, poll, deeds>>

\* Requested changes: the comments are fetched, the row is not read again.
HandleChanges ==
  \E head \in Heads :
    LET e == Hook("changes", head)
    IN  /\ hand = None
        /\ Arrives(e)
        /\ row' = Observed(row, e)
        /\ hand' = [Awaiting("comments", e) EXCEPT !.plan = Derived(row', run)]
        /\ UNCHANGED <<gh, task, run, poll, deeds>>

ReadComments ==
  /\ hand # None
  /\ hand.at = "comments"
  /\ task' = IF run = None THEN hand.plan ELSE None
  /\ hand' = None
  /\ UNCHANGED <<gh, hooks, row, run, poll, deeds>>

\* resolveClosedPrDisposition: unfinished work is delegated again.
Redelegated(r) == [r EXCEPT !.outcome = "none", !.asked = FALSE]
Held(r) == r.outcome = "escalated" \/ r.asked
Disposed(r) == IF r.outcome = "completed" \/ Held(r) THEN r ELSE Redelegated(r)

\* handleGitHubTerminalPrEvent stops the run.
HandleEnd ==
  \E e \in hooks :
    /\ e.event \in {"merged", "closed"}
    /\ Arrives(e)
    /\ LET seen == Observed(row, e)
       IN  IF e.event = "merged"
           THEN /\ row' = [Forgiven(seen) EXCEPT !.snap = 0, !.json = 0,
                                                 !.outcome = "completed"]
                /\ task' = None
           ELSE /\ row' = Disposed(Closed(seen))
                /\ task' = Derived(Closed(seen), run)
    /\ run' = None
    /\ UNCHANGED <<gh, hand, poll, deeds>>

----------------------------------------------------------------------------
(***************************************************************************)
(* Idle reconciliation.                                                    *)
(***************************************************************************)

Idle == run = None /\ row.outcome = "none" /\ ~row.asked
Failing == row.failed # 0 \/ Red(row)

FinishMerged ==
  /\ Idle
  /\ row.state = "merged"
  /\ row' = [Forgiven(row) EXCEPT !.outcome = "completed"]
  /\ UNCHANGED <<gh, hooks, task, run, hand, poll, deeds>>

\* routeFailedIssue: an issue with a recorded failure is not polled.
Route ==
  /\ Idle
  /\ row.state # "merged"
  /\ Failing
  /\ row' = IF row.failed # 0 THEN row
            ELSE [row EXCEPT !.failed = IF row.snap # 0 THEN row.snap ELSE row.head]
  /\ task' = IF row.state # "open" \/ (row.signed /\ row.tried = row.failed)
             THEN task ELSE Derived(row', run)
  /\ UNCHANGED <<gh, hooks, run, hand, poll, deeds>>

\* Mutant of Probed: what has been given up is not looked at again.
ProbedIfIdle ==
  /\ run = None
  /\ row.state # "merged"
  /\ Idle /\ ~Failing

\* Given-up issues are probed as well.
Probed ==
  /\ run = None
  /\ row.state # "merged"
  /\ (Idle /\ ~Failing) \/ row.outcome = "escalated"

Fetch ==
  /\ poll = None /\ hand = None
  /\ Probed
  /\ poll' = [prev |-> row.head, state |-> gh.state, head |-> gh.head,
              review |-> gh.review, gate |-> gh.gate[gh.head]]
  /\ UNCHANGED <<gh, hooks, row, task, run, hand, deeds>>

\* buildPrStateUpdates, and the fresh budget of a new head.
Polled(r) ==
  [r EXCEPT !.head   = poll.head,
            !.state  = IF poll.state = "open" THEN "open" ELSE @,
            !.review = IF poll.review = "none" THEN "commented" ELSE poll.review,
            !.check  = poll.gate,
            !.snap   = poll.head,
            !.ci     = IF poll.head # poll.prev THEN 0 ELSE @]

PolledClear(r) ==
  ForgivenIf(MayClear(r.failed, poll.head, TRUE, poll.gate = "success"), r)

ApplyMerged ==
  /\ poll # None
  /\ poll.state = "merged"
  /\ LET r == [Polled(row) EXCEPT !.state = "merged"]
     IN  row' = IF r.outcome = "none"
                THEN [Forgiven(r) EXCEPT !.outcome = "completed"] ELSE r
  /\ poll' = None
  /\ UNCHANGED <<gh, hooks, task, run, hand, deeds>>

ApplyClosed ==
  /\ poll # None
  /\ poll.state = "closed"
  /\ LET r == Closed(Polled(row))
     IN  \/ /\ r.outcome = "completed"
            /\ row' = Forgiven(r)
            /\ UNCHANGED task
         \/ /\ r.outcome # "completed"
            /\ Held(r)
            /\ row' = r
            /\ UNCHANGED task
         \/ /\ r.outcome # "completed"
            /\ ~Held(r)
            /\ row' = Redelegated(Forgiven(r))
            /\ task' = Derived(row', run)
  /\ poll' = None
  /\ UNCHANGED <<gh, hooks, run, hand, deeds>>

\* Mutant of Recovered: any outcome is reopened by what a poll saw.
RecoveredAnyway(r) == ~r.asked /\ (poll.head # poll.prev \/ poll.review # "changes")

\* The issue is taken up again unless the same head still wants changes.
Recovered(r) ==
  /\ r.outcome = "escalated"
  /\ ~r.asked
  /\ poll.head # poll.prev \/ poll.review # "changes"

\* deriveReactiveWorkflowIntent.
CiIntent(r) == r.failed # 0 \/ Red(r)
FixIntent(r) == ~CiIntent(r) /\ FixWanted(r)

ApplyOpen ==
  /\ poll # None
  /\ poll.state = "open"
  /\ LET r == Polled(row)
     IN  CASE Recovered(r) ->
                /\ row' = [PolledClear(r) EXCEPT !.outcome = "none"]
                /\ UNCHANGED task
           [] ~Recovered(r) /\ FixIntent(r) /\ r.outcome = "escalated" ->
                IF r.fixes >= ReviewBudget
                THEN row' = r /\ UNCHANGED task
                ELSE /\ row' = [PolledClear(r) EXCEPT !.outcome = "none"]
                     /\ task' = Derived(row', run)
           [] ~Recovered(r) /\ FixIntent(r) /\ r.outcome # "escalated" ->
                /\ row' = PolledClear(r)
                /\ task' = Derived(row', run)
           [] OTHER ->
                /\ \/ row' = IF r.review = "approved" THEN PolledClear(r) ELSE r
                   \/ /\ r.review = "commented"
                      /\ r.check = "success"
                      /\ row' = [r EXCEPT !.asked = TRUE]
                /\ UNCHANGED task
  /\ poll' = None
  /\ UNCHANGED <<gh, hooks, run, hand, deeds>>

\* listIssuesReadyForExecution derives the tasks again.
Sweep ==
  /\ task' = Derived(row, run)
  /\ UNCHANGED <<gh, hooks, row, run, hand, poll, deeds>>

----------------------------------------------------------------------------
(***************************************************************************)
(* Runs.                                                                   *)
(***************************************************************************)

RemoteReview == IF gh.review = "none" THEN "commented" ELSE gh.review

\* A review fix looks at GitHub before it starts.
Refreshed ==
  IF task.kind = "review_fix" /\ row.state = "open" /\ row.review = "changes"
  THEN [row EXCEPT !.head = gh.head, !.state = gh.state, !.review = RemoteReview]
  ELSE row

Inactive(r) ==
  task.kind = "review_fix" /\ (r.state # "open" \/ r.review \notin {"none", "changes"})

Attempts(kind) == IF kind = "ci_repair" THEN row.ci ELSE row.fixes
Budget(kind) == IF kind = "ci_repair" THEN CiBudget ELSE ReviewBudget

\* Mutant of Spent: one attempt too many.
OverSpent == Attempts(task.kind) > Budget(task.kind)

Spent == Attempts(task.kind) >= Budget(task.kind)

Launchable ==
  /\ run = None
  /\ task # None
  /\ task.kind # "implementation"
  /\ row.outcome = "none"
  /\ row.state # "merged"

\* The task closed by the row read at the start; another one may follow from
\* the refreshed row.
Current(r) == IF Derived(row, None) # None THEN Derived(row, None) ELSE Derived(r, None)

Backed(r) == Current(r) # None /\ Current(r).kind = task.kind

Skip ==
  /\ Launchable
  /\ LET r == Refreshed
     IN  /\ row' = r
         /\ IF Inactive(r) THEN UNCHANGED task
            ELSE /\ ~Spent
                 /\ ~Backed(r)
                 /\ task' = Current(r)
  /\ UNCHANGED <<gh, hooks, run, hand, poll, deeds>>

Escalate ==
  /\ Launchable
  /\ LET r == Refreshed
     IN  /\ ~Inactive(r)
         /\ Spent
         /\ row' = [r EXCEPT !.outcome = "escalated", !.asked = FALSE]
  /\ task' = Derived(row, None)
  /\ UNCHANGED <<gh, hooks, run, hand, poll, deeds>>

Launch ==
  /\ Launchable
  /\ LET r == Refreshed
         ci == task.kind = "ci_repair"
         src == IF ci THEN task.head ELSE r.head
     IN  /\ ~Inactive(r)
         /\ ~Spent
         /\ Backed(r)
         /\ run' = [kind |-> task.kind, src |-> src, superseded |-> FALSE,
                    green |-> ci /\ gh.gate[src] = "success"]
         /\ row' = [r EXCEPT !.asked = FALSE,
                             !.ci    = IF ci THEN @ + 1 ELSE @,
                             !.fixes = IF ci THEN @ ELSE @ + 1,
                             !.tried = IF task.signed THEN task.head ELSE @]
  /\ task' = None
  /\ UNCHANGED <<gh, hooks, hand, poll, deeds>>

\* A merged issue that was queued before is completed instead.
CompleteMerged ==
  /\ run = None
  /\ task # None
  /\ row.state = "merged"
  /\ row' = [row EXCEPT !.outcome = "completed", !.asked = FALSE]
  /\ UNCHANGED <<gh, hooks, task, run, hand, poll, deeds>>

RunPush ==
  /\ run # None
  /\ Advance
  /\ UNCHANGED <<row, task, run, hand, poll, deeds>>

\* The gate turned green on the head while the run worked on it.
FreshGreen == run.kind = "ci_repair" /\ gh.gate[gh.head] = "success" /\ ~run.green

NotAdvanced ==
  /\ run.kind = "ci_repair"
  /\ row.state = "open" /\ gh.state = "open"
  /\ row.failed # 0
  /\ gh.head = row.failed
  /\ ~FreshGreen

Blocking == IF row.block # 0 THEN row.block ELSE run.src

SameHeadAgain ==
  /\ run.kind = "review_fix"
  /\ row.state = "open" /\ gh.state = "open"
  /\ gh.head = Blocking

\* refreshIssueAfterReactivePublish.
Published ==
  LET seen == [row EXCEPT !.head = gh.head, !.state = gh.state, !.review = RemoteReview]
      green == FreshGreen /\ gh.head = row.failed
  IN  IF \/ gh.head # row.failed
         \/ green
         \/ run.kind = "review_fix" /\ gh.head # Blocking
      THEN Snapshot(Forgiven(seen), gh.head, IF green THEN "success" ELSE "pending", FALSE)
      ELSE seen

Settled(r) ==
  [ForgivenIf(r.review = "approved" \/ r.state = "merged", r) EXCEPT
     !.outcome = IF r.state = "merged" THEN "completed" ELSE "none",
     !.asked = FALSE]

Finish ==
  /\ run # None
  /\ run' = None
  /\ row' = CASE run.superseded -> row
              [] ~run.superseded /\ NotAdvanced ->
                   [row EXCEPT !.tried = 0, !.outcome = "none", !.asked = FALSE]
              [] ~run.superseded /\ SameHeadAgain -> [row EXCEPT !.outcome = "escalated"]
              [] OTHER -> Settled(Published)
  /\ UNCHANGED <<gh, hooks, task, hand, poll, deeds>>

----------------------------------------------------------------------------

Init ==
  /\ gh = [state |-> "open", head |-> 1, review |-> "none",
           gate |-> [h \in Heads |-> "pending"]]
  /\ hooks = {}
  /\ row = FreshRow
  /\ task = None
  /\ run = None
  /\ hand = None
  /\ poll = None
  /\ deeds = 0

GitHub ==
  \/ Push
  \/ \E head \in Heads : Conclude(head)
  \/ Rerun
  \/ Judge
  \/ End

Webhooks ==
  \/ HandlePending
  \/ HandleConclusion
  \/ HandleUntracked
  \/ HandlePush
  \/ HandleApproval
  \/ HandleChanges
  \/ HandleEnd

Answers == ListChecks \/ ListingFails \/ RecordFailure \/ ReadComments
Applies == ApplyMerged \/ ApplyClosed \/ ApplyOpen
Reconciliation == FinishMerged \/ Route \/ Fetch \/ Applies \/ Sweep
Runs == CompleteMerged \/ Skip \/ Escalate \/ Launch \/ RunPush \/ Finish

Next == GitHub \/ Webhooks \/ Answers \/ Reconciliation \/ Runs

Spec == Init /\ [][Next]_vars

\* Checks conclude, GitHub answers, the idle pass comes round and a run ends;
\* webhooks may be lost, nobody has to push, review or merge.  At most one
\* answer is awaited at a time, and a run either waits or works, so that one
\* conjunct stands for each of these.
Fairness ==
  /\ WF_vars(\E head \in Heads : Conclude(head))
  /\ WF_vars(ListChecks \/ RecordFailure \/ ReadComments \/ Fetch \/ Applies)
  /\ WF_vars(FinishMerged \/ Route \/ Sweep)
  /\ WF_vars(CompleteMerged \/ Skip \/ Escalate \/ Launch \/ Finish)

FairSpec == Spec /\ Fairness

----------------------------------------------------------------------------
(***************************************************************************)
(* Properties.                                                             *)
(***************************************************************************)

GitHubType ==
  [ state : {"open", "merged", "closed"}, head : Heads,
    review : {"none", "approved", "changes"},
    gate : [Heads -> {"pending", "success", "failure"}] ]

RowType ==
  LET head == Heads \cup {0}
  IN  [ state : {"open", "merged", "closed"}, head : Heads,
        review : {"none", "commented", "approved", "changes"},
        check : {"none", "pending", "success", "failure"},
        block : head, snap : head, json : head, failed : head,
        signed : BOOLEAN, tried : head,
        ci : 0..CiBudget, fixes : 0..ReviewBudget,
        outcome : {"none", "completed", "escalated"}, asked : BOOLEAN ]

TaskType ==
  [ kind : {"implementation", "review_fix", "ci_repair"}, head : Heads \cup {0},
    signed : BOOLEAN ]

RunType ==
  [ kind : {"review_fix", "ci_repair"}, src : Heads, superseded : BOOLEAN,
    green : BOOLEAN ]

\* The facts stay what they are about, the repair budgets of the project hold
\* whatever gives attempts back, and no task is open while a run works, so that
\* nothing can be dispatched beside it: tasks are rederived by handlers that
\* looked at the run before they awaited GitHub (github-webhook-handler.ts).
TypeOK ==
  /\ gh \in GitHubType
  /\ row \in RowType
  /\ task \in TaskType \cup {None}
  /\ run \in RunType \cup {None}
  /\ run # None => task = None

\* A completed issue stays completed and gets no run, whatever deliveries of
\* before the merge arrive after it and whatever a poll had fetched.
CompletedStaysCompleted ==
  [][ row.outcome = "completed" =>
        row'.outcome = "completed" /\ (run' # None => run # None) ]_vars

\* The row says of the pull request what GitHub says, and the merge of it has
\* ended the work.
Agree ==
  /\ row.state = gh.state
  /\ gh.state = "open" =>
       /\ row.head = gh.head
       /\ row.check = gh.gate[gh.head]
       /\ gh.review # "none" => row.review = gh.review
  /\ gh.state = "merged" => row.outcome # "none"

\* A recorded failure of another head, or one that was tried already: the idle
\* pass routes the issue as failed and never polls it, and no task follows from
\* it (idle-reconciliation.ts:97, workflow-task-derivation.ts:71).
Wedged == row.state = "open" /\ Failing /\ ~CiWanted(row)

\* Webhooks lost, late and out of order, handled concurrently with polls and
\* runs: polling and webhooks converge "through the same facts"
\* (idle-reconciliation.ts:675).  Left out are issues the code does not poll:
\* those that are completed, wait for a human, or are wedged.
FactsConverge ==
  <>[](Agree \/ row.outcome = "completed" \/ row.asked \/ Wedged)
=============================================================================
