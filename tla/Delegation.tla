----------------------------- MODULE Delegation -----------------------------
(***************************************************************************)
(* PatchRelay: whose issue is it?  One Linear issue, and the authority to  *)
(* work on it.                                                             *)
(*                                                                         *)
(* An issue is worked on while Linear says that it is delegated to         *)
(* PatchRelay.  Linear tells by webhooks, which are handled one after the  *)
(* other and never again after a restart; PatchRelay keeps what it was     *)
(* told twice, as a bit of the issue row and as a log of observations.     *)
(* Webhook handler, launch, completion handler, reconcile pass and startup *)
(* recovery read the one or the other, await Linear or Codex, and write.   *)
(* Every await of the code ends a step.                                    *)
(***************************************************************************)
EXTENDS Naturals, Sequences

CONSTANTS
  Runs,        \* bound: runs that are known at the same time
  NoRun,       \* an empty slot
  MaxChanges,  \* bound: what people do to the issue
  MaxFaults    \* bound: restarts, reads that fail, turns that cannot be stopped

ASSUME DelegationAssumption ==
  /\ NoRun \notin Runs
  /\ MaxChanges \in Nat
  /\ MaxFaults \in Nat

\* Whom an issue is delegated to: PatchRelay, another agent, nobody.
Delegates == {"us", "other", "none"}

Flaws == {"missed", "crossed", "swallowed"}

VARIABLES
  live,      \* Linear: whom the issue is delegated to
  mail,      \* deliveries, accepted or on their way, in the order they were sent
  row,       \* the issue row: known (it exists), delegated (delegated_to_patchrelay),
             \* slot (active_run_id), published (it has an open pull request)
  log,       \* workflow_observations: the epoch, whether the last one says
             \* delegated, and the keys of those that recovery has appended
  task,      \* a runnable workflow task is open
  runs,      \* status ("none" once ended), authority epoch at the claim, the turn,
             \* whether its completion is being looked at, and (history) whether
             \* an undelegation was recorded before that
  lease,     \* this process holds the lease of the issue
  hook,      \* the webhook handler: its delivery, what it asked and has read
  launch,    \* RunOrchestrator.run: the bit it read first, the run
  queued,    \* the issue is in the issue queue
  pass,      \* the reconcile pass: the run it asks about, what it asked
  recovery,  \* the startup recovery: what it awaits, what it asked
  changes,   \* how much people have done
  faults,    \* how many faults there were
  flaws      \* history: what explains that PatchRelay is misinformed

stored == <<row, log, task, runs, lease>>
process == <<hook, launch, queued, pass, recovery>>
world == <<live, mail>>
vars == <<world, stored, process, changes, faults, flaws>>

----------------------------------------------------------------------------
(***************************************************************************)
(* Authority, tasks, runs.                                                 *)
(***************************************************************************)

Unborn == [status |-> "none", epoch |-> 0, turn |-> "none", finalizing |-> FALSE, revoked |-> FALSE]
NoHook == [pc |-> "idle", delegate |-> "none", explicit |-> FALSE, asked |-> "none",
           was |-> FALSE, run |-> NoRun, turn |-> FALSE]
NoLaunch == [pc |-> "idle", early |-> FALSE, run |-> NoRun]
NoPass == [run |-> NoRun, asked |-> "none"]
Off == [pc |-> "off", asked |-> "none"]

Live(r) == runs[r].status # "none"
NoneLive(rs) == \A r \in Runs : rs[r].status = "none"

\* A run that nothing refers to any more makes room for another.
Unused(r) == runs[r] = Unborn /\ hook.run # r /\ pass.run # r /\ launch.run # r

\* finishRun, whatever the status was.
Finished(r) == [runs EXCEPT ![r] = [Unborn EXCEPT !.finalizing = runs[r].finalizing]]

\* Linear answers with what was true when it was asked, or is now.
Answers(asked) == {asked, live}

\* deriveAuthority: the last observation, and the bit of the row before the first.
Authority(bit, lg) == IF lg.epoch > 0 THEN lg.last ELSE bit

\* deriveWorkflowTasks, for the row i with its bit as the caller read it.
Opens(bit, i, lg, rs) ==
  i.known /\ Authority(bit, lg) /\ ~i.published /\ NoneLive(rs)

\* The same for a caller that looks at the run in the slot only.
OpensDetached(i, lg, rs) ==
  /\ i.known /\ Authority(i.delegated, lg) /\ ~i.published
  /\ i.slot = NoRun \/ rs[i.slot].status = "none"

\* appendObservation, of the recovery: once for each key.
Recovered(d, to) ==
  IF <<d, to>> \in log.keys
    THEN log
    ELSE [epoch |-> log.epoch + 1, last |-> d, keys |-> log.keys \cup {<<d, to>>}]

\* Mutant of Observed: the key is that of the recovery.
ObservedOnce(d) == Recovered(d, hook.delegate)

\* appendObservation, of a webhook: each delivery is a key of its own.
Observed(d) == [epoch |-> log.epoch + 1, last |-> d, keys |-> log.keys]

\* History: runs with an epoch that still work when an undelegation is recorded.
Revoked(rs) ==
  [r \in Runs |-> [rs[r] EXCEPT !.revoked =
     @ \/ (rs[r].status # "none" /\ rs[r].epoch > 0 /\ ~rs[r].finalizing)]]

\* One fault more: a read or an interruption that fails, a restart.
Fail == faults < MaxFaults /\ faults' = faults + 1

----------------------------------------------------------------------------
(***************************************************************************)
(* Linear and people.                                                      *)
(***************************************************************************)

\* Somebody changes the delegate: the delivery says that it did.
Delegate(d) ==
  /\ changes < MaxChanges
  /\ d # live
  /\ live' = d
  /\ mail' = Append(mail, [delegate |-> d, explicit |-> TRUE])
  /\ changes' = changes + 1
  /\ UNCHANGED <<stored, process, faults, flaws>>

\* Any other change of the issue: the delivery has the delegate, if there is one.
Edit ==
  /\ changes < MaxChanges
  /\ mail' = Append(mail, [delegate |-> live, explicit |-> FALSE])
  /\ changes' = changes + 1
  /\ UNCHANGED <<live, stored, process, faults, flaws>>

----------------------------------------------------------------------------
(***************************************************************************)
(* A delivery: load the issue, record what it says, reconcile, dispatch.   *)
(***************************************************************************)

Take ==
  /\ hook.pc = "idle"
  /\ mail # <<>>
  /\ hook' = [NoHook EXCEPT !.pc = "loading", !.delegate = Head(mail).delegate,
                            !.explicit = Head(mail).explicit, !.asked = live]
  /\ mail' = Tail(mail)
  /\ UNCHANGED <<live, stored, launch, queued, pass, recovery, changes, faults, flaws>>

\* mergeIssueMetadata: what the delivery says comes first.
Merged(v) == IF hook.delegate = "none" THEN v ELSE hook.delegate

\* An issue that is not tracked and not delegated to PatchRelay stays so.
Ignored(d) == ~row.known /\ d # "us"

Ignore ==
  /\ log' = IF hook.explicit THEN Observed(FALSE) ELSE log
  /\ hook' = NoHook
  /\ UNCHANGED <<row, task, runs, lease, queued>>

\* The commit of record(), the observation, the tasks and the dispatch.  was and r
\* are the bit and the run that the row had when it was read.
Record(was, r, d, released) ==
  LET paused == was /\ ~d
      row1 == [row EXCEPT !.known = TRUE, !.delegated = d,
                          !.slot = IF released THEN NoRun ELSE @]
      runs1 == IF released THEN Finished(r) ELSE runs
      log1 == IF hook.explicit THEN Observed(d) ELSE log
  IN
  /\ row' = row1
  /\ log' = log1
  /\ runs' = IF hook.explicit /\ ~d THEN Revoked(runs1) ELSE runs1
  /\ lease' = (lease /\ ~(paused /\ (released \/ r = NoRun)))
  /\ task' = Opens(d, row1, log1, runs1)
  /\ queued' = (queued \/ (task' /\ row1.slot = NoRun))
  /\ hook' = NoHook

\* decideActiveRunRelease.  A turn that is known is stopped first.
Decide(was, r, turn, d) ==
  LET release == r # NoRun /\ was /\ ~d IN
  IF release /\ turn
    THEN /\ hook' = [hook EXCEPT !.pc = "stopping", !.was = was, !.run = r, !.turn = turn]
         /\ UNCHANGED <<stored, queued>>
    ELSE Record(was, r, d, release)

Told == flaws' = IF hook.explicit /\ hook'.pc = "idle" THEN {} ELSE flaws

Turning(r) == r # NoRun /\ runs[r].turn # "none"

\* resolveDelegationTruth after the first read.  It has told the relations as well,
\* so that nothing else is read, and an absent delegate counts only in a change.
Load ==
  /\ hook.pc = "loading"
  /\ \E v \in Answers(hook.asked) :
       LET d == Merged(v) IN
       IF Ignored(d)
         THEN Ignore
         ELSE Decide(row.delegated, row.slot, Turning(row.slot),
                     IF d = "none" /\ ~hook.explicit THEN row.delegated ELSE d = "us")
  /\ Told
  /\ UNCHANGED <<world, launch, pass, recovery, changes, faults>>

\* The first read fails: the row is read, and Linear asked again.
LoadFails ==
  /\ hook.pc = "loading"
  /\ Fail
  /\ IF Ignored(hook.delegate)
       THEN Ignore
       ELSE /\ hook' = [hook EXCEPT !.pc = "syncing", !.asked = live, !.was = row.delegated,
                                    !.run = row.slot, !.turn = Turning(row.slot)]
            /\ UNCHANGED <<stored, queued>>
  /\ Told
  /\ UNCHANGED <<world, launch, pass, recovery, changes>>

\* syncIssueDependencies has read the issue: an absent delegate is one now.
Sync ==
  /\ hook.pc = "syncing"
  /\ \E v \in Answers(hook.asked) : Decide(hook.was, hook.run, hook.turn, Merged(v) = "us")
  /\ Told
  /\ UNCHANGED <<world, launch, pass, recovery, changes, faults>>

SyncFails ==
  /\ hook.pc = "syncing"
  /\ Fail
  /\ Decide(hook.was, hook.run, hook.turn,
            IF hook.delegate = "none" /\ ~hook.explicit THEN hook.was ELSE hook.delegate = "us")
  /\ IF hook.delegate = "none" /\ ~hook.explicit /\ hook.was # row.delegated
       THEN flaws' = flaws \cup {"crossed"}
       ELSE Told
  /\ UNCHANGED <<world, launch, pass, recovery, changes>>

\* interruptTurn has answered.
Stop ==
  /\ hook.pc = "stopping"
  /\ Record(TRUE, hook.run, FALSE, TRUE)
  /\ Told
  /\ UNCHANGED <<world, launch, pass, recovery, changes, faults>>

\* It has failed: the bit is written, and run, slot and lease are kept.
StopFails ==
  /\ hook.pc = "stopping"
  /\ Fail
  /\ Record(TRUE, hook.run, FALSE, FALSE)
  /\ Told
  /\ UNCHANGED <<world, launch, pass, recovery, changes>>

Webhook == Take \/ Load \/ LoadFails \/ Sync \/ SyncFails \/ Stop \/ StopFails

----------------------------------------------------------------------------
(***************************************************************************)
(* Launching a run.                                                        *)
(***************************************************************************)

\* run(): an open task, or one that the row gives, is prepared under the lease.
Dequeue ==
  /\ queued
  /\ launch.pc = "idle"
  /\ queued' = FALSE
  /\ IF row.known /\ row.slot = NoRun /\ ~lease
       THEN /\ task' = (task \/ Opens(row.delegated, row, log, runs))
            /\ lease' = task'
            /\ launch' = IF task' THEN [NoLaunch EXCEPT !.pc = "preparing", !.early = row.delegated]
                                  ELSE NoLaunch
       ELSE UNCHANGED <<task, lease, launch>>
  /\ UNCHANGED <<world, row, log, runs, hook, pass, recovery, changes, faults, flaws>>

\* The tasks are reconciled with the row as it was read before the awaits, and
\* claimRun takes the one that is open then, or that the row as it is now gives.
Claim ==
  /\ launch.pc = "preparing"
  /\ LET opened == Opens(launch.early, row, log, runs) IN
     IF lease /\ row.slot = NoRun /\ (opened \/ Opens(row.delegated, row, log, runs))
       THEN \E r \in {q \in Runs : Unused(q)} :
              /\ runs' = [runs EXCEPT ![r].status = "queued", ![r].epoch = log.epoch]
              /\ row' = [row EXCEPT !.slot = r]
              /\ task' = FALSE
              /\ launch' = [launch EXCEPT !.pc = "launching", !.early = FALSE, !.run = r]
              /\ UNCHANGED lease
       ELSE /\ task' = opened
            /\ lease' = FALSE
            /\ launch' = NoLaunch
            /\ UNCHANGED <<row, runs>>
  /\ UNCHANGED <<world, log, hook, queued, pass, recovery, changes, faults, flaws>>

\* The turn has started and is recorded; without the lease the run is left alone.
Start ==
  /\ launch.pc = "launching"
  /\ runs' = IF lease /\ Live(launch.run)
               THEN [runs EXCEPT ![launch.run].status = "running", ![launch.run].turn = "running"]
               ELSE runs
  /\ launch' = NoLaunch
  /\ UNCHANGED <<world, row, log, task, lease, hook, queued, pass, recovery, changes, faults, flaws>>

Launch == Dequeue \/ Claim \/ Start

----------------------------------------------------------------------------
(***************************************************************************)
(* The end of a turn.                                                      *)
(***************************************************************************)

EndTurn(r) ==
  /\ runs[r].turn = "running"
  /\ runs' = [runs EXCEPT ![r].turn = "done"]
  /\ UNCHANGED <<world, row, log, task, lease, process, changes, faults, flaws>>

\* Mutant of Suppressed: what was withdrawn may have been given again.
SuppressedIfRevokedNow(r) == ~Authority(row.delegated, log)

\* resolveSuppressedRunReason: no authority now, or another one than at the claim.
Suppressed(r) ==
  \/ ~Authority(row.delegated, log)
  \/ runs[r].epoch > 0 /\ log.epoch > runs[r].epoch

\* releaseRunAndDispatch, with the row i and the runs rs.
Dispatch(i, rs) ==
  /\ task' = (task \/ OpensDetached(i, log, rs))
  /\ queued' = (queued \/ task')
  /\ lease' = FALSE

\* finalizeCompletedRun, up to its first await, for the row i.
Finalize(r, i) ==
  IF Suppressed(r)
    THEN /\ row' = [i EXCEPT !.slot = NoRun]
         /\ runs' = Finished(r)
         /\ Dispatch(row', runs')
    ELSE /\ runs' = [runs EXCEPT ![r].finalizing = TRUE]
         /\ row' = i
         /\ lease' = TRUE
         /\ UNCHANGED <<task, queued>>

\* turn/completed is heard under the lease only.
Complete(r) ==
  /\ runs[r].turn = "done"
  /\ runs[r].status = "running"
  /\ ~runs[r].finalizing
  /\ lease
  /\ Finalize(r, row)
  /\ UNCHANGED <<world, log, hook, launch, pass, recovery, changes, faults, flaws>>

\* settleRun, after the pull request was found: nothing is written without the
\* lease, and only the run's own slot is cleared.
Settle(r) ==
  /\ runs[r].finalizing
  /\ IF lease /\ Live(r)
       THEN /\ runs' = [runs EXCEPT ![r] = Unborn]
            /\ row' = [row EXCEPT !.published = TRUE, !.slot = IF @ = r THEN NoRun ELSE @]
       ELSE /\ runs' = [runs EXCEPT ![r].finalizing = FALSE]
            /\ UNCHANGED row
  /\ Dispatch(row', runs')
  /\ UNCHANGED <<world, log, hook, launch, pass, recovery, changes, faults, flaws>>

Ending == \E r \in Runs : Complete(r) \/ Settle(r)

----------------------------------------------------------------------------
(***************************************************************************)
(* The background pass.                                                    *)
(***************************************************************************)

\* A run without a turn whose launch is gone has failed; a turn that is done is
\* finalized; a turn that goes on is left alone.
Inspect(r, i) ==
  IF ~Live(r) \/ runs[r].finalizing \/ launch.run = r
    THEN row' = i /\ UNCHANGED <<runs, task, queued, lease>>
    ELSE CASE runs[r].turn = "none" ->
                /\ runs' = Finished(r)
                /\ row' = [i EXCEPT !.slot = IF @ = r THEN NoRun ELSE @]
                /\ Dispatch(row', runs')
           [] runs[r].turn = "running" -> row' = i /\ UNCHANGED <<runs, task, queued, lease>>
           [] runs[r].turn = "done" -> Finalize(r, i)

\* Mutant of Visit: the bit of the row is believed.
VisitUnasked(r) ==
  /\ pass = NoPass
  /\ Live(r)
  /\ Inspect(r, [row EXCEPT !.slot = r])
  /\ UNCHANGED <<world, log, hook, launch, pass, recovery, changes, faults, flaws>>

\* A live run is attached again; if the bit says undelegated, Linear is asked.
Visit(r) ==
  /\ pass = NoPass
  /\ Live(r)
  /\ LET i == [row EXCEPT !.slot = r] IN
     IF row.delegated
       THEN Inspect(r, i) /\ UNCHANGED pass
       ELSE /\ pass' = [run |-> r, asked |-> live]
            /\ row' = i
            /\ UNCHANGED <<runs, task, queued>>
            /\ lease' = TRUE
  /\ UNCHANGED <<world, log, hook, launch, recovery, changes, faults, flaws>>

\* confirmDelegationAuthorityBeforeRelease: Linear decides.
Confirm ==
  /\ pass # NoPass
  /\ \E v \in Answers(pass.asked) :
       /\ IF v = "us"
            THEN Inspect(pass.run, [row EXCEPT !.delegated = lease \/ @])
            ELSE /\ row' = IF lease THEN [row EXCEPT !.slot = NoRun, !.delegated = FALSE] ELSE row
                 /\ runs' = IF lease THEN Finished(pass.run) ELSE runs
                 /\ lease' = FALSE
                 /\ UNCHANGED <<task, queued>>
       /\ flaws' = IF v = live THEN flaws ELSE flaws \cup {"crossed"}
  /\ pass' = NoPass
  /\ UNCHANGED <<world, log, hook, launch, recovery, changes, faults>>

ConfirmFails ==
  /\ pass # NoPass
  /\ Fail
  /\ Inspect(pass.run, row)
  /\ pass' = NoPass
  /\ UNCHANGED <<world, log, hook, launch, recovery, changes, flaws>>

\* Mutant of ListReady: a task that was open before is taken to be queued.
ListNewlyReady ==
  /\ task' = Opens(row.delegated, row, log, runs)
  /\ queued' = (queued \/ (task' /\ ~task))
  /\ UNCHANGED <<world, row, log, runs, lease, hook, launch, pass, recovery, changes, faults, flaws>>

\* listIssuesReadyForExecution: tasks follow the row, and ready issues are queued.
ListReady ==
  /\ task' = Opens(row.delegated, row, log, runs)
  /\ queued' = (queued \/ task')
  /\ UNCHANGED <<world, row, log, runs, lease, hook, launch, pass, recovery, changes, faults, flaws>>

Background == Confirm \/ ConfirmFails \/ \E r \in Runs : Visit(r)

----------------------------------------------------------------------------
(***************************************************************************)
(* A restart, and the recovery that follows it.                            *)
(***************************************************************************)

\* Accepted deliveries are gone, those that were not accepted come.
Restart ==
  /\ Fail
  /\ \E kept \in {SubSeq(mail, k, Len(mail)) : k \in 1 .. Len(mail) + 1} :
       /\ mail' = kept
       /\ flaws' = IF hook.explicit \/ \E k \in 1 .. Len(mail) - Len(kept) : mail[k].explicit
                     THEN flaws \cup {"missed"} ELSE flaws
  /\ hook' = NoHook
  /\ launch' = NoLaunch
  /\ pass' = NoPass
  /\ runs' = [r \in Runs |-> [runs[r] EXCEPT !.finalizing = FALSE]]
  /\ lease' = FALSE
  /\ task' = Opens(row.delegated, row, log, runs)
  /\ queued' = task'
  /\ recovery' = [pc |-> "listing", asked |-> live]
  /\ UNCHANGED <<live, row, log, changes>>

\* The issues that have a row and no run are asked for, one after the other.
GoOn(i) ==
  recovery' = IF i.known /\ i.slot = NoRun THEN [pc |-> "asking", asked |-> live] ELSE Off

\* discoverDelegatedIssuesFromLinear: delegated issues without a row get one.
Discover ==
  /\ recovery.pc = "listing"
  /\ \E v \in Answers(recovery.asked) :
       IF v = "us" /\ ~row.known
         THEN /\ row' = [row EXCEPT !.known = TRUE, !.delegated = TRUE]
              /\ log' = Recovered(TRUE, "us")
              /\ flaws' = (flaws \ {"missed"})
                            \cup (IF v = live THEN {} ELSE {"crossed"})
                            \cup (IF log'.last THEN {} ELSE {"swallowed"})
         ELSE UNCHANGED <<row, log, flaws>>
  /\ GoOn(row')
  /\ task' = IF recovery'.pc = "off" THEN Opens(row'.delegated, row', log', runs) ELSE task
  /\ UNCHANGED <<world, runs, lease, hook, launch, queued, pass, changes, faults>>

DiscoverFails ==
  /\ recovery.pc = "listing"
  /\ Fail
  /\ GoOn(row)
  /\ task' = IF recovery'.pc = "off" THEN Opens(row.delegated, row, log, runs) ELSE task
  /\ UNCHANGED <<world, row, log, runs, lease, hook, launch, queued, pass, changes, flaws>>

\* recoverDelegatedIssueStateFromLinear, for this issue.  The version it expects is
\* that of the row as it is read after the answer.
Recover ==
  /\ recovery.pc = "asking"
  /\ \E v \in Answers(recovery.asked) :
       LET d == v = "us" IN
       /\ row' = [row EXCEPT !.delegated = d]
       /\ log' = IF row.delegated = d THEN log ELSE Recovered(d, v)
       /\ runs' = IF log' # log /\ ~d THEN Revoked(runs) ELSE runs
       /\ flaws' = (flaws \ {"missed"})
                     \cup (IF v = live THEN {} ELSE {"crossed"})
                     \cup (IF Authority(d, log') = d THEN {} ELSE {"swallowed"})
  /\ task' = Opens(row'.delegated, row', log', runs)
  /\ queued' = (queued \/ (task' /\ ~task))
  /\ recovery' = Off
  /\ UNCHANGED <<world, lease, hook, launch, pass, changes, faults>>

RecoverFails ==
  /\ recovery.pc = "asking"
  /\ Fail
  /\ task' = Opens(row.delegated, row, log, runs)
  /\ recovery' = Off
  /\ UNCHANGED <<world, row, log, runs, lease, hook, launch, queued, pass, changes, flaws>>

Recovery == Discover \/ DiscoverFails \/ Recover \/ RecoverFails

----------------------------------------------------------------------------
Init ==
  /\ live = "none"
  /\ mail = <<>>
  /\ row = [known |-> FALSE, delegated |-> FALSE, slot |-> NoRun, published |-> FALSE]
  /\ log = [epoch |-> 0, last |-> FALSE, keys |-> {}]
  /\ task = FALSE
  /\ runs = [r \in Runs |-> Unborn]
  /\ lease = FALSE
  /\ hook = NoHook
  /\ launch = NoLaunch
  /\ queued = FALSE
  /\ pass = NoPass
  /\ recovery = Off
  /\ changes = 0
  /\ faults = 0
  /\ flaws = {}

People == Edit \/ \E d \in Delegates : Delegate(d)

Next ==
  \/ People
  \/ Webhook
  \/ Launch
  \/ \E r \in Runs : EndTurn(r)
  \/ Ending
  \/ Background
  \/ ListReady
  \/ Restart
  \/ Recovery

Spec == Init /\ [][Next]_vars

Fairness ==
  /\ WF_vars(Webhook) /\ WF_vars(Launch) /\ WF_vars(Ending)
  /\ WF_vars(Background) /\ WF_vars(ListReady) /\ WF_vars(Recovery)

FairSpec == Spec /\ Fairness

----------------------------------------------------------------------------
Slots == Runs \cup {NoRun}
MailType == [delegate : Delegates, explicit : BOOLEAN]
RowType == [known : BOOLEAN, delegated : BOOLEAN, slot : Slots, published : BOOLEAN]
Keys == BOOLEAN \X Delegates
LogType == [epoch : Nat, last : BOOLEAN, keys : SUBSET Keys]
RunType == [status : {"none", "queued", "running"}, epoch : Nat,
            turn : {"none", "running", "done"}, finalizing : BOOLEAN, revoked : BOOLEAN]
HookType == [pc : {"idle", "loading", "syncing", "stopping"}, delegate : Delegates,
             explicit : BOOLEAN, asked : Delegates, was : BOOLEAN, run : Slots, turn : BOOLEAN]
LaunchType == [pc : {"idle", "preparing", "launching"}, early : BOOLEAN, run : Slots]
PassType == [run : Slots, asked : Delegates]
RecoveryType == [pc : {"off", "listing", "asking"}, asked : Delegates]

\* Type invariant: values of the shapes that the tables, the queue and the handlers have.
TypeOK ==
  /\ live \in Delegates
  /\ mail \in Seq(MailType)
  /\ row \in RowType
  /\ log \in LogType
  /\ runs \in [Runs -> RunType]
  /\ hook \in HookType
  /\ launch \in LaunchType
  /\ pass \in PassType
  /\ recovery \in RecoveryType
  /\ {task, lease, queued} \subseteq BOOLEAN
  /\ changes \in 0 .. MaxChanges
  /\ faults \in 0 .. MaxFaults
  /\ flaws \subseteq Flaws

(***************************************************************************)
(* A run whose delegation was withdrawn is never published: if a delivery  *)
(* or the recovery recorded the withdrawal before the completion of the    *)
(* run was looked at, the pull request is that of another run, however the *)
(* interruption of its turn went and even if the issue was delegated again *)
(* meanwhile (the epoch that claimRun stores and the completion handler    *)
(* compares).  Runs claimed before the first observation have no epoch to  *)
(* compare, and are left out.                                              *)
(***************************************************************************)
RevokedIsNotPublished ==
  [][row'.published /\ ~row.published =>
       \E r \in Runs : Live(r) /\ ~runs[r].revoked /\ runs'[r] = Unborn]_vars

\* A change of the delegate is on its way or being handled.
Changing == hook.explicit \/ \E k \in 1 .. Len(mail) : mail[k].explicit

(***************************************************************************)
(* Unless a change of the delegate is on its way, the row and the log both *)
(* say of a tracked issue what Linear says, in whatever order webhook      *)
(* handler, pass and recovery read and wrote.  They may be wrong only if a *)
(* restart lost a delivery that nobody made up for, if what was true when  *)
(* it was asked or read was recorded after what had corrected it, or if    *)
(* the log left out an observation of the recovery whose key it had.       *)
(***************************************************************************)
AuthorityIsCurrent ==
  ~Changing /\ row.known /\ flaws = {} =>
    /\ row.delegated = (live = "us")
    /\ Authority(row.delegated, log) = (live = "us")

Working == \E r \in Runs : Live(r)

(***************************************************************************)
(* An issue that is taken from PatchRelay for good is at last worked on no *)
(* more, although turns may go on for ever and may refuse to stop, and     *)
(* launches, completions and passes cross the withdrawal.                  *)
(***************************************************************************)
UndelegationStops == <>[](live # "us") => <>[](~Working \/ flaws # {})

(***************************************************************************)
(* An issue that is delegated to PatchRelay for good is at last published, *)
(* or worked on without end: no interleaving of a launch, a stopped run, a *)
(* restart and its recovery leaves it without a run, a task or a queue.    *)
(***************************************************************************)
DelegationStarts == <>[](live = "us") => <>[](row.published \/ Working \/ flaws # {})
=============================================================================
