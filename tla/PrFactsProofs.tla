--------------------------- MODULE PrFactsProofs ---------------------------
(***************************************************************************)
(* Theorems of PrFacts, for any number of heads, deliveries and            *)
(* disturbances and any budgets: the types, with the repair budgets and    *)
(* the exclusion of tasks and runs, and that completion is final.          *)
(***************************************************************************)
EXTENDS PrFacts, TLAPS

Events == {"synchronize", "pending", "passed", "failed", "approved", "changes", "merged",
           "closed"}
States == {"open", "merged", "closed"}
Checks == {"pending", "success", "failure"}
Outcomes == {"none", "completed", "escalated"}

HookType == [event : Events, head : Heads]

\* A task to repair CI names a head.
Goals == {t \in TaskType : t.kind = "ci_repair" => t.head \in Heads}

HandType == [at : {"checks", "context", "comments"}, event : Events, head : Heads,
             failed : Heads \cup {0}, plan : Goals \cup {None}]

PollType == [prev : Heads, state : States, head : Heads,
             review : {"none", "approved", "changes"}, gate : Checks]

\* Whatever says that the pull request is merged, it is: without it a run that
\* ends late could reopen a completed issue.
MergedIsMerged ==
  \/ gh.state = "merged"
  \/ /\ row.state # "merged"
     /\ row.outcome # "completed"
     /\ \A e \in hooks : e.event # "merged"
     /\ poll # None => poll.state # "merged"

Waiting ==
  /\ hooks \subseteq HookType
  /\ hand \in HandType \cup {None}
  /\ poll \in PollType \cup {None}

Working ==
  /\ task \in Goals \cup {None}
  /\ run \in RunType \cup {None}
  /\ run # None => task = None

IInv ==
  /\ gh \in GitHubType
  /\ row \in RowType
  /\ Waiting
  /\ Working
  /\ MergedIsMerged

----------------------------------------------------------------------------
(***************************************************************************)
(* What a step may make of the row.                                        *)
(***************************************************************************)

Fit(r) ==
  /\ r \in RowType
  /\ r.state = "merged" \/ r.outcome = "completed" => gh.state = "merged"
  /\ row.outcome = "completed" => r.outcome = "completed"

LEMMA HeadFacts == 1 \in Heads /\ 0 \notin Heads /\ Heads \subseteq Nat
BY FactsAssumption DEF Heads

LEMMA SameFit == ASSUME IInv PROVE Fit(row)
BY DEF IInv, MergedIsMerged, Fit

LEMMA ForgivenFit ==
  ASSUME NEW r, Fit(r)
  PROVE  Fit(Forgiven(r)) /\ \A b : Fit(ForgivenIf(b, r))
<1>1. Fit(Forgiven(r))
  BY DEF Fit, Forgiven, RowType
<1> QED BY <1>1 DEF ForgivenIf

LEMMA CompletedFit ==
  ASSUME NEW r, Fit(r), gh.state = "merged"
  PROVE  Fit([r EXCEPT !.outcome = "completed"])
         /\ Fit([r EXCEPT !.outcome = "completed", !.asked = FALSE])
BY DEF Fit, RowType

LEMMA SnapshotFit ==
  ASSUME NEW r, Fit(r), NEW head \in Heads, NEW check \in Checks, NEW red
  PROVE  Fit(Snapshot(r, head, check, red))
<1> DEFINE json == IF red THEN head ELSE 0
<1>1. json \in Heads \cup {0}
  OBVIOUS
<1> HIDE DEF json
<1> DEFINE s == [r EXCEPT !.check = check]
<1>2. Fit(s)
  BY DEF Fit, RowType, Checks
<1> HIDE DEF s
<1> DEFINE t == [s EXCEPT !.snap = head]
<1>3. Fit(t)
  BY <1>2 DEF Fit, RowType
<1> HIDE DEF t
<1>4. Fit([t EXCEPT !.json = json])
  BY <1>1, <1>3 DEF Fit, RowType
<1> QED BY <1>4 DEF s, t, json, Snapshot

LEMMA ClosedFit ==
  ASSUME NEW r, Fit(r)
  PROVE  Fit(Closed(r)) /\ Fit(Disposed(r)) /\ (~Held(r) /\ r.outcome # "completed" => Fit(Redelegated(Forgiven(r))))
<1>1. Fit(Closed(r))
  BY DEF Fit, Closed, RowType
<1>2. Fit(Disposed(r))
  <2>1. Disposed(r) = r \/ (r.outcome # "completed" /\ Disposed(r) = Redelegated(r))
    BY DEF Disposed
  <2>2. r.outcome # "completed" => Fit(Redelegated(r))
    BY DEF Fit, Redelegated, RowType
  <2> QED BY <2>1, <2>2
<1>3. ~Held(r) /\ r.outcome # "completed" => Fit(Redelegated(Forgiven(r)))
  BY DEF Fit, Redelegated, Forgiven, RowType
<1> QED BY <1>1, <1>2, <1>3

\* The facts that every observation writes.
Facts(r, head, state, review) == [r EXCEPT !.head = head, !.state = state, !.review = review]

LEMMA FactFields ==
  ASSUME NEW r \in RowType, NEW head \in Heads, NEW state \in States,
         NEW review \in {"none", "commented", "approved", "changes"}
  PROVE  LET s == Facts(r, head, state, review) IN
         s \in RowType /\ s.outcome = r.outcome /\ s.state = state
<1> DEFINE s == [r EXCEPT !.head = head, !.state = state]
<1>1. s \in RowType /\ s.outcome = r.outcome /\ s.state = state
  BY DEF RowType, States
<1> HIDE DEF s
<1>2. LET t == [s EXCEPT !.review = review] IN
      t \in RowType /\ t.outcome = s.outcome /\ t.state = s.state
  BY <1>1 DEF RowType
<1> QED BY <1>1, <1>2 DEF s, Facts

\* The facts of a delivery.
LEMMA ObservedFit ==
  ASSUME IInv, NEW e \in hooks
  PROVE  Fit(Observed(row, e)) /\ e.event \in Events /\ e.head \in Heads
<1>1. e \in HookType /\ e.event \in Events /\ e.head \in Heads
  BY DEF IInv, Waiting, HookType
<1> DEFINE state == CASE OfGate(e) -> row.state
                      [] e.event = "merged" -> "merged"
                      [] OTHER -> "open"
           review == IF e.event \in {"approved", "changes"} THEN e.event ELSE row.review
           block == CASE e.event = "changes" -> e.head
                      [] e.event = "approved" -> 0
                      [] OTHER -> row.block
           check == IF OfGate(e) /\ ~Stale(row, e.head) THEN Gate[e.event] ELSE row.check
<1>2. state \in States /\ (state = "merged" => row.state = "merged" \/ e.event = "merged")
  BY DEF IInv, RowType, States
<1>3. review \in {"none", "commented", "approved", "changes"}
  BY DEF IInv, RowType
<1>4. block \in Heads \cup {0}
  BY <1>1 DEF IInv, RowType
<1>5. check \in {"none"} \cup Checks
  BY DEF IInv, RowType, Checks, OfGate, Gate
<1>6. Observed(row, e) = [row EXCEPT !.head = e.head, !.state = state, !.review = review,
                                     !.block = block, !.check = check]
  BY DEF Observed
<1> HIDE DEF state, review, block, check
<1>7. Observed(row, e) \in RowType /\ Observed(row, e).outcome = row.outcome
      /\ Observed(row, e).state = state
  <2> DEFINE s == Facts(row, e.head, state, review)
  <2>1. s \in RowType /\ s.outcome = row.outcome /\ s.state = state
    BY <1>1, <1>2, <1>3, FactFields DEF IInv
  <2>2. Observed(row, e) = [s EXCEPT !.block = block, !.check = check]
    BY <1>6 DEF Facts
  <2> HIDE DEF s
  <2> QED BY <1>4, <1>5, <2>1, <2>2 DEF RowType, Checks
<1>8. state = "merged" \/ row.outcome = "completed" => gh.state = "merged"
  BY <1>2 DEF IInv, MergedIsMerged
<1> QED BY <1>1, <1>7, <1>8 DEF Fit

\* The facts of a poll.
LEMMA PolledFit ==
  ASSUME IInv, poll # None
  PROVE  Fit(Polled(row)) /\ poll \in PollType /\ \A r : Fit(r) => Fit(PolledClear(r))
<1>1. poll \in PollType
  BY DEF IInv, Waiting
<1> DEFINE state == IF poll.state = "open" THEN "open" ELSE row.state
           review == IF poll.review = "none" THEN "commented" ELSE poll.review
           ci == IF poll.head # poll.prev THEN 0 ELSE row.ci
<1>2. state \in States /\ (state = "merged" => row.state = "merged")
  BY DEF IInv, RowType, States
<1>3. review \in {"none", "commented", "approved", "changes"}
  BY <1>1 DEF PollType
<1>4. ci \in 0..CiBudget
  BY FactsAssumption DEF IInv, RowType
<1>5. Polled(row) = [row EXCEPT !.head = poll.head, !.state = state, !.review = review,
                                !.check = poll.gate, !.snap = poll.head, !.ci = ci]
  BY DEF Polled
<1> HIDE DEF state, review, ci
<1>6. Polled(row) \in RowType /\ Polled(row).outcome = row.outcome /\ Polled(row).state = state
  <2> DEFINE s == Facts(row, poll.head, state, review)
  <2>1. s \in RowType /\ s.outcome = row.outcome /\ s.state = state
    <3>1. row \in RowType /\ poll.head \in Heads
      BY <1>1 DEF IInv, PollType
    <3> QED BY <1>2, <1>3, <3>1, FactFields
  <2>2. Polled(row) = [s EXCEPT !.check = poll.gate, !.snap = poll.head, !.ci = ci]
    BY <1>5 DEF Facts
  <2> HIDE DEF s
  <2> DEFINE t == [s EXCEPT !.check = poll.gate, !.snap = poll.head]
  <2>3. t \in RowType /\ t.outcome = s.outcome /\ t.state = s.state
    BY <1>1, <2>1 DEF RowType, Checks, PollType
  <2>4. Polled(row) = [t EXCEPT !.ci = ci]
    BY <2>2
  <2> HIDE DEF t
  <2> QED BY <1>4, <2>1, <2>3, <2>4 DEF RowType
<1>7. state = "merged" \/ row.outcome = "completed" => gh.state = "merged"
  BY <1>2 DEF IInv, MergedIsMerged
<1>8. Fit(Polled(row))
  BY <1>6, <1>7 DEF Fit
<1> QED BY <1>1, <1>8, ForgivenFit DEF PolledClear

\* deriveWorkflowTasks: a task of its type, none while a run is active.
LEMMA DerivedTypes ==
  ASSUME NEW r \in RowType, NEW active
  PROVE  /\ Derived(r, active) \in Goals \cup {None}
         /\ active # None => Derived(r, active) = None
<1> DEFINE ci == Task("ci_repair", IF r.failed # 0 THEN r.failed ELSE r.head, r.signed)
           fix == Task("review_fix", r.head, FALSE)
           new == Task("implementation", 0, FALSE)
<1>1. ci \in Goals /\ fix \in Goals /\ new \in Goals
  BY DEF Task, Goals, TaskType, RowType
<1>2. Derived(r, active) \in {None, ci, fix, new}
  BY DEF Derived
<1>3. active # None => Derived(r, active) = None
  BY DEF Derived
<1> HIDE DEF ci, fix, new
<1> QED BY <1>1, <1>2, <1>3

----------------------------------------------------------------------------
(***************************************************************************)
(* What a step does to the whole.                                          *)
(***************************************************************************)

Step ==
  /\ Fit(row')
  /\ Working' /\ Waiting'
  /\ gh' \in GitHubType
  /\ gh.state = "merged" => gh'.state = "merged"
  /\ \A e \in hooks' : e.event = "merged" => gh'.state = "merged"
  /\ poll' # None => (poll'.state = "merged" => gh'.state = "merged")
  /\ row.outcome = "completed" => (run' # None => run # None)

LEMMA StepSafe ==
  ASSUME IInv, Step
  PROVE  IInv' /\ (row.outcome = "completed" =>
                     row'.outcome = "completed" /\ (run' # None => run # None))
BY DEF IInv, Step, Fit, MergedIsMerged

\* GitHub stays, deliveries arrive, a poll is applied or dropped.
Inward ==
  /\ UNCHANGED gh
  /\ hooks' \subseteq hooks
  /\ poll' = poll \/ poll' = None
  /\ hand' \in HandType \cup {None}

LEMMA InwardStep ==
  ASSUME IInv, Inward, Fit(row'), Working',
         row.outcome = "completed" => (run' # None => run # None)
  PROVE  Step
BY DEF IInv, Inward, Step, Waiting, MergedIsMerged

\* A handler that leaves the run alone.
LEMMA HandlerStep ==
  ASSUME IInv, Inward, Fit(row'), UNCHANGED run,
         \/ UNCHANGED task
         \/ task' = Derived(row', run)
         \/ task' = None
  PROVE  Step
<1>1. row' \in RowType
  BY DEF Fit
<1>2. Working'
  BY <1>1, DerivedTypes DEF IInv, Working
<1> QED BY <1>2, InwardStep

LEMMA Parts ==
  ASSUME IInv
  PROVE  /\ row \in RowType /\ gh \in GitHubType
         /\ hand \in HandType \cup {None} /\ poll \in PollType \cup {None}
         /\ \A e \in hooks : e \in HookType
BY DEF IInv, Waiting

\* What a handler awaits.
LEMMA AwaitingTypes ==
  ASSUME IInv, NEW at \in {"checks", "context", "comments"}, NEW e,
         e.event \in Events, e.head \in Heads
  PROVE  /\ Awaiting(at, e) \in HandType
         /\ \A plan \in Goals \cup {None} : [Awaiting(at, e) EXCEPT !.plan = plan] \in HandType
<1>1. row.failed \in Heads \cup {0}
  BY Parts DEF RowType
<1> QED BY <1>1 DEF Awaiting, HandType

----------------------------------------------------------------------------
(***************************************************************************)
(* GitHub.                                                                 *)
(***************************************************************************)

LEMMA SentHooks ==
  ASSUME IInv, NEW event \in Events, NEW head \in Heads, Sent(event, head)
  PROVE  /\ hooks' \subseteq HookType
         /\ \A e \in hooks' : e \in hooks \/ e.event = event
BY Parts DEF Sent, Hook, HookType

\* The row and what is under way do not notice.
LEMMA OutwardStep ==
  ASSUME IInv, UNCHANGED <<row, task, run, hand, poll>>, gh' \in GitHubType,
         gh.state = "merged" => gh'.state = "merged",
         hooks' \subseteq HookType,
         \A e \in hooks' : e \in hooks \/ (e.event = "merged" => gh'.state = "merged")
  PROVE  Step
<1>1. Fit(row')
  BY SameFit
<1>2. Working' /\ Waiting'
  BY DEF IInv, Working, Waiting
<1> QED BY <1>1, <1>2 DEF IInv, Step, MergedIsMerged

LEMMA AdvanceStep ==
  ASSUME IInv, Advance, UNCHANGED <<row, task, run, hand, poll>>
  PROVE  Step
<1>1. gh.head + 1 \in Heads
  BY Parts, FactsAssumption DEF GitHubType, Heads, Advance
<1>2. gh' = [gh EXCEPT !.head = gh.head + 1] /\ gh.state = "open"
  BY DEF Advance
<1>3. gh' \in GitHubType /\ gh'.state = "open"
  BY <1>1, <1>2, Parts DEF GitHubType
<1>4. "synchronize" \in Events /\ Sent("synchronize", gh.head + 1)
  BY DEF Advance, Events
<1> QED BY <1>1, <1>2, <1>3, <1>4, SentHooks, OutwardStep

LEMMA GateStep ==
  ASSUME IInv, (\E head \in Heads : Conclude(head)) \/ Rerun
  PROVE  Step
<1>1. PICK head, verdict, event :
        /\ head \in Heads /\ verdict \in Checks /\ event \in {"passed", "failed", "pending"}
        /\ gh' = [gh EXCEPT !.gate[head] = verdict] /\ Sent(event, head)
  <2>1. CASE \E head \in Heads : Conclude(head)
    BY <2>1 DEF Conclude, Checks
  <2>2. CASE Rerun
    <3>1. gh.head \in Heads
      BY Parts DEF GitHubType
    <3> QED BY <2>2, <3>1 DEF Rerun, Checks
  <2> QED BY <2>1, <2>2
<1>2. gh' \in GitHubType /\ gh'.state = gh.state
  BY <1>1, Parts DEF GitHubType, Checks
<1>3. event \in Events /\ event # "merged"
  BY <1>1 DEF Events
<1>4. UNCHANGED <<row, task, run, hand, poll>>
  BY DEF Conclude, Rerun
<1> QED BY <1>1, <1>2, <1>3, <1>4, SentHooks, OutwardStep

LEMMA JudgeStep ==
  ASSUME IInv, Judge
  PROVE  Step
<1>1. PICK verdict \in {"approved", "changes"} :
        gh' = [gh EXCEPT !.review = verdict] /\ Sent(verdict, gh.head)
  BY DEF Judge
<1>2. gh' \in GitHubType /\ gh'.state = gh.state /\ gh.head \in Heads
  BY <1>1, Parts DEF GitHubType
<1>3. verdict \in Events /\ verdict # "merged"
  BY DEF Events
<1>4. UNCHANGED <<row, task, run, hand, poll>>
  BY DEF Judge
<1> QED BY <1>1, <1>2, <1>3, <1>4, SentHooks, OutwardStep

LEMMA EndStep ==
  ASSUME IInv, End
  PROVE  Step
<1>1. PICK state \in {"merged", "closed"} :
        gh' = [gh EXCEPT !.state = state] /\ Sent(state, gh.head)
  BY DEF End
<1>2. gh' \in GitHubType /\ gh'.state = state /\ gh.head \in Heads
  BY <1>1, Parts DEF GitHubType
<1>3. state \in Events
  BY DEF Events
<1>4. UNCHANGED <<row, task, run, hand, poll>> /\ gh.state = "open"
  BY DEF End
<1> QED BY <1>1, <1>2, <1>3, <1>4, SentHooks, OutwardStep

----------------------------------------------------------------------------
(***************************************************************************)
(* Webhooks.                                                               *)
(***************************************************************************)

LEMMA ArrivedHook ==
  ASSUME IInv, NEW e, Arrives(e)
  PROVE  /\ e \in hooks /\ hooks' \subseteq hooks
         /\ Fit(Observed(row, e)) /\ e.event \in Events /\ e.head \in Heads
         /\ (e.event = "merged" => gh.state = "merged")
BY ObservedFit DEF Arrives, IInv, MergedIsMerged

LEMMA PendingStep ==
  ASSUME IInv, HandlePending
  PROVE  Step
<1>1. PICK head \in Heads :
        LET e == Hook("pending", head)
            seen == Observed(row, e)
        IN  /\ Arrives(e)
            /\ row' = IF Tracked(e) THEN Snapshot(seen, head, "pending", FALSE) ELSE seen
  BY DEF HandlePending
<1> DEFINE e == Hook("pending", head)
           seen == Observed(row, e)
<1>2. Fit(seen) /\ hooks' \subseteq hooks
  BY <1>1, ArrivedHook
<1>3. row' = Snapshot(seen, head, "pending", FALSE) \/ row' = seen
  BY <1>1
<1> HIDE DEF seen, e
<1>4. Fit(row')
  BY <1>2, <1>3, SnapshotFit DEF Checks
<1>5. Inward /\ UNCHANGED run /\ task' = Derived(row', run)
  BY <1>2, Parts DEF HandlePending, Inward
<1> QED BY <1>4, <1>5, HandlerStep

LEMMA ConclusionStep ==
  ASSUME IInv, HandleConclusion
  PROVE  Step
<1>1. PICK e \in hooks : Arrives(e) /\ row' = Observed(row, e) /\ hand' = Awaiting("checks", e)
  BY DEF HandleConclusion
<1>2. Fit(row') /\ hooks' \subseteq hooks /\ e.event \in Events /\ e.head \in Heads
  BY <1>1, ArrivedHook
<1>3. hand' \in HandType
  BY <1>1, <1>2, AwaitingTypes
<1>4. Inward /\ UNCHANGED <<task, run>>
  BY <1>2, <1>3 DEF HandleConclusion, Inward
<1> QED BY <1>2, <1>4, HandlerStep

LEMMA ConcludedStep ==
  ASSUME IInv, NEW r, Fit(r), NEW e, e.event \in Events, e.head \in Heads, NEW failed,
         Concluded(r, e, failed), UNCHANGED <<gh, run, poll>>, hooks' \subseteq hooks
  PROVE  Step
<1>1. Awaiting("context", e) \in HandType
  BY AwaitingTypes
<1>2. Fit(row')
  BY ForgivenFit DEF Concluded
<1>3. hand' \in HandType \cup {None}
  BY <1>1 DEF Concluded
<1>4. UNCHANGED task \/ task' = Derived(row', run)
  BY DEF Concluded
<1> QED BY <1>2, <1>3, <1>4, HandlerStep DEF Inward

LEMMA UntrackedStep ==
  ASSUME IInv, HandleUntracked
  PROVE  Step
<1>1. PICK e \in hooks :
        /\ Arrives(e)
        /\ IF row.state = "open" \/ e.event = "passed"
           THEN Concluded(Observed(row, e), e, row.failed)
           ELSE /\ row' = Observed(row, e)
                /\ task' = Derived(Observed(row, e), run)
                /\ UNCHANGED hand
  BY DEF HandleUntracked
<1>2. /\ Fit(Observed(row, e)) /\ hooks' \subseteq hooks
      /\ e.event \in Events /\ e.head \in Heads
  BY <1>1, ArrivedHook
<1>3. UNCHANGED <<gh, run, poll>>
  BY DEF HandleUntracked
<1>4. CASE Concluded(Observed(row, e), e, row.failed)
  BY <1>2, <1>3, <1>4, ConcludedStep
<1>5. CASE /\ row' = Observed(row, e)
           /\ task' = Derived(Observed(row, e), run)
           /\ UNCHANGED hand
  BY <1>2, <1>3, <1>5, Parts, HandlerStep DEF Inward
<1> QED BY <1>1, <1>4, <1>5

LEMMA ListingStep ==
  ASSUME IInv, ListChecks \/ ListingFails
  PROVE  Step
<1>1. PICK check, red :
        /\ check \in Checks
        /\ Concluded(Snapshot(row, hand.head, check, red), hand, hand.failed)
  <2>1. CASE ListChecks
    <3>1. gh.gate[hand.head] \in Checks
      BY <2>1, Parts DEF ListChecks, HandType, GitHubType, Checks
    <3> DEFINE check == IF hand.event = "passed" /\ gh.gate[hand.head] = "pending"
                        THEN "success" ELSE gh.gate[hand.head]
               red == gh.gate[hand.head] = "failure"
    <3>2. check \in Checks
      BY <3>1 DEF Checks
    <3>3. Concluded(Snapshot(row, hand.head, check, red), hand, hand.failed)
      BY <2>1 DEF ListChecks
    <3> QED BY <3>2, <3>3
  <2>2. CASE ListingFails
    <3> DEFINE check == IF hand.event = "passed" THEN "success" ELSE "pending"
    <3>1. check \in Checks
      BY DEF Checks
    <3>2. Concluded(Snapshot(row, hand.head, check, FALSE), hand, hand.failed)
      BY <2>2 DEF ListingFails
    <3> QED BY <3>1, <3>2
  <2> QED BY <2>1, <2>2
<1>2. hand.event \in Events /\ hand.head \in Heads
  BY Parts DEF ListChecks, ListingFails, HandType
<1>3. Fit(Snapshot(row, hand.head, check, red))
  BY <1>1, <1>2, SameFit, SnapshotFit
<1>4. UNCHANGED <<gh, run, poll>> /\ hooks' \subseteq hooks
  BY DEF ListChecks, ListingFails
<1> QED BY <1>1, <1>2, <1>3, <1>4, ConcludedStep

LEMMA RecordStep ==
  ASSUME IInv, RecordFailure
  PROVE  Step
<1>1. hand.head \in Heads /\ row' = [row EXCEPT !.failed = hand.head, !.signed = TRUE]
  BY Parts DEF RecordFailure, HandType
<1>2. Fit(row')
  BY <1>1, SameFit DEF Fit, RowType
<1> QED BY <1>2, HandlerStep DEF RecordFailure, Inward

LEMMA PushStep ==
  ASSUME IInv, HandlePush
  PROVE  Step
<1>1. PICK head, e :
        /\ head \in Heads
        /\ e = Hook("synchronize", head) /\ Arrives(e)
        /\ LET seen == Snapshot(Observed(row, e), head, "pending", FALSE)
               kept == ForgivenIf(MayClear(row.failed, head, TRUE, FALSE), seen)
           IN  row' = IF run = None THEN [kept EXCEPT !.ci = 0] ELSE kept
  BY DEF HandlePush
<1> DEFINE seen == Snapshot(Observed(row, e), head, "pending", FALSE)
           kept == ForgivenIf(MayClear(row.failed, head, TRUE, FALSE), seen)
<1>2. Fit(Observed(row, e)) /\ hooks' \subseteq hooks
  BY <1>1, ArrivedHook
<1>3. Fit(seen)
  BY <1>1, <1>2, SnapshotFit DEF Checks
<1>4. row' = kept \/ row' = [kept EXCEPT !.ci = 0]
  BY <1>1
<1> HIDE DEF seen
<1>5. Fit(kept)
  BY <1>3, ForgivenFit
<1> HIDE DEF kept
<1>6. Fit([kept EXCEPT !.ci = 0])
  BY <1>5, FactsAssumption DEF Fit, RowType
<1>7. Fit(row')
  BY <1>4, <1>5, <1>6
<1>8. Inward /\ UNCHANGED run /\ task' = Derived(row', run)
  BY <1>2, Parts DEF HandlePush, Inward
<1> QED BY <1>7, <1>8, HandlerStep

LEMMA ApprovalStep ==
  ASSUME IInv, HandleApproval
  PROVE  Step
<1>1. PICK head \in Heads :
        Arrives(Hook("approved", head)) /\ row' = Observed(row, Hook("approved", head))
  BY DEF HandleApproval
<1>2. Fit(row') /\ hooks' \subseteq hooks
  BY <1>1, ArrivedHook
<1>3. run' \in {run, [run EXCEPT !.superseded = TRUE]} /\ (run = None => run' = None)
      /\ task' = Derived(row', run)
  BY DEF HandleApproval
<1>4. run' \in RunType \cup {None}
  BY <1>3 DEF IInv, Working, RunType
<1>5. Working'
  BY <1>2, <1>3, <1>4, DerivedTypes DEF Working, Fit
<1>6. Inward
  BY <1>2, Parts DEF HandleApproval, Inward
<1> QED BY <1>2, <1>3, <1>5, <1>6, InwardStep

LEMMA ChangesStep ==
  ASSUME IInv, HandleChanges
  PROVE  Step
<1>1. PICK head, e :
        /\ head \in Heads
        /\ e = Hook("changes", head) /\ Arrives(e)
        /\ row' = Observed(row, e)
        /\ hand' = [Awaiting("comments", e) EXCEPT !.plan = Derived(row', run)]
  BY DEF HandleChanges
<1>2. Fit(row') /\ hooks' \subseteq hooks /\ e.event \in Events /\ e.head \in Heads
  BY <1>1, ArrivedHook
<1>3. Derived(row', run) \in Goals \cup {None}
  BY <1>2, DerivedTypes DEF Fit
<1>4. hand' \in HandType
  BY <1>1, <1>2, <1>3, AwaitingTypes
<1>5. Inward /\ UNCHANGED <<task, run>>
  BY <1>2, <1>4 DEF HandleChanges, Inward
<1> QED BY <1>2, <1>5, HandlerStep

\* The plan was made before the comments were fetched: a run that was launched
\* meanwhile drops it.
LEMMA CommentsStep ==
  ASSUME IInv, ReadComments
  PROVE  Step
<1>1. hand.plan \in Goals \cup {None}
  BY Parts DEF ReadComments, HandType
<1>2. Working'
  BY <1>1 DEF IInv, Working, ReadComments
<1> QED BY <1>2, SameFit, InwardStep DEF ReadComments, Inward

LEMMA HandleEndStep ==
  ASSUME IInv, HandleEnd
  PROVE  Step
<1>1. PICK e \in hooks :
        /\ e.event \in {"merged", "closed"}
        /\ Arrives(e)
        /\ LET seen == Observed(row, e)
           IN  IF e.event = "merged"
               THEN /\ row' = [Forgiven(seen) EXCEPT !.snap = 0, !.json = 0,
                                                     !.outcome = "completed"]
                    /\ task' = None
               ELSE /\ row' = Disposed(Closed(seen))
                    /\ task' = Derived(Closed(seen), run)
  BY DEF HandleEnd
<1> DEFINE seen == Observed(row, e)
<1>2. Fit(seen) /\ hooks' \subseteq hooks /\ (e.event = "merged" => gh.state = "merged")
  BY <1>1, ArrivedHook
<1> DEFINE r == Forgiven(seen)
<1>3. Fit(r) /\ Fit(Closed(seen)) /\ Fit(Disposed(Closed(seen)))
  BY <1>2, ForgivenFit, ClosedFit
<1>4. CASE e.event = "merged"
  <2> DEFINE q == [r EXCEPT !.snap = 0, !.json = 0]
  <2>1. row' = [q EXCEPT !.outcome = "completed"] /\ task' = None
    BY <1>1, <1>4
  <2> HIDE DEF r
  <2>2. Fit(q)
    BY <1>3 DEF Fit, RowType
  <2> HIDE DEF q
  <2>4. Fit(row')
    BY <1>2, <1>4, <2>1, <2>2, CompletedFit
  <2>3. run' = None /\ Inward
    BY <1>2, Parts DEF HandleEnd, Inward
  <2> QED BY <2>1, <2>3, <2>4, InwardStep DEF Working
<1>5. CASE e.event # "merged"
  <2>1. row' = Disposed(Closed(seen)) /\ task' = Derived(Closed(seen), run)
    BY <1>1, <1>5
  <2>2. task' \in Goals \cup {None}
    BY <1>3, <2>1, DerivedTypes DEF Fit
  <2>3. run' = None /\ Inward
    BY <1>2, Parts DEF HandleEnd, Inward
  <2> QED BY <1>3, <2>1, <2>2, <2>3, InwardStep DEF Working
<1> QED BY <1>4, <1>5

----------------------------------------------------------------------------
(***************************************************************************)
(* Idle reconciliation.                                                    *)
(***************************************************************************)

LEMMA FinishMergedStep ==
  ASSUME IInv, FinishMerged
  PROVE  Step
<1> DEFINE r == Forgiven(row)
<1>1. Fit(r) /\ gh.state = "merged"
  BY SameFit, ForgivenFit DEF FinishMerged, Fit
<1>2. row' = [r EXCEPT !.outcome = "completed"]
  BY DEF FinishMerged
<1> HIDE DEF r
<1> QED BY <1>1, <1>2, CompletedFit, Parts, HandlerStep DEF FinishMerged, Inward

LEMMA RouteStep ==
  ASSUME IInv, Route
  PROVE  Step
<1> DEFINE failed == IF row.snap # 0 THEN row.snap ELSE row.head
<1>1. failed \in Heads \cup {0}
  BY Parts DEF RowType
<1>2. row' = row \/ row' = [row EXCEPT !.failed = failed]
  BY DEF Route
<1> HIDE DEF failed
<1>3. Fit(row')
  BY <1>1, <1>2, SameFit DEF Fit, RowType
<1>4. Inward /\ UNCHANGED run /\ (UNCHANGED task \/ task' = Derived(row', run))
  BY Parts DEF Route, Inward
<1> QED BY <1>3, <1>4, HandlerStep

LEMMA FetchStep ==
  ASSUME IInv, Fetch
  PROVE  Step
<1>1. poll' \in PollType /\ poll'.state = gh.state
  BY Parts DEF Fetch, PollType, RowType, GitHubType, States, Checks
<1>2. UNCHANGED <<gh, hooks, row, task, run, hand>>
  BY DEF Fetch
<1>3. Working' /\ Waiting'
  BY <1>1, <1>2 DEF IInv, Working, Waiting
<1>4. \A e \in hooks' : e.event = "merged" => gh'.state = "merged"
  BY <1>2 DEF IInv, MergedIsMerged
<1> QED BY <1>1, <1>2, <1>3, <1>4, SameFit DEF IInv, Step

LEMMA ApplyMergedStep ==
  ASSUME IInv, ApplyMerged
  PROVE  Step
<1> DEFINE r == [Polled(row) EXCEPT !.state = "merged"]
<1>1. gh.state = "merged" /\ Fit(Polled(row))
  BY PolledFit DEF ApplyMerged, IInv, MergedIsMerged
<1>2. Fit(r)
  BY <1>1 DEF Fit, RowType
<1>3. row' \in {r, [Forgiven(r) EXCEPT !.outcome = "completed"]}
  BY DEF ApplyMerged
<1> HIDE DEF r
<1>4. Fit(row')
  BY <1>1, <1>2, <1>3, ForgivenFit, CompletedFit
<1> QED BY <1>4, Parts, HandlerStep DEF ApplyMerged, Inward

LEMMA ApplyClosedStep ==
  ASSUME IInv, ApplyClosed
  PROVE  Step
<1> DEFINE r == Closed(Polled(row))
<1>1. Fit(r)
  BY PolledFit, ClosedFit DEF ApplyClosed
<1>2. \/ row' \in {r, Forgiven(r)} /\ UNCHANGED task
      \/ /\ r.outcome # "completed" /\ ~Held(r)
         /\ row' = Redelegated(Forgiven(r)) /\ task' = Derived(row', run)
  BY DEF ApplyClosed
<1> HIDE DEF r
<1>3. Fit(row')
  BY <1>1, <1>2, ForgivenFit, ClosedFit
<1>4. Inward /\ UNCHANGED run /\ (UNCHANGED task \/ task' = Derived(row', run))
  BY <1>2, Parts DEF ApplyClosed, Inward
<1> QED BY <1>3, <1>4, HandlerStep

LEMMA ApplyOpenStep ==
  ASSUME IInv, ApplyOpen
  PROVE  Step
<1> DEFINE r == Polled(row)
<1>1. Fit(r) /\ Fit(PolledClear(r))
  BY PolledFit DEF ApplyOpen
<1>2. \/ r.outcome = "escalated" /\ row' = [PolledClear(r) EXCEPT !.outcome = "none"]
      \/ row' \in {r, PolledClear(r), [r EXCEPT !.asked = TRUE]}
  <2>1. CASE Recovered(r)
    BY <2>1 DEF ApplyOpen, Recovered
  <2>2. CASE ~Recovered(r) /\ FixIntent(r) /\ r.outcome = "escalated"
    BY <2>2 DEF ApplyOpen
  <2>3. CASE ~Recovered(r) /\ FixIntent(r) /\ r.outcome # "escalated"
    BY <2>3 DEF ApplyOpen
  <2>4. CASE ~Recovered(r) /\ ~FixIntent(r)
    BY <2>4 DEF ApplyOpen
  <2> QED BY <2>1, <2>2, <2>3, <2>4
<1>3. UNCHANGED task \/ task' = Derived(row', run)
  <2>1. CASE Recovered(r)
    BY <2>1 DEF ApplyOpen
  <2>2. CASE ~Recovered(r) /\ FixIntent(r) /\ r.outcome = "escalated"
    BY <2>2 DEF ApplyOpen
  <2>3. CASE ~Recovered(r) /\ FixIntent(r) /\ r.outcome # "escalated"
    BY <2>3 DEF ApplyOpen
  <2>4. CASE ~Recovered(r) /\ ~FixIntent(r)
    BY <2>4 DEF ApplyOpen
  <2> QED BY <2>1, <2>2, <2>3, <2>4
<1>4. r.outcome = "escalated" => Fit([PolledClear(r) EXCEPT !.outcome = "none"])
  BY <1>1 DEF Fit, RowType
<1>5. Fit([r EXCEPT !.asked = TRUE])
  BY <1>1 DEF Fit, RowType
<1> HIDE DEF r
<1>6. Fit(row')
  BY <1>1, <1>2, <1>4, <1>5
<1> QED BY <1>3, <1>6, Parts, HandlerStep DEF ApplyOpen, Inward

LEMMA SweepStep ==
  ASSUME IInv, Sweep
  PROVE  Step
BY SameFit, Parts, HandlerStep DEF Sweep, Inward

----------------------------------------------------------------------------
(***************************************************************************)
(* Runs.                                                                   *)
(***************************************************************************)

\* GitHub was asked: the row says what it says.
LEMMA SeenFit ==
  ASSUME IInv
  PROVE  Fit([row EXCEPT !.head = gh.head, !.state = gh.state, !.review = RemoteReview])
<1>1. gh.head \in Heads /\ gh.state \in States
      /\ RemoteReview \in {"none", "commented", "approved", "changes"}
  BY Parts DEF GitHubType, States, RemoteReview
<1> DEFINE s == Facts(row, gh.head, gh.state, RemoteReview)
<1>2. s \in RowType /\ s.outcome = row.outcome /\ s.state = gh.state
  BY <1>1, FactFields, Parts
<1>3. Fit(s)
  BY <1>2, SameFit DEF Fit
<1> QED BY <1>3 DEF Facts

LEMMA RefreshedFit ==
  ASSUME IInv
  PROVE  Fit(Refreshed)
BY SeenFit, SameFit DEF Refreshed

LEMMA CurrentTypes ==
  ASSUME IInv, NEW r \in RowType
  PROVE  Current(r) \in Goals \cup {None}
BY DerivedTypes, Parts DEF Current

LEMMA SkipStep ==
  ASSUME IInv, Skip
  PROVE  Step
<1>1. row' = Refreshed /\ Fit(row')
  BY RefreshedFit DEF Skip
<1>2. task' = task \/ task' = Current(Refreshed)
  BY DEF Skip
<1>3. task' \in Goals \cup {None}
  BY <1>1, <1>2, CurrentTypes DEF Fit, IInv, Working
<1>4. Working'
  BY <1>3 DEF Skip, Launchable, Working, IInv
<1> QED BY <1>1, <1>4, Parts, InwardStep DEF Skip, Inward

LEMMA EscalateStep ==
  ASSUME IInv, Escalate
  PROVE  Step
<1> DEFINE r == Refreshed
<1>1. row' = [r EXCEPT !.outcome = "escalated", !.asked = FALSE] /\ row.outcome = "none"
  BY DEF Escalate, Launchable
<1>2. Fit(r)
  BY RefreshedFit
<1> HIDE DEF r
<1>3. Fit(row')
  BY <1>1, <1>2 DEF Fit, RowType
<1>4. task' \in Goals \cup {None}
  BY Parts, DerivedTypes DEF Escalate
<1>5. Working'
  BY <1>4 DEF Escalate, Launchable, Working
<1> QED BY <1>3, <1>5, Parts, InwardStep DEF Escalate, Inward

\* The budget is checked before an attempt is counted.
LEMMA LaunchStep ==
  ASSUME IInv, Launch
  PROVE  Step
<1> DEFINE r == Refreshed
           ci == task.kind = "ci_repair"
           src == IF ci THEN task.head ELSE r.head
           green == ci /\ gh.gate[src] = "success"
           q == [r EXCEPT !.asked = FALSE]
           n == IF ci THEN r.ci + 1 ELSE r.ci
           m == IF ci THEN r.fixes ELSE r.fixes + 1
           tried == IF task.signed THEN task.head ELSE r.tried
<1>1. task \in Goals /\ task.kind \in {"review_fix", "ci_repair"} /\ row.outcome = "none"
  BY DEF Launch, Launchable, IInv, Working, Goals, TaskType
<1>2. Fit(r) /\ r.ci = row.ci /\ r.fixes = row.fixes
  BY RefreshedFit, Parts DEF Refreshed, RowType
<1>3. row.ci \in 0..CiBudget /\ row.fixes \in 0..ReviewBudget
  BY Parts DEF RowType
<1>4. IF ci THEN row.ci < CiBudget ELSE row.fixes < ReviewBudget
  BY <1>3, FactsAssumption DEF Launch, Spent, Attempts, Budget
<1>5. n \in 0..CiBudget /\ m \in 0..ReviewBudget
  BY <1>2, <1>3, <1>4, FactsAssumption
<1>6. src \in Heads /\ tried \in Heads \cup {0}
  BY <1>1, <1>2 DEF Goals, TaskType, Fit, RowType
<1>7. row' = [[q EXCEPT !.ci = n, !.fixes = m] EXCEPT !.tried = tried]
  BY DEF Launch
<1>8. run' = [kind |-> task.kind, src |-> src, superseded |-> FALSE, green |-> green]
  BY DEF Launch
<1>9. green \in BOOLEAN
  OBVIOUS
<1> HIDE DEF src, green, n, m, tried, r
<1>10. run' \in RunType
  BY <1>1, <1>6, <1>8, <1>9 DEF RunType
<1>11. Fit(q)
  BY <1>2 DEF Fit, RowType
<1> HIDE DEF q
<1> DEFINE p == [q EXCEPT !.ci = n, !.fixes = m]
<1>12. Fit(p)
  BY <1>5, <1>11 DEF Fit, RowType
<1> HIDE DEF p
<1>13. Fit(row')
  BY <1>6, <1>7, <1>12 DEF Fit, RowType, p
<1>14. Working'
  BY <1>10 DEF Launch, Working
<1> QED BY <1>1, <1>13, <1>14, Parts, InwardStep DEF Launch, Inward

LEMMA CompleteMergedStep ==
  ASSUME IInv, CompleteMerged
  PROVE  Step
<1>1. gh.state = "merged" /\ Fit(row)
  BY SameFit DEF CompleteMerged, Fit
<1>2. row' = [row EXCEPT !.outcome = "completed", !.asked = FALSE]
  BY DEF CompleteMerged
<1> QED BY <1>1, <1>2, CompletedFit, Parts, HandlerStep DEF CompleteMerged, Inward

\* A run that ends after the merge leaves the issue completed: what it reads of
\* the pull request is that it is merged.
LEMMA FinishStep ==
  ASSUME IInv, Finish
  PROVE  Step
<1>1. Fit(Published) /\ (gh.state = "merged" => Published.state = "merged")
  <2> DEFINE seen == [row EXCEPT !.head = gh.head, !.state = gh.state, !.review = RemoteReview]
             green == FreshGreen /\ gh.head = row.failed
             check == IF green THEN "success" ELSE "pending"
  <2>1. Published \in {seen, Snapshot(Forgiven(seen), gh.head, check, FALSE)}
    BY DEF Published
  <2>2. Fit(seen) /\ seen.state = gh.state /\ check \in Checks /\ gh.head \in Heads
    BY SeenFit, Parts DEF RowType, Checks, GitHubType
  <2> HIDE DEF seen, check
  <2>3. Fit(Forgiven(seen)) /\ Forgiven(seen).state = gh.state
    BY <2>2, ForgivenFit DEF Forgiven, Fit, RowType
  <2>4. Fit(Snapshot(Forgiven(seen), gh.head, check, FALSE))
    BY <2>2, <2>3, SnapshotFit
  <2>5. Snapshot(Forgiven(seen), gh.head, check, FALSE).state = gh.state
    BY <2>3 DEF Snapshot, Fit, RowType
  <2> QED BY <2>1, <2>2, <2>4, <2>5
<1>2. Fit(Settled(Published))
  <2> DEFINE r == Published
             q == ForgivenIf(r.review = "approved" \/ r.state = "merged", r)
             outcome == IF r.state = "merged" THEN "completed" ELSE "none"
  <2>1. Fit(q)
    BY <1>1, ForgivenFit
  <2>2. /\ outcome \in Outcomes
        /\ outcome = "completed" => gh.state = "merged"
        /\ row.outcome = "completed" => outcome = "completed"
    BY <1>1, SameFit DEF Fit, Outcomes
  <2>3. Settled(r) = [q EXCEPT !.outcome = outcome, !.asked = FALSE]
    BY DEF Settled
  <2> HIDE DEF q, outcome
  <2> DEFINE t == [q EXCEPT !.outcome = outcome]
  <2>4. Fit(t)
    BY <2>1, <2>2 DEF Fit, RowType, Outcomes
  <2>5. Settled(r) = [t EXCEPT !.asked = FALSE]
    BY <2>3
  <2> HIDE DEF t
  <2> QED BY <2>4, <2>5 DEF Fit, RowType
<1>3. gh.state = "open" => row.outcome # "completed"
  BY SameFit DEF Fit
<1>4. Fit(row')
  <2>1. CASE run.superseded
    BY <2>1, SameFit DEF Finish
  <2>2. CASE ~run.superseded /\ NotAdvanced
    <3>1. gh.state = "open" /\ ~SameHeadAgain
      BY <2>2 DEF NotAdvanced, SameHeadAgain
    <3>2. row' = [row EXCEPT !.tried = 0, !.outcome = "none", !.asked = FALSE]
      BY <2>2, <3>1 DEF Finish
    <3> DEFINE q == [row EXCEPT !.tried = 0]
    <3>3. Fit(q)
      BY SameFit DEF Fit, RowType
    <3> HIDE DEF q
    <3>4. row' = [q EXCEPT !.outcome = "none", !.asked = FALSE]
      BY <3>2 DEF q
    <3> QED BY <1>3, <3>1, <3>3, <3>4 DEF Fit, RowType
  <2>3. CASE ~run.superseded /\ SameHeadAgain
    <3>1. gh.state = "open" /\ ~NotAdvanced
      BY <2>3 DEF NotAdvanced, SameHeadAgain
    <3>2. row' = [row EXCEPT !.outcome = "escalated"]
      BY <2>3, <3>1 DEF Finish
    <3> QED BY <1>3, <3>1, <3>2, SameFit DEF Fit, RowType
  <2>4. CASE ~run.superseded /\ ~NotAdvanced /\ ~SameHeadAgain
    BY <1>2, <2>4 DEF Finish
  <2> QED BY <2>1, <2>2, <2>3, <2>4
<1>5. Working'
  BY DEF IInv, Working, Finish
<1> QED BY <1>4, <1>5, Parts, InwardStep DEF Finish, Inward

----------------------------------------------------------------------------
LEMMA Initially == Init => IInv
<1> SUFFICES ASSUME Init PROVE IInv
  OBVIOUS
<1>1. gh \in GitHubType
  BY HeadFacts DEF Init, GitHubType
<1>2. row \in RowType /\ row.state = "open" /\ row.outcome = "none"
  BY HeadFacts, FactsAssumption DEF Init, FreshRow, RowType
<1>3. Waiting /\ Working /\ MergedIsMerged
  BY <1>2 DEF Init, Waiting, Working, MergedIsMerged
<1> QED BY <1>1, <1>2, <1>3 DEF IInv

LEMMA NextStep == IInv /\ Next => Step
<1> SUFFICES ASSUME IInv, Next PROVE Step
  OBVIOUS
<1>1. CASE GitHub
  BY <1>1, AdvanceStep, GateStep, JudgeStep, EndStep DEF GitHub, Push
<1>2. CASE Webhooks
  BY <1>2, PendingStep, ConclusionStep, UntrackedStep, PushStep, ApprovalStep, ChangesStep,
     HandleEndStep DEF Webhooks
<1>3. CASE Answers
  BY <1>3, ListingStep, RecordStep, CommentsStep DEF Answers
<1>4. CASE Reconciliation
  BY <1>4, FinishMergedStep, RouteStep, FetchStep, ApplyMergedStep, ApplyClosedStep,
     ApplyOpenStep, SweepStep DEF Reconciliation, Applies
<1>5. CASE Runs
  BY <1>5, CompleteMergedStep, SkipStep, EscalateStep, LaunchStep, AdvanceStep, FinishStep
     DEF Runs, RunPush
<1> QED BY <1>1, <1>2, <1>3, <1>4, <1>5 DEF Next

LEMMA StutterStep == IInv /\ UNCHANGED vars => Step
<1> SUFFICES ASSUME IInv, UNCHANGED vars PROVE Step
  OBVIOUS
<1> QED BY SameFit, Parts, HandlerStep DEF vars, Inward

LEMMA Invariant == Spec => []IInv
<1>1. IInv /\ [Next]_vars => IInv'
  BY NextStep, StutterStep, StepSafe
<1> QED BY <1>1, Initially, PTL DEF Spec

\* The facts keep their types, the repair budgets hold whatever gives attempts
\* back (run-launcher.ts, run-budgets.ts), and no task is open beside a run.
THEOREM TypeCorrect == Spec => []TypeOK
<1>1. IInv => TypeOK
  BY DEF IInv, Working, Goals, TypeOK
<1> QED BY <1>1, Invariant, PTL

\* Completion is final: late deliveries, stale polls and runs that end after the
\* merge do not reopen the issue or start a run for it.
THEOREM CompletionIsFinal == Spec => CompletedStaysCompleted
<1>1. IInv /\ [Next]_vars =>
        [ row.outcome = "completed" =>
            row'.outcome = "completed" /\ (run' # None => run # None) ]_vars
  BY NextStep, StutterStep, StepSafe
<1> QED BY <1>1, Invariant, PTL DEF Spec, CompletedStaysCompleted
=============================================================================
