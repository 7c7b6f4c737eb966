--------------------------- MODULE ReviewAttempts ---------------------------
(***************************************************************************)
(* Review Quill: the reviews of one pull request.                          *)
(*                                                                         *)
(* Discovery passes, any number at a time, list the pull request, retire   *)
(* the attempts that the world has moved past, carry an approval forward   *)
(* to an equal change, dismiss reviews of old inputs and dispatch a worker *)
(* for the input, head and base, that needs a review.  Workers run under a *)
(* semaphore and publish what Codex says.  There is one attempt row for a  *)
(* head, whatever base it was reviewed against, so that the workers of two *)
(* bases write the same row.                                               *)
(***************************************************************************)
EXTENDS Naturals, FiniteSets

CONSTANTS
  Heads,       \* heads of the pull request
  Bases,       \* heads of its base branch
  Passes,      \* bound: discovery passes that run at the same time
  SamePatch,   \* TRUE: all heads have the same patch id
  MaxReviews,  \* maxConcurrentReviews
  MaxDeeds     \* bound: pushes, base moves, closes, failures, crashes, stalls

ASSUME ReviewAssumption ==
  /\ IsFiniteSet(Heads) /\ IsFiniteSet(Bases)
  /\ SamePatch \in BOOLEAN
  /\ MaxReviews \in Nat \ {0}
  /\ MaxDeeds \in Nat

Verdicts == {"approved", "declined"}
Inputs == Heads \X Bases

VARIABLES
  pr,      \* GitHub: the pull request: head, base, open
  review,  \* GitHub: our latest review of each head
  row,     \* review_attempts: "ended" is failed, cancelled or superseded
  pass,    \* discoverRepo: its await and what it has read before
  worker,  \* inFlightReviews and inFlightReviewSignals, with executeReview's await
  paused,  \* codexCapacityPause
  deeds

github == <<pr, review>>
vars == <<github, row, pass, worker, paused, deeds>>

Absent(b) == [is |-> "absent", base |-> b]
NoWorker == [pc |-> "none", existing |-> "absent", aborted |-> FALSE, verdict |-> "approved"]
NoPass(p) == [pc |-> "idle", pr |-> p, existing |-> Absent(p.base), seen |-> {}, needs |-> FALSE]

Executing == {"preflight", "reviewing", "publishing", "recording"}
Working(w) == worker[w].pc \in Executing
Decisive(h) == review[h] \in Verdicts
Disturb == deeds < MaxDeeds /\ deeds' = deeds + 1

\* classifyPublicationDisposition: publish.
Publishable(p) == pr.open /\ pr.head = p[1] /\ pr.base = p[2]
InputOf(p) == <<p.head, p.base>>

\* A review that is submitted is not among those a pass has listed before.
Unseen(h) == [d \in Passes |-> [pass[d] EXCEPT !.seen = @ \ {h}]]

----------------------------------------------------------------------------
(***************************************************************************)
(* Discovery.                                                              *)
(***************************************************************************)

ListPullRequests(d) ==
  /\ pass[d].pc = "idle"
  /\ pass' = [pass EXCEPT ![d] = [NoPass(pr) EXCEPT !.pc = "listed"]]
  /\ UNCHANGED <<github, row, worker, paused, deeds>>

\* describeAttemptState: nobody writes the heartbeat of the attempt any more.
Stale(h) == \A b \in Bases : ~Working(<<h, b>>)

\* Mutant of Retired: attempts at older heads are left to their workers.
RetiredIfStale(h, head) == row[h].is = "active" /\ h = head /\ Stale(h)

\* reconcileActiveAttemptsForPullRequest.
Retired(h, head) == row[h].is = "active" /\ (h = head => Stale(h))

Ended(S) == [h \in Heads |-> IF h \in S THEN [row[h] EXCEPT !.is = "ended"] ELSE row[h]]

\* supersedeInFlightReviewsForPullRequest: whoever works on another input.
Aborted(input) ==
  [w \in Inputs |-> IF w = input THEN worker[w]
                    ELSE [worker[w] EXCEPT !.aborted = worker[w].pc # "none"]]

\* Attempts at older heads are superseded, stale ones fail; workers of another
\* input are told to stop.
RetireAttempts(d) ==
  /\ pass[d].pc = "listed"
  /\ pass[d].pr.open
  /\ row' = Ended({h \in Heads : Retired(h, pass[d].pr.head)})
  /\ worker' = Aborted(InputOf(pass[d].pr))
  /\ pass' = [pass EXCEPT ![d].pc = "visited"]
  /\ UNCHANGED <<github, paused, deeds>>

\* A heartbeat came too late: the attempt fails although its worker lives.
Stall(h) ==
  /\ row[h].is = "active"
  /\ \E d \in Passes : pass[d].pc = "listed" /\ pass[d].pr.open
  /\ row' = Ended({h})
  /\ Disturb
  /\ UNCHANGED <<github, pass, worker, paused>>

\* reconcileClosedPullRequestAttempts: the pull request was not listed as open.
RetireClosed(d) ==
  /\ pass[d].pc = "listed"
  /\ ~pass[d].pr.open
  /\ row' = IF pr.open THEN row ELSE Ended({h \in Heads : row[h].is = "active"})
  /\ pass' = [pass EXCEPT ![d] = NoPass(pr)]
  /\ UNCHANGED <<github, worker, paused, deeds>>

\* The reviews are listed, and the attempt at the head is read.
ListReviews(d) ==
  /\ pass[d].pc = "visited"
  /\ pass' = [pass EXCEPT ![d].pc = "read", ![d].seen = {h \in Heads : Decisive(h)},
                          ![d].existing = row[pass[d].pr.head]]
  /\ UNCHANGED <<github, row, worker, paused, deeds>>

\* Mutant of Settled: an attempt counts whatever base it was made against.
SettledOnAnyBase(p) == p.existing.is \in {"active"} \cup Verdicts

\* The exact input was reviewed or is in flight, or the head is approved, which
\* a base that moves does not reopen.
Settled(p) ==
  \/ p.existing.is = "approved"
  \/ p.existing.is \in {"active", "declined"} /\ p.existing.base = p.pr.base

\* The checks are listed.  A head that is not green waits for a later pass.
Judge(d) ==
  /\ pass[d].pc = "read"
  /\ \/ /\ Settled(pass[d])
        /\ pass' = [pass EXCEPT ![d].pc = "dismissing"]
        /\ UNCHANGED deeds
     \/ /\ ~Settled(pass[d])
        /\ pass' = [pass EXCEPT ![d].pc = "carrying"]
        /\ UNCHANGED deeds
     \/ /\ ~Settled(pass[d])
        /\ pass' = [pass EXCEPT ![d].pc = "dismissing"]
        /\ Disturb
  /\ UNCHANGED <<github, row, worker, paused>>

\* findApprovedAttemptByPatchId: an approval of the same change on this base.
Candidates(p) ==
  {h \in Heads : row[h].is = "approved" /\ row[h].base = p.base /\ (h = p.head \/ SamePatch)}

\* tryCarryForward.  Without a candidate, or without an identity or an equal
\* prompt, a review is needed; with one, the input is read again.
LookForCandidate(d) ==
  /\ pass[d].pc = "carrying"
  /\ \/ /\ pass' = [pass EXCEPT ![d].pc = "dismissing", ![d].needs = TRUE]
        /\ IF Candidates(pass[d].pr) = {} THEN UNCHANGED deeds ELSE Disturb
     \/ /\ Candidates(pass[d].pr) # {}
        /\ pass' = IF Publishable(InputOf(pass[d].pr))
                     THEN [pass EXCEPT ![d].pc = IF pass[d].pr.head \in Candidates(pass[d].pr)
                                                   THEN "keeping" ELSE "emitting"]
                     ELSE [pass EXCEPT ![d].pc = "dismissing", ![d].pr = pr]
        /\ UNCHANGED deeds
  /\ UNCHANGED <<github, row, worker, paused>>

\* republishCarryForward: the verdict is submitted for the new head.
Republish(d) ==
  /\ pass[d].pc = "emitting"
  /\ LET h == pass[d].pr.head IN
     /\ review' = [review EXCEPT ![h] = "approved"]
     /\ pass' = [Unseen(h) EXCEPT ![d].pc = "carried"]
  /\ UNCHANGED <<pr, row, worker, paused, deeds>>

\* And recorded: in a new row, which fails the pass if the head has one.
RecordCarried(d) ==
  /\ pass[d].pc \in {"carried", "keeping"}
  /\ LET p == pass[d].pr IN
     IF pass[d].pc = "carried" /\ row[p.head].is # "absent"
       THEN /\ pass' = [pass EXCEPT ![d] = NoPass(pr)]
            /\ UNCHANGED row
       ELSE /\ pass' = [pass EXCEPT ![d].pc = "dismissing"]
            /\ row' = [row EXCEPT ![p.head] = [is |-> "approved", base |-> p.base]]
  /\ UNCHANGED <<github, worker, paused, deeds>>

\* Mutant of Outdated: approvals are kept, as if they were frozen at any head.
OutdatedUnlessApproved(p, h) == h # p.head /\ review[h] # "approved"

\* findStaleDecisiveReviews: of another head, or, unless it was approved, of the
\* same head on another base.
Outdated(p, h) ==
  \/ h # p.head
  \/ row[p.head].is \notin {"absent", "approved"} /\ row[p.head].base # p.base

\* dispatchReview: one worker for each input; workers of others are superseded.
Dispatched(p, existing) ==
  LET w == InputOf(p) IN
  IF worker[w].pc # "none" THEN worker
  ELSE [Aborted(w) EXCEPT ![w] = [NoWorker EXCEPT !.pc = "waiting", !.existing = existing.is]]

\* Outdated reviews among those listed are dismissed, then a worker is dispatched
\* for the input as it was listed, with the attempt as it was read.
DismissAndDispatch(d) ==
  /\ pass[d].pc = "dismissing"
  /\ LET p == pass[d].pr IN
     /\ review' = [h \in Heads |-> IF h \in pass[d].seen /\ Outdated(p, h) THEN "dismissed"
                                                                         ELSE review[h]]
     /\ worker' = IF pass[d].needs /\ ~paused THEN Dispatched(p, pass[d].existing) ELSE worker
  /\ pass' = [pass EXCEPT ![d] = NoPass(pr)]
  /\ UNCHANGED <<pr, row, paused, deeds>>

\* GitHub refuses: the review stands, and on a changed base nothing is dispatched.
DismissFails(d) ==
  /\ pass[d].pc = "dismissing"
  /\ \E h \in pass[d].seen : Outdated(pass[d].pr, h)
  /\ LET p == pass[d].pr IN
     worker' = IF pass[d].needs /\ ~paused /\ ~Outdated(p, p.head)
                 THEN Dispatched(p, pass[d].existing) ELSE worker
  /\ pass' = [pass EXCEPT ![d] = NoPass(pr)]
  /\ Disturb
  /\ UNCHANGED <<github, row, paused>>

----------------------------------------------------------------------------
(***************************************************************************)
(* Workers.                                                                *)
(***************************************************************************)

Goes(w, pc) == worker' = [worker EXCEPT ![w].pc = pc]
Quit(w) == worker' = [worker EXCEPT ![w] = NoWorker]

\* updateAttempt: whatever has become of the row meanwhile.
Writes(w, is) == row' = [row EXCEPT ![w[1]].is = is]

\* Mutant of SlotFree: the slots of older workers are taken for free.
SlotIfNotAborted == Cardinality({v \in Inputs : Working(v) /\ ~worker[v].aborted}) < MaxReviews

\* ReviewSemaphore.acquire.
SlotFree == Cardinality({v \in Inputs : Working(v)}) < MaxReviews

\* The head did not stay as it was, or the worker was superseded or Codex is out
\* of capacity before the attempt was created.
SkipReview(w) ==
  /\ worker[w].pc = "waiting"
  /\ worker[w].aborted \/ paused \/ ~Publishable(w)
  /\ Quit(w)
  /\ UNCHANGED <<github, row, pass, paused, deeds>>

\* Mutant of Opened: an attempt is reopened, but none is created.
ReopenedOnly(w) ==
  IF row[w[1]].is = "absent" THEN row ELSE [row EXCEPT ![w[1]] = [is |-> "active", base |-> w[2]]]

Opened(w) == [row EXCEPT ![w[1]] = [is |-> "active", base |-> w[2]]]

\* executeReview: the attempt that was read is reopened.  A worker that read none
\* creates it, and fails if there is one by now.
BeginAttempt(w) ==
  /\ worker[w].pc = "waiting"
  /\ ~worker[w].aborted
  /\ ~paused
  /\ SlotFree
  /\ IF worker[w].existing = "absent" /\ row[w[1]].is # "absent"
       THEN Quit(w) /\ UNCHANGED row
       ELSE /\ Goes(w, "preflight")
            /\ row' = Opened(w)
  /\ UNCHANGED <<github, pass, paused, deeds>>

\* The pull request is read again before Codex runs.
Preflight(w) ==
  /\ worker[w].pc = "preflight"
  /\ IF worker[w].aborted \/ ~Publishable(w)
       THEN Writes(w, "ended") /\ Quit(w)
       ELSE /\ row' = [row EXCEPT ![w[1]].base = w[2]]
            /\ Goes(w, "reviewing")
  /\ UNCHANGED <<github, pass, paused, deeds>>

\* Codex has a verdict; the pull request is read once more.
Review(w, verdict) ==
  /\ worker[w].pc = "reviewing"
  /\ ~worker[w].aborted
  /\ IF Publishable(w)
       THEN /\ worker' = [worker EXCEPT ![w].pc = "publishing", ![w].verdict = verdict]
            /\ UNCHANGED row
       ELSE Writes(w, "ended") /\ Quit(w)
  /\ UNCHANGED <<github, pass, paused, deeds>>

\* The worker was superseded while Codex ran.
Interrupt(w) ==
  /\ worker[w].pc = "reviewing"
  /\ worker[w].aborted
  /\ Writes(w, "ended")
  /\ Quit(w)
  /\ UNCHANGED <<github, pass, paused, deeds>>

\* The review or its publication fails, its prompt has changed, or Codex is out
\* of capacity.
FailReview(w) ==
  /\ Working(w)
  /\ worker[w].pc # "recording"
  /\ Disturb
  /\ Writes(w, "ended")
  /\ Quit(w)
  /\ paused' \in (IF worker[w].pc = "reviewing" THEN {paused, TRUE} ELSE {paused})
  /\ UNCHANGED <<github, pass>>

\* Mutant of Submitted: the review is recorded but never posted.
NothingSubmitted(w) == review

\* submitReview, unless our latest review of the head says the same.
Submitted(w) == [review EXCEPT ![w[1]] = worker[w].verdict]

Publish(w) ==
  /\ worker[w].pc = "publishing"
  /\ review' = Submitted(w)
  /\ pass' = IF review[w[1]] = worker[w].verdict THEN pass ELSE Unseen(w[1])
  /\ Goes(w, "recording")
  /\ UNCHANGED <<pr, row, paused, deeds>>

Record(w) ==
  /\ worker[w].pc = "recording"
  /\ Writes(w, worker[w].verdict)
  /\ Quit(w)
  /\ UNCHANGED <<github, pass, paused, deeds>>

----------------------------------------------------------------------------
(***************************************************************************)
(* The author, the base branch, Codex and the host.                        *)
(***************************************************************************)

Push(h) ==
  /\ h # pr.head
  /\ pr' = [pr EXCEPT !.head = h]
  /\ Disturb
  /\ UNCHANGED <<review, row, pass, worker, paused>>

MoveBase(b) ==
  /\ b # pr.base
  /\ pr' = [pr EXCEPT !.base = b]
  /\ Disturb
  /\ UNCHANGED <<review, row, pass, worker, paused>>

\* Closed or made a draft, or opened again.
CloseOrOpen ==
  /\ pr' = [pr EXCEPT !.open = ~@]
  /\ Disturb
  /\ UNCHANGED <<review, row, pass, worker, paused>>

Resume ==
  /\ paused
  /\ paused' = FALSE
  /\ UNCHANGED <<github, row, pass, worker, deeds>>

Crash ==
  /\ Disturb
  /\ pass' = [d \in Passes |-> NoPass(pr)]
  /\ worker' = [w \in Inputs |-> NoWorker]
  /\ paused' = FALSE
  /\ UNCHANGED <<github, row>>

----------------------------------------------------------------------------
Init ==
  /\ pr \in [head : Heads, base : Bases, open : {TRUE}]
  /\ review = [h \in Heads |-> "none"]
  /\ row = [h \in Heads |-> Absent(pr.base)]
  /\ pass = [d \in Passes |-> NoPass(pr)]
  /\ worker = [w \in Inputs |-> NoWorker]
  /\ paused = FALSE
  /\ deeds = 0

Discover(d) ==
  \/ ListPullRequests(d) \/ RetireAttempts(d) \/ RetireClosed(d) \/ ListReviews(d)
  \/ Judge(d) \/ LookForCandidate(d) \/ Republish(d) \/ RecordCarried(d)
  \/ DismissAndDispatch(d) \/ DismissFails(d)

Execute(w) ==
  \/ Preflight(w) \/ (\E v \in Verdicts : Review(w, v)) \/ Interrupt(w) \/ FailReview(w)
  \/ Publish(w) \/ Record(w)

Next ==
  \/ \E d \in Passes : Discover(d)
  \/ \E w \in Inputs : SkipReview(w) \/ BeginAttempt(w) \/ Execute(w)
  \/ \E h \in Heads : Push(h) \/ Stall(h)
  \/ \E b \in Bases : MoveBase(b)
  \/ CloseOrOpen \/ Resume \/ Crash

Spec == Init /\ [][Next]_vars

\* The timer keeps starting passes, what is awaited answers, and a worker that
\* waits for a slot gets one.
Fairness ==
  /\ \A d \in Passes : WF_vars(Discover(d))
  /\ \A w \in Inputs : SF_vars(SkipReview(w) \/ BeginAttempt(w)) /\ WF_vars(Execute(w))
  /\ WF_vars(Resume)

FairSpec == Spec /\ Fairness

----------------------------------------------------------------------------
(***************************************************************************)
(* Properties.                                                             *)
(***************************************************************************)

\* Every row, await and review has a value of its type, and a worker that is
\* past its start has an attempt to write to.
TypeOK ==
  /\ pr \in [head : Heads, base : Bases, open : BOOLEAN]
  /\ review \in [Heads -> {"none", "dismissed"} \cup Verdicts]
  /\ row \in [Heads -> [is : {"absent", "active", "ended"} \cup Verdicts, base : Bases]]
  /\ pass \in [Passes -> [pc : {"idle", "listed", "visited", "read", "carrying", "keeping",
                                "emitting", "carried", "dismissing"},
                          pr : [head : Heads, base : Bases, open : BOOLEAN],
                          existing : [is : {"absent", "active", "ended"} \cup Verdicts,
                                      base : Bases],
                          seen : SUBSET Heads, needs : BOOLEAN]]
  /\ worker \in [Inputs -> [pc : {"none", "waiting"} \cup Executing,
                            existing : {"absent", "active", "ended"} \cup Verdicts,
                            aborted : BOOLEAN, verdict : Verdicts]]
  /\ paused \in BOOLEAN
  /\ deeds \in 0..MaxDeeds
  /\ \A w \in Inputs : Working(w) => row[w[1]].is # "absent"

\* No more reviews at a time than configured, whoever was superseded meanwhile.
ReviewLimit == Cardinality({w \in Inputs : Working(w)}) <= MaxReviews

\* An attempt counts as completed only after a review of its head was posted.
CompletedIsPosted == \A h \in Heads : row[h].is \in Verdicts => review[h] # "none"

\* An attempt that is under way ends, whatever became of its worker, its head, or
\* the process.
AttemptsEnd == \A h \in Heads : row[h].is = "active" ~> row[h].is # "active"

\* A carried approval meets an attempt at the same head: the row cannot be
\* inserted, and every pass fails on it after it has posted the review again.
Clash == row[pr.head].is # "absent" /\ Candidates(pr) \ {pr.head} # {}

\* The head of an open pull request is reviewed on its base sooner or later.
HeadIsReviewed ==
  pr.open ~> \/ ~pr.open
             \/ row[pr.head].is = "approved"
             \/ row[pr.head] = [is |-> "declined", base |-> pr.base]
             \/ Clash

\* A verdict on a head that is no longer the current one is dismissed.
OldVerdictsGo ==
  \A h \in Heads : (pr.open /\ h # pr.head /\ Decisive(h)) ~>
                     \/ ~pr.open \/ h = pr.head \/ ~Decisive(h)
                     \/ Clash
=============================================================================
