------------------------ MODULE ReviewAttemptsProofs ------------------------
(***************************************************************************)
(* Theorems of ReviewAttempts, for any number of heads, bases, discovery   *)
(* passes and disturbances: types, the limit of concurrent reviews, and    *)
(* that an attempt counts as completed only after its review was posted.   *)
(***************************************************************************)
EXTENDS ReviewAttempts, FiniteSetTheorems, TLAPS

Pull == [head : Heads, base : Bases, open : BOOLEAN]
States == {"absent", "active", "ended"} \cup Verdicts
Row == [is : States, base : Bases]
Stages == {"idle", "listed", "visited", "read", "carrying", "keeping", "emitting", "carried",
           "dismissing"}
PassType == [pc : Stages, pr : Pull, existing : Row, seen : SUBSET Heads, needs : BOOLEAN]
WorkerType == [pc : {"none", "waiting"} \cup Executing, existing : States,
               aborted : BOOLEAN, verdict : Verdicts]

\* What of TypeOK a step can disturb together.
GitHubOK == pr \in Pull /\ review \in [Heads -> {"none", "dismissed"} \cup Verdicts]
RowOK == row \in [Heads -> Row]
PassOK == pass \in [Passes -> PassType]
WorkerOK == worker \in [Inputs -> WorkerType]
RestOK == paused \in BOOLEAN /\ deeds \in 0..MaxDeeds
Written == \A w \in Inputs : Working(w) => row[w[1]].is # "absent"

\* A worker that records and a pass that carries an approval forward have
\* submitted a review before: without it CompletedIsPosted is not inductive.
Posted ==
  /\ \A w \in Inputs : worker[w].pc = "recording" => review[w[1]] # "none"
  /\ \A d \in Passes : pass[d].pc \in {"carried", "keeping"} => review[pass[d].pr.head] # "none"

LEMMA Parts == TypeOK <=> GitHubOK /\ RowOK /\ PassOK /\ WorkerOK /\ RestOK /\ Written
BY DEF TypeOK, GitHubOK, RowOK, PassOK, WorkerOK, RestOK, Written, Pull, States, Row, Stages,
       PassType, WorkerType

LEMMA PartsNext ==
  TypeOK' <=> GitHubOK' /\ RowOK' /\ PassOK' /\ WorkerOK' /\ RestOK' /\ Written'
BY DEF TypeOK, GitHubOK, RowOK, PassOK, WorkerOK, RestOK, Written, Pull, States, Row, Stages,
       PassType, WorkerType

LEMMA InputTypes == \A w \in Inputs : w[1] \in Heads /\ w[2] \in Bases
BY DEF Inputs

\* A listed pull request has an input.
LEMMA InputOfTypes == ASSUME NEW p \in Pull PROVE InputOf(p) \in Inputs
BY DEF InputOf, Inputs, Pull

\* The empty records.
LEMMA EmptyTypes ==
  ASSUME NEW p \in Pull
  PROVE  NoPass(p) \in PassType /\ NoPass(p).pc = "idle" /\ NoWorker \in WorkerType
BY DEF NoPass, Absent, PassType, Pull, Row, States, Stages, NoWorker, WorkerType, Verdicts

\* Superseding workers changes no await and no verdict.
LEMMA AbortedWorkers ==
  ASSUME WorkerOK, NEW input
  PROVE  /\ Aborted(input) \in [Inputs -> WorkerType]
         /\ \A w \in Inputs : Aborted(input)[w].pc = worker[w].pc
<1>1. \A w \in Inputs : Aborted(input)[w] \in WorkerType /\ Aborted(input)[w].pc = worker[w].pc
  <2> SUFFICES ASSUME NEW w \in Inputs
      PROVE  Aborted(input)[w] \in WorkerType /\ Aborted(input)[w].pc = worker[w].pc
    OBVIOUS
  <2> DEFINE busy == worker[w].pc # "none"
  <2>1. Aborted(input)[w] = IF w = input THEN worker[w] ELSE [worker[w] EXCEPT !.aborted = busy]
    BY DEF Aborted
  <2>2. busy \in BOOLEAN /\ worker[w] \in WorkerType
    BY DEF WorkerOK
  <2> HIDE DEF busy
  <2> QED BY <2>1, <2>2 DEF WorkerType
<1>2. Aborted(input) = [w \in Inputs |-> Aborted(input)[w]]
  BY DEF Aborted
<1> QED BY <1>1, <1>2

\* What a step other than a start of an attempt may make of the workers.
Calm(W) ==
  /\ W \in [Inputs -> WorkerType]
  /\ \A w \in Inputs : /\ W[w].pc \in Executing => worker[w].pc \in Executing
                       /\ W[w].pc = "recording" => worker[w].pc = "recording"

LEMMA CalmWorkers ==
  ASSUME WorkerOK, NEW input \in Inputs
  PROVE  /\ Calm(worker)
         /\ Calm(Aborted(input))
         /\ Calm([worker EXCEPT ![input] = NoWorker])
         /\ \A p \in Pull, existing \in Row : Calm(Dispatched(p, existing))
<1>1. Calm(worker) /\ Calm(Aborted(input))
  BY AbortedWorkers DEF Calm, WorkerOK
<1>2. Calm([worker EXCEPT ![input] = NoWorker])
  BY DEF Calm, WorkerOK, NoWorker, WorkerType, Executing, States, Verdicts
<1>3. ASSUME NEW p \in Pull, NEW existing \in Row
      PROVE  Calm(Dispatched(p, existing))
  <2> DEFINE v == InputOf(p)
             fresh == [NoWorker EXCEPT !.pc = "waiting", !.existing = existing.is]
  <2>1. v \in Inputs
    BY InputOfTypes
  <2>2. fresh \in WorkerType /\ fresh.pc = "waiting"
    BY DEF NoWorker, WorkerType, Row, Verdicts, States
  <2>3. Calm(Aborted(v))
    BY <2>1, AbortedWorkers DEF Calm
  <2>4. Dispatched(p, existing) \in {worker, [Aborted(v) EXCEPT ![v] = fresh]}
    BY DEF Dispatched
  <2> HIDE DEF fresh, v
  <2> QED BY <1>1, <2>1, <2>2, <2>3, <2>4 DEF Calm, Executing
<1> QED BY <1>1, <1>2, <1>3

----------------------------------------------------------------------------
IInv == TypeOK /\ ReviewLimit /\ CompletedIsPosted /\ Posted

\* Nothing that was there is forgotten.
RowsKept == \A h \in Heads : row[h].is # "absent" => row'[h].is # "absent"
ReviewsKept == \A h \in Heads : review[h] # "none" => review'[h] # "none"

LEMMA FiniteInputs == IsFiniteSet(Inputs)
BY FS_Product, ReviewAssumption DEF Inputs

\* A step that starts no attempt takes no slot, and what it leaves working had
\* its attempt before.
LEMMA CalmStep ==
  ASSUME IInv, Calm(worker'), RowsKept
  PROVE  WorkerOK' /\ Written' /\ ReviewLimit'
<1> DEFINE before == {w \in Inputs : Working(w)}
           after == {w \in Inputs : Working(w)'}
<1>1. WorkerOK'
  BY DEF Calm, WorkerOK
<1>2. Written'
  BY Parts, InputTypes DEF IInv, Calm, Written, Working, RowsKept
<1>3. after \subseteq before /\ IsFiniteSet(before)
  BY FiniteInputs, FS_Subset DEF Calm, Working
<1>4. Cardinality(after) <= Cardinality(before)
        /\ Cardinality(after) \in Nat /\ Cardinality(before) \in Nat
  BY <1>3, FS_Subset, FS_CardinalityType
<1>5. Cardinality(before) <= MaxReviews
  BY DEF IInv, ReviewLimit
<1>6. ReviewLimit'
  <2> HIDE DEF before
  <2>1. Cardinality(after) <= MaxReviews
    <3> HIDE DEF after
    <3> QED BY <1>4, <1>5, ReviewAssumption
  <2> QED BY <2>1 DEF ReviewLimit
<1> QED BY <1>1, <1>2, <1>6

\* What every step but a start does to rows, reviews and workers, with the
\* passes apart.
Routine ==
  /\ GitHubOK' /\ RowOK' /\ PassOK' /\ RestOK'
  /\ Calm(worker') /\ RowsKept /\ ReviewsKept
  /\ \A h \in Heads : row'[h].is \in Verdicts => row'[h] = row[h] \/ review'[h] # "none"
  /\ \A d \in Passes : pass'[d].pc \in {"carried", "keeping"} =>
                         \/ pass'[d].pc = pass[d].pc /\ pass'[d].pr = pass[d].pr
                         \/ review'[pass'[d].pr.head] # "none"

LEMMA RoutineStep ==
  ASSUME IInv, Routine
  PROVE  IInv'
<1>1. WorkerOK' /\ Written' /\ ReviewLimit'
  BY CalmStep DEF Routine
<1>2. CompletedIsPosted'
  BY DEF IInv, CompletedIsPosted, Routine, ReviewsKept
<1>3. Posted'
  <2>1. \A w \in Inputs : worker'[w].pc = "recording" => review'[w[1]] # "none"
    BY InputTypes DEF IInv, Posted, Routine, Calm, ReviewsKept
  <2>2. ASSUME NEW d \in Passes, pass'[d].pc \in {"carried", "keeping"}
        PROVE  review'[pass'[d].pr.head] # "none"
    <3>1. pass[d].pr.head \in Heads
      BY Parts DEF IInv, PassOK, PassType, Pull
    <3> QED BY <2>2, <3>1 DEF IInv, Posted, Routine, ReviewsKept
  <2> QED BY <2>1, <2>2 DEF Posted
<1> QED BY <1>1, <1>2, <1>3, PartsNext DEF IInv, Routine

\* Parts of Routine for what a step leaves alone.
LEMMA Unmoved ==
  ASSUME IInv
  PROVE  /\ UNCHANGED github => GitHubOK' /\ ReviewsKept
         /\ UNCHANGED row => RowOK' /\ RowsKept
         /\ UNCHANGED pass => PassOK'
         /\ UNCHANGED worker => Calm(worker')
         /\ UNCHANGED <<paused, deeds>> => RestOK'
         /\ UNCHANGED paused /\ (Disturb \/ UNCHANGED deeds) => RestOK'
<1>1. GitHubOK /\ RowOK /\ PassOK /\ WorkerOK /\ RestOK
  BY Parts DEF IInv
<1>2. UNCHANGED worker => Calm(worker')
  BY <1>1 DEF Calm, WorkerOK
<1>3. UNCHANGED paused /\ (Disturb \/ UNCHANGED deeds) => RestOK'
  BY <1>1, ReviewAssumption DEF RestOK, Disturb
<1> QED BY <1>1, <1>2, <1>3 DEF github, GitHubOK, ReviewsKept, RowOK, RowsKept, PassOK, RestOK

\* A pass moves on with what it has read.
LEMMA PassMoves ==
  ASSUME IInv, NEW d \in Passes, NEW p \in PassType, pass' = [pass EXCEPT ![d] = p],
         \/ p.pc \notin {"carried", "keeping"}
         \/ review'[p.pr.head] # "none"
  PROVE  /\ PassOK'
         /\ \A e \in Passes : pass'[e].pc \in {"carried", "keeping"} =>
                         \/ pass'[e].pc = pass[e].pc /\ pass'[e].pr = pass[e].pr
                         \/ review'[pass'[e].pr.head] # "none"
BY Parts DEF IInv, PassOK

\* Ended attempts.
LEMMA EndedRows ==
  ASSUME IInv, NEW S \in SUBSET Heads
  PROVE  /\ Ended(S) \in [Heads -> Row]
         /\ \A h \in Heads : /\ row[h].is # "absent" => Ended(S)[h].is # "absent"
                             /\ Ended(S)[h].is \in Verdicts => Ended(S)[h] = row[h]
BY Parts DEF IInv, RowOK, Ended, Row, States, Verdicts

\* A worker writes the row of its head: the type stays, and so do other rows.
LEMMA WrittenRow ==
  ASSUME IInv, NEW w \in Inputs, NEW is \in States, is # "absent", Writes(w, is)
  PROVE  /\ RowOK' /\ RowsKept
         /\ \A h \in Heads : row'[h].is \in Verdicts =>
              row'[h] = row[h] \/ (h = w[1] /\ is \in Verdicts)
<1> DEFINE new == [row[w[1]] EXCEPT !.is = is]
<1>1. row \in [Heads -> Row] /\ w[1] \in Heads /\ row' = [row EXCEPT ![w[1]] = new]
  BY Parts, InputTypes DEF IInv, RowOK, Writes
<1>2. new \in Row /\ new.is = is
  BY <1>1 DEF Row
<1> HIDE DEF new
<1> QED BY <1>1, <1>2 DEF RowOK, RowsKept
----------------------------------------------------------------------------
(***************************************************************************)
(* Steps of a discovery pass.                                              *)
(***************************************************************************)

LEMMA PassTypes ==
  ASSUME IInv, NEW d \in Passes
  PROVE  /\ pr \in Pull
         /\ pass[d] \in PassType
         /\ pass[d].pr \in Pull
         /\ pass[d].pr.head \in Heads /\ pass[d].pr.base \in Bases
         /\ NoPass(pr) \in PassType /\ NoPass(pr).pc = "idle"
         /\ InputOf(pass[d].pr) \in Inputs
BY Parts, EmptyTypes, InputOfTypes DEF IInv, GitHubOK, PassOK, PassType, Pull

LEMMA ListStep ==
  ASSUME IInv, NEW d \in Passes, ListPullRequests(d)
  PROVE  Routine
<1> DEFINE p == [NoPass(pr) EXCEPT !.pc = "listed"]
<1>1. p \in PassType /\ p.pc = "listed"
  BY PassTypes DEF PassType, Stages
<1>2. pass' = [pass EXCEPT ![d] = p]
  BY DEF ListPullRequests
<1> HIDE DEF p
<1> QED BY <1>1, <1>2, PassMoves, Unmoved DEF ListPullRequests, Routine

LEMMA RetireStep ==
  ASSUME IInv, NEW d \in Passes, RetireAttempts(d)
  PROVE  Routine
<1> DEFINE S == {h \in Heads : Retired(h, pass[d].pr.head)}
           p == [pass[d] EXCEPT !.pc = "visited"]
<1>1. p \in PassType /\ p.pc = "visited" /\ pass' = [pass EXCEPT ![d] = p]
  BY PassTypes DEF PassType, Stages, RetireAttempts
<1>2. row' = Ended(S) /\ S \subseteq Heads
  BY DEF RetireAttempts
<1>3. Calm(worker')
  BY Parts, PassTypes, CalmWorkers DEF IInv, RetireAttempts
<1> HIDE DEF S, p
<1>4. RowOK' /\ RowsKept /\ \A h \in Heads : row'[h].is \in Verdicts => row'[h] = row[h]
  BY <1>2, EndedRows DEF RowOK, RowsKept
<1>5. PassOK' /\ \A e \in Passes : pass'[e].pc \in {"carried", "keeping"} =>
                                     pass'[e].pc = pass[e].pc /\ pass'[e].pr = pass[e].pr
  BY <1>1, Parts DEF IInv, PassOK
<1> QED BY <1>3, <1>4, <1>5, Unmoved DEF RetireAttempts, Routine

LEMMA RetireClosedStep ==
  ASSUME IInv, NEW d \in Passes, RetireClosed(d)
  PROVE  Routine
<1> DEFINE S == {h \in Heads : row[h].is = "active"}
<1>1. pass' = [pass EXCEPT ![d] = NoPass(pr)]
  BY DEF RetireClosed
<1>2. \/ row' = row
      \/ row' = Ended(S) /\ S \subseteq Heads
  BY DEF RetireClosed
<1> HIDE DEF S
<1> QED BY <1>1, <1>2, PassTypes, PassMoves, Unmoved, EndedRows
        DEF RetireClosed, Routine, RowOK, RowsKept

LEMMA ListReviewsStep ==
  ASSUME IInv, NEW d \in Passes, ListReviews(d)
  PROVE  Routine
<1> DEFINE p == [pass[d] EXCEPT !.pc = "read", !.seen = {h \in Heads : Decisive(h)},
                                !.existing = row[pass[d].pr.head]]
<1>1. p \in PassType /\ p.pc = "read"
  BY PassTypes, Parts DEF IInv, RowOK, PassType, Stages
<1>2. pass' = [pass EXCEPT ![d] = p]
  BY DEF ListReviews
<1> HIDE DEF p
<1> QED BY <1>1, <1>2, PassMoves, Unmoved DEF ListReviews, Routine

LEMMA JudgeStep ==
  ASSUME IInv, NEW d \in Passes, Judge(d)
  PROVE  Routine
<1>1. PICK pc \in {"dismissing", "carrying"} : pass' = [pass EXCEPT ![d].pc = pc]
  BY DEF Judge
<1> DEFINE p == [pass[d] EXCEPT !.pc = pc]
<1>2. p \in PassType /\ p.pc = pc /\ pass' = [pass EXCEPT ![d] = p]
  BY <1>1, PassTypes DEF PassType, Stages
<1> HIDE DEF p
<1> QED BY <1>2, PassMoves, Unmoved DEF Judge, Routine

\* The candidate may be the head itself: its attempt is approved, so that the
\* review of it was posted.
LEMMA LookStep ==
  ASSUME IInv, NEW d \in Passes, LookForCandidate(d)
  PROVE  Routine
<1> DEFINE head == pass[d].pr.head
           away == [pass[d] EXCEPT !.pc = "dismissing", !.needs = TRUE]
           moved == [pass[d] EXCEPT !.pc = "dismissing", !.pr = pr]
           keep == [pass[d] EXCEPT !.pc = "keeping"]
           emit == [pass[d] EXCEPT !.pc = "emitting"]
<1>1. /\ away \in PassType /\ away.pc = "dismissing"
      /\ moved \in PassType /\ moved.pc = "dismissing"
      /\ keep \in PassType /\ keep.pr = pass[d].pr
      /\ emit \in PassType /\ emit.pc = "emitting"
  BY PassTypes DEF PassType, Stages
<1>2. \/ \E p \in {away, moved, emit} : pass' = [pass EXCEPT ![d] = p]
      \/ head \in Candidates(pass[d].pr) /\ pass' = [pass EXCEPT ![d] = keep]
  BY DEF LookForCandidate
<1>3. head \in Candidates(pass[d].pr) => review'[head] # "none"
  BY PassTypes DEF IInv, CompletedIsPosted, Candidates, Verdicts, LookForCandidate, github
<1>4. RestOK'
  BY Unmoved DEF LookForCandidate
<1> HIDE DEF away, moved, keep, emit
<1> QED BY <1>1, <1>2, <1>3, <1>4, PassMoves, Unmoved DEF LookForCandidate, Routine

LEMMA RepublishStep ==
  ASSUME IInv, NEW d \in Passes, Republish(d)
  PROVE  Routine
<1> DEFINE h == pass[d].pr.head
           p(e) == [pass[e] EXCEPT !.seen = @ \ {h}]
           q == [p(d) EXCEPT !.pc = "carried"]
<1>1. GitHubOK' /\ ReviewsKept /\ review'[h] # "none"
  BY Parts, PassTypes DEF IInv, GitHubOK, Verdicts, ReviewsKept, Republish
<1>2. \A e \in Passes : p(e) \in PassType /\ p(e).pc = pass[e].pc /\ p(e).pr = pass[e].pr
  BY Parts DEF IInv, PassOK, PassType
<1>3. pass' = [Unseen(h) EXCEPT ![d].pc = "carried"]
  BY DEF Republish
<1>4. \A e \in Passes : pass'[e] = IF e = d THEN q ELSE p(e)
  BY <1>3 DEF Unseen
<1>5. pass' = [e \in Passes |-> pass'[e]]
  BY <1>3 DEF Unseen
<1> HIDE DEF p
<1>6. q \in PassType /\ q.pr = p(d).pr
  BY <1>2 DEF PassType, Stages
<1> HIDE DEF q, h
<1>7. PassOK'
  BY <1>2, <1>4, <1>5, <1>6 DEF PassOK
<1>8. \A e \in Passes : pass'[e].pc \in {"carried", "keeping"} =>
                         \/ pass'[e].pc = pass[e].pc /\ pass'[e].pr = pass[e].pr
                         \/ review'[pass'[e].pr.head] # "none"
  BY <1>1, <1>2, <1>4, <1>6 DEF h
<1> QED BY <1>1, <1>7, <1>8, Unmoved DEF Republish, Routine

LEMMA RecordCarriedStep ==
  ASSUME IInv, NEW d \in Passes, RecordCarried(d)
  PROVE  Routine
<1> DEFINE h == pass[d].pr.head
           p == [pass[d] EXCEPT !.pc = "dismissing"]
           new == [is |-> "approved", base |-> pass[d].pr.base]
<1>1. p \in PassType /\ p.pc = "dismissing" /\ new \in Row /\ new.is # "absent"
  BY PassTypes DEF PassType, Stages, Row, States, Verdicts
<1>2. review'[h] # "none"
  BY DEF IInv, Posted, RecordCarried, github
<1>3. \E q \in {NoPass(pr), p} : pass' = [pass EXCEPT ![d] = q]
  BY DEF RecordCarried
<1>4. row' = row \/ row' = [row EXCEPT ![h] = new]
  BY DEF RecordCarried
<1> HIDE DEF new, p
<1>5. /\ RowOK' /\ RowsKept
      /\ \A g \in Heads : row'[g].is \in Verdicts => row'[g] = row[g] \/ review'[g] # "none"
  BY <1>1, <1>2, <1>4, Parts, PassTypes DEF IInv, RowOK, RowsKept
<1>6. /\ PassOK'
      /\ \A e \in Passes : pass'[e].pc \in {"carried", "keeping"} =>
                             pass'[e].pc = pass[e].pc /\ pass'[e].pr = pass[e].pr
  BY <1>1, <1>3, Parts, PassTypes DEF IInv, PassOK
<1> QED BY <1>5, <1>6, Unmoved DEF RecordCarried, Routine

\* A dismissed review is one that was posted.
LEMMA DismissStep ==
  ASSUME IInv, NEW d \in Passes, DismissAndDispatch(d) \/ DismissFails(d)
  PROVE  Routine
<1>1. pass' = [pass EXCEPT ![d] = NoPass(pr)]
  BY DEF DismissAndDispatch, DismissFails
<1>2. /\ PassOK'
      /\ \A e \in Passes : pass'[e].pc \in {"carried", "keeping"} =>
                             pass'[e].pc = pass[e].pc /\ pass'[e].pr = pass[e].pr
  BY <1>1, Parts, PassTypes DEF IInv, PassOK
<1>3. worker' = worker \/ worker' = Dispatched(pass[d].pr, pass[d].existing)
  BY DEF DismissAndDispatch, DismissFails
<1>4. pass[d].existing \in Row /\ pass[d].pr \in Pull /\ InputOf(pass[d].pr) \in Inputs
  BY PassTypes DEF PassType
<1>5. Calm(worker')
  BY <1>3, <1>4, Parts, CalmWorkers DEF IInv
<1>6. GitHubOK' /\ ReviewsKept
  BY Parts DEF IInv, GitHubOK, ReviewsKept, DismissAndDispatch, DismissFails, github
<1>7. RestOK' /\ RowOK' /\ RowsKept /\ row' = row
  BY Unmoved DEF DismissAndDispatch, DismissFails
<1> QED BY <1>2, <1>5, <1>6, <1>7 DEF Routine

----------------------------------------------------------------------------
(***************************************************************************)
(* Steps of a worker.                                                      *)
(***************************************************************************)

\* A worker that goes on, or quits.
LEMMA WorkerMoves ==
  ASSUME IInv, NEW w \in Inputs, NEW v \in WorkerType, worker' = [worker EXCEPT ![w] = v],
         v.pc \in Executing => worker[w].pc \in Executing,
         v.pc = "recording" => worker[w].pc = "recording"
  PROVE  Calm(worker')
BY Parts DEF IInv, WorkerOK, Calm

LEMMA WorkerTypes ==
  ASSUME IInv, NEW w \in Inputs
  PROVE  /\ worker[w] \in WorkerType /\ w[1] \in Heads /\ w[2] \in Bases
         /\ \A pc \in Executing : /\ [worker[w] EXCEPT !.pc = pc] \in WorkerType
                                  /\ [worker[w] EXCEPT !.pc = pc].pc = pc
         /\ Quit(w) => Calm(worker')
<1>1. worker[w] \in WorkerType /\ w[1] \in Heads /\ w[2] \in Bases
  BY Parts, InputTypes DEF IInv, WorkerOK
<1>2. ASSUME NEW pc \in Executing
      PROVE  /\ [worker[w] EXCEPT !.pc = pc] \in WorkerType
             /\ [worker[w] EXCEPT !.pc = pc].pc = pc
  BY <1>1 DEF WorkerType
<1>3. Quit(w) => Calm(worker')
  BY Parts, CalmWorkers DEF IInv, Quit
<1> QED BY <1>1, <1>2, <1>3

\* Steps of workers that leave GitHub, the passes and the rest alone.
LEMMA WorkerStep ==
  ASSUME IInv, Calm(worker'), UNCHANGED <<github, pass>>, RestOK', RowOK', RowsKept,
         \A h \in Heads : row'[h].is \in Verdicts => row'[h] = row[h] \/ review'[h] # "none"
  PROVE  IInv'
<1>1. PassOK' /\ GitHubOK' /\ ReviewsKept
  BY Unmoved
<1>2. \A d \in Passes : pass'[d].pc = pass[d].pc /\ pass'[d].pr = pass[d].pr
  OBVIOUS
<1>3. Routine
  BY <1>1, <1>2 DEF Routine
<1> QED BY <1>3, RoutineStep

LEMMA SkipStep ==
  ASSUME IInv, NEW w \in Inputs, SkipReview(w)
  PROVE  IInv'
BY WorkerTypes, Unmoved, WorkerStep DEF SkipReview

\* The slots are counted before another is taken.
LEMMA BeginStep ==
  ASSUME IInv, NEW w \in Inputs, BeginAttempt(w)
  PROVE  IInv'
<1>1. CASE Quit(w) /\ UNCHANGED row
  BY <1>1, WorkerTypes, Unmoved, WorkerStep DEF BeginAttempt
<1>2. CASE Goes(w, "preflight") /\ row' = Opened(w)
  <2> DEFINE v == [worker[w] EXCEPT !.pc = "preflight"]
             new == [is |-> "active", base |-> w[2]]
             before == {u \in Inputs : Working(u)}
             after == {u \in Inputs : Working(u)'}
  <2>1. v \in WorkerType /\ v.pc = "preflight" /\ new \in Row /\ new.is = "active"
    BY WorkerTypes DEF Executing, Row, States
  <2>2. worker' = [worker EXCEPT ![w] = v] /\ row' = [row EXCEPT ![w[1]] = new]
    BY <1>2 DEF Goes, Opened
  <2>3. WorkerOK' /\ \A u \in Inputs : u # w => worker'[u] = worker[u]
    BY <2>1, <2>2, Parts DEF IInv, WorkerOK
  <2>4. worker'[w] = v /\ worker[w].pc = "waiting"
    BY <2>2, Parts DEF IInv, WorkerOK, BeginAttempt
  <2> HIDE DEF v, new
  <2>5. RowOK' /\ RowsKept /\ \A h \in Heads : row'[h] = row[h] \/ row'[h].is = "active"
    BY <2>1, <2>2, Parts, WorkerTypes DEF IInv, RowOK, RowsKept
  <2>6. row'[w[1]].is = "active"
    BY <2>1, <2>2, Parts, WorkerTypes DEF IInv, RowOK
  <2>7. Written'
    BY <2>3, <2>5, <2>6, Parts, InputTypes DEF IInv, Written, Working, RowsKept
  <2>8. w \notin before /\ IsFiniteSet(before)
    BY <2>4, FiniteInputs, FS_Subset DEF Working, Executing
  <2>9. Cardinality(before \cup {w}) = Cardinality(before) + 1 /\ IsFiniteSet(before \cup {w})
    BY <2>8, FS_AddElement
  <2>10. after \subseteq before \cup {w}
    BY <2>3 DEF Working
  <2>11. /\ Cardinality(after) <= Cardinality(before \cup {w})
         /\ Cardinality(after) \in Nat /\ Cardinality(before) \in Nat
    BY <2>8, <2>9, <2>10, FS_Subset, FS_CardinalityType
  <2>12. Cardinality(before) < MaxReviews
    BY DEF BeginAttempt, SlotFree
  <2>13. ReviewLimit'
    <3>1. Cardinality(after) <= MaxReviews
      <4> HIDE DEF before, after
      <4> QED BY <2>9, <2>11, <2>12, ReviewAssumption
    <3> QED BY <3>1 DEF ReviewLimit
  <2>14. GitHubOK' /\ PassOK' /\ RestOK' /\ review' = review /\ pass' = pass
    BY Unmoved DEF BeginAttempt, github
  <2>15. CompletedIsPosted'
    BY <2>5, <2>14 DEF IInv, CompletedIsPosted, Verdicts
  <2>16. Posted'
    BY <2>1, <2>3, <2>4, <2>14 DEF IInv, Posted
  <2> QED BY <2>3, <2>5, <2>7, <2>13, <2>14, <2>15, <2>16, PartsNext DEF IInv
<1> QED BY <1>1, <1>2 DEF BeginAttempt

LEMMA PreflightStep ==
  ASSUME IInv, NEW w \in Inputs, Preflight(w)
  PROVE  IInv'
<1>1. CASE Writes(w, "ended") /\ Quit(w)
  <2>1. RowOK' /\ RowsKept /\ \A h \in Heads : row'[h].is \in Verdicts => row'[h] = row[h]
    BY <1>1, WrittenRow DEF States, Verdicts
  <2> QED BY <1>1, <2>1, WorkerTypes, Unmoved, WorkerStep DEF Preflight
<1>2. CASE row' = [row EXCEPT ![w[1]].base = w[2]] /\ Goes(w, "reviewing")
  <2> DEFINE v == [worker[w] EXCEPT !.pc = "reviewing"]
             new == [row[w[1]] EXCEPT !.base = w[2]]
  <2>1. new \in Row /\ new.is = row[w[1]].is
    BY Parts, WorkerTypes DEF IInv, RowOK, Row
  <2>2. row' = [row EXCEPT ![w[1]] = new]
    BY <1>2
  <2>3. v \in WorkerType /\ v.pc = "reviewing" /\ worker[w].pc \in Executing
        /\ worker' = [worker EXCEPT ![w] = v]
    BY <1>2, WorkerTypes DEF Goes, Executing, Preflight
  <2> HIDE DEF v, new
  <2>4. /\ RowOK' /\ RowsKept
        /\ \A h \in Heads : row'[h].is \in Verdicts => review[h] # "none"
    BY <2>1, <2>2, Parts, WorkerTypes DEF IInv, RowOK, RowsKept, CompletedIsPosted
  <2>5. Calm(worker')
    BY <2>3, WorkerMoves
  <2> QED BY <2>4, <2>5, Unmoved, WorkerStep DEF Preflight, github
<1> QED BY <1>1, <1>2 DEF Preflight

LEMMA ReviewStep ==
  ASSUME IInv, NEW w \in Inputs, NEW verdict \in Verdicts, Review(w, verdict)
  PROVE  IInv'
<1>1. CASE Writes(w, "ended") /\ Quit(w)
  <2>1. RowOK' /\ RowsKept /\ \A h \in Heads : row'[h].is \in Verdicts => row'[h] = row[h]
    BY <1>1, WrittenRow DEF States, Verdicts
  <2> QED BY <1>1, <2>1, WorkerTypes, Unmoved, WorkerStep DEF Review
<1>2. CASE /\ worker' = [worker EXCEPT ![w].pc = "publishing", ![w].verdict = verdict]
           /\ UNCHANGED row
  <2> DEFINE v == [worker[w] EXCEPT !.pc = "publishing", !.verdict = verdict]
  <2>1. v \in WorkerType /\ v.pc = "publishing" /\ worker[w].pc \in Executing
    BY WorkerTypes DEF WorkerType, Executing, Review
  <2>2. worker' = [worker EXCEPT ![w] = v]
    BY <1>2
  <2> HIDE DEF v
  <2>3. Calm(worker')
    BY <2>1, <2>2, WorkerMoves
  <2> QED BY <1>2, <2>3, Unmoved, WorkerStep DEF Review
<1> QED BY <1>1, <1>2 DEF Review

LEMMA EndStep ==
  ASSUME IInv, NEW w \in Inputs, Interrupt(w) \/ FailReview(w)
  PROVE  IInv'
<1>1. RowOK' /\ RowsKept /\ \A h \in Heads : row'[h].is \in Verdicts => row'[h] = row[h]
  <2>1. Writes(w, "ended") /\ "ended" \in States /\ "ended" \notin Verdicts
    BY DEF Interrupt, FailReview, States, Verdicts
  <2> QED BY <2>1, WrittenRow
<1>2. Calm(worker')
  BY WorkerTypes DEF Interrupt, FailReview
<1>3. RestOK'
  <2>1. paused \in BOOLEAN /\ deeds \in 0..MaxDeeds
    BY Parts DEF IInv, RestOK
  <2>2. paused' = paused \/ paused' = TRUE
    <3>1. CASE Interrupt(w)
      BY <3>1 DEF Interrupt
    <3>2. CASE FailReview(w)
      <4>1. paused' \in {paused, TRUE} \/ paused' \in {paused}
        BY <3>2 DEF FailReview
      <4> QED BY <4>1
    <3> QED BY <3>1, <3>2
  <2>3. paused' \in BOOLEAN
    <3>1. paused \in BOOLEAN
      BY <2>1
    <3> QED BY <2>2, <3>1, Zenon
  <2>4. deeds' = deeds \/ Disturb
    BY DEF Interrupt, FailReview
  <2>5. deeds' \in 0..MaxDeeds
    <3>1. deeds \in 0..MaxDeeds
      BY <2>1
    <3> QED BY <2>4, <3>1, ReviewAssumption DEF Disturb
  <2> QED BY <2>3, <2>5 DEF RestOK
<1> QED BY <1>1, <1>2, <1>3, WorkerStep DEF Interrupt, FailReview

\* The worker records from here on what it has posted.
LEMMA PublishStep ==
  ASSUME IInv, NEW w \in Inputs, Publish(w)
  PROVE  IInv'
<1> DEFINE v == [worker[w] EXCEPT !.pc = "recording"]
           h == w[1]
<1>1. v \in WorkerType /\ v.pc = "recording" /\ worker[w].verdict \in Verdicts
  BY WorkerTypes DEF Executing, WorkerType
<1>2. worker' = [worker EXCEPT ![w] = v] /\ worker[w].pc \in Executing
  BY DEF Publish, Goes, Executing
<1>3. GitHubOK' /\ ReviewsKept /\ review'[h] # "none"
  BY <1>1, Parts, WorkerTypes DEF IInv, GitHubOK, ReviewsKept, Publish, Submitted, Verdicts
<1>4. \A d \in Passes : /\ pass'[d] \in PassType
                        /\ pass'[d].pc = pass[d].pc /\ pass'[d].pr = pass[d].pr
  <2> SUFFICES ASSUME NEW d \in Passes
      PROVE  /\ pass'[d] \in PassType
             /\ pass'[d].pc = pass[d].pc /\ pass'[d].pr = pass[d].pr
    OBVIOUS
  <2>1. pass'[d] \in {pass[d], [pass[d] EXCEPT !.seen = @ \ {h}]}
    BY DEF Publish, Unseen
  <2>2. pass[d] \in PassType
    BY PassTypes
  <2> QED BY <2>1, <2>2 DEF PassType
<1>5. PassOK'
  <2>1. pass' = [d \in Passes |-> pass'[d]]
    BY Parts DEF IInv, PassOK, Publish, Unseen
  <2> QED BY <1>4, <2>1 DEF PassOK
<1> HIDE DEF v
<1>6. WorkerOK' /\ \A u \in Inputs : /\ Working(u)' => Working(u)
                                     /\ worker'[u].pc = "recording" =>
                                          worker[u].pc = "recording" \/ u = w
  BY <1>1, <1>2, Parts DEF IInv, WorkerOK, Working
<1>7. Written'
  BY <1>6, Parts DEF IInv, Written, Publish
<1>8. ReviewLimit'
  <2> DEFINE before == {u \in Inputs : Working(u)}
             after == {u \in Inputs : Working(u)'}
  <2>1. after \subseteq before /\ IsFiniteSet(before)
    BY <1>6, FiniteInputs, FS_Subset
  <2>2. /\ Cardinality(after) <= Cardinality(before) /\ Cardinality(before) <= MaxReviews
        /\ Cardinality(after) \in Nat /\ Cardinality(before) \in Nat
    BY <2>1, FS_Subset, FS_CardinalityType DEF IInv, ReviewLimit
  <2>3. Cardinality(after) <= MaxReviews
    <3> HIDE DEF before, after
    <3> QED BY <2>2, ReviewAssumption
  <2> QED BY <2>3 DEF ReviewLimit
<1>9. CompletedIsPosted'
  BY <1>3 DEF IInv, CompletedIsPosted, ReviewsKept, Publish
<1>10. Posted'
  <2>1. \A u \in Inputs : worker'[u].pc = "recording" => review'[u[1]] # "none"
    BY <1>3, <1>6, InputTypes DEF IInv, Posted, ReviewsKept
  <2>2. \A d \in Passes : pass'[d].pc \in {"carried", "keeping"} =>
                            review'[pass'[d].pr.head] # "none"
    BY <1>3, <1>4, PassTypes DEF IInv, Posted, ReviewsKept
  <2> QED BY <2>1, <2>2 DEF Posted
<1>11. RowOK' /\ RestOK'
  BY Unmoved DEF Publish
<1> QED BY <1>3, <1>5, <1>6, <1>7, <1>8, <1>9, <1>10, <1>11, PartsNext DEF IInv

LEMMA RecordStep ==
  ASSUME IInv, NEW w \in Inputs, Record(w)
  PROVE  IInv'
<1>1. worker[w].verdict \in Verdicts /\ review[w[1]] # "none"
  BY WorkerTypes DEF IInv, Posted, Record, WorkerType
<1>2. /\ RowOK' /\ RowsKept
      /\ \A h \in Heads : row'[h].is \in Verdicts => row'[h] = row[h] \/ review[h] # "none"
  BY <1>1, WrittenRow DEF Record, States, Verdicts
<1> QED BY <1>2, WorkerTypes, Unmoved, WorkerStep DEF Record, github

----------------------------------------------------------------------------
(***************************************************************************)
(* The rest of the world.                                                  *)
(***************************************************************************)

LEMMA WorldStep ==
  ASSUME IInv,
         \/ \E h \in Heads : Push(h)
         \/ \E b \in Bases : MoveBase(b)
         \/ CloseOrOpen
  PROVE  Routine
<1>1. GitHubOK' /\ ReviewsKept /\ review' = review
  <2>1. pr \in Pull /\ review' = review
    BY Parts DEF IInv, GitHubOK, Push, MoveBase, CloseOrOpen
  <2>2. pr' \in Pull
    <3>1. CASE (\E h \in Heads : Push(h)) \/ (\E b \in Bases : MoveBase(b))
      BY <2>1, <3>1 DEF Pull, Push, MoveBase
    <3>2. CASE CloseOrOpen
      <4> DEFINE b == ~pr.open
      <4>1. b \in BOOLEAN /\ pr' = [pr EXCEPT !.open = b]
        BY <3>2 DEF CloseOrOpen
      <4> HIDE DEF b
      <4> QED BY <2>1, <4>1 DEF Pull
    <3> QED BY <3>1, <3>2
  <2> QED BY <2>1, <2>2, Parts DEF IInv, GitHubOK, ReviewsKept
<1>2. UNCHANGED <<row, pass, worker, paused>> /\ Disturb
  BY DEF Push, MoveBase, CloseOrOpen
<1> QED BY <1>1, <1>2, Unmoved DEF Routine

LEMMA StallStep ==
  ASSUME IInv, NEW h \in Heads, Stall(h)
  PROVE  Routine
<1>1. row' = Ended({h}) /\ {h} \in SUBSET Heads
  BY DEF Stall
<1>2. RowOK' /\ RowsKept /\ \A g \in Heads : row'[g].is \in Verdicts => row'[g] = row[g]
  BY <1>1, EndedRows DEF RowOK, RowsKept
<1> QED BY <1>2, Unmoved DEF Stall, Routine

LEMMA HostStep ==
  ASSUME IInv, Resume \/ Crash
  PROVE  Routine
<1>1. RestOK'
  <2>1. paused' \in BOOLEAN
    BY DEF Resume, Crash
  <2>2. deeds \in 0..MaxDeeds
    BY Parts DEF IInv, RestOK
  <2>3. deeds' \in 0..MaxDeeds
    BY <2>2, ReviewAssumption DEF Resume, Crash, Disturb
  <2> QED BY <2>1, <2>3 DEF RestOK
<1>2. CASE Resume
  BY <1>1, <1>2, Unmoved DEF Resume, Routine
<1>3. CASE Crash
  <2>1. Calm(worker')
    BY <1>3, EmptyTypes, Parts DEF IInv, GitHubOK, Crash, Calm, NoWorker, Executing
  <2>2. PassOK' /\ \A d \in Passes : pass'[d].pc = "idle"
    BY <1>3, EmptyTypes, Parts DEF IInv, GitHubOK, Crash, PassOK
  <2> QED BY <1>1, <1>3, <2>1, <2>2, Unmoved DEF Crash, Routine
<1> QED BY <1>2, <1>3

----------------------------------------------------------------------------
LEMMA Initially == Init => IInv
<1> SUFFICES ASSUME Init PROVE IInv
  OBVIOUS
<1>1. pr \in Pull /\ GitHubOK
  BY DEF Init, Pull, GitHubOK
<1>2. RowOK /\ \A h \in Heads : row[h].is = "absent"
  BY <1>1 DEF Init, RowOK, Absent, Row, States, Pull
<1>3. PassOK /\ \A d \in Passes : pass[d].pc = "idle"
  BY <1>1, EmptyTypes DEF Init, PassOK
<1>4. WorkerOK /\ \A w \in Inputs : worker[w].pc = "none"
  BY <1>1, EmptyTypes DEF Init, WorkerOK, NoWorker
<1>5. RestOK
  <2>1. paused \in BOOLEAN
    BY DEF Init
  <2>2. deeds \in 0..MaxDeeds
    BY ReviewAssumption DEF Init
  <2> QED BY <2>1, <2>2 DEF RestOK
<1>6. {w \in Inputs : Working(w)} = {}
  BY <1>4 DEF Working, Executing
<1>7. ReviewLimit
  BY <1>6, FS_EmptySet, ReviewAssumption DEF ReviewLimit
<1>8. Written /\ CompletedIsPosted /\ Posted
  BY <1>2, <1>3, <1>4 DEF Written, Working, Executing, CompletedIsPosted, Verdicts, Posted
<1> QED BY <1>1, <1>2, <1>3, <1>4, <1>5, <1>7, <1>8, Parts DEF IInv

LEMMA Stepwise == IInv /\ [Next]_vars => IInv'
<1> SUFFICES ASSUME IInv, [Next]_vars PROVE IInv'
  OBVIOUS
<1>1. CASE UNCHANGED vars
  BY <1>1, Unmoved, RoutineStep DEF vars, Routine
<1>2. ASSUME NEW d \in Passes, Discover(d) PROVE IInv'
  <2>1. Routine
    BY <1>2, ListStep, RetireStep, RetireClosedStep, ListReviewsStep, JudgeStep, LookStep,
       RepublishStep, RecordCarriedStep, DismissStep DEF Discover
  <2> QED BY <2>1, RoutineStep
<1>3. ASSUME NEW w \in Inputs, SkipReview(w) \/ BeginAttempt(w) \/ Execute(w) PROVE IInv'
  BY <1>3, SkipStep, BeginStep, PreflightStep, ReviewStep, EndStep, PublishStep, RecordStep
     DEF Execute
<1>4. ASSUME NEW h \in Heads, Push(h) \/ Stall(h) PROVE IInv'
  BY <1>4, WorldStep, StallStep, RoutineStep
<1>5. CASE (\E b \in Bases : MoveBase(b)) \/ CloseOrOpen
  BY <1>5, WorldStep, RoutineStep
<1>6. CASE Resume \/ Crash
  BY <1>6, HostStep, RoutineStep
<1> QED BY <1>1, <1>2, <1>3, <1>4, <1>5, <1>6 DEF Next

LEMMA Invariant == Spec => []IInv
BY Initially, Stepwise, PTL DEF Spec

\* Types, and a worker past its start always has an attempt to write to
\* (review-quill service.ts, executeReview).
THEOREM TypeCorrect == Spec => []TypeOK
<1>1. IInv => TypeOK
  BY DEF IInv
<1> QED BY <1>1, Invariant, PTL

\* The semaphore holds for any number of passes and inputs: a superseded worker
\* keeps its slot until it has noticed.
THEOREM ReviewsLimited == Spec => []ReviewLimit
<1>1. IInv => ReviewLimit
  BY DEF IInv
<1> QED BY <1>1, Invariant, PTL

\* However many workers and passes write the row of one head: it is completed
\* only after a review of that head was posted.
THEOREM CompletedArePosted == Spec => []CompletedIsPosted
<1>1. IInv => CompletedIsPosted
  BY DEF IInv
<1> QED BY <1>1, Invariant, PTL
=============================================================================
