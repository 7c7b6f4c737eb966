--------------------------- MODULE ServiceRuntime ---------------------------
(***************************************************************************)
(* PatchRelay's ServiceRuntime: the issue queue, with the limit on runs    *)
(* that work at the same time, and the background pass that queues what    *)
(* became ready unseen.  Codex, which runs the turns, may die; the next    *)
(* request to it starts it again.                                          *)
(***************************************************************************)
EXTENDS SerialWorkQueue

CONSTANTS
  Issues,      \* the issues of the store
  MaxRuns,     \* maxActiveIssueRuns
  MaxAttempts, \* bound: the highest attempt that is told apart
  LockRetries, \* how often a locked database is tried again
  MaxDeeds     \* bound: wake-ups, new work, failures

ASSUME RuntimeAssumption ==
  /\ IsFiniteSet(Issues)
  /\ MaxRuns \in Nat \ {0}
  /\ LockRetries \in Nat
  /\ MaxAttempts \in Nat /\ MaxAttempts > LockRetries
  /\ MaxDeeds \in Nat

VARIABLES
  queue,      \* issueQueue
  full,       \* the issue handed out found the limit reached
  ready,      \* listIssuesReadyForExecution
  running,    \* the issues with an active run
  codex,      \* codex.isStarted
  pass,       \* reconcileInProgress
  requested,  \* reconcileRequested
  timer,      \* reconcileTimer: of a request, of the interval, or none
  deeds

loop == <<codex, pass, requested, timer>>
vars == <<queue, full, ready, running, loop, deeds>>

Disturb == deeds < MaxDeeds /\ deeds' = deeds + 1

\* enqueueIssue.
Wake(q, k, priority) == Enqueued(q, Entry(k, 0, priority))

\* Mutant of Full: one run too many is let through.
OverFull(runs) == Cardinality(runs) > MaxRuns

\* processIssueWithCapacity looks at the runs at the moment of the hand-out.
Full(runs) == Cardinality(runs) >= MaxRuns

HandsOut(q, runs) ==
  /\ queue' = Drained(q)
  /\ full' = (queue'.working # NoEntry /\ Full(runs))

----------------------------------------------------------------------------
(***************************************************************************)
(* The drain loop.                                                         *)
(***************************************************************************)

\* The microtask of ensureDrain.
StartDrain ==
  /\ queue.pending
  /\ queue.working = NoEntry
  /\ HandsOut(queue, running)
  /\ UNCHANGED <<ready, running, loop, deeds>>

Busy == queue.working # NoEntry
Again == [queue.working EXCEPT !.attempt = IF @ < MaxAttempts THEN @ + 1 ELSE @]

\* The limit is reached: the item waits, and goes first when it becomes urgent.
TurnAway ==
  /\ Busy
  /\ full
  /\ HandsOut(Delayed(queue, Again, TRUE), running)
  /\ UNCHANGED <<ready, running, loop, deeds>>

\* run(): Codex is started if need be, and the issue's run is claimed.
Launch ==
  /\ Busy
  /\ ~full
  /\ queue.working.key \in ready
  /\ ready' = ready \ {queue.working.key}
  /\ running' = running \cup {queue.working.key}
  /\ codex' = TRUE
  /\ HandsOut(queue, running')
  /\ UNCHANGED <<pass, requested, timer, deeds>>

\* run() finds nothing to do.
Skip ==
  /\ Busy
  /\ ~full
  /\ queue.working.key \notin ready
  /\ HandsOut(queue, running)
  /\ UNCHANGED <<ready, running, loop, deeds>>

\* run() meets a locked database, which is tried again a few times.  The number
\* of attempts is the entry's own, whatever they failed for.
Locked ==
  /\ Busy
  /\ ~full
  /\ HandsOut(IF Again.attempt <= LockRetries THEN Delayed(queue, Again, FALSE) ELSE queue, running)
  /\ Disturb
  /\ UNCHANGED <<ready, running, loop>>

\* run() refuses, waits for something else, or fails: the item is gone.
Drop ==
  /\ Busy
  /\ ~full
  /\ HandsOut(queue, running)
  /\ Disturb
  /\ UNCHANGED <<ready, running, loop>>

\* Time passes, and the timer of a delay is called.
Elapse(i) ==
  /\ i \in DOMAIN queue.delayed
  /\ ~queue.delayed[i].due
  /\ queue' = [queue EXCEPT !.delayed[i].due = TRUE]
  /\ UNCHANGED <<full, ready, running, loop, deeds>>

RetryTimer(i) ==
  /\ i \in DOMAIN queue.delayed
  /\ queue.delayed[i].due
  /\ queue' = Fired(queue, queue.delayed[i])
  /\ UNCHANGED <<full, ready, running, loop, deeds>>

----------------------------------------------------------------------------
(***************************************************************************)
(* Work that comes and goes.                                               *)
(***************************************************************************)

\* An issue becomes ready, unseen (the CLI, an edit of the store) or with a
\* dispatch; an issue that is not ready may be dispatched as well.
BecomeReady(k, seen, priority) ==
  /\ k \notin running
  /\ ready' = ready \cup {k}
  /\ queue' = IF seen THEN Wake(queue, k, priority) ELSE queue
  /\ Disturb
  /\ UNCHANGED <<full, running, loop>>

WakeIdle(k, priority) ==
  /\ queue' = Wake(queue, k, priority)
  /\ Disturb
  /\ UNCHANGED <<full, ready, running, loop>>

RunEnds(k) ==
  /\ k \in running
  /\ running' = running \ {k}
  /\ UNCHANGED <<queue, full, ready, loop, deeds>>

----------------------------------------------------------------------------
(***************************************************************************)
(* The background pass.                                                    *)
(***************************************************************************)

\* requestReconcile, while no pass runs: a timer of its own replaces any other.
RequestedTimer == IF codex THEN "soon" ELSE timer

\* A push was delivered.
RequestReconcile ==
  /\ codex
  /\ requested' = TRUE
  /\ timer' = IF pass THEN timer ELSE RequestedTimer
  /\ Disturb
  /\ UNCHANGED <<queue, full, ready, running, codex, pass>>

\* runBackgroundReconcile: without Codex the timer is not set again.
PassTimer ==
  /\ timer # "none"
  /\ IF ~codex THEN timer' = "none" /\ UNCHANGED <<pass, requested>>
     ELSE IF pass THEN timer' = "interval" /\ UNCHANGED <<pass, requested>>
     ELSE timer' = "none" /\ pass' = TRUE /\ requested' = FALSE
  /\ UNCHANGED <<queue, full, ready, running, codex, deeds>>

\* The finally clause.  requestReconcile does nothing if Codex is down.
EndPass ==
  /\ pass' = FALSE
  /\ timer' = IF requested THEN RequestedTimer ELSE "interval"

Orders(S) == {s \in [1..Cardinality(S) -> S] : \A k \in S : \E i \in DOMAIN s : s[i] = k}

\* Mutant of QueueReady: what is ready is queued when the service starts only.
QueueNothing(q, order) == q

\* enqueueIssue for one issue after the other: those that are not queued yet
\* are appended.
QueueReady(q, order) ==
  LET fresh == At(order, {i \in DOMAIN order : order[i] \notin q.keys}) IN
  [q EXCEPT !.items = @ \o [i \in DOMAIN fresh |-> Entry(fresh[i], 0, FALSE)],
            !.keys = @ \cup ToSet(fresh),
            !.pending = @ \/ fresh # <<>>]

\* The active runs are reconciled, and what is ready is queued.
PassSucceeds ==
  /\ pass
  /\ \E order \in Orders(ready) : queue' = QueueReady(queue, order)
  /\ EndPass
  /\ UNCHANGED <<full, ready, running, codex, requested, deeds>>

\* It fails or times out, and the queue is left as it is.
PassFails ==
  /\ pass
  /\ EndPass
  /\ Disturb
  /\ UNCHANGED <<queue, full, ready, running, codex, requested>>

CodexDies ==
  /\ codex
  /\ codex' = FALSE
  /\ Disturb
  /\ UNCHANGED <<queue, full, ready, running, pass, requested, timer>>

\* A request other than a launch starts Codex again.
CodexStarts ==
  /\ ~codex
  /\ codex' = TRUE
  /\ UNCHANGED <<queue, full, ready, running, pass, requested, timer, deeds>>

----------------------------------------------------------------------------
\* start(), with whatever runs and tasks the process before it has left.
Init ==
  /\ running \in {S \in SUBSET Issues : Cardinality(S) <= MaxRuns}
  /\ ready \in SUBSET (Issues \ running)
  /\ \E order \in Orders(ready) : queue = QueueReady(EmptyQueue, order)
  /\ full = FALSE
  /\ codex = TRUE
  /\ pass = TRUE
  /\ requested = FALSE
  /\ timer = "none"
  /\ deeds = 0

Handle == StartDrain \/ TurnAway \/ Launch \/ Skip \/ Locked \/ Drop

Next ==
  \/ Handle
  \/ \E i \in 1..Cardinality(Issues) : Elapse(i) \/ RetryTimer(i)
  \/ \E k \in Issues : RunEnds(k)
  \/ \E k \in Issues, priority \in BOOLEAN :
       \/ WakeIdle(k, priority)
       \/ \E seen \in BOOLEAN : BecomeReady(k, seen, priority)
  \/ RequestReconcile \/ PassTimer \/ PassSucceeds \/ PassFails
  \/ CodexDies \/ CodexStarts

Spec == Init /\ [][Next]_vars

\* The event loop runs what is due, what is awaited answers, and runs end.
Fairness ==
  /\ WF_vars(Handle)
  /\ WF_vars(\E i \in 1..Cardinality(Issues) : Elapse(i))
  /\ \A i \in 1..Cardinality(Issues) : WF_vars(RetryTimer(i))
  /\ \A k \in Issues : WF_vars(RunEnds(k))
  /\ WF_vars(PassTimer)
  /\ WF_vars(PassSucceeds \/ PassFails)

FairSpec == Spec /\ Fairness

----------------------------------------------------------------------------
(***************************************************************************)
(* Properties.                                                             *)
(***************************************************************************)
QueueEntries == [key : Issues, attempt : 0..MaxAttempts, priority : BOOLEAN]
Delays == [entry : QueueEntries, promotable : BOOLEAN, due : BOOLEAN]
Queues == [items : Seq(QueueEntries), keys : SUBSET Issues, delayed : Seq(Delays),
           pending : BOOLEAN, working : QueueEntries \cup {NoEntry}]

TypeOK ==
  /\ queue \in Queues
  /\ full \in BOOLEAN
  /\ ready \in SUBSET Issues
  /\ running \in SUBSET Issues
  /\ {codex, pass, requested} \subseteq BOOLEAN
  /\ timer \in {"none", "soon", "interval"}
  /\ deeds \in 0..MaxDeeds

\* Every queued or delayed item is known by its key, once, and every key that
\* counts as queued has its item: no wake-up is swallowed for an item that is
\* not there (enqueueEntry returns early for a key in queuedKeys).
KeysMatchItems ==
  /\ queue.keys = KeysOf(queue.items) \cup DelayedKeys(queue)
  /\ Cardinality(queue.keys) = Len(queue.items) + Len(queue.delayed)
  /\ queue.items # <<>> => queue.pending

\* Never more runs than the limit, although the runs are counted when an issue
\* is handed out and claimed only later.
RunLimit == Cardinality(running) <= MaxRuns

\* Neither an urgent wake-up nor another timer shortens the wait for a locked
\* database ("does not shorten SQLite lock backoff when capacity timers fire").
BackoffIsKept ==
  [][\A d \in ToSet(queue.delayed) : ~d.promotable /\ ~d.due =>
       d.entry.key \in DelayedKeys(queue')]_vars

\* The timer fired while Codex was down: there is no pass any more.
LoopStopped == ~pass /\ timer = "none"

\* An issue that is ready is launched, or is not ready any more, unless the
\* passes have stopped and nobody has queued it.
ReadyIsServed ==
  \A k \in Issues : k \in ready ~> k \notin ready \/ (LoopStopped /\ k \notin queue.keys)
=============================================================================
