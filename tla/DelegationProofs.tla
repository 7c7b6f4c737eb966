-------------------------- MODULE DelegationProofs --------------------------
(***************************************************************************)
(* Theorems of Delegation, for any runs and any number of changes and      *)
(* faults: the types, that a run whose delegation was withdrawn is not     *)
(* published, and that PatchRelay's two notions of a delegation agree with *)
(* Linear.                                                                 *)
(***************************************************************************)
EXTENDS Delegation, SequenceTheorems, TLAPS

\* A run x under the log lg: it was claimed at an epoch that the log has reached,
\* and one that was revoked is not being finalized and is behind the log.
Sound(x, lg) ==
  /\ x.epoch <= lg.epoch
  /\ x.revoked => ~x.finalizing /\ 0 < x.epoch /\ x.epoch < lg.epoch

AllSound(rs, lg) ==
  /\ lg \in LogType
  /\ rs \in [Runs -> RunType]
  /\ \A r \in Runs : Sound(rs[r], lg)

World ==
  /\ live \in Delegates
  /\ mail \in Seq(MailType)

Counters ==
  /\ changes \in 0 .. MaxChanges
  /\ faults \in 0 .. MaxFaults
  /\ flaws \subseteq Flaws

Queues == {task, lease, queued} \subseteq BOOLEAN

\* A pass asks about a run.
PassOK == pass = NoPass \/ pass \in [run : Runs, asked : Delegates]

IInv ==
  /\ World
  /\ row \in RowType
  /\ AllSound(runs, log)
  /\ Queues
  /\ hook \in HookType
  /\ launch \in LaunchType
  /\ PassOK
  /\ recovery \in RecoveryType
  /\ Counters

Publishes ==
  row'.published /\ ~row.published =>
    \E r \in Runs : Live(r) /\ ~runs[r].revoked /\ runs'[r] = Unborn

Step == IInv' /\ Publishes

----------------------------------------------------------------------------
(***************************************************************************)
(* What the handlers write.                                                *)
(***************************************************************************)

LEMMA Idle ==
  /\ NoHook \in HookType
  /\ NoLaunch \in LaunchType
  /\ NoPass \in PassType
  /\ Off \in RecoveryType
  /\ Unborn \in RunType
BY DEF NoHook, NoLaunch, NoPass, Off, Unborn, HookType, LaunchType, PassType, RecoveryType,
  RunType, Delegates, Slots

LEMMA LogFields ==
  ASSUME NEW lg \in LogType
  PROVE  lg.epoch \in Nat /\ lg.last \in BOOLEAN
BY DEF LogType

LEMMA RunFields ==
  ASSUME NEW x \in RunType
  PROVE  x.epoch \in Nat /\ x.finalizing \in BOOLEAN /\ x.revoked \in BOOLEAN
BY DEF RunType

LEMMA RunUpdates ==
  ASSUME NEW x \in RunType, NEW b \in BOOLEAN
  PROVE  [x EXCEPT !.revoked = b] \in RunType /\ [x EXCEPT !.finalizing = b] \in RunType
BY DEF RunType

LEMMA Later ==
  ASSUME NEW rs, NEW lg, NEW lg1 \in LogType, AllSound(rs, lg), lg.epoch <= lg1.epoch
  PROVE  AllSound(rs, lg1)
<1> SUFFICES ASSUME NEW r \in Runs PROVE Sound(rs[r], lg1)
  BY DEF AllSound
<1>1. Sound(rs[r], lg) /\ rs[r].epoch \in Nat /\ lg.epoch \in Nat /\ lg1.epoch \in Nat
  BY LogFields, RunFields DEF AllSound
<1> QED BY <1>1 DEF Sound

LEMMA ObservedLog ==
  ASSUME log \in LogType, NEW d \in BOOLEAN
  PROVE  Observed(d) \in LogType /\ Observed(d).epoch = log.epoch + 1
BY DEF Observed, LogType

LEMMA RecoveredLog ==
  ASSUME log \in LogType, NEW d \in BOOLEAN, NEW to \in Delegates
  PROVE  /\ Recovered(d, to) \in LogType
         /\ Recovered(d, to) = log \/ Recovered(d, to).epoch = log.epoch + 1
         /\ log.epoch <= Recovered(d, to).epoch
<1>1. CASE <<d, to>> \in log.keys
  BY <1>1, LogFields DEF Recovered
<1>2. CASE <<d, to>> \notin log.keys
  <2> DEFINE keys == log.keys \cup {<<d, to>>}
  <2>1. Recovered(d, to) = [epoch |-> log.epoch + 1, last |-> d, keys |-> keys]
    BY <1>2 DEF Recovered
  <2>2. log.epoch \in Nat /\ keys \in SUBSET Keys
    BY DEF LogType, Keys
  <2> HIDE DEF keys
  <2> QED BY <2>1, <2>2 DEF LogType
<1> QED BY <1>1, <1>2

LEMMA FinishedSound ==
  ASSUME AllSound(runs, log), NEW r
  PROVE  AllSound(Finished(r), log)
<1> DEFINE x == [Unborn EXCEPT !.finalizing = runs[r].finalizing]
<1>1. Finished(r) = [runs EXCEPT ![r] = x]
  BY DEF Finished
<1>2. ASSUME r \in Runs PROVE x \in RunType /\ Sound(x, log)
  <2>1. x \in RunType
    BY <1>2, RunFields, RunUpdates, Idle DEF AllSound
  <2>2. x.epoch = 0 /\ x.revoked = FALSE /\ log.epoch \in Nat
    BY LogFields DEF Unborn, AllSound
  <2> QED BY <2>1, <2>2 DEF Sound
<1> QED BY <1>1, <1>2 DEF AllSound

LEMMA RevokedSound ==
  ASSUME NEW rs, NEW lg, NEW lg1 \in LogType, AllSound(rs, lg), lg1.epoch = lg.epoch + 1
  PROVE  AllSound(Revoked(rs), lg1)
<1> DEFINE hit(q) == rs[q].revoked \/ (rs[q].status # "none" /\ rs[q].epoch > 0
                                        /\ ~rs[q].finalizing)
<1>1. Revoked(rs) = [q \in Runs |-> [rs[q] EXCEPT !.revoked = hit(q)]]
  BY DEF Revoked
<1>2. \A q \in Runs : hit(q) \in BOOLEAN
  BY RunFields DEF AllSound
<1> HIDE DEF hit
<1>3. ASSUME NEW q \in Runs PROVE Revoked(rs)[q] \in RunType
  <2>1. rs[q] \in RunType /\ hit(q) \in BOOLEAN
    BY <1>2 DEF AllSound
  <2>2. [rs[q] EXCEPT !.revoked = hit(q)] \in RunType
    BY <2>1, RunUpdates
  <2> QED BY <1>1, <2>2
<1>4. ASSUME NEW q \in Runs PROVE Sound(Revoked(rs)[q], lg1)
  <2>1. /\ Sound(rs[q], lg) /\ rs[q] \in RunType
        /\ rs[q].epoch \in Nat /\ lg.epoch \in Nat
    BY LogFields, RunFields DEF AllSound
  <2>2. /\ Revoked(rs)[q].epoch = rs[q].epoch
        /\ Revoked(rs)[q].finalizing = rs[q].finalizing
        /\ Revoked(rs)[q].revoked = hit(q)
    BY <1>1, <2>1 DEF RunType
  <2>3. hit(q) => ~rs[q].finalizing /\ 0 < rs[q].epoch
    BY <2>1 DEF hit, Sound
  <2> QED BY <2>1, <2>2, <2>3 DEF Sound
<1> QED BY <1>1, <1>3, <1>4 DEF AllSound

\* One run is rewritten.
LEMMA RewrittenSound ==
  ASSUME AllSound(runs, log), NEW r, NEW x \in RunType, Sound(x, log)
  PROVE  AllSound([runs EXCEPT ![r] = x], log)
BY DEF AllSound

LEMMA Booleans ==
  ASSUME NEW bit, NEW i, NEW lg, NEW rs
  PROVE  Opens(bit, i, lg, rs) \in BOOLEAN /\ OpensDetached(i, lg, rs) \in BOOLEAN
BY DEF Opens, OpensDetached

LEMMA DispatchQueues ==
  ASSUME Queues, NEW i, NEW rs, Dispatch(i, rs)
  PROVE  Queues'
BY Booleans DEF Queues, Dispatch

\* A row that takes another slot or bit is a row, and as published as before.
LEMMA RowUpdates ==
  ASSUME NEW i \in RowType, NEW s \in Slots
  PROVE  /\ [i EXCEPT !.slot = s] \in RowType
         /\ [i EXCEPT !.slot = s].published = i.published
         /\ i.slot \in Slots
BY DEF RowType

LEMMA BitUpdates ==
  ASSUME NEW i \in RowType, NEW b \in BOOLEAN
  PROVE  /\ [i EXCEPT !.delegated = b] \in RowType
         /\ [i EXCEPT !.delegated = b].published = i.published
BY DEF RowType

\* A row that is no more published than it was.
SameRow(i) == i \in RowType /\ i.published = row.published

LEMMA Unpublished ==
  ASSUME IInv', SameRow(row')
  PROVE  Step
BY DEF SameRow, Step, Publishes

----------------------------------------------------------------------------
(***************************************************************************)
(* People and the webhook handler.                                         *)
(***************************************************************************)

LEMMA PeopleStep ==
  ASSUME IInv, People
  PROVE  Step
<1>1. live' \in Delegates /\ mail' \in Seq(MailType) /\ changes' \in 0 .. MaxChanges
  <2>1. CASE Edit
    <3>1. [delegate |-> live, explicit |-> FALSE] \in MailType
      BY DEF IInv, World, MailType
    <3> QED BY <2>1, <3>1, DelegationAssumption DEF Edit, IInv, World, Counters
  <2>2. ASSUME NEW d \in Delegates, Delegate(d)
        PROVE  live' \in Delegates /\ mail' \in Seq(MailType) /\ changes' \in 0 .. MaxChanges
    <3>1. [delegate |-> d, explicit |-> TRUE] \in MailType
      BY DEF MailType
    <3> QED BY <2>2, <3>1, DelegationAssumption DEF Delegate, IInv, World, Counters
  <2> QED BY <2>1, <2>2 DEF People
<1>2. UNCHANGED <<stored, process, faults, flaws>>
  BY DEF People, Edit, Delegate
<1>3. IInv'
  BY <1>1, <1>2 DEF IInv, World, Counters, PassOK, stored, process, AllSound, Sound, Queues
<1> QED BY <1>2, <1>3 DEF stored, IInv, SameRow, Step, Publishes

LEMMA TakeStep ==
  ASSUME IInv, Take
  PROVE  Step
<1>1. Head(mail) \in MailType /\ Tail(mail) \in Seq(MailType)
  BY DEF Take, IInv, World
<1>2. hook' \in HookType
  <2> DEFINE dd == Head(mail).delegate
  <2> DEFINE ee == Head(mail).explicit
  <2>1. dd \in Delegates /\ ee \in BOOLEAN /\ live \in Delegates
    BY <1>1 DEF MailType, IInv, World
  <2>2. hook' = [pc |-> "loading", delegate |-> dd, explicit |-> ee, asked |-> live,
                 was |-> FALSE, run |-> NoRun, turn |-> FALSE]
    BY DEF Take, NoHook
  <2> HIDE DEF dd, ee
  <2> QED BY <2>1, <2>2 DEF HookType, Slots
<1>3. IInv'
  BY <1>1, <1>2 DEF Take, IInv, World, Counters, PassOK, stored, AllSound, Sound, Queues
<1> QED BY <1>3 DEF Take, stored, IInv, Step, Publishes

\* What a step of the webhook handler leaves behind.
Handled ==
  /\ SameRow(row')
  /\ AllSound(runs', log')
  /\ Queues'
  /\ hook' \in HookType

LEMMA HookFields ==
  ASSUME NEW h \in HookType
  PROVE  /\ h.delegate \in Delegates /\ h.asked \in Delegates /\ h.run \in Slots
         /\ {h.explicit, h.was, h.turn} \subseteq BOOLEAN
BY DEF HookType

LEMMA HookUpdates ==
  ASSUME NEW h \in HookType, NEW pc \in {"syncing", "stopping"}, NEW b \in BOOLEAN,
         NEW t \in BOOLEAN, NEW r \in Slots, NEW a \in Delegates
  PROVE  /\ [h EXCEPT !.pc = pc, !.was = b, !.run = r, !.turn = t] \in HookType
         /\ [h EXCEPT !.pc = pc, !.asked = a, !.was = b, !.run = r, !.turn = t] \in HookType
<1> DEFINE g == [h EXCEPT !.pc = pc, !.was = b]
<1> DEFINE f == [g EXCEPT !.run = r, !.turn = t]
<1>1. g \in HookType
  BY DEF HookType
<1>2. f \in HookType
  BY <1>1 DEF HookType
<1>3. [f EXCEPT !.asked = a] \in HookType
  BY <1>2 DEF HookType
<1>4. [h EXCEPT !.pc = pc, !.was = b, !.run = r, !.turn = t] = f
  BY DEF HookType
<1>5. [h EXCEPT !.pc = pc, !.asked = a, !.was = b, !.run = r, !.turn = t] = [f EXCEPT !.asked = a]
  BY DEF HookType
<1> QED BY <1>2, <1>3, <1>4, <1>5

LEMMA Untouched ==
  ASSUME IInv, UNCHANGED <<row, task, runs, lease, queued>>
  PROVE  /\ SameRow(row')
         /\ Queues'
         /\ AllSound(runs', log)
BY DEF IInv, SameRow, Queues

LEMMA IgnoreHandled ==
  ASSUME IInv, Ignore
  PROVE  Handled
<1>1. /\ log' = (IF hook.explicit THEN Observed(FALSE) ELSE log)
      /\ hook' = NoHook
      /\ UNCHANGED <<row, task, runs, lease, queued>>
  BY DEF Ignore
<1>2. SameRow(row') /\ Queues' /\ AllSound(runs', log)
  BY <1>1, Untouched
<1>3. log \in LogType
  BY DEF IInv, AllSound
<1>4. log' \in LogType /\ log.epoch <= log'.epoch
  <2>1. log.epoch \in Nat
    BY <1>3, LogFields
  <2> DEFINE seen == Observed(FALSE)
  <2>2. seen \in LogType /\ seen.epoch = log.epoch + 1
    BY <1>3, ObservedLog
  <2>3. CASE hook.explicit
    <3>1. log' = seen
      BY <1>1, <2>3
    <3> HIDE DEF seen
    <3> QED BY <3>1, <2>1, <2>2
  <2>4. CASE ~hook.explicit
    <3>1. log' = log
      BY <1>1, <2>4
    <3> QED BY <3>1, <1>3, <2>1
  <2> QED BY <2>3, <2>4
<1> QED BY <1>1, <1>2, <1>3, <1>4, Later, Idle DEF Handled

LEMMA RecordHandled ==
  ASSUME IInv, NEW was \in BOOLEAN, NEW r, NEW d \in BOOLEAN, NEW released \in BOOLEAN,
         Record(was, r, d, released)
  PROVE  Handled
<1> DEFINE row0 == [row EXCEPT !.known = TRUE, !.delegated = d]
<1> DEFINE row1 == [row EXCEPT !.known = TRUE, !.delegated = d,
                               !.slot = IF released THEN NoRun ELSE @]
<1> DEFINE runs1 == IF released THEN Finished(r) ELSE runs
<1> DEFINE log1 == IF hook.explicit THEN Observed(d) ELSE log
<1>1. /\ row' = row1
      /\ log' = log1
      /\ runs' = IF hook.explicit /\ ~d THEN Revoked(runs1) ELSE runs1
      /\ lease' = (lease /\ ~((was /\ ~d) /\ (released \/ r = NoRun)))
      /\ task' = Opens(d, row1, log1, runs1)
      /\ queued' = (queued \/ (task' /\ row1.slot = NoRun))
      /\ hook' = NoHook
  BY DEF Record
<1>2. SameRow(row1)
  <2>1. row \in RowType /\ row.slot \in Slots /\ NoRun \in Slots
    BY RowUpdates DEF IInv, Slots
  <2>2. row0 \in RowType /\ row0.published = row.published /\ row0.slot = row.slot
    BY <2>1 DEF RowType
  <2>3. row1 = [row0 EXCEPT !.slot = IF released THEN NoRun ELSE row.slot]
    BY <2>1 DEF RowType
  <2> DEFINE s == IF released THEN NoRun ELSE row.slot
  <2>4. s \in Slots
    BY <2>1
  <2>5. row1 = [row0 EXCEPT !.slot = s]
    BY <2>3
  <2> HIDE DEF s, row0, row1
  <2> QED BY <2>2, <2>4, <2>5, RowUpdates DEF SameRow
<1> HIDE DEF row0, row1
<1>3. AllSound(runs1, log) /\ log \in LogType
  BY FinishedSound DEF IInv, AllSound
<1> HIDE DEF runs1
<1>4. AllSound(runs', log')
  <2>1. CASE ~hook.explicit
    BY <2>1, <1>1, <1>3
  <2>2. CASE hook.explicit
    <3>1. log' \in LogType /\ log'.epoch = log.epoch + 1 /\ log.epoch <= log'.epoch
      BY <2>2, <1>1, <1>3, ObservedLog, LogFields
    <3>2. CASE ~d
      BY <3>1, <3>2, <2>2, <1>1, <1>3, RevokedSound
    <3>3. CASE d
      BY <3>1, <3>3, <2>2, <1>1, <1>3, Later
    <3> QED BY <3>2, <3>3
  <2> QED BY <2>1, <2>2
<1>5. Queues'
  <2>1. {task', lease', queued'} \subseteq BOOLEAN
    BY <1>1, Booleans DEF IInv, Queues
  <2> QED BY <2>1 DEF Queues
<1> QED BY <1>1, <1>2, <1>4, <1>5, Idle DEF Handled

LEMMA DecideHandled ==
  ASSUME IInv, NEW was \in BOOLEAN, NEW r \in Slots, NEW turn \in BOOLEAN, NEW d \in BOOLEAN,
         Decide(was, r, turn, d)
  PROVE  Handled
<1> DEFINE release == r # NoRun /\ was /\ ~d
<1>1. CASE release /\ turn
  <2>1. /\ hook' = [hook EXCEPT !.pc = "stopping", !.was = was, !.run = r, !.turn = turn]
        /\ UNCHANGED <<stored, queued>>
    BY <1>1 DEF Decide
  <2>2. UNCHANGED <<row, log, task, runs, lease, queued>>
    BY <2>1 DEF stored
  <2>3. hook' \in HookType
    BY <2>1, HookUpdates DEF IInv, World
  <2> QED BY <2>2, <2>3, Untouched DEF Handled
<1>2. CASE ~(release /\ turn)
  <2>1. Record(was, r, d, release) /\ release \in BOOLEAN
    BY <1>2 DEF Decide
  <2> QED BY <2>1, RecordHandled
<1> QED BY <1>1, <1>2

LEMMA Delegated ==
  ASSUME IInv, NEW v \in Delegates
  PROVE  Merged(v) \in Delegates
BY HookFields DEF IInv, Merged

LEMMA AnswersTyped ==
  ASSUME IInv, NEW a \in Delegates
  PROVE  Answers(a) \subseteq Delegates
BY DEF IInv, World, Answers

LEMMA FailCounts ==
  ASSUME IInv, Fail
  PROVE  faults' \in 0 .. MaxFaults
BY DelegationAssumption DEF IInv, Counters, Fail

LEMMA ToldFlaws ==
  ASSUME IInv, Told
  PROVE  flaws' \subseteq Flaws
BY DEF IInv, Counters, Told

\* The handler writes row, log, runs and queues; people, passes and recovery wait.
LEMMA HandledStep ==
  ASSUME IInv, Handled, UNCHANGED <<world, launch, pass, recovery, changes>>,
         faults' \in 0 .. MaxFaults, flaws' \subseteq Flaws
  PROVE  Step
<1>1. IInv'
  BY DEF IInv, Handled, World, world, Counters, PassOK, SameRow
<1> QED BY <1>1, Unpublished DEF Handled

LEMMA LoadStep ==
  ASSUME IInv, Load \/ LoadFails
  PROVE  Step
<1>1. /\ {row.delegated, Turning(row.slot)} \subseteq BOOLEAN /\ row.slot \in Slots
      /\ hook.delegate \in Delegates /\ hook.asked \in Delegates /\ hook \in HookType
      /\ live \in Delegates
  <2>1. row.delegated \in BOOLEAN /\ row.slot \in Slots
    BY DEF IInv, RowType
  <2>2. Turning(row.slot) \in BOOLEAN
    BY DEF Turning
  <2> QED BY <2>1, <2>2, HookFields DEF IInv, World
<1>2. CASE Load
  <2>1. PICK v \in Answers(hook.asked) :
          IF Ignored(Merged(v))
            THEN Ignore
            ELSE Decide(row.delegated, row.slot, Turning(row.slot),
                        IF Merged(v) = "none" /\ ~hook.explicit THEN row.delegated
                                                                ELSE Merged(v) = "us")
    BY <1>2 DEF Load
  <2>2. Handled
    <3> DEFINE d == IF Merged(v) = "none" /\ ~hook.explicit THEN row.delegated
                                                            ELSE Merged(v) = "us"
    <3>1. d \in BOOLEAN
      BY <1>1
    <3>2. CASE Ignored(Merged(v))
      BY <2>1, <3>2, IgnoreHandled
    <3>3. CASE ~Ignored(Merged(v))
      <4>1. Decide(row.delegated, row.slot, Turning(row.slot), d)
        BY <2>1, <3>3
      <4> HIDE DEF d
      <4> QED BY <4>1, <3>1, <1>1, DecideHandled
    <3> QED BY <3>2, <3>3
  <2> QED BY <1>2, <2>2, ToldFlaws, HandledStep DEF Load, IInv, Counters
<1>3. CASE LoadFails
  <2>1. Handled
    <3>1. CASE Ignored(hook.delegate)
      BY <1>3, <3>1, IgnoreHandled DEF LoadFails
    <3>2. CASE ~Ignored(hook.delegate)
      <4>1. /\ hook' = [hook EXCEPT !.pc = "syncing", !.asked = live, !.was = row.delegated,
                                    !.run = row.slot, !.turn = Turning(row.slot)]
            /\ UNCHANGED <<row, log, task, runs, lease, queued>>
        BY <1>3, <3>2 DEF LoadFails, stored
      <4>2. hook' \in HookType
        BY <4>1, <1>1, HookUpdates
      <4> QED BY <4>1, <4>2, Untouched DEF Handled
    <3> QED BY <3>1, <3>2
  <2> QED BY <1>3, <2>1, ToldFlaws, HandledStep, FailCounts DEF LoadFails
<1> QED BY <1>2, <1>3

LEMMA SyncStep ==
  ASSUME IInv, Sync \/ SyncFails
  PROVE  Step
<1>1. /\ {hook.was, hook.turn, hook.explicit} \subseteq BOOLEAN /\ hook.run \in Slots
      /\ hook.delegate \in Delegates
  BY HookFields DEF IInv
<1>2. CASE Sync
  <2>1. PICK v \in Answers(hook.asked) : Decide(hook.was, hook.run, hook.turn, Merged(v) = "us")
    BY <1>2 DEF Sync
  <2>2. (Merged(v) = "us") \in BOOLEAN
    OBVIOUS
  <2>3. Handled
    BY <1>1, <2>1, <2>2, DecideHandled
  <2> QED BY <1>2, <2>3, ToldFlaws, HandledStep DEF Sync, IInv, Counters
<1>3. CASE SyncFails
  <2> DEFINE d == IF hook.delegate = "none" /\ ~hook.explicit THEN hook.was
                                                             ELSE hook.delegate = "us"
  <2>1. d \in BOOLEAN /\ Decide(hook.was, hook.run, hook.turn, d)
    BY <1>1, <1>3 DEF SyncFails
  <2> HIDE DEF d
  <2>2. Handled
    BY <1>1, <2>1, DecideHandled
  <2>3. flaws' \subseteq Flaws
    BY <1>3, ToldFlaws DEF SyncFails, IInv, Counters, Flaws
  <2> QED BY <1>3, <2>2, <2>3, HandledStep, FailCounts DEF SyncFails
<1> QED BY <1>2, <1>3

LEMMA StopStep ==
  ASSUME IInv, Stop \/ StopFails
  PROVE  Step
<1>1. CASE Stop
  BY <1>1, RecordHandled, ToldFlaws, HandledStep DEF Stop, IInv, Counters
<1>2. CASE StopFails
  BY <1>2, RecordHandled, ToldFlaws, HandledStep, FailCounts DEF StopFails
<1> QED BY <1>1, <1>2

----------------------------------------------------------------------------
(***************************************************************************)
(* Launch, completion and the background pass.                             *)
(***************************************************************************)

\* Everything but row, runs, queues and the handler concerned waits.
LEMMA DequeueStep ==
  ASSUME IInv, Dequeue
  PROVE  Step
<1>1. launch' \in LaunchType /\ Queues'
  <2>1. CASE row.known /\ row.slot = NoRun /\ ~lease
    <3>1. /\ task' = (task \/ Opens(row.delegated, row, log, runs))
          /\ lease' = task'
          /\ queued' = FALSE
      BY <2>1 DEF Dequeue
    <3>2. Queues'
      BY <3>1, Booleans DEF IInv, Queues
    <3>3. row.delegated \in BOOLEAN
      BY DEF IInv, RowType
    <3>4. launch' \in LaunchType
      <4> DEFINE b == row.delegated
      <4>1. launch' = IF task' THEN [pc |-> "preparing", early |-> b, run |-> NoRun]
                               ELSE NoLaunch
        BY <2>1 DEF Dequeue, NoLaunch
      <4>2. b \in BOOLEAN
        BY <3>3
      <4> HIDE DEF b
      <4> QED BY <4>1, <4>2, Idle DEF LaunchType, Slots
    <3> QED BY <3>2, <3>4
  <2>2. CASE ~(row.known /\ row.slot = NoRun /\ ~lease)
    BY <2>2 DEF Dequeue, IInv, Queues
  <2> QED BY <2>1, <2>2
<1>2. UNCHANGED <<world, row, log, runs, hook, pass, recovery, changes, faults, flaws>>
  BY DEF Dequeue
<1>3. IInv' /\ SameRow(row')
  BY <1>1, <1>2 DEF IInv, World, world, Counters, PassOK, SameRow
<1> QED BY <1>3, Unpublished

\* A run that is claimed has the epoch of the log.
LEMMA ClaimStep ==
  ASSUME IInv, Claim
  PROVE  Step
<1> DEFINE opened == Opens(launch.early, row, log, runs)
<1> DEFINE claims == lease /\ row.slot = NoRun /\ (opened \/ Opens(row.delegated, row, log, runs))
<1>1. UNCHANGED <<world, log, hook, queued, pass, recovery, changes, faults, flaws>>
  BY DEF Claim
<1>2. /\ AllSound(runs', log)
      /\ SameRow(row')
      /\ launch' \in LaunchType
      /\ Queues'
  <2>1. CASE claims
    <3>1. PICK r \in Runs :
            /\ Unused(r)
            /\ runs' = [runs EXCEPT ![r].status = "queued", ![r].epoch = log.epoch]
            /\ row' = [row EXCEPT !.slot = r]
            /\ task' = FALSE
            /\ launch' = [launch EXCEPT !.pc = "launching", !.early = FALSE, !.run = r]
            /\ UNCHANGED lease
      BY <2>1 DEF Claim
    <3>2. runs[r] = Unborn /\ r \in Slots
      BY <3>1 DEF Unused, Slots
    <3> DEFINE x == [runs[r] EXCEPT !.status = "queued", !.epoch = log.epoch]
    <3>3. runs' = [runs EXCEPT ![r] = x]
      BY <3>1 DEF IInv, AllSound
    <3>4. x \in RunType /\ Sound(x, log)
      <4>1. log.epoch \in Nat /\ runs[r] \in RunType
        BY LogFields DEF IInv, AllSound
      <4>2. x \in RunType /\ x.epoch = log.epoch /\ x.revoked = runs[r].revoked
        BY <4>1 DEF RunType
      <4>3. runs[r].revoked = FALSE
        BY <3>2 DEF Unborn
      <4> HIDE DEF x
      <4> QED BY <4>1, <4>2, <4>3 DEF Sound
    <3> HIDE DEF x
    <3>5. AllSound(runs', log)
      BY <3>3, <3>4, RewrittenSound DEF IInv
    <3>6. SameRow(row')
      BY <3>1, <3>2, RowUpdates DEF IInv, SameRow
    <3>7. launch' \in LaunchType
      BY <3>1, <3>2 DEF IInv, LaunchType
    <3>8. Queues'
      BY <3>1, <1>1 DEF IInv, Queues
    <3> QED BY <3>5, <3>6, <3>7, <3>8
  <2>2. CASE ~claims
    <3>1. task' = opened /\ lease' = FALSE /\ launch' = NoLaunch /\ UNCHANGED <<row, runs>>
      BY <2>2 DEF Claim
    <3>2. Queues'
      BY <3>1, <1>1, Booleans DEF IInv, Queues
    <3> QED BY <3>1, <3>2, Idle DEF IInv, SameRow
  <2> QED BY <2>1, <2>2
<1>3. IInv'
  BY <1>1, <1>2 DEF IInv, World, world, Counters, PassOK, SameRow
<1> QED BY <1>2, <1>3, Unpublished

LEMMA TurnUpdates ==
  ASSUME NEW x \in RunType, NEW t \in {"running", "done"}
  PROVE  /\ [x EXCEPT !.turn = t] \in RunType
         /\ [x EXCEPT !.status = "running", !.turn = t] \in RunType
         /\ \A lg : Sound(x, lg) => /\ Sound([x EXCEPT !.turn = t], lg)
                                    /\ Sound([x EXCEPT !.status = "running", !.turn = t], lg)
BY DEF RunType, Sound

\* A turn starts or ends: nothing else of the run changes.
LEMMA TurnStep ==
  ASSUME IInv, Start \/ \E r \in Runs : EndTurn(r)
  PROVE  Step
<1>1. AllSound(runs', log)
  <2>1. runs \in [Runs -> RunType]
    BY DEF IInv, AllSound
  <2>2. CASE Start
    <3> DEFINE r == launch.run
    <3> DEFINE x == [runs[r] EXCEPT !.status = "running", !.turn = "running"]
    <3>1. CASE r \in Runs /\ lease /\ Live(r)
      <4>1. runs' = [runs EXCEPT ![r] = x]
        BY <2>1, <2>2, <3>1 DEF Start
      <4>2. x \in RunType /\ Sound(x, log)
        BY <2>1, <3>1, TurnUpdates DEF IInv, AllSound
      <4> HIDE DEF x
      <4> QED BY <4>1, <4>2, RewrittenSound DEF IInv
    <3>2. CASE r \notin Runs \/ ~(lease /\ Live(r))
      <4>1. runs' = runs
        BY <2>1, <2>2, <3>2 DEF Start
      <4> QED BY <4>1 DEF IInv
    <3> QED BY <3>1, <3>2
  <2>3. ASSUME NEW r \in Runs, EndTurn(r) PROVE AllSound(runs', log)
    <3> DEFINE x == [runs[r] EXCEPT !.turn = "done"]
    <3>1. runs' = [runs EXCEPT ![r] = x]
      BY <2>1, <2>3 DEF EndTurn
    <3>2. x \in RunType /\ Sound(x, log)
      BY <2>1, TurnUpdates DEF IInv, AllSound
    <3> HIDE DEF x
    <3> QED BY <3>1, <3>2, RewrittenSound DEF IInv
  <2> QED BY <2>2, <2>3
<1>2. /\ launch' \in LaunchType
      /\ UNCHANGED <<world, row, log, task, lease, hook, queued, pass, recovery, changes, faults,
                     flaws>>
  BY Idle DEF Start, EndTurn, process, IInv
<1>3. IInv' /\ SameRow(row')
  BY <1>1, <1>2 DEF IInv, World, world, Counters, PassOK, SameRow, Queues
<1> QED BY <1>3, Unpublished

\* The run that is rewritten, or none, and a row as published as before.
Ends == SameRow(row') /\ AllSound(runs', log) /\ Queues'

\* A revoked run is behind the log, and so is not taken to the end.
LEMMA FinalizeEnds ==
  ASSUME IInv, NEW r \in Runs, NEW i, SameRow(i), Finalize(r, i)
  PROVE  Ends
<1>1. CASE Suppressed(r)
  <2>1. row' = [i EXCEPT !.slot = NoRun] /\ runs' = Finished(r) /\ Dispatch(row', runs')
    BY <1>1 DEF Finalize
  <2>2. SameRow(row')
    BY <2>1, RowUpdates DEF SameRow, Slots
  <2> QED BY <2>1, <2>2, FinishedSound, DispatchQueues DEF Ends, IInv
<1>2. CASE ~Suppressed(r)
  <2> DEFINE x == [runs[r] EXCEPT !.finalizing = TRUE]
  <2>1. /\ runs[r] \in RunType /\ Sound(runs[r], log) /\ runs[r].epoch \in Nat
        /\ log.epoch \in Nat
    BY LogFields, RunFields DEF IInv, AllSound
  <2>2. runs[r].revoked = FALSE
    BY <1>2, <2>1, RunFields DEF Suppressed, Sound
  <2>3. x \in RunType /\ x.epoch = runs[r].epoch /\ x.revoked = FALSE
    BY <2>1, <2>2, RunUpdates DEF RunType
  <2>4. runs' = [runs EXCEPT ![r] = x]
    BY <1>2 DEF Finalize, IInv, AllSound
  <2> HIDE DEF x
  <2>5. Sound(x, log)
    BY <2>1, <2>3 DEF Sound
  <2>6. row' = i /\ lease' = TRUE /\ UNCHANGED <<task, queued>>
    BY <1>2 DEF Finalize
  <2> QED BY <2>3, <2>4, <2>5, <2>6, RewrittenSound DEF Ends, IInv, Queues
<1> QED BY <1>1, <1>2

LEMMA EndsStep ==
  ASSUME IInv, Ends, PassOK', faults' \in 0 .. MaxFaults, flaws' \subseteq Flaws,
         UNCHANGED <<world, log, hook, launch, recovery, changes>>
  PROVE  Step
<1>1. IInv'
  BY DEF IInv, Ends, World, world, Counters, PassOK, SameRow
<1> QED BY <1>1, Unpublished DEF Ends

LEMMA CompleteStep ==
  ASSUME IInv, NEW r \in Runs, Complete(r)
  PROVE  Step
<1>1. Ends
  BY FinalizeEnds DEF Complete, IInv, SameRow
<1> QED BY <1>1, EndsStep DEF Complete, IInv, Counters, PassOK

\* The one step that publishes.
LEMMA SettleStep ==
  ASSUME IInv, NEW r \in Runs, Settle(r)
  PROVE  Step
<1>1. UNCHANGED <<world, log, hook, launch, pass, recovery, changes, faults, flaws>>
  BY DEF Settle
<1>2. Queues'
  BY DispatchQueues DEF IInv, Settle
<1>3. runs[r] \in RunType /\ Sound(runs[r], log) /\ runs[r].finalizing
  BY DEF IInv, AllSound, Settle
<1>4. CASE lease /\ Live(r)
  <2>1. /\ runs' = [runs EXCEPT ![r] = Unborn]
        /\ row' = [row EXCEPT !.published = TRUE, !.slot = IF @ = r THEN NoRun ELSE @]
    BY <1>4 DEF Settle
  <2>2. Sound(Unborn, log)
    BY LogFields DEF IInv, AllSound, Sound, Unborn
  <2>3. AllSound(runs', log) /\ runs'[r] = Unborn
    BY <2>1, <2>2, Idle, RewrittenSound DEF IInv, AllSound
  <2>4. row' \in RowType
    BY <2>1 DEF IInv, RowType, Slots
  <2>5. ~runs[r].revoked
    BY <1>3, RunFields DEF Sound
  <2>6. IInv'
    BY <1>1, <1>2, <2>3, <2>4 DEF IInv, World, world, Counters, PassOK
  <2> QED BY <1>4, <2>3, <2>5, <2>6 DEF Step, Publishes
<1>5. CASE ~(lease /\ Live(r))
  <2> DEFINE x == [runs[r] EXCEPT !.finalizing = FALSE]
  <2>1. runs' = [runs EXCEPT ![r] = x] /\ UNCHANGED row
    BY <1>5 DEF Settle, IInv, AllSound
  <2>2. x \in RunType /\ x.epoch = runs[r].epoch /\ x.revoked = runs[r].revoked
        /\ x.finalizing = FALSE
    BY <1>3, RunUpdates DEF RunType
  <2> HIDE DEF x
  <2>3. Sound(x, log)
    BY <1>3, <2>2 DEF Sound
  <2>4. Ends
    BY <1>2, <2>1, <2>2, <2>3, RewrittenSound DEF Ends, IInv, SameRow
  <2> QED BY <1>1, <2>4, EndsStep DEF IInv, Counters, PassOK
<1> QED BY <1>4, <1>5

LEMMA InspectEnds ==
  ASSUME IInv, NEW r \in Runs, NEW i, SameRow(i), Inspect(r, i)
  PROVE  Ends
<1>1. CASE ~Live(r) \/ runs[r].finalizing \/ launch.run = r \/ runs[r].turn = "running"
  <2>1. row' = i /\ UNCHANGED <<runs, task, queued, lease>>
    BY <1>1 DEF Inspect
  <2> QED BY <2>1 DEF Ends, IInv, Queues
<1>2. CASE ~(~Live(r) \/ runs[r].finalizing \/ launch.run = r \/ runs[r].turn = "running")
  <2>1. runs[r].turn \in {"none", "done"}
    BY <1>2 DEF IInv, AllSound, RunType
  <2>2. CASE runs[r].turn = "none"
    <3> DEFINE s == IF i.slot = r THEN NoRun ELSE i.slot
    <3>1. runs' = Finished(r) /\ row' = [i EXCEPT !.slot = s] /\ Dispatch(row', runs')
      BY <1>2, <2>2 DEF Inspect
    <3>2. s \in Slots
      BY RowUpdates DEF SameRow, Slots
    <3> HIDE DEF s
    <3>3. SameRow(row')
      BY <3>1, <3>2, RowUpdates DEF SameRow
    <3> QED BY <3>1, <3>3, FinishedSound, DispatchQueues DEF Ends, IInv
  <2>3. CASE runs[r].turn = "done"
    <3>1. Finalize(r, i)
      BY <1>2, <2>3 DEF Inspect
    <3> QED BY <3>1, FinalizeEnds
  <2> QED BY <2>1, <2>2, <2>3
<1> QED BY <1>1, <1>2

LEMMA VisitStep ==
  ASSUME IInv, NEW r \in Runs, Visit(r)
  PROVE  Step
<1> DEFINE i == [row EXCEPT !.slot = r]
<1>1. SameRow(i)
  BY RowUpdates DEF IInv, SameRow, Slots
<1>2. CASE row.delegated
  <2>1. Inspect(r, i) /\ UNCHANGED pass
    BY <1>2 DEF Visit
  <2> HIDE DEF i
  <2> QED BY <1>1, <2>1, InspectEnds, EndsStep DEF Visit, IInv, Counters, PassOK
<1>3. CASE ~row.delegated
  <2>1. /\ pass' = [run |-> r, asked |-> live]
        /\ row' = i /\ lease' = TRUE /\ UNCHANGED <<runs, task, queued>>
    BY <1>3 DEF Visit
  <2>2. PassOK'
    BY <2>1 DEF PassOK, IInv, World
  <2>3. Ends
    BY <1>1, <2>1 DEF Ends, IInv, Queues
  <2> QED BY <2>2, <2>3, EndsStep DEF Visit, IInv, Counters
<1> QED BY <1>2, <1>3

LEMMA ConfirmStep ==
  ASSUME IInv, Confirm \/ ConfirmFails
  PROVE  Step
<1>1. PassOK' /\ pass.run \in Runs /\ pass.asked \in Delegates
  BY DEF Confirm, ConfirmFails, IInv, PassOK
<1>2. row \in RowType /\ row.delegated \in BOOLEAN /\ lease \in BOOLEAN
  BY DEF IInv, RowType, Queues
<1>3. CASE Confirm
  <2>1. PICK v \in Answers(pass.asked) :
          /\ IF v = "us"
               THEN Inspect(pass.run, [row EXCEPT !.delegated = lease \/ @])
               ELSE /\ row' = IF lease THEN [row EXCEPT !.slot = NoRun, !.delegated = FALSE]
                                       ELSE row
                    /\ runs' = IF lease THEN Finished(pass.run) ELSE runs
                    /\ lease' = FALSE
                    /\ UNCHANGED <<task, queued>>
          /\ flaws' = IF v = live THEN flaws ELSE flaws \cup {"crossed"}
    BY <1>3 DEF Confirm
  <2>2. flaws' \subseteq Flaws
    BY <2>1 DEF IInv, Counters, Flaws
  <2>3. CASE v = "us"
    <3> DEFINE b == lease \/ row.delegated
    <3> DEFINE i == [row EXCEPT !.delegated = b]
    <3>1. Inspect(pass.run, i) /\ b \in BOOLEAN
      BY <1>2, <2>1, <2>3
    <3> HIDE DEF b
    <3>2. SameRow(i)
      BY <1>2, <3>1, BitUpdates DEF SameRow
    <3> HIDE DEF i
    <3> QED BY <1>1, <1>3, <2>2, <3>1, <3>2, InspectEnds, EndsStep DEF Confirm, IInv, Counters
  <2>4. CASE v # "us"
    <3>1. Queues'
      BY <2>1, <2>4 DEF IInv, Queues
    <3>2. AllSound(runs', log)
      BY <2>1, <2>4, FinishedSound DEF IInv
    <3>3. SameRow(row')
      <4>1. CASE lease
        BY <4>1, <1>2, <2>1, <2>4 DEF SameRow, RowType, Slots
      <4>2. CASE ~lease
        BY <4>2, <1>2, <2>1, <2>4 DEF SameRow
      <4> QED BY <4>1, <4>2
    <3> QED BY <1>1, <1>3, <2>2, <3>1, <3>2, <3>3, EndsStep DEF Confirm, Ends, IInv, Counters
  <2> QED BY <2>3, <2>4
<1>4. CASE ConfirmFails
  <2>1. Ends
    BY <1>1, <1>2, <1>4, InspectEnds DEF ConfirmFails, SameRow
  <2> QED BY <1>1, <1>4, <2>1, EndsStep, FailCounts DEF ConfirmFails, IInv, Counters
<1> QED BY <1>3, <1>4

LEMMA ListReadyStep ==
  ASSUME IInv, ListReady
  PROVE  Step
<1>1. Queues'
  BY Booleans DEF ListReady, IInv, Queues
<1>2. Ends
  BY <1>1 DEF Ends, ListReady, IInv, SameRow
<1> QED BY <1>2, EndsStep DEF ListReady, IInv, Counters, PassOK

----------------------------------------------------------------------------
(***************************************************************************)
(* Restart and recovery.                                                   *)
(***************************************************************************)

LEMMA RestartStep ==
  ASSUME IInv, Restart
  PROVE  Step
<1>1. mail' \in Seq(MailType)
  <2>1. PICK k \in 1 .. Len(mail) + 1 : mail' = SubSeq(mail, k, Len(mail))
    BY DEF Restart
  <2> QED BY <2>1 DEF IInv, World
<1>2. AllSound(runs', log)
  <2> DEFINE x(r) == [runs[r] EXCEPT !.finalizing = FALSE]
  <2>1. runs' = [r \in Runs |-> x(r)]
    BY DEF Restart
  <2>2. ASSUME NEW r \in Runs PROVE x(r) \in RunType /\ Sound(x(r), log)
    <3>1. runs[r] \in RunType /\ Sound(runs[r], log)
      BY DEF IInv, AllSound
    <3>2. x(r) \in RunType
      BY <3>1, RunUpdates
    <3>3. /\ x(r).epoch = runs[r].epoch /\ x(r).revoked = runs[r].revoked
          /\ x(r).finalizing = FALSE
      BY <3>1 DEF RunType
    <3> QED BY <3>1, <3>2, <3>3 DEF Sound
  <2> HIDE DEF x
  <2> QED BY <2>1, <2>2 DEF AllSound, IInv
<1>3. Queues'
  BY Booleans DEF Restart, Queues
<1>4. /\ hook' \in HookType /\ launch' \in LaunchType /\ PassOK'
      /\ recovery' \in RecoveryType
  BY Idle DEF Restart, PassOK, RecoveryType, IInv, World
<1>5. faults' \in 0 .. MaxFaults /\ flaws' \subseteq Flaws
  BY FailCounts DEF Restart, IInv, Counters, Flaws
<1>6. UNCHANGED <<live, row, log, changes>>
  BY DEF Restart
<1> QED BY <1>1, <1>2, <1>3, <1>4, <1>5, <1>6, Unpublished
        DEF IInv, World, Counters, SameRow

\* What the recovery leaves behind.
Recovers ==
  /\ SameRow(row')
  /\ AllSound(runs', log')
  /\ Queues'
  /\ recovery' \in RecoveryType
  /\ flaws' \subseteq Flaws

LEMMA RecoversStep ==
  ASSUME IInv, Recovers, faults' \in 0 .. MaxFaults,
         UNCHANGED <<world, hook, launch, pass, changes>>
  PROVE  Step
<1>1. IInv'
  BY DEF IInv, Recovers, World, world, Counters, SameRow, PassOK
<1> QED BY <1>1, Unpublished DEF Recovers

LEMMA GoesOn ==
  ASSUME IInv, NEW i, GoOn(i)
  PROVE  recovery' \in RecoveryType
BY Idle DEF GoOn, RecoveryType, IInv, World

LEMMA DiscoverStep ==
  ASSUME IInv, Discover \/ DiscoverFails
  PROVE  Step
<1>1. Queues'
  BY Booleans DEF Discover, DiscoverFails, IInv, Queues
<1>2. recovery' \in RecoveryType
  BY GoesOn DEF Discover, DiscoverFails
<1>3. CASE Discover
  <2>1. PICK v \in Answers(recovery.asked) :
          IF v = "us" /\ ~row.known
            THEN /\ row' = [row EXCEPT !.known = TRUE, !.delegated = TRUE]
                 /\ log' = Recovered(TRUE, "us")
                 /\ flaws' = (flaws \ {"missed"})
                               \cup (IF v = live THEN {} ELSE {"crossed"})
                               \cup (IF log'.last THEN {} ELSE {"swallowed"})
            ELSE UNCHANGED <<row, log, flaws>>
    BY <1>3 DEF Discover
  <2>2. UNCHANGED runs
    BY <1>3 DEF Discover
  <2>3. CASE v = "us" /\ ~row.known
    <3>1. SameRow(row')
      BY <2>1, <2>3 DEF IInv, SameRow, RowType
    <3>2. flaws' \subseteq Flaws
      BY <2>1, <2>3 DEF IInv, Counters, Flaws
    <3>3. log' \in LogType /\ log.epoch <= log'.epoch
      <4> DEFINE seen == Recovered(TRUE, "us")
      <4>1. seen \in LogType /\ log.epoch <= seen.epoch
        BY RecoveredLog DEF IInv, AllSound, Delegates
      <4> HIDE DEF seen
      <4> QED BY <2>1, <2>3, <4>1 DEF seen
    <3>4. AllSound(runs', log')
      BY <2>2, <3>3, Later DEF IInv
    <3> QED BY <1>1, <1>2, <1>3, <3>1, <3>2, <3>4, RecoversStep
            DEF Recovers, Discover, IInv, Counters
  <2>4. CASE ~(v = "us" /\ ~row.known)
    BY <1>1, <1>2, <1>3, <2>1, <2>2, <2>4, RecoversStep
       DEF Recovers, Discover, IInv, Counters, SameRow
  <2> QED BY <2>3, <2>4
<1>4. CASE DiscoverFails
  BY <1>1, <1>2, <1>4, RecoversStep, FailCounts DEF Recovers, DiscoverFails, IInv, Counters, SameRow
<1> QED BY <1>3, <1>4

LEMMA RecoverStep ==
  ASSUME IInv, Recover \/ RecoverFails
  PROVE  Step
<1>1. Queues' /\ recovery' \in RecoveryType
  BY Booleans, Idle DEF Recover, RecoverFails, IInv, Queues
<1>2. CASE Recover
  <2>1. PICK v \in Answers(recovery.asked) :
          LET d == v = "us" IN
          /\ row' = [row EXCEPT !.delegated = d]
          /\ log' = IF row.delegated = d THEN log ELSE Recovered(d, v)
          /\ runs' = IF log' # log /\ ~d THEN Revoked(runs) ELSE runs
          /\ flaws' = (flaws \ {"missed"})
                        \cup (IF v = live THEN {} ELSE {"crossed"})
                        \cup (IF Authority(d, log') = d THEN {} ELSE {"swallowed"})
    BY <1>2 DEF Recover
  <2> DEFINE d == v = "us"
  <2>2. d \in BOOLEAN /\ v \in Delegates
    BY AnswersTyped DEF IInv, RecoveryType
  <2>3. flaws' \subseteq Flaws
    BY <2>1 DEF IInv, Counters, Flaws
  <2>4. /\ row' = [row EXCEPT !.delegated = d]
        /\ log' = IF row.delegated = d THEN log ELSE Recovered(d, v)
        /\ runs' = IF log' # log /\ ~d THEN Revoked(runs) ELSE runs
    BY <2>1
  <2> HIDE DEF d
  <2>5. SameRow(row')
    BY <2>2, <2>4, BitUpdates DEF IInv, SameRow
  <2>6. AllSound(runs', log')
    <3> DEFINE seen == Recovered(d, v)
    <3>1. /\ log \in LogType /\ log.epoch \in Nat
          /\ seen \in LogType /\ (seen = log \/ seen.epoch = log.epoch + 1)
      BY <2>2, RecoveredLog, LogFields DEF IInv, AllSound
    <3> HIDE DEF seen
    <3>2. log' = log \/ (log' = seen /\ log'.epoch = log.epoch + 1 /\ log' # log)
      BY <2>4, <3>1 DEF seen
    <3>3. CASE log' = log
      BY <2>4, <3>3 DEF IInv
    <3>4. CASE log' = seen /\ log'.epoch = log.epoch + 1 /\ log' # log
      <4>1. AllSound(runs, log) /\ log' \in LogType /\ log.epoch <= log'.epoch
        BY <3>1, <3>4 DEF IInv
      <4>2. CASE d
        BY <2>4, <4>1, <4>2, Later
      <4>3. CASE ~d
        BY <2>4, <3>4, <4>1, <4>3, RevokedSound
      <4> QED BY <4>2, <4>3
    <3> QED BY <3>2, <3>3, <3>4
  <2> QED BY <1>1, <1>2, <2>3, <2>5, <2>6, RecoversStep DEF Recovers, Recover, IInv, Counters
<1>3. CASE RecoverFails
  BY <1>1, <1>3, RecoversStep, FailCounts DEF Recovers, RecoverFails, IInv, Counters, SameRow
<1> QED BY <1>2, <1>3

----------------------------------------------------------------------------
LEMMA Initially == Init => IInv
<1> SUFFICES ASSUME Init PROVE IInv
  OBVIOUS
<1>1. World /\ Queues
  <2>1. live \in Delegates
    BY DEF Init, Delegates
  <2>2. mail \in Seq(MailType)
    BY DEF Init
  <2>3. task \in BOOLEAN /\ lease \in BOOLEAN /\ queued \in BOOLEAN
    BY DEF Init
  <2> QED BY <2>1, <2>2, <2>3 DEF World, Queues
<1>2. Counters
  BY DelegationAssumption DEF Init, Counters
<1>3. row \in RowType /\ log \in LogType
  BY DEF Init, RowType, LogType, Slots
<1>4. AllSound(runs, log)
  <2>1. Sound(Unborn, log)
    BY DEF Init, Sound, Unborn
  <2> QED BY <1>3, <2>1, Idle DEF Init, AllSound
<1> QED BY <1>1, <1>2, <1>3, <1>4, Idle DEF Init, IInv, PassOK

LEMMA NextStep == IInv /\ Next => Step
<1> SUFFICES ASSUME IInv, Next PROVE Step
  OBVIOUS
<1>1. CASE People
  BY <1>1, PeopleStep
<1>2. CASE Webhook
  BY <1>2, TakeStep, LoadStep, SyncStep, StopStep DEF Webhook
<1>3. CASE Launch
  BY <1>3, DequeueStep, ClaimStep, TurnStep DEF Launch
<1>4. CASE \E r \in Runs : EndTurn(r)
  BY <1>4, TurnStep
<1>5. CASE Ending
  BY <1>5, CompleteStep, SettleStep DEF Ending
<1>6. CASE Background
  BY <1>6, VisitStep, ConfirmStep DEF Background
<1>7. CASE ListReady
  BY <1>7, ListReadyStep
<1>8. CASE Restart
  BY <1>8, RestartStep
<1>9. CASE Recovery
  BY <1>9, DiscoverStep, RecoverStep DEF Recovery
<1> QED BY <1>1, <1>2, <1>3, <1>4, <1>5, <1>6, <1>7, <1>8, <1>9 DEF Next

LEMMA StutterStep == IInv /\ UNCHANGED vars => IInv'
BY DEF IInv, vars, world, stored, process, World, Counters, Queues, PassOK

LEMMA Invariant == Spec => []IInv
<1>1. IInv /\ [Next]_vars => IInv'
  BY NextStep, StutterStep DEF Step
<1> QED BY <1>1, Initially, PTL DEF Spec

\* Rows, log, runs and handlers keep their types in every interleaving.
THEOREM TypeCorrect == Spec => []TypeOK
<1>1. IInv => TypeOK
  BY Idle DEF IInv, World, AllSound, Queues, Counters, PassOK, PassType, Slots, TypeOK
<1> QED BY <1>1, Invariant, PTL

\* A run whose delegation was withdrawn while it worked is not published, for any
\* number of withdrawals, restarts and turns that cannot be stopped
\* (run-failure-policy.ts compares the epoch of the run with that of the log).
THEOREM RevokedStaysUnpublished == Spec => RevokedIsNotPublished
<1>1. IInv /\ [Next]_vars =>
        [ row'.published /\ ~row.published =>
            \E r \in Runs : Live(r) /\ ~runs[r].revoked /\ runs'[r] = Unborn ]_vars
  BY NextStep DEF Step, Publishes
<1> QED BY <1>1, Invariant, PTL DEF Spec, RevokedIsNotPublished

-----------------------------------------------------------------------------
\* The row, the log and Linear agree.

\* A delivery in s says that the delegate was changed.
Explicit(s) == \E k \in 1 .. Len(s) : s[k].explicit

\* The last delivery that says so, and those behind it, have the delegate of Linear.
Current(s) ==
  \A k \in 1 .. Len(s) :
    (\A j \in 1 .. Len(s) : k < j => ~s[j].explicit) => s[k].delegate = live

\* So has the handler, if no such delivery is behind its own: it stops a turn only
\* for an issue that is not delegated.
Informed ==
  \/ hook = NoHook
  \/ /\ hook.pc # "idle"
     /\ hook.pc = "syncing" => row.known \/ hook.delegate = "us"
     /\ ~Explicit(mail) => /\ hook.delegate = live /\ hook.asked = live
                           /\ hook.pc = "stopping" => live # "us"

\* What the row says, and the log, for a tracked issue.
InSync ==
  /\ row.known => /\ row.delegated = (live = "us")
                  /\ Authority(row.delegated, log) = (live = "us")
  /\ ~row.known => live # "us"

\* Nothing was observed of an issue without a row, but that it is not delegated.
Untracked == ~row.known => log.epoch = 0 \/ ~log.last

Agreement ==
  /\ Current(mail)
  /\ Informed
  /\ flaws = {} /\ ~hook.explicit /\ ~Explicit(mail) => InSync
  /\ Untracked
  /\ recovery.pc = "asking" => row.known

----------------------------------------------------------------------------
(***************************************************************************)
(* Deliveries.                                                             *)
(***************************************************************************)

LEMMA AppendFacts ==
  ASSUME IInv, NEW m \in MailType, mail' = Append(mail, m)
  PROVE  /\ Len(mail) \in Nat
         /\ Len(mail') = Len(mail) + 1
         /\ mail'[Len(mail) + 1] = m
         /\ \A k \in 1 .. Len(mail) : mail'[k] = mail[k]
BY AppendProperties, LenProperties DEF IInv, World

LEMMA DelegateAgrees ==
  ASSUME IInv, Agreement, NEW d \in Delegates, Delegate(d)
  PROVE  Agreement'
<1> DEFINE m == [delegate |-> d, explicit |-> TRUE]
<1>1. m \in MailType /\ m.explicit /\ m.delegate = d
  BY DEF MailType
<1>2. /\ mail' = Append(mail, m) /\ live' = d
      /\ UNCHANGED <<row, log, hook, recovery, flaws>>
  BY DEF Delegate, stored, process
<1> HIDE DEF m
<1>3. /\ Len(mail) \in Nat /\ Len(mail') = Len(mail) + 1 /\ mail'[Len(mail) + 1] = m
  BY <1>1, <1>2, AppendFacts
<1>4. Explicit(mail')
  BY <1>1, <1>3 DEF Explicit
<1>5. Current(mail)'
  <2> SUFFICES ASSUME NEW k \in 1 .. Len(mail'),
                      \A j \in 1 .. Len(mail') : k < j => ~mail'[j].explicit
               PROVE  mail'[k].delegate = d
    BY <1>2 DEF Current
  <2>1. k = Len(mail) + 1
    BY <1>1, <1>3
  <2> QED BY <2>1, <1>1, <1>3
<1>6. Informed'
  BY <1>2, <1>4 DEF Informed, Agreement
<1>7. Untracked' /\ (recovery.pc = "asking" => row.known)'
  BY <1>2 DEF Agreement, Untracked
<1> QED BY <1>4, <1>5, <1>6, <1>7 DEF Agreement

LEMMA EditAgrees ==
  ASSUME IInv, Agreement, Edit
  PROVE  Agreement'
<1> DEFINE m == [delegate |-> live, explicit |-> FALSE]
<1>1. m \in MailType /\ ~m.explicit /\ m.delegate = live
  BY DEF MailType, IInv, World
<1>2. mail' = Append(mail, m) /\ UNCHANGED <<live, row, log, hook, recovery, flaws>>
  BY DEF Edit, stored, process
<1> HIDE DEF m
<1>3. /\ Len(mail) \in Nat /\ Len(mail') = Len(mail) + 1 /\ mail'[Len(mail) + 1] = m
      /\ \A k \in 1 .. Len(mail) : mail'[k] = mail[k]
  BY <1>1, <1>2, AppendFacts
<1>4. Explicit(mail') <=> Explicit(mail)
  <2>1. \A k \in 1 .. Len(mail') : k = Len(mail) + 1 \/ k \in 1 .. Len(mail)
    BY <1>3
  <2>2. \A k \in 1 .. Len(mail) : k \in 1 .. Len(mail')
    BY <1>3
  <2> QED BY <1>1, <1>3, <2>1, <2>2 DEF Explicit
<1>5. Current(mail)'
  <2> SUFFICES ASSUME NEW k \in 1 .. Len(mail'),
                      \A j \in 1 .. Len(mail') : k < j => ~mail'[j].explicit
               PROVE  mail'[k].delegate = live
    BY <1>2 DEF Current
  <2>1. CASE k = Len(mail) + 1
    BY <2>1, <1>1, <1>3
  <2>2. CASE k \in 1 .. Len(mail)
    <3>1. \A j \in 1 .. Len(mail) : k < j => ~mail[j].explicit
      BY <1>3
    <3> QED BY <2>2, <3>1, <1>3 DEF Agreement, Current
  <2> QED BY <2>1, <2>2, <1>3
<1>6. Informed'
  BY <1>2, <1>4 DEF Informed, Agreement
<1>7. InSync <=> InSync'
  BY <1>2 DEF InSync, Authority
<1> QED BY <1>2, <1>4, <1>5, <1>6, <1>7 DEF Agreement, Untracked

\* What is left when the first n deliveries are gone.
LEMMA SuffixFacts ==
  ASSUME IInv, Current(mail), NEW n \in 0 .. Len(mail), NEW s, s \in Seq(MailType),
         Len(s) = Len(mail) - n, \A k \in 1 .. Len(s) : s[k] = mail[k + n]
  PROVE  /\ Current(s)
         /\ Explicit(s) => Explicit(mail)
         /\ Explicit(mail) /\ ~Explicit(s) => \E k \in 1 .. n : mail[k].explicit
<1>1. Len(mail) \in Nat /\ Len(s) \in Nat
  BY LenProperties DEF IInv, World
<1>2. \A k \in 1 .. Len(s) : k + n \in 1 .. Len(mail) /\ s[k] = mail[k + n]
  BY <1>1
<1>3. \A j \in 1 .. Len(mail) : j > n => j - n \in 1 .. Len(s) /\ s[j - n] = mail[j]
  <2> SUFFICES ASSUME NEW j \in 1 .. Len(mail), j > n
               PROVE  j - n \in 1 .. Len(s) /\ s[j - n] = mail[j]
    OBVIOUS
  <2>1. j - n \in 1 .. Len(s) /\ (j - n) + n = j
    BY <1>1
  <2> QED BY <2>1
<1>4. Current(s)
  <2> SUFFICES ASSUME NEW k \in 1 .. Len(s),
                      \A j \in 1 .. Len(s) : k < j => ~s[j].explicit
               PROVE  s[k].delegate = live
    BY DEF Current
  <2>1. \A j \in 1 .. Len(mail) : k + n < j => ~mail[j].explicit
    <3> SUFFICES ASSUME NEW j \in 1 .. Len(mail), k + n < j PROVE ~mail[j].explicit
      OBVIOUS
    <3>1. j > n /\ k < j - n
      BY <1>1
    <3> QED BY <3>1, <1>3
  <2> QED BY <2>1, <1>2 DEF Current
<1>5. Explicit(s) => Explicit(mail)
  BY <1>2 DEF Explicit
<1>6. Explicit(mail) /\ ~Explicit(s) => \E k \in 1 .. n : mail[k].explicit
  <2> SUFFICES ASSUME NEW k \in 1 .. Len(mail), mail[k].explicit, ~Explicit(s)
               PROVE  k \in 1 .. n
    BY DEF Explicit
  <2>1. ~(k > n)
    BY <1>3 DEF Explicit
  <2> QED BY <2>1, <1>1
<1> QED BY <1>4, <1>5, <1>6

LEMMA TakeAgrees ==
  ASSUME IInv, Agreement, Take
  PROVE  Agreement'
<1>1. /\ mail # <<>> /\ mail' = Tail(mail) /\ hook.pc = "idle"
      /\ hook' = [NoHook EXCEPT !.pc = "loading", !.delegate = Head(mail).delegate,
                                !.explicit = Head(mail).explicit, !.asked = live]
      /\ UNCHANGED <<live, row, log, recovery, flaws>>
  BY DEF Take, stored
<1>2. /\ mail' \in Seq(MailType) /\ Len(mail) \in Nat /\ Len(mail) > 0
      /\ Len(mail') = Len(mail) - 1 /\ Head(mail) = mail[1]
      /\ \A k \in 1 .. Len(mail') : mail'[k] = mail[k + 1]
  BY <1>1, HeadTailProperties, LenProperties, EmptySeq DEF IInv, World
<1>3. 1 \in 0 .. Len(mail)
  BY <1>2
<1>4. /\ Current(mail')
      /\ Explicit(mail') => Explicit(mail)
      /\ Explicit(mail) /\ ~Explicit(mail') => \E k \in 1 .. 1 : mail[k].explicit
  BY <1>2, <1>3, SuffixFacts DEF Agreement
<1>5. /\ hook'.pc = "loading" /\ hook'.delegate = mail[1].delegate
      /\ hook'.explicit = mail[1].explicit /\ hook'.asked = live
  BY <1>1, <1>2 DEF NoHook
<1>6. ~Explicit(mail') => mail[1].delegate = live
  <2> SUFFICES ASSUME ~Explicit(mail') PROVE mail[1].delegate = live
    OBVIOUS
  <2>1. \A j \in 1 .. Len(mail) : 1 < j => ~mail[j].explicit
    <3> SUFFICES ASSUME NEW j \in 1 .. Len(mail), 1 < j PROVE ~mail[j].explicit
      OBVIOUS
    <3>1. j - 1 \in 1 .. Len(mail') /\ (j - 1) + 1 = j
      BY <1>2
    <3> QED BY <3>1, <1>2 DEF Explicit
  <2>2. 1 \in 1 .. Len(mail)
    BY <1>2
  <2> QED BY <2>1, <2>2 DEF Agreement, Current
<1>7. Informed'
  BY <1>1, <1>5, <1>6 DEF Informed
<1>8. ~hook.explicit
  BY <1>1 DEF Agreement, Informed, NoHook
<1>9. ASSUME flaws' = {}, ~hook'.explicit, ~Explicit(mail') PROVE InSync'
  <2>1. ~Explicit(mail)
    BY <1>4, <1>5, <1>9
  <2>2. InSync
    BY <2>1, <1>1, <1>8, <1>9 DEF Agreement
  <2> QED BY <2>2, <1>1 DEF InSync, Authority
<1>10. Current(mail)'
  BY <1>1, <1>4 DEF Current
<1> QED BY <1>1, <1>7, <1>9, <1>10 DEF Agreement, Untracked

LEMMA RestartAgrees ==
  ASSUME IInv, Agreement, Restart
  PROVE  Agreement'
<1>1. PICK k \in 1 .. Len(mail) + 1 :
        /\ mail' = SubSeq(mail, k, Len(mail))
        /\ flaws' = IF hook.explicit \/ \E q \in 1 .. Len(mail) - Len(mail') : mail[q].explicit
                      THEN flaws \cup {"missed"} ELSE flaws
  BY DEF Restart
<1>2. /\ hook' = NoHook /\ recovery'.pc = "listing"
      /\ UNCHANGED <<live, row, log>>
  BY DEF Restart
<1> DEFINE n == k - 1
<1>3. /\ Len(mail) \in Nat /\ n \in 0 .. Len(mail) /\ mail \in Seq(MailType)
      /\ k \in 1 .. Len(mail) + 1
  BY LenProperties DEF IInv, World
<1>4. /\ mail' \in Seq(MailType) /\ Len(mail') = Len(mail) - n
      /\ \A q \in 1 .. Len(mail') : mail'[q] = mail[q + n]
  <2>1. /\ SubSeq(mail, k, Len(mail)) \in Seq(MailType)
        /\ Len(SubSeq(mail, k, Len(mail))) = IF k <= Len(mail) THEN Len(mail) - k + 1 ELSE 0
        /\ \A q \in 1 .. Len(mail) - k + 1 : SubSeq(mail, k, Len(mail))[q] = mail[k + q - 1]
    BY <1>3, SubSeqProperties
  <2>2. mail' \in Seq(MailType) /\ Len(mail') = Len(mail) - k + 1
    BY <1>1, <1>3, <2>1
  <2>3. ASSUME NEW q \in 1 .. Len(mail') PROVE mail'[q] = mail[q + n]
    <3>1. k + q - 1 = q + n
      BY <1>3
    <3> QED BY <3>1, <1>1, <2>1, <2>2
  <2> QED BY <1>3, <2>2, <2>3
<1>5. Len(mail) - Len(mail') = n
  BY <1>3, <1>4
<1> HIDE DEF n
<1>6. /\ Current(mail')
      /\ Explicit(mail) /\ ~Explicit(mail') => \E q \in 1 .. n : mail[q].explicit
  BY <1>3, <1>4, SuffixFacts DEF Agreement
<1>7. ASSUME flaws' = {}, ~Explicit(mail') PROVE InSync'
  <2>1. flaws = {} /\ ~hook.explicit /\ ~\E q \in 1 .. n : mail[q].explicit
    BY <1>1, <1>5, <1>7
  <2>2. InSync
    BY <2>1, <1>6, <1>7 DEF Agreement
  <2> QED BY <2>2, <1>2 DEF InSync, Authority
<1>8. Current(mail)'
  BY <1>2, <1>6 DEF Current
<1> QED BY <1>2, <1>7, <1>8 DEF Agreement, Untracked, Informed

----------------------------------------------------------------------------
(***************************************************************************)
(* What a delivery records.                                                *)
(***************************************************************************)

LEMMA CurrentKept ==
  ASSUME Current(mail), UNCHANGED <<live, mail>>
  PROVE  Current(mail)'
BY DEF Current

\* A bit that agrees with Linear, recorded for a change or in a row that agreed.
LEMMA RecordAgrees ==
  ASSUME IInv, Agreement, UNCHANGED <<live, mail, recovery>>, NEW d \in BOOLEAN,
         hook' = NoHook,
         row'.known = TRUE, row'.delegated = d,
         log' = IF hook.explicit THEN Observed(d) ELSE log,
         hook.explicit \/ flaws \subseteq flaws',
         (hook.explicit \/ flaws' = {}) /\ ~Explicit(mail) => d = (live = "us")
  PROVE  Agreement'
<1>1. ASSUME flaws' = {}, ~Explicit(mail) PROVE InSync'
  <2>1. CASE hook.explicit
    <3>1. log' = [epoch |-> log.epoch + 1, last |-> d, keys |-> log.keys]
      BY <2>1 DEF Observed
    <3>2. log'.last = d
      BY <3>1
    <3>3. d = (live = "us")
      BY <1>1, <2>1
    <3> QED BY <3>2, <3>3 DEF InSync, Authority
  <2>2. CASE ~hook.explicit
    <3>1. InSync /\ d = (live = "us") /\ log' = log
      BY <1>1, <2>2 DEF Agreement
    <3>2. CASE row.known
      BY <3>1, <3>2 DEF InSync, Authority
    <3>3. CASE ~row.known
      <4>1. log.epoch \in Nat /\ log.last \in BOOLEAN
        BY LogFields DEF IInv, AllSound
      <4>2. live # "us" /\ (log.epoch = 0 \/ ~log.last)
        BY <3>1, <3>3 DEF InSync, Agreement, Untracked
      <4> QED BY <3>1, <4>1, <4>2 DEF InSync, Authority
    <3> QED BY <3>2, <3>3
  <2> QED BY <2>1, <2>2
<1> QED BY <1>1, CurrentKept DEF Agreement, Untracked, Informed, Explicit

\* An issue that is not tracked, and not delegated.
LEMMA IgnoreAgrees ==
  ASSUME IInv, Agreement, UNCHANGED <<live, mail, recovery>>, Ignore, ~row.known,
         flaws' = IF hook.explicit THEN {} ELSE flaws,
         hook.explicit /\ ~Explicit(mail) => live # "us"
  PROVE  Agreement'
<1>1. /\ hook' = NoHook /\ row' = row
      /\ log' = (IF hook.explicit THEN Observed(FALSE) ELSE log)
  BY DEF Ignore
<1>2. hook.explicit => log'.last = FALSE
  BY <1>1 DEF Observed
<1>3. Untracked'
  BY <1>1, <1>2 DEF Untracked, Agreement
<1>4. ASSUME flaws' = {}, ~Explicit(mail) PROVE InSync'
  BY <1>1, <1>4 DEF InSync, Agreement
<1> QED BY <1>1, <1>3, <1>4, CurrentKept DEF Agreement, Informed, Explicit

\* A turn is asked to stop: nothing is recorded yet.
LEMMA StoppingAgrees ==
  ASSUME IInv, Agreement, UNCHANGED <<live, mail, recovery, row, log>>, hook.pc # "idle",
         hook'.delegate = hook.delegate, hook'.explicit = hook.explicit,
         hook'.asked = hook.asked, hook'.pc = "stopping", flaws \subseteq flaws',
         ~Explicit(mail) => live # "us"
  PROVE  Agreement'
<1>1. hook # NoHook
  BY DEF NoHook
<1>2. Informed'
  BY <1>1 DEF Informed, Agreement, Explicit
<1>3. flaws' = {} => flaws = {}
  OBVIOUS
<1>4. InSync => InSync'
  BY DEF InSync, Authority
<1> QED BY <1>2, <1>3, <1>4, CurrentKept DEF Agreement, Untracked, Explicit

\* What Decide makes of the row, or of the handler.
LEMMA DecideFacts ==
  ASSUME IInv, NEW was \in BOOLEAN, NEW r \in Slots, NEW turn \in BOOLEAN, NEW d \in BOOLEAN,
         Decide(was, r, turn, d)
  PROVE  \/ /\ was /\ ~d
            /\ hook'.pc = "stopping" /\ hook'.delegate = hook.delegate
            /\ hook'.explicit = hook.explicit /\ hook'.asked = hook.asked
            /\ UNCHANGED <<row, log>>
         \/ /\ hook' = NoHook
            /\ row'.known = TRUE /\ row'.delegated = d
            /\ log' = IF hook.explicit THEN Observed(d) ELSE log
<1> DEFINE release == r # NoRun /\ was /\ ~d
<1>1. CASE release /\ turn
  <2>1. hook' = [hook EXCEPT !.pc = "stopping", !.was = was, !.run = r, !.turn = turn]
        /\ UNCHANGED <<row, log>>
    BY <1>1 DEF Decide, stored
  <2>2. hook'.pc = "stopping" /\ hook'.delegate = hook.delegate
        /\ hook'.explicit = hook.explicit /\ hook'.asked = hook.asked
    BY <2>1 DEF IInv, HookType
  <2> QED BY <1>1, <2>1, <2>2
<1>2. CASE ~(release /\ turn)
  <2>1. Record(was, r, d, release)
    BY <1>2 DEF Decide
  <2>2. /\ hook' = NoHook
        /\ row' = [row EXCEPT !.known = TRUE, !.delegated = d,
                              !.slot = IF release THEN NoRun ELSE @]
        /\ log' = IF hook.explicit THEN Observed(d) ELSE log
    BY <2>1 DEF Record
  <2> HIDE DEF release
  <2>3. row'.known = TRUE /\ row'.delegated = d
    BY <2>2 DEF IInv, RowType
  <2> QED BY <2>2, <2>3
<1> QED BY <1>1, <1>2

\* A decision about a bit that agrees, or that the row had, for one that was or not.
LEMMA DecideAgrees ==
  ASSUME IInv, Agreement, UNCHANGED <<live, mail, recovery>>, hook.pc # "idle",
         NEW was \in BOOLEAN, NEW r \in Slots, NEW turn \in BOOLEAN, NEW d \in BOOLEAN,
         Decide(was, r, turn, d),
         Told \/ (~hook.explicit /\ flaws \subseteq flaws'),
         (hook.explicit \/ flaws' = {}) /\ ~Explicit(mail) => d = (live = "us"),
         ~Explicit(mail) /\ was /\ ~d => live # "us"
  PROVE  Agreement'
<1>1. hook.explicit \/ flaws \subseteq flaws'
  BY DEF Told
<1>2. CASE /\ was /\ ~d
           /\ hook'.pc = "stopping" /\ hook'.delegate = hook.delegate
           /\ hook'.explicit = hook.explicit /\ hook'.asked = hook.asked
           /\ UNCHANGED <<row, log>>
  <2>1. flaws \subseteq flaws'
    BY <1>2 DEF Told
  <2> QED BY <1>2, <2>1, StoppingAgrees
<1>3. CASE /\ hook' = NoHook
           /\ row'.known = TRUE /\ row'.delegated = d
           /\ log' = IF hook.explicit THEN Observed(d) ELSE log
  BY <1>1, <1>3, RecordAgrees
<1> QED BY <1>2, <1>3, DecideFacts

LEMMA HandlerFacts ==
  ASSUME IInv, Agreement, hook.pc # "idle"
  PROVE  /\ hook.pc = "syncing" => row.known \/ hook.delegate = "us"
         /\ ~Explicit(mail) => /\ hook.delegate = live /\ hook.asked = live
                               /\ hook.pc = "stopping" => live # "us"
BY DEF Agreement, Informed, NoHook

LEMMA RowBits ==
  ASSUME IInv
  PROVE  /\ row.delegated \in BOOLEAN /\ row.known \in BOOLEAN /\ row.slot \in Slots
         /\ Turning(row.slot) \in BOOLEAN
         /\ hook.was \in BOOLEAN /\ hook.turn \in BOOLEAN /\ hook.run \in Slots
         /\ hook.explicit \in BOOLEAN
<1>1. row.delegated \in BOOLEAN /\ row.known \in BOOLEAN /\ row.slot \in Slots
  BY DEF IInv, RowType
<1>2. Turning(row.slot) \in BOOLEAN
  BY DEF Turning
<1> QED BY <1>1, <1>2, HookFields DEF IInv

LEMMA LoadAgrees ==
  ASSUME IInv, Agreement, Load
  PROVE  Agreement'
<1>1. PICK v \in Answers(hook.asked) :
        IF Ignored(Merged(v))
          THEN Ignore
          ELSE Decide(row.delegated, row.slot, Turning(row.slot),
                      IF Merged(v) = "none" /\ ~hook.explicit THEN row.delegated
                                                              ELSE Merged(v) = "us")
  BY DEF Load
<1>2. hook.pc = "loading" /\ UNCHANGED <<live, mail, recovery>> /\ Told
  BY DEF Load, world
<1>3. ~Explicit(mail) => Merged(v) = live
  BY <1>1, <1>2, HandlerFacts DEF Answers, Merged
<1> DEFINE d == IF Merged(v) = "none" /\ ~hook.explicit THEN row.delegated
                                                        ELSE Merged(v) = "us"
<1>4. CASE Ignored(Merged(v))
  <2>1. Ignore /\ ~row.known /\ Merged(v) # "us"
    BY <1>1, <1>4 DEF Ignored
  <2>2. flaws' = IF hook.explicit THEN {} ELSE flaws
    BY <1>2, <2>1 DEF Told, Ignore, NoHook
  <2> QED BY <1>2, <1>3, <2>1, <2>2, IgnoreAgrees
<1>5. CASE ~Ignored(Merged(v))
  <2>1. Decide(row.delegated, row.slot, Turning(row.slot), d) /\ d \in BOOLEAN
    BY <1>1, <1>5, RowBits
  <2>2. row.known \/ Merged(v) = "us"
    BY <1>5 DEF Ignored
  <2>3. ASSUME hook.explicit \/ flaws' = {}, ~Explicit(mail) PROVE d = (live = "us")
    <3>1. CASE Merged(v) = "none" /\ ~hook.explicit
      <4>1. flaws = {}
        BY <1>2, <2>3, <3>1 DEF Told
      <4>2. InSync /\ row.known
        BY <2>2, <2>3, <3>1, <4>1 DEF Agreement
      <4> QED BY <3>1, <4>2 DEF InSync
    <3>2. CASE ~(Merged(v) = "none" /\ ~hook.explicit)
      BY <1>3, <2>3, <3>2
    <3> QED BY <3>1, <3>2
  <2>4. ~Explicit(mail) /\ row.delegated /\ ~d => live # "us"
    BY <1>3
  <2> HIDE DEF d
  <2> QED BY <1>2, <2>1, <2>3, <2>4, RowBits, DecideAgrees
<1> QED BY <1>4, <1>5

LEMMA LoadFailsAgrees ==
  ASSUME IInv, Agreement, LoadFails
  PROVE  Agreement'
<1>1. hook.pc = "loading" /\ UNCHANGED <<live, mail, recovery>> /\ Told
  BY DEF LoadFails, world
<1>2. ~Explicit(mail) => hook.delegate = live
  BY <1>1, HandlerFacts
<1>3. CASE Ignored(hook.delegate)
  <2>1. Ignore /\ ~row.known /\ hook.delegate # "us"
    BY <1>3 DEF LoadFails, Ignored
  <2>2. flaws' = IF hook.explicit THEN {} ELSE flaws
    BY <1>1, <2>1 DEF Told, Ignore, NoHook
  <2> QED BY <1>1, <1>2, <2>1, <2>2, IgnoreAgrees
<1>4. CASE ~Ignored(hook.delegate)
  <2>1. /\ hook' = [hook EXCEPT !.pc = "syncing", !.asked = live, !.was = row.delegated,
                                !.run = row.slot, !.turn = Turning(row.slot)]
        /\ UNCHANGED <<row, log>>
    BY <1>4 DEF LoadFails, stored
  <2>2. /\ hook'.pc = "syncing" /\ hook'.asked = live /\ hook'.delegate = hook.delegate
        /\ hook'.explicit = hook.explicit
    BY <2>1 DEF IInv, HookType
  <2>3. row.known \/ hook.delegate = "us"
    BY <1>4 DEF Ignored
  <2>4. flaws' = flaws
    BY <1>1, <2>2 DEF Told
  <2>5. Informed'
    BY <1>1, <1>2, <2>1, <2>2, <2>3 DEF Informed, Explicit
  <2>6. InSync => InSync'
    BY <1>1, <2>1 DEF InSync, Authority
  <2> QED BY <1>1, <2>1, <2>2, <2>4, <2>5, <2>6, CurrentKept DEF Agreement, Untracked, Explicit
<1> QED BY <1>3, <1>4

LEMMA SyncAgrees ==
  ASSUME IInv, Agreement, Sync
  PROVE  Agreement'
<1>1. PICK v \in Answers(hook.asked) : Decide(hook.was, hook.run, hook.turn, Merged(v) = "us")
  BY DEF Sync
<1>2. hook.pc = "syncing" /\ UNCHANGED <<live, mail, recovery>> /\ Told
  BY DEF Sync, world
<1>3. ~Explicit(mail) => Merged(v) = live
  BY <1>1, <1>2, HandlerFacts DEF Answers, Merged
<1> DEFINE d == Merged(v) = "us"
<1>4. Decide(hook.was, hook.run, hook.turn, d) /\ d \in BOOLEAN
  BY <1>1
<1>5. ~Explicit(mail) => d = (live = "us")
  BY <1>3
<1> HIDE DEF d
<1>6. ~Explicit(mail) /\ hook.was /\ ~d => live # "us"
  BY <1>5
<1> QED BY <1>2, <1>4, <1>5, <1>6, RowBits, DecideAgrees

LEMMA SyncFailsAgrees ==
  ASSUME IInv, Agreement, SyncFails
  PROVE  Agreement'
<1> DEFINE kept == hook.delegate = "none" /\ ~hook.explicit
<1> DEFINE d == IF kept THEN hook.was ELSE hook.delegate = "us"
<1>1. /\ hook.pc = "syncing" /\ UNCHANGED <<live, mail, recovery>>
      /\ Decide(hook.was, hook.run, hook.turn, d)
      /\ IF kept /\ hook.was # row.delegated THEN flaws' = flaws \cup {"crossed"} ELSE Told
  BY DEF SyncFails, world
<1>2. /\ row.known \/ hook.delegate = "us"
      /\ ~Explicit(mail) => hook.delegate = live
  BY <1>1, HandlerFacts
<1>3. d \in BOOLEAN
  BY RowBits
<1>4. Told \/ (~hook.explicit /\ flaws \subseteq flaws')
  BY <1>1
<1>5. ASSUME hook.explicit \/ flaws' = {}, ~Explicit(mail) PROVE d = (live = "us")
  <2>1. CASE kept
    <3>1. hook.was = row.delegated /\ flaws = {}
      BY <1>1, <1>5, <2>1 DEF Told
    <3>2. InSync /\ row.known
      BY <1>2, <1>5, <2>1, <3>1 DEF Agreement
    <3> QED BY <2>1, <3>1, <3>2 DEF InSync
  <2>2. CASE ~kept
    BY <1>2, <1>5, <2>2
  <2> QED BY <2>1, <2>2
<1>6. ~Explicit(mail) /\ hook.was /\ ~d => live # "us"
  BY <1>2
<1> HIDE DEF d, kept
<1> QED BY <1>1, <1>3, <1>4, <1>5, <1>6, RowBits, DecideAgrees

LEMMA StopAgrees ==
  ASSUME IInv, Agreement, Stop \/ StopFails
  PROVE  Agreement'
<1>1. /\ hook.pc = "stopping" /\ UNCHANGED <<live, mail, recovery>> /\ Told
      /\ \E released \in BOOLEAN : Record(TRUE, hook.run, FALSE, released)
  BY DEF Stop, StopFails, world
<1>2. PICK released \in BOOLEAN : Record(TRUE, hook.run, FALSE, released)
  BY <1>1
<1>3. /\ hook' = NoHook
      /\ row' = [row EXCEPT !.known = TRUE, !.delegated = FALSE,
                            !.slot = IF released THEN NoRun ELSE @]
      /\ log' = IF hook.explicit THEN Observed(FALSE) ELSE log
  BY <1>2 DEF Record
<1>4. row'.known = TRUE /\ row'.delegated = FALSE
  BY <1>3 DEF IInv, RowType
<1>5. ~Explicit(mail) => live # "us"
  BY <1>1, HandlerFacts
<1>6. hook.explicit \/ flaws \subseteq flaws'
  BY <1>1 DEF Told
<1> DEFINE d == FALSE
<1>7. /\ d \in BOOLEAN /\ row'.delegated = d
      /\ log' = IF hook.explicit THEN Observed(d) ELSE log
      /\ ~Explicit(mail) => d = (live = "us")
  BY <1>3, <1>4, <1>5
<1> HIDE DEF d
<1> QED BY <1>1, <1>3, <1>4, <1>6, <1>7, RecordAgrees

----------------------------------------------------------------------------
(***************************************************************************)
(* Runs, passes and recovery.                                              *)
(***************************************************************************)

\* What neither tells nor records.
LEMMA SilentAgrees ==
  ASSUME Agreement, UNCHANGED <<live, mail, hook, log>>,
         row'.known = row.known, row'.delegated = row.delegated, flaws \subseteq flaws',
         recovery' = recovery \/ (recovery'.pc = "asking" => row.known)
  PROVE  Agreement'
<1>1. InSync => InSync'
  BY DEF InSync, Authority
<1>2. flaws' = {} => flaws = {}
  OBVIOUS
<1> QED BY <1>1, <1>2, CurrentKept DEF Agreement, Untracked, Informed, Explicit

LEMMA SlotBits ==
  ASSUME NEW i \in RowType, NEW s
  PROVE  /\ [i EXCEPT !.slot = s].known = i.known
         /\ [i EXCEPT !.slot = s].delegated = i.delegated
BY DEF RowType

LEMMA FinalizeBits ==
  ASSUME NEW r, NEW i \in RowType, Finalize(r, i)
  PROVE  row'.known = i.known /\ row'.delegated = i.delegated
BY SlotBits DEF Finalize

LEMMA InspectBits ==
  ASSUME IInv, NEW r \in Runs, NEW i \in RowType, Inspect(r, i)
  PROVE  row'.known = i.known /\ row'.delegated = i.delegated
<1>1. CASE ~Live(r) \/ runs[r].finalizing \/ launch.run = r \/ runs[r].turn = "running"
  BY <1>1 DEF Inspect
<1>2. CASE ~(~Live(r) \/ runs[r].finalizing \/ launch.run = r \/ runs[r].turn = "running")
  <2>1. runs[r].turn \in {"none", "done"}
    BY <1>2 DEF IInv, AllSound, RunType
  <2>2. CASE runs[r].turn = "none"
    <3>1. row' = [i EXCEPT !.slot = IF i.slot = r THEN NoRun ELSE i.slot]
      BY <1>2, <2>2 DEF Inspect
    <3> QED BY <3>1, SlotBits
  <2>3. CASE runs[r].turn = "done"
    BY <1>2, <2>3, FinalizeBits DEF Inspect
  <2> QED BY <2>1, <2>2, <2>3
<1> QED BY <1>1, <1>2

LEMMA RunsAgree ==
  ASSUME IInv, Agreement, Launch \/ Ending \/ ListReady \/ \E r \in Runs : EndTurn(r)
  PROVE  Agreement'
<1>1. row \in RowType
  BY DEF IInv
<1>2. /\ row'.known = row.known /\ row'.delegated = row.delegated
      /\ UNCHANGED <<live, mail, hook, log, flaws, recovery>>
  <2>1. CASE Launch
    <3>1. row' = row \/ \E r \in Runs : row' = [row EXCEPT !.slot = r]
      BY <2>1 DEF Launch, Dequeue, Claim, Start
    <3>2. row'.known = row.known /\ row'.delegated = row.delegated
      BY <1>1, <3>1, SlotBits
    <3>3. UNCHANGED <<live, mail, hook, log, flaws, recovery>>
      BY <2>1 DEF Launch, Dequeue, Claim, Start, world
    <3> QED BY <3>2, <3>3
  <2>2. CASE Ending
    <3>1. ASSUME NEW r \in Runs, Complete(r)
          PROVE  row'.known = row.known /\ row'.delegated = row.delegated
      BY <1>1, <3>1, FinalizeBits DEF Complete
    <3>2. ASSUME NEW r \in Runs, Settle(r)
          PROVE  row'.known = row.known /\ row'.delegated = row.delegated
      <4>1. \/ row' = row
            \/ row' = [row EXCEPT !.published = TRUE, !.slot = IF @ = r THEN NoRun ELSE @]
        BY <3>2 DEF Settle
      <4> QED BY <1>1, <4>1 DEF RowType
    <3> QED BY <2>2, <3>1, <3>2 DEF Ending, Complete, Settle, world
  <2>3. CASE ListReady
    BY <2>3 DEF ListReady, world
  <2>4. CASE \E r \in Runs : EndTurn(r)
    BY <2>4 DEF EndTurn, world, process
  <2> QED BY <2>1, <2>2, <2>3, <2>4
<1> QED BY <1>2, SilentAgrees

LEMMA VisitAgrees ==
  ASSUME IInv, Agreement, NEW r \in Runs, Visit(r)
  PROVE  Agreement'
<1> DEFINE i == [row EXCEPT !.slot = r]
<1>1. i \in RowType /\ i.known = row.known /\ i.delegated = row.delegated
  BY RowUpdates, SlotBits DEF IInv, Slots
<1>2. Inspect(r, i) \/ row' = i
  BY DEF Visit
<1> HIDE DEF i
<1>3. row'.known = row.known /\ row'.delegated = row.delegated
  BY <1>1, <1>2, InspectBits
<1> QED BY <1>3, SilentAgrees DEF Visit, world

\* The pass writes what Linear answers; the log is left.
LEMMA ConfirmAgrees ==
  ASSUME IInv, Agreement, Confirm \/ ConfirmFails
  PROVE  Agreement'
<1>1. /\ UNCHANGED <<live, mail, hook, log, recovery>>
      /\ row \in RowType /\ row.delegated \in BOOLEAN /\ lease \in BOOLEAN /\ pass.run \in Runs
  BY DEF Confirm, ConfirmFails, world, IInv, RowType, Queues, PassOK
<1>2. CASE ConfirmFails
  <2>1. row'.known = row.known /\ row'.delegated = row.delegated
    BY <1>1, <1>2, InspectBits DEF ConfirmFails
  <2> QED BY <1>1, <1>2, <2>1, SilentAgrees DEF ConfirmFails
<1>3. CASE Confirm
  <2>1. PICK v \in Answers(pass.asked) :
          /\ IF v = "us"
               THEN Inspect(pass.run, [row EXCEPT !.delegated = lease \/ @])
               ELSE row' = IF lease THEN [row EXCEPT !.slot = NoRun, !.delegated = FALSE]
                                    ELSE row
          /\ flaws' = IF v = live THEN flaws ELSE flaws \cup {"crossed"}
    BY <1>3 DEF Confirm
  <2>2. /\ row'.known = row.known
        /\ v = "us" => row'.delegated = (lease \/ row.delegated)
        /\ v # "us" => row'.delegated = (IF lease THEN FALSE ELSE row.delegated)
    <3>1. CASE v = "us"
      <4> DEFINE b == lease \/ row.delegated
      <4> DEFINE i == [row EXCEPT !.delegated = b]
      <4>1. Inspect(pass.run, i) /\ b \in BOOLEAN
        BY <1>1, <2>1, <3>1
      <4> HIDE DEF b
      <4>2. i \in RowType /\ i.known = row.known /\ i.delegated = b
        BY <1>1, <4>1 DEF RowType
      <4> HIDE DEF i
      <4>3. row'.known = row.known /\ row'.delegated = b
        BY <1>1, <4>1, <4>2, InspectBits
      <4> QED BY <3>1, <4>3 DEF b
    <3>2. CASE v # "us"
      <4>1. CASE lease
        <5>1. row' = [row EXCEPT !.slot = NoRun, !.delegated = FALSE]
          BY <2>1, <3>2, <4>1
        <5> QED BY <1>1, <3>2, <4>1, <5>1 DEF RowType
      <4>2. CASE ~lease
        BY <2>1, <3>2, <4>2
      <4> QED BY <4>1, <4>2
    <3> QED BY <3>1, <3>2
  <2>3. ASSUME flaws' = {}, ~hook.explicit, ~Explicit(mail) PROVE InSync'
    <3>1. v = live /\ flaws = {}
      BY <2>1, <2>3
    <3>2. InSync
      BY <2>3, <3>1 DEF Agreement
    <3>3. CASE row.known
      <4>1. row'.delegated = row.delegated
        BY <1>1, <2>2, <3>1, <3>2, <3>3 DEF InSync
      <4> QED BY <1>1, <2>2, <3>2, <4>1 DEF InSync, Authority
    <3>4. CASE ~row.known
      BY <1>1, <2>2, <3>2, <3>4 DEF InSync
    <3> QED BY <3>3, <3>4
  <2>4. Informed'
    BY <1>1, <2>2 DEF Agreement, Informed, Explicit
  <2> QED BY <1>1, <2>2, <2>3, <2>4, CurrentKept DEF Agreement, Untracked, Explicit
<1> QED BY <1>2, <1>3

LEMMA DiscoverAgrees ==
  ASSUME IInv, Agreement, Discover \/ DiscoverFails
  PROVE  Agreement'
<1>1. UNCHANGED <<live, mail, hook>>
  BY DEF Discover, DiscoverFails, world
<1>2. recovery'.pc = "asking" => row'.known
  <2>1. GoOn(row')
    BY DEF Discover, DiscoverFails
  <2> QED BY <2>1 DEF GoOn, Off
<1>3. CASE UNCHANGED <<row, log, flaws>>
  BY <1>1, <1>2, <1>3, SilentAgrees
<1>4. CASE ~UNCHANGED <<row, log, flaws>>
  <2>1. PICK v \in Answers(recovery.asked) :
          /\ v = "us" /\ ~row.known
          /\ row' = [row EXCEPT !.known = TRUE, !.delegated = TRUE]
          /\ flaws' = (flaws \ {"missed"})
                        \cup (IF v = live THEN {} ELSE {"crossed"})
                        \cup (IF log'.last THEN {} ELSE {"swallowed"})
    BY <1>4 DEF Discover, DiscoverFails
  <2>2. row'.known = TRUE /\ row'.delegated = TRUE
    BY <2>1 DEF IInv, RowType
  <2>3. ASSUME flaws' = {} PROVE InSync'
    <3>1. live = "us" /\ log'.last
      BY <2>1, <2>3
    <3>2. log'.last \in BOOLEAN
      BY DiscoverStep, LogFields DEF Step, IInv, AllSound
    <3> QED BY <1>1, <1>2, <2>2, <3>1, <3>2 DEF InSync, Authority
  <2>4. Informed'
    BY <1>1, <2>2 DEF Agreement, Informed, Explicit
  <2> QED BY <1>1, <1>2, <2>2, <2>3, <2>4, CurrentKept DEF Agreement, Untracked, Explicit
<1> QED BY <1>3, <1>4

LEMMA RecoverAgrees ==
  ASSUME IInv, Agreement, Recover \/ RecoverFails
  PROVE  Agreement'
<1>1. UNCHANGED <<live, mail, hook>> /\ recovery'.pc = "off"
  BY DEF Recover, RecoverFails, Off, world
<1>2. CASE RecoverFails
  BY <1>1, <1>2, SilentAgrees DEF RecoverFails
<1>3. CASE Recover
  <2>1. PICK v \in Answers(recovery.asked) :
          /\ row' = [row EXCEPT !.delegated = (v = "us")]
          /\ flaws' = (flaws \ {"missed"})
                        \cup (IF v = live THEN {} ELSE {"crossed"})
                        \cup (IF Authority(v = "us", log') = (v = "us") THEN {} ELSE {"swallowed"})
    BY <1>3 DEF Recover
  <2>2. row.known
    BY <1>3 DEF Recover, Agreement
  <2> DEFINE d == v = "us"
  <2>3. /\ row' = [row EXCEPT !.delegated = d] /\ d \in BOOLEAN
        /\ flaws' = {} => v = live /\ Authority(d, log') = d
    BY <2>1
  <2>4. d = (v = "us")
    OBVIOUS
  <2> HIDE DEF d
  <2>5. row'.known = row.known /\ row'.delegated = d
    BY <2>3 DEF IInv, RowType
  <2>6. ASSUME flaws' = {} PROVE InSync'
    BY <1>1, <2>2, <2>3, <2>4, <2>5, <2>6 DEF InSync, Authority
  <2>7. Informed'
    BY <1>1, <2>5 DEF Agreement, Informed, Explicit
  <2> QED BY <1>1, <2>2, <2>5, <2>6, <2>7, CurrentKept DEF Agreement, Untracked, Explicit
<1> QED BY <1>2, <1>3

----------------------------------------------------------------------------
LEMMA AgreesInitially == Init => Agreement
BY DEF Init, Agreement, Current, Informed, InSync, Untracked, Explicit, Off

LEMMA AgreesNext == IInv /\ Agreement /\ Next => Agreement'
<1> SUFFICES ASSUME IInv, Agreement, Next PROVE Agreement'
  OBVIOUS
<1>1. CASE People
  BY <1>1, DelegateAgrees, EditAgrees DEF People
<1>2. CASE Webhook
  BY <1>2, TakeAgrees, LoadAgrees, LoadFailsAgrees, SyncAgrees, SyncFailsAgrees, StopAgrees
     DEF Webhook
<1>3. CASE Launch \/ Ending \/ ListReady \/ \E r \in Runs : EndTurn(r)
  BY <1>3, RunsAgree
<1>4. CASE Background
  BY <1>4, VisitAgrees, ConfirmAgrees DEF Background
<1>5. CASE Restart
  BY <1>5, RestartAgrees
<1>6. CASE Recovery
  BY <1>6, DiscoverAgrees, RecoverAgrees DEF Recovery
<1> QED BY <1>1, <1>2, <1>3, <1>4, <1>5, <1>6 DEF Next

LEMMA AgreesStuttering == Agreement /\ UNCHANGED vars => Agreement'
<1> SUFFICES ASSUME Agreement, UNCHANGED vars PROVE Agreement'
  OBVIOUS
<1> QED BY SilentAgrees DEF vars, world, stored, process

LEMMA AgreementHolds == Spec => []Agreement
<1>1. IInv /\ Agreement /\ [Next]_vars => Agreement'
  BY AgreesNext, AgreesStuttering
<1> QED BY <1>1, AgreesInitially, Invariant, PTL DEF Spec

\* Unless a change of the delegate is on its way, the row and the log agree with
\* Linear, for any number of changes, restarts and failing reads; they err only for
\* the reasons that flaws records (desired-stage-recorder.ts, run-reconciler.ts and
\* service-startup-recovery.ts write the bit, the observation store the log).
THEOREM AuthorityStaysCurrent == Spec => []AuthorityIsCurrent
<1>1. Agreement => AuthorityIsCurrent
  BY DEF Agreement, AuthorityIsCurrent, Changing, Explicit, InSync
<1> QED BY <1>1, AgreementHolds, PTL
=============================================================================
