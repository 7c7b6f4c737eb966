---------------------------- MODULE StewardProofs ----------------------------
(***************************************************************************)
(* What TLAPS proves about Steward for every set of pull requests, every   *)
(* stacking of them, every limit and every number of disturbances.         *)
(***************************************************************************)
EXTENDS Steward, QueueOrderProofs, SequenceTheorems, TLAPS

-----------------------------------------------------------------------------
\* Rows and patches

\* A row stays a row when commits are made and rows are inserted.
LEMMA RowGrows ==
  ASSUME NEW O, NEW N, NEW O2, NEW N2, O \subseteq O2, N \subseteq N2,
         NEW e, IsRow(O, N, e)
  PROVE  IsRow(O2, N2, e)
<1>1. \A c \in Columns : Type(O, N)[c] \subseteq Type(O2, N2)[c]
  BY DEF Columns, Type
<1> QED BY <1>1 DEF IsRow, HasCommit

\* So does a patch.
LEMMA PatchGrows ==
  ASSUME NEW O, NEW N, NEW O2, NEW N2, O \subseteq O2, N \subseteq N2,
         NEW p, IsPatch(O, N, p)
  PROVE  IsPatch(O2, N2, p)
<1>1. \A c \in Columns : Type(O, N)[c] \subseteq Type(O2, N2)[c]
  BY DEF Columns, Type
<1> QED BY <1>1 DEF IsPatch, HasCommit

\* Patching a row gives a row, and does not change which entry it is.
LEMMA SpreadRow ==
  ASSUME NEW O, NEW N, NEW e, NEW p, IsRow(O, N, e), IsPatch(O, N, p)
  PROVE  IsRow(O, N, Spread(e, p)) /\ Spread(e, p).id = e.id
<1>1. DOMAIN e \cup DOMAIN p = Columns
  BY DEF IsRow, IsPatch
<1>2. IsRow(O, N, Spread(e, p))
  BY <1>1 DEF IsRow, IsPatch, Spread, HasCommit
<1>3. "id" \in Columns /\ "id" \notin DOMAIN p
  BY DEF IsPatch, Columns, Fixed
<1> QED BY <1>1, <1>2, <1>3 DEF Spread

LEMMA SpreadPatch ==
  ASSUME NEW O, NEW N, NEW p, NEW q, IsPatch(O, N, p), IsPatch(O, N, q)
  PROVE  IsPatch(O, N, Spread(p, q))
BY DEF IsPatch, Spread, HasCommit

\* The columns of a row, one by one.
LEMMA RowColumns ==
  ASSUME NEW O, NEW N, NEW e, IsRow(O, N, e)
  PROVE  /\ e.id \in N /\ e.branch \in PR /\ e.head \in O /\ e.base \in PR \cup {Main}
         /\ e.status \in Statuses /\ e.sha \in O \cup {Null}
         /\ e.dep \in N \cup {Null} /\ e.run \in O \cup {Null, HeadRun}
         /\ e.retries \in 0..FlakyRetries /\ e.attempts \in 0..MaxRetries
         /\ e.failed \in BOOLEAN /\ e.ref \in BOOLEAN
         /\ e.kind \in {"none", "head", "integration", "integration_repair"}
         /\ e.kind = "head" => e.sha \in O
<1>1. (\A c \in Columns : e[c] \in Type(O, N)[c]) /\ (e.kind = "head" => e.sha \in O)
  BY DEF IsRow, HasCommit, Columns
<1> QED BY <1>1 DEF Columns, Type

\* What makes a patch, column by column.
LEMMA PatchColumns ==
  ASSUME NEW O, NEW N, NEW p, DOMAIN p \subseteq Columns \ Fixed, HasCommit(O, p),
         "base" \in DOMAIN p => p.base \in PR \cup {Main},
         "status" \in DOMAIN p => p.status \in Statuses,
         "kind" \in DOMAIN p =>
            p.kind \in {"none", "head", "integration", "integration_repair"},
         "ref" \in DOMAIN p => p.ref \in BOOLEAN,
         "sha" \in DOMAIN p => p.sha \in O \cup {Null},
         "dep" \in DOMAIN p => p.dep \in N \cup {Null},
         "run" \in DOMAIN p => p.run \in O \cup {Null, HeadRun},
         "retries" \in DOMAIN p => p.retries \in 0..FlakyRetries,
         "attempts" \in DOMAIN p => p.attempts \in 0..MaxRetries,
         "failed" \in DOMAIN p => p.failed \in BOOLEAN,
         "why" \in DOMAIN p => p.why \in {"branch_local", "integration_conflict",
                                          "feature_changed", "policy_blocked"}
  PROVE  IsPatch(O, N, p)
<1> SUFFICES ASSUME NEW c \in DOMAIN p PROVE p[c] \in Type(O, N)[c]
  BY DEF IsPatch
<1>1. c \in {"base", "status", "kind", "ref", "sha", "dep", "run", "retries", "attempts",
            "failed", "why"}
  BY DEF Columns, Fixed
<1>2. CASE c \in {"base", "status", "kind", "ref"}
  BY <1>2 DEF Type
<1>3. CASE c \in {"sha", "dep", "run", "why"}
  BY <1>3 DEF Type
<1>4. CASE c = "retries"
  <2>1. Type(O, N).retries = 0..FlakyRetries BY DEF Type
  <2> QED BY <1>4, <2>1
<1>5. CASE c = "attempts"
  <2>1. Type(O, N).attempts = 0..MaxRetries BY DEF Type
  <2> QED BY <1>5, <2>1
<1>6. CASE c = "failed"
  <2>1. Type(O, N).failed = BOOLEAN BY DEF Type
  <2> QED BY <1>6, <2>1
<1> QED BY <1>1, <1>2, <1>3, <1>4, <1>5, <1>6

LEMMA NamedPatches ==
  ASSUME NEW O, NEW N
  PROVE  /\ \A s \in Statuses : IsPatch(O, N, To(s))
         /\ IsPatch(O, N, CleanCI)
         /\ IsPatch(O, N, CleanRef)
         /\ IsPatch(O, N, ClearCandidate)
         /\ IsPatch(O, N, [attempts |-> 0, failed |-> FALSE])
         /\ \A b \in PR \cup {Main} : IsPatch(O, N, [status |-> "queued", base |-> b])
         /\ \A w \in {"branch_local", "integration_conflict", "feature_changed",
                      "policy_blocked"} : IsPatch(O, N, [why |-> w])
<1> USE StewardAssumption DEF Columns, Fixed, HasCommit
<1>1. \A s \in Statuses : IsPatch(O, N, To(s))
  BY PatchColumns DEF To
<1>2. IsPatch(O, N, CleanCI)
  BY PatchColumns DEF CleanCI
<1>3. IsPatch(O, N, CleanRef)
  BY PatchColumns DEF CleanRef
<1>4. IsPatch(O, N, ClearCandidate)
  BY PatchColumns DEF ClearCandidate
<1>5. IsPatch(O, N, [attempts |-> 0, failed |-> FALSE])
  <2> DEFINE p == [attempts |-> 0, failed |-> FALSE]
  <2>1. DOMAIN p = {"attempts", "failed"} /\ p.attempts \in 0..MaxRetries /\ p.failed = FALSE
    OBVIOUS
  <2> HIDE DEF p
  <2>2. IsPatch(O, N, p)
    BY <2>1, PatchColumns
  <2> QED BY <2>2 DEF p
<1>6. \A b \in PR \cup {Main} : IsPatch(O, N, [status |-> "queued", base |-> b])
  BY PatchColumns DEF Statuses
<1>7. \A w \in {"branch_local", "integration_conflict", "feature_changed",
                "policy_blocked"} : IsPatch(O, N, [why |-> w])
  BY PatchColumns
<1> QED BY <1>1, <1>2, <1>3, <1>4, <1>5, <1>6, <1>7

LEMMA CompoundPatches ==
  ASSUME NEW O, NEW N
  PROVE  /\ IsPatch(O, N, Reprepare)
         /\ IsPatch(O, N, Invalidation)
         /\ IsPatch(O, N, Supersede)
         /\ IsPatch(O, N, Merge)
         /\ \A b \in PR \cup {Main} : IsPatch(O, N, Rebase(b))
         /\ \A w \in {"branch_local", "integration_conflict", "feature_changed",
                      "policy_blocked"} : IsPatch(O, N, Evict(w))
         /\ \A s \in Statuses : IsPatch(O, N, Spread(To(s), CleanRef))
<1>1. IsPatch(O, N, Spread(CleanCI, ClearCandidate))
  BY NamedPatches, SpreadPatch
<1>2. \A s \in Statuses : IsPatch(O, N, Spread(To(s), Spread(CleanCI, ClearCandidate)))
  BY <1>1, NamedPatches, SpreadPatch
<1>3. IsPatch(O, N, Reprepare) /\ IsPatch(O, N, Supersede)
  BY <1>2 DEF Reprepare, Supersede, Statuses, Terminal
<1>4. IsPatch(O, N, Invalidation)
  BY <1>3, NamedPatches, SpreadPatch DEF Invalidation
<1>5. \A s \in Statuses : IsPatch(O, N, Spread(To(s), CleanRef))
  BY NamedPatches, SpreadPatch
<1>6. IsPatch(O, N, Merge)
  BY <1>5 DEF Merge, Statuses, Terminal
<1>7. \A b \in PR \cup {Main} : IsPatch(O, N, Rebase(b))
  BY <1>4, NamedPatches, SpreadPatch DEF Rebase
<1>8. ASSUME NEW w \in {"branch_local", "integration_conflict", "feature_changed",
                        "policy_blocked"}
      PROVE  IsPatch(O, N, Evict(w))
  <2>1. IsPatch(O, N, Spread(CleanRef, [why |-> w])) /\ IsPatch(O, N, To("evicted"))
    BY NamedPatches, SpreadPatch DEF Statuses, Terminal
  <2> QED BY <2>1, SpreadPatch DEF Evict
<1> QED BY <1>3, <1>4, <1>5, <1>6, <1>7, <1>8

-----------------------------------------------------------------------------
\* The store

\* A table that keeps its positions is a table again when its rows are rows.
LEMMA SameLength ==
  ASSUME NEW O, NEW es, IsStore(O, es), NEW fs, fs = [n \in DOMAIN es |-> fs[n]],
         \A n \in DOMAIN es : IsRow(O, DOMAIN es, fs[n]) /\ fs[n].id = n
  PROVE  IsStore(O, fs) /\ DOMAIN fs = DOMAIN es
<1>1. DOMAIN fs = DOMAIN es
  OBVIOUS
<1>2. DOMAIN es = 1..Len(es) /\ Len(es) \in Nat
  BY LenProperties DEF IsStore
<1>3. fs \in [1..Len(es) -> Range(fs)]
  BY <1>1, <1>2 DEF Range
<1>4. fs \in Seq(Range(fs))
  BY <1>2, <1>3, SeqDef
<1> QED BY <1>1, <1>4 DEF IsStore

LEMMA TransitionStore ==
  ASSUME NEW O, NEW es, IsStore(O, es), NEW n \in DOMAIN es,
         NEW p, IsPatch(O, DOMAIN es, p)
  PROVE  IsStore(O, Transition(es, n, p)) /\ DOMAIN Transition(es, n, p) = DOMAIN es
<1> DEFINE fs == Transition(es, n, p)
<1>1. es = [m \in DOMAIN es |-> es[m]]
  BY LenProperties DEF IsStore
<1>2. fs = [m \in DOMAIN es |-> IF m = n THEN Written(es[n], p) ELSE es[m]]
  BY <1>1 DEF Transition
<1>3. IsRow(O, DOMAIN es, Written(es[n], p)) /\ Written(es[n], p).id = n
  <2>1. IsRow(O, DOMAIN es, es[n]) /\ es[n].id = n
    BY DEF IsStore
  <2>2. IsRow(O, DOMAIN es, Spread(es[n], p)) /\ Spread(es[n], p).id = n
    BY <2>1, SpreadRow
  <2>3. Written(es[n], p) \in {es[n], Spread(es[n], p)}
    BY DEF Written
  <2> QED BY <2>1, <2>2, <2>3
<1>4. \A m \in DOMAIN es : IsRow(O, DOMAIN es, fs[m]) /\ fs[m].id = m
  BY <1>2, <1>3 DEF IsStore
<1>5. fs = [m \in DOMAIN es |-> fs[m]]
  BY <1>2
<1> QED BY <1>4, <1>5, SameLength

LEMMA InvalidateStore ==
  ASSUME NEW O, NEW es, IsStore(O, es), NEW ids
  PROVE  IsStore(O, Invalidate(es, ids)) /\ DOMAIN Invalidate(es, ids) = DOMAIN es
<1> DEFINE fs == Invalidate(es, ids)
<1>1. fs = [m \in DOMAIN es |-> IF m \in ids THEN Spread(es[m], Invalidation) ELSE es[m]]
  BY DEF Invalidate
<1>2. IsPatch(O, DOMAIN es, Invalidation)
  BY CompoundPatches
<1>3. \A m \in DOMAIN es : IsRow(O, DOMAIN es, fs[m]) /\ fs[m].id = m
  BY <1>1, <1>2, SpreadRow DEF IsStore
<1>4. fs = [m \in DOMAIN es |-> fs[m]]
  BY <1>1
<1> QED BY <1>3, <1>4, SameLength

LEMMA AppendStore ==
  ASSUME NEW O, NEW es, IsStore(O, es), NEW e, e.id = Len(es) + 1,
         IsRow(O, 1..(Len(es) + 1), e)
  PROVE  IsStore(O, Append(es, e)) /\ DOMAIN es \subseteq DOMAIN Append(es, e)
<1> DEFINE fs == Append(es, e)
           S  == Range(es) \cup {e}
<1>1. es \in Seq(S) /\ e \in S
  BY SeqMonotonic DEF IsStore
<1>2. /\ Len(es) \in Nat /\ DOMAIN es = 1..Len(es)
      /\ fs \in Seq(S) /\ Len(fs) = Len(es) + 1 /\ DOMAIN fs = 1..Len(fs)
      /\ fs[Len(es) + 1] = e
      /\ \A m \in 1..Len(es) : fs[m] = es[m]
  BY <1>1, LenProperties, AppendProperties
<1> HIDE DEF fs
<1>3. fs \in [1..Len(fs) -> Range(fs)]
  BY <1>2, LenProperties DEF Range
<1>4. fs \in Seq(Range(fs))
  BY <1>2, <1>3, SeqDef
<1>5. DOMAIN es \subseteq DOMAIN fs
  BY <1>2
<1>6. ASSUME NEW m \in DOMAIN fs PROVE IsRow(O, DOMAIN fs, fs[m]) /\ fs[m].id = m
  <2>1. CASE m = Len(es) + 1
    BY <2>1, <1>2
  <2>2. CASE m \in DOMAIN es
    BY <2>2, <1>2, <1>5, RowGrows DEF IsStore
  <2> QED BY <2>1, <2>2, <1>2
<1> QED BY <1>4, <1>5, <1>6 DEF IsStore, fs

LEMMA StoreGrows ==
  ASSUME NEW O, NEW O2, O \subseteq O2, NEW es, IsStore(O, es)
  PROVE  IsStore(O2, es)
BY RowGrows DEF IsStore

-----------------------------------------------------------------------------
\* Where a step may leave the tick

Grown == Objects \subseteq Objects' /\ Ids \subseteq Ids'

LEMMA GrownRows ==
  ASSUME Grown
  PROVE  /\ \A e : IsRow(Objects, Ids, e) => IsRow(Objects', Ids', e)
         /\ \A p : IsPatch(Objects, Ids, p) => IsPatch(Objects', Ids', p)
BY RowGrows, PatchGrows DEF Grown

\* Between two entries the tick remembers nothing that has a type.
LEMMA FreeTick ==
  ASSUME pc' \in {"boot", "idle", "pick"}
  PROVE  TickOK'
BY DEF TickOK, Busy

\* The tick is not at work in this step.
LEMMA KeptTick ==
  ASSUME TickOK, Grown, UNCHANGED tick
  PROVE  TickOK'
BY GrownRows DEF TickOK, tick, Grown

\* It goes on with what it knows.
LEMMA GoneTick ==
  ASSUME TickOK, Grown, pc \in Busy, NEW label \in Busy, Goto(label),
         label \in {"land", "gate", "push"} => snap.sha \in Objects,
         label = "checks" => pc = "refresh",
         label = "cascade" => pc = "apply",
         label \notin {"prepare", "refresh", "apply"}
  PROVE  TickOK'
BY GrownRows DEF TickOK, Goto, Busy, Grown

\* It has decided on a patch.
LEMMA DecidedTick ==
  ASSUME TickOK, Grown, pc \in Busy,
         NEW patch, NEW down, NEW tail \in {"next", "halt", "retire", "checks"}, NEW clean,
         DecideThen(patch, down, tail, clean), IsPatch(Objects', Ids', patch)
  PROVE  TickOK'
BY GrownRows DEF TickOK, DecideThen, Busy

LEMMA CheckedTick ==
  ASSUME TickOK, Grown, pc \in {"refresh", "checks"},
         NEW patch, NEW down, NEW tail \in {"next", "halt", "retire", "checks"},
         DecideChecked(patch, down, tail), IsPatch(Objects', Ids', patch)
  PROVE  TickOK'
BY GrownRows DEF TickOK, DecideChecked, Busy

\* The loop goes on, or stops.
LEMMA NextIsFree ==
  ASSUME NextEntry \/ Halt \/ Advance
  PROVE  TickOK'
<1>1. pc' \in {"boot", "idle", "pick"}
  BY DEF NextEntry, Halt, Advance
<1> QED BY <1>1, FreeTick

\* Nothing but the tick moves.
LEMMA QuietOK ==
  ASSUME TypeOK, Quiet
  PROVE  WorldOK' /\ StoreOK' /\ Grown
BY DEF TypeOK, WorldOK, StoreOK, IsStore, Grown, Quiet, github, Objects, Ids

\* Nothing but a disturbance and the tick.
LEMMA SpentOK ==
  ASSUME TypeOK, NEW deed, Spend(deed),
         UNCHANGED <<gh, main, ci, vouched, refused, ws, hooks, entries, deleting, admitting>>
  PROVE  WorldOK' /\ StoreOK' /\ Grown
<1>1. left' \in 0..MaxDeeds
  BY StewardAssumption DEF Spend, TypeOK, WorldOK
<1> QED BY <1>1 DEF TypeOK, WorldOK, StoreOK, IsStore, Grown, Objects, Ids

\* The row the tick works on, and its place in the store.
LEMMA SnapRow ==
  ASSUME TypeOK, pc \in Busy
  PROVE  /\ snap.id \in Ids /\ snap.branch \in PR /\ snap.head \in Objects
         /\ snap.base \in PR \cup {Main} /\ snap.status \in Statuses
         /\ snap.sha \in Objects \cup {Null} /\ snap.dep \in Ids \cup {Null}
         /\ snap.run \in Objects \cup {Null, HeadRun}
         /\ snap.retries \in 0..FlakyRetries /\ snap.attempts \in 0..MaxRetries
         /\ snap.kind \in {"none", "head", "integration", "integration_repair"}
         /\ snap.kind = "head" => snap.sha \in Objects
<1>1. IsRow(Objects, Ids, snap)
  BY DEF TypeOK, TickOK
<1> QED BY <1>1, RowColumns

\* A patch written at once, before the next entry.
LEMMA WriteNowOK ==
  ASSUME TypeOK, pc \in Busy, NEW patch, IsPatch(Objects, Ids, patch),
         WriteNow(patch), UNCHANGED <<deleting, admitting, github>>
  PROVE  TypeOK'
<1>1. snap.id \in Ids
  BY SnapRow
<1>2. IsStore(Objects, entries') /\ Ids' = Ids
  BY <1>1, TransitionStore DEF WriteNow, TypeOK, StoreOK, Ids
<1>3. WorldOK' /\ StoreOK'
  BY <1>2 DEF TypeOK, WorldOK, StoreOK, github, Objects
<1>4. TickOK'
  BY NextIsFree DEF WriteNow
<1> QED BY <1>3, <1>4 DEF TypeOK

-----------------------------------------------------------------------------
\* The initial state, and the steps one by one

LEMMA InitTypes ==
  ASSUME Init
  PROVE  TypeOK
<1> USE StewardAssumption DEF Init, Objects
<1>1. PICK shape \in Shapes :
        /\ gh = [p \in PR |-> [state |-> "open", head |-> InitialHead(shape, p),
                               base |-> shape.base[p], ok |-> TRUE]]
        /\ ci = [c \in {Root} \cup {InitialHead(shape, p) : p \in PR} |-> "pass"]
  OBVIOUS
<1>2. shape.base \in [PR -> PR \cup {Main}]
  OBVIOUS
<1>3. Objects = {Root} \cup {InitialHead(shape, p) : p \in PR}
  BY <1>1
<1>4. \A p \in PR : gh[p] \in [state : {"open", "closed", "merged"}, head : Objects,
                               base : PR \cup {Main}, ok : BOOLEAN]
  BY <1>1, <1>2, <1>3
<1>5. WorldOK
  BY <1>1, <1>3, <1>4 DEF WorldOK
<1>6. DOMAIN entries = {} /\ entries \in Seq(Range(entries))
  BY EmptySeq
<1>7. StoreOK
  BY <1>6 DEF StoreOK, IsStore
<1>8. TickOK
  BY DEF TickOK, Busy
<1> QED BY <1>5, <1>7, <1>8 DEF TypeOK

\* Pick and the dispatch of the loop body.
LEMMA WalkTypes ==
  ASSUME TypeOK, \/ TickStart \/ Pick \/ Sanitize \/ SanitizeFails
                 \/ WaitForParent \/ DropStale \/ Promote
                 \/ StartPrepare \/ StartValidation \/ StartMerge
  PROVE  TypeOK'
<1> USE DEF Statuses
<1>1. CASE TickStart
  <2>1. Quiet /\ pc' = "pick"
    BY <1>1 DEF TickStart, Quiet
  <2> QED BY <2>1, QuietOK, FreeTick DEF TypeOK
<1>2. CASE Pick
  <2>1. WorldOK' /\ StoreOK' /\ Grown
    BY <1>2, QuietOK DEF Pick, Quiet
  <2>2. CASE Advance
    BY <2>1, <2>2, NextIsFree DEF TypeOK
  <2>3. CASE /\ Row(work[idx]) # Null
             /\ pc' = "probe" /\ snap' = entries[work[idx]] /\ UNCHANGED <<work, nb, idx, todo>>
    <3>1. IsRow(Objects, Ids, snap')
      BY <2>3 DEF Row, TypeOK, StoreOK, IsStore, Ids
    <3>2. TickOK'
      BY <2>1, <2>3, <3>1, GrownRows DEF TickOK, Busy
    <3> QED BY <2>1, <3>2 DEF TypeOK
  <2> QED BY <1>2, <2>2, <2>3 DEF Pick
<1>3. CASE Sanitize
  <2>1. WorldOK' /\ StoreOK' /\ Grown /\ pc \in Busy
    BY <1>3, QuietOK DEF Sanitize, Busy
  <2>2. gh[snap.branch].base \in PR \cup {Main}
    BY <2>1, SnapRow DEF TypeOK, WorldOK
  <2> DEFINE stop == IF IsBlocked THEN "next" ELSE "halt"
             pr   == gh[snap.branch]
  <2>3. stop \in {"next", "halt", "retire", "checks"}
    OBVIOUS
  <2> HIDE DEF stop
  <2>4. \/ DecideThen(Merge, {}, stop, TRUE) \/ DecideThen(Supersede, Dependents, stop, TRUE)
        \/ DecideThen(Rebase(pr.base), {}, stop, TRUE)
        \/ DecideThen(To("dequeued"), {}, stop, TRUE)
    BY <1>3 DEF Sanitize, SupersedeThen, stop
  <2>5. /\ TickOK /\ IsPatch(Objects', Ids', Merge) /\ IsPatch(Objects', Ids', Supersede)
        /\ IsPatch(Objects', Ids', Rebase(pr.base)) /\ IsPatch(Objects', Ids', To("dequeued"))
    BY <2>2, NamedPatches, CompoundPatches DEF Terminal, TypeOK
  <2>6. TickOK'
    BY <2>1, <2>3, <2>4, <2>5, DecidedTick
  <2> QED BY <2>1, <2>6 DEF TypeOK
<1>4. CASE SanitizeFails
  <2>1. WorldOK' /\ StoreOK' /\ Grown
    BY <1>4, SpentOK DEF SanitizeFails
  <2>2. TickOK'
    BY <1>4, <2>1, GoneTick DEF SanitizeFails, TypeOK, Busy
  <2> QED BY <2>1, <2>2 DEF TypeOK
<1>5. CASE WaitForParent
  <2>1. pc \in Busy
    BY <1>5 DEF WaitForParent, Sane, Busy
  <2>2. CASE WriteNow(To(snap.status))
    BY <1>5, <2>1, <2>2, SnapRow, NamedPatches, WriteNowOK DEF WaitForParent
  <2>3. CASE DecideAndClean(Invalidation) /\ UNCHANGED entries
    <3>1. WorldOK' /\ StoreOK' /\ Grown
      BY <1>5, <2>3, QuietOK DEF WaitForParent, Quiet
    <3>2. TickOK'
      BY <2>1, <2>3, <3>1, CompoundPatches, DecidedTick DEF TypeOK, DecideAndClean
    <3> QED BY <3>1, <3>2 DEF TypeOK
  <2>4. CASE Skip
    <3>1. WorldOK' /\ StoreOK' /\ Grown
      BY <1>5, <2>4, QuietOK DEF WaitForParent, Quiet, Skip
    <3> QED BY <2>4, <3>1, NextIsFree DEF TypeOK, Skip
  <2> QED BY <1>5, <2>2, <2>3, <2>4 DEF WaitForParent
<1>6. CASE DropStale
  <2>1. WorldOK' /\ StoreOK' /\ Grown /\ pc \in Busy
    BY <1>6, QuietOK DEF DropStale, Sane, Busy
  <2>2. TickOK'
    BY <1>6, <2>1, CompoundPatches, DecidedTick DEF DropStale, TypeOK, DecideAndClean
  <2> QED BY <2>1, <2>2 DEF TypeOK
<1>7. CASE Promote
  <2>1. pc \in Busy
    BY <1>7 DEF Promote, Dispatched, Sane, Busy
  <2> QED BY <1>7, <2>1, NamedPatches, WriteNowOK DEF Promote
<1>8. CASE StartPrepare
  <2>1. WorldOK' /\ StoreOK' /\ Grown /\ IsRow(Objects, Ids, snap)
    BY <1>8, QuietOK DEF StartPrepare, Dispatched, Sane, Busy, TypeOK, TickOK
  <2>2. todo' = Null \/ IsRow(Objects, Ids, todo')
    BY <1>8 DEF StartPrepare, Row, TypeOK, StoreOK, IsStore, Ids
  <2>3. TickOK'
    BY <1>8, <2>1, <2>2, GrownRows DEF StartPrepare, TickOK, Busy
  <2> QED BY <2>1, <2>3 DEF TypeOK
<1>9. CASE StartValidation
  <2>1. WorldOK' /\ StoreOK' /\ Grown /\ IsRow(Objects, Ids, snap)
    BY <1>9, QuietOK DEF StartValidation, Dispatched, Sane, Busy, TypeOK, TickOK
  <2>2. /\ DOMAIN todo' = {"patch", "down", "tail", "clean", "landing"}
        /\ todo'.patch = <<>>
        /\ todo'.tail \in {"next", "halt"}
    BY <1>9 DEF StartValidation, TailFor
  <2>3. IsPatch(Objects', Ids', <<>>)
    BY EmptySeq DEF IsPatch, HasCommit
  <2>4. TickOK'
    BY <1>9, <2>1, <2>2, <2>3, GrownRows DEF StartValidation, TickOK, Busy
  <2> QED BY <2>1, <2>4 DEF TypeOK
<1>10. CASE StartMerge
  <2>1. WorldOK' /\ StoreOK' /\ Grown /\ pc \in Busy
    BY <1>10, QuietOK DEF StartMerge, Quiet, Skip, Dispatched, Sane, Busy
  <2>2. TickOK'
    BY <1>10, <2>1, GoneTick, NextIsFree DEF StartMerge, Skip, TypeOK, Busy
  <2> QED BY <2>1, <2>2 DEF TypeOK
<1> QED BY <1>1, <1>2, <1>3, <1>4, <1>5, <1>6, <1>7, <1>8, <1>9, <1>10

\* A commit is made, and maybe a ref is set.
LEMMA MadeOK ==
  ASSUME TypeOK, NEW c, ci' = Made(c), entries' = entries,
         ws' \in [PR -> Objects' \cup {Null}],
         UNCHANGED <<gh, main, vouched, refused, hooks, left, deleting, admitting>>
  PROVE  WorldOK' /\ StoreOK' /\ Grown /\ c \in Objects'
<1>1. /\ Objects' = Objects \cup {c}
      /\ ci' \in [Objects' -> {"pending", "pass", "fail"}]
  BY DEF Made, Objects, TypeOK, WorldOK
<1>2. Grown
  BY <1>1 DEF Grown, Ids
<1>3. WorldOK'
  BY <1>1 DEF TypeOK, WorldOK
<1>4. IsStore(Objects', entries')
  BY <1>1, StoreGrows DEF TypeOK, StoreOK
<1>5. StoreOK'
  BY <1>1, <1>4 DEF TypeOK, StoreOK
<1> QED BY <1>1, <1>2, <1>3, <1>5

\* A ref is set to a commit there is.
LEMMA PublishedOK ==
  ASSUME TypeOK, ws' \in [PR -> Objects \cup {Null}],
         UNCHANGED <<entries, deleting, admitting, gh, main, ci, vouched, refused, hooks, left>>
  PROVE  WorldOK' /\ StoreOK' /\ Grown
BY DEF TypeOK, WorldOK, StoreOK, IsStore, Grown, Objects, Ids

\* What prepareEntry records of the candidate it selected.
LEMMA SelectedPatch ==
  ASSUME NEW O, NEW N, NEW kind \in {"head", "integration"}, NEW ref \in BOOLEAN,
         NEW sha \in O, Dep \in N \cup {Null}
  PROVE  IsPatch(O, N, Selected(kind, ref, sha))
BY PatchColumns DEF Selected, Columns, Fixed, HasCommit, Statuses

\* prepareEntry
LEMMA PrepareTypes ==
  ASSUME TypeOK, \/ PrepareWaits \/ PrepareMoved \/ PrepareBlocked \/ PrepareContained
                 \/ PrepareHeadCandidate \/ PrepareConflict \/ PrepareIntegration
                 \/ PrepareFails
  PROVE  TypeOK'
<1> USE DEF Statuses
<1>1. pc = "prepare" /\ pc \in Busy /\ TickOK
  BY DEF PrepareWaits, PrepareMoved, PrepareBlocked, PrepareContained, PrepareHeadCandidate,
         PrepareConflict, PrepareIntegration, PrepareFails, Building, PrepareAllowed,
         Preparing, Busy, TypeOK
<1>2. CASE PrepareWaits
  <2>1. CASE WriteNow(To("preparing_head"))
    BY <1>1, <1>2, <2>1, NamedPatches, WriteNowOK DEF PrepareWaits
  <2>2. CASE Skip
    <3>1. WorldOK' /\ StoreOK' /\ Grown
      BY <1>2, <2>2, QuietOK DEF PrepareWaits, Quiet, Skip
    <3> QED BY <2>2, <3>1, NextIsFree DEF TypeOK, Skip
  <2> QED BY <1>2, <2>1, <2>2 DEF PrepareWaits
<1>3. CASE PrepareMoved \/ PrepareBlocked \/ PrepareContained
  <2>1. WorldOK' /\ StoreOK' /\ Grown
    BY <1>3, QuietOK DEF PrepareMoved, PrepareBlocked, PrepareContained
  <2>2. /\ IsPatch(Objects', Ids', Supersede) /\ IsPatch(Objects', Ids', Reprepare)
        /\ IsPatch(Objects', Ids', Evict("policy_blocked"))
    BY CompoundPatches
  <2>3. TickOK'
    BY <1>1, <1>3, <2>1, <2>2, DecidedTick, NextIsFree
       DEF PrepareMoved, PrepareBlocked, PrepareContained, SupersedeThen, DecideAndClean,
           Decide, Skip
  <2> QED BY <2>1, <2>3 DEF TypeOK
<1> SUFFICES ASSUME PrepareHeadCandidate \/ PrepareConflict \/ PrepareIntegration
                    \/ PrepareFails
             PROVE  TypeOK'
  BY <1>2, <1>3
<1>4. Base # Null
  BY DEF PrepareHeadCandidate, PrepareConflict, PrepareIntegration, PrepareFails, Building,
         PrepareAllowed, Preparing
<1>5. IsHead \/ IsRow(Objects, Ids, todo)
  BY <1>1, <1>4 DEF Base, Prev, TickOK
<1>6. Base \in Objects /\ Dep \in Ids \cup {Null}
  BY <1>4, <1>5, RowColumns DEF Base, Dep, Prev, TypeOK, WorldOK
<1>7. snap.branch \in PR /\ snap.head \in Objects /\ snap.id \in Ids
  BY <1>1, SnapRow
<1>8. CASE PrepareHeadCandidate
  <2>1. WorldOK' /\ StoreOK' /\ Grown
    BY <1>8, QuietOK DEF PrepareHeadCandidate
  <2>2. IsPatch(Objects, Ids, Spread(CleanCI, Selected("head", FALSE, snap.head)))
    BY <1>6, <1>7, SelectedPatch, NamedPatches, SpreadPatch
  <2>3. TickOK'
    BY <1>1, <1>8, <2>1, <2>2, GrownRows, DecidedTick DEF PrepareHeadCandidate, Decide
  <2> QED BY <2>1, <2>3 DEF TypeOK
<1>9. CASE PrepareConflict
  <2>1. ws' \in [PR -> Objects \cup {Null}]
    BY <1>6, <1>7, <1>9 DEF PrepareConflict, TypeOK, WorldOK
  <2>2. WorldOK' /\ StoreOK' /\ Grown
    BY <1>9, <2>1, PublishedOK DEF PrepareConflict
  <2>3. IsPatch(Objects, Ids, [failed |-> TRUE])
    BY PatchColumns DEF Columns, Fixed, HasCommit
  <2>4. IsPatch(Objects, Ids, Spread(Spread(CleanCI, [failed |-> TRUE]),
                                     Selected("integration", TRUE, Base)))
    BY <1>6, <2>3, SelectedPatch, NamedPatches, SpreadPatch
  <2>5. TickOK'
    BY <1>1, <1>9, <2>2, <2>4, GrownRows, DecidedTick DEF PrepareConflict, Decide
  <2> QED BY <2>2, <2>5 DEF TypeOK
<1>10. CASE PrepareIntegration
  <2> DEFINE c == MergeOf("merge", snap.branch, Base, snap.head)
  <2>1. /\ ci' = Made(c) /\ ws' = [ws EXCEPT ![snap.branch] = c]
        /\ Decide(Spread([run |-> c, failed |-> FALSE], Selected("integration", TRUE, c)))
        /\ UNCHANGED <<entries, deleting, admitting, gh, main, vouched, refused, hooks, left>>
    BY <1>10 DEF PrepareIntegration
  <2> HIDE DEF c
  <2>2. ws' \in [PR -> Objects' \cup {Null}]
    BY <1>7, <2>1 DEF Made, Objects, TypeOK, WorldOK
  <2>3. WorldOK' /\ StoreOK' /\ Grown /\ c \in Objects'
    BY <2>1, <2>2, MadeOK
  <2>4. Dep \in Ids' \cup {Null}
    BY <1>6, <2>3 DEF Grown
  <2>5. IsPatch(Objects', Ids', [run |-> c, failed |-> FALSE])
    BY <2>3, PatchColumns DEF Columns, Fixed, HasCommit
  <2>6. IsPatch(Objects', Ids', Spread([run |-> c, failed |-> FALSE],
                                       Selected("integration", TRUE, c)))
    BY <2>3, <2>4, <2>5, SelectedPatch, SpreadPatch
  <2>7. TickOK'
    BY <1>1, <2>1, <2>3, <2>6, DecidedTick DEF Decide
  <2> QED BY <2>3, <2>7 DEF TypeOK
<1>11. CASE PrepareFails
  <2>1. CASE IsHead
    <3>1. WorldOK' /\ StoreOK' /\ Grown
      BY <1>11, <2>1, SpentOK DEF PrepareFails
    <3>2. IsPatch(Objects', Ids', Evict("branch_local"))
      BY CompoundPatches
    <3>3. TickOK'
      BY <1>1, <1>11, <2>1, <3>1, <3>2, DecidedTick DEF PrepareFails, DecideAndClean
    <3> QED BY <3>1, <3>3 DEF TypeOK
  <2>2. CASE ~IsHead
    <3> DEFINE one == Transition(entries, Prev.id, Reprepare)
               two == Transition(one, snap.id, Reprepare)
    <3>1. Prev.id \in Ids
      BY <1>5, <2>2, RowColumns DEF Prev
    <3>2. \A N : IsPatch(Objects, N, Reprepare)
      BY CompoundPatches
    <3>3. IsStore(Objects, entries)
      BY DEF TypeOK, StoreOK
    <3>4. IsStore(Objects, one) /\ DOMAIN one = Ids
      BY <3>1, <3>2, <3>3, TransitionStore DEF Ids
    <3>5. IsStore(Objects, two) /\ DOMAIN two = Ids
      BY <1>7, <3>2, <3>4, TransitionStore
    <3>6. /\ entries' \in {entries, one, two} /\ (NextEntry \/ Halt) /\ Spend("git")
          /\ UNCHANGED <<deleting, admitting, gh, main, ci, vouched, refused, ws, hooks>>
      BY <1>11, <2>2 DEF PrepareFails
    <3>7. left' \in 0..MaxDeeds
      BY <3>6, StewardAssumption DEF Spend, TypeOK, WorldOK
    <3>8. WorldOK' /\ StoreOK'
      BY <3>3, <3>4, <3>5, <3>6, <3>7 DEF TypeOK, WorldOK, StoreOK, Objects
    <3>9. TickOK'
      BY <3>6, NextIsFree
    <3> QED BY <3>8, <3>9 DEF TypeOK
  <2> QED BY <2>1, <2>2
<1> QED BY <1>8, <1>9, <1>10, <1>11

\* What checkValidation writes.
LEMMA CheckPatches ==
  ASSUME NEW O, NEW N
  PROVE  /\ \A s \in Statuses : IsPatch(O, N, [status |-> s, failed |-> FALSE])
         /\ \A r \in O : IsPatch(O, N, [status |-> "validating", run |-> r])
         /\ \A k \in 0..FlakyRetries :
              /\ IsPatch(O, N, [status |-> "validating", retries |-> k])
              /\ \A r \in O : IsPatch(O, N, [status |-> "validating", run |-> r, retries |-> k])
         /\ \A k \in 0..MaxRetries : IsPatch(O, N, [status |-> "merging", attempts |-> k])
<1> USE DEF Columns, Fixed, HasCommit
<1>1. \A s \in Statuses : IsPatch(O, N, [status |-> s, failed |-> FALSE])
  BY PatchColumns
<1> USE DEF Statuses
<1>2. \A r \in O : IsPatch(O, N, [status |-> "validating", run |-> r])
  BY PatchColumns
<1>3. ASSUME NEW k \in 0..FlakyRetries
      PROVE  IsPatch(O, N, [status |-> "validating", retries |-> k])
  BY PatchColumns
<1>4. ASSUME NEW k \in 0..FlakyRetries, NEW r \in O
      PROVE  IsPatch(O, N, [status |-> "validating", run |-> r, retries |-> k])
  BY PatchColumns
<1>5. ASSUME NEW k \in 0..MaxRetries
      PROVE  IsPatch(O, N, [status |-> "merging", attempts |-> k])
  BY PatchColumns
<1> QED BY <1>1, <1>2, <1>3, <1>4, <1>5

\* refreshIntegrationWorkspace
LEMMA RefreshTypes ==
  ASSUME TypeOK, RefreshWorkspace
  PROVE  TypeOK'
<1>1. WorldOK' /\ StoreOK' /\ Grown /\ pc = "refresh" /\ pc \in Busy /\ TickOK
  BY QuietOK DEF RefreshWorkspace, Busy, TypeOK
<1>2. snap.branch \in PR /\ snap.dep \in Ids \cup {Null}
  BY <1>1, SnapRow
<1>3. todo.tail \in {"next", "halt", "retire", "checks"}
  BY <1>1 DEF TickOK
<1>4. CASE Halt
  BY <1>1, <1>4, NextIsFree DEF TypeOK
<1>5. CASE DecideChecked(Reprepare, todo.down, todo.tail)
  <2>1. IsPatch(Objects', Ids', Reprepare)
    BY CompoundPatches
  <2>2. TickOK'
    BY <1>1, <1>3, <1>5, <2>1, CheckedTick
  <2> QED BY <1>1, <2>2 DEF TypeOK
<1>6. CASE Goto("checks")
  <2>1. TickOK'
    BY <1>1, <1>6, GoneTick DEF Busy
  <2> QED BY <1>1, <2>1 DEF TypeOK
<1>7. CASE /\ Live # Null
           /\ DecideChecked([status |-> "validating", run |-> Null, retries |-> 0,
                             kind |-> "integration_repair", ref |-> TRUE, sha |-> Live,
                             dep |-> snap.dep, failed |-> TRUE],
                            todo.down, "checks")
  <2>1. Live \in Objects
    BY <1>2, <1>7 DEF Live, TypeOK, WorldOK
  <2>2. IsPatch(Objects, Ids,
                [status |-> "validating", run |-> Null, retries |-> 0,
                 kind |-> "integration_repair", ref |-> TRUE, sha |-> Live,
                 dep |-> snap.dep, failed |-> TRUE])
    <3> DEFINE patch == [status |-> "validating", run |-> Null, retries |-> 0,
                         kind |-> "integration_repair", ref |-> TRUE, sha |-> Live,
                         dep |-> snap.dep, failed |-> TRUE]
    <3>1. /\ DOMAIN patch = {"status", "run", "retries", "kind", "ref", "sha", "dep", "failed"}
          /\ patch.status = "validating" /\ patch.run = Null /\ patch.retries = 0
          /\ patch.kind = "integration_repair" /\ patch.ref = TRUE /\ patch.sha = Live
          /\ patch.dep = snap.dep /\ patch.failed = TRUE
      OBVIOUS
    <3>2. 0 \in 0..FlakyRetries
      BY StewardAssumption
    <3> HIDE DEF patch
    <3>3. IsPatch(Objects, Ids, patch)
      BY <1>2, <2>1, <3>1, <3>2, PatchColumns DEF Columns, Fixed, HasCommit, Statuses
    <3> QED BY <3>3 DEF patch
  <2>3. TickOK'
    BY <1>1, <1>7, <2>2, GrownRows, CheckedTick
  <2> QED BY <1>1, <2>3 DEF TypeOK
<1> QED BY <1>4, <1>5, <1>6, <1>7 DEF RefreshWorkspace

\* holdForIntegrationRepair
LEMMA HoldTypes ==
  ASSUME TypeOK, pc = "checks", Hold,
         UNCHANGED <<entries, deleting, admitting, gh, main, ci, vouched, refused, hooks>>,
         left' \in 0..MaxDeeds
  PROVE  TypeOK'
<1>1. pc \in Busy /\ TickOK
  BY DEF Busy, TypeOK
<1>2. snap.branch \in PR /\ snap.dep \in Ids \cup {Null} /\ Candidate \in Objects
      /\ snap.run \in Objects \cup {Null, HeadRun}
  BY <1>1, SnapRow DEF Candidate
<1>3. todo.tail \in {"next", "halt", "retire", "checks"}
  BY <1>1 DEF TickOK
<1>4. ws' \in [PR -> Objects \cup {Null}]
  BY <1>2 DEF Hold, TypeOK, WorldOK
<1>5. WorldOK' /\ StoreOK' /\ Grown
  BY <1>4 DEF TypeOK, WorldOK, StoreOK, IsStore, Grown, Objects, Ids
<1> DEFINE kind == IF snap.kind = "integration_repair" THEN snap.kind ELSE "integration"
           run  == IF snap.run = Null THEN HeadRun ELSE snap.run
           patch == [status |-> "validating", kind |-> kind, run |-> run, ref |-> TRUE,
                     sha |-> Candidate, dep |-> snap.dep, failed |-> TRUE]
<1>6. IsPatch(Objects, Ids, patch)
  <2>1. kind \in {"none", "head", "integration", "integration_repair"}
        /\ run \in Objects \cup {Null, HeadRun}
    BY <1>2
  <2> HIDE DEF kind, run
  <2> QED BY <1>2, <2>1, PatchColumns DEF Columns, Fixed, HasCommit, Statuses
<1>7. DecideChecked(patch, todo.down, todo.tail)
  BY DEF Hold
<1>8. TickOK'
  BY <1>1, <1>3, <1>5, <1>6, <1>7, GrownRows, CheckedTick
<1> QED BY <1>5, <1>8 DEF TypeOK

\* checkValidation
LEMMA CheckTypes ==
  ASSUME TypeOK, ChecksWait \/ ChecksPass \/ ChecksFail \/ Rerun \/ RerunUnavailable
  PROVE  TypeOK'
<1> USE DEF Statuses
<1>1. pc = "checks" /\ pc \in Busy /\ TickOK
  BY DEF ChecksWait, ChecksPass, ChecksFail, Rerun, RerunUnavailable, Checking, Busy, TypeOK
<1>2. /\ Candidate \in Objects /\ snap.branch \in PR
      /\ snap.retries \in 0..FlakyRetries
  BY <1>1, SnapRow DEF Candidate
<1>3. todo.tail \in {"next", "halt", "retire", "checks"}
  BY <1>1 DEF TickOK
<1>4. CASE ChecksWait \/ ChecksPass
  <2>1. WorldOK' /\ StoreOK' /\ Grown
    BY <1>4, QuietOK DEF ChecksWait, ChecksPass
  <2>2. \/ Skip \/ Decide(To("validating")) \/ Decide(To("merging"))
        \/ Decide([status |-> "validating", run |-> Candidate])
        \/ Decide([status |-> "merging", failed |-> FALSE])
        \/ Decide([status |-> "validating", failed |-> FALSE])
        \/ DecideThen(Evict("feature_changed"), todo.down, todo.tail, TRUE)
    BY <1>4 DEF ChecksWait, ChecksPass, Accept
  <2>3. /\ IsPatch(Objects, Ids, To("validating"))
        /\ IsPatch(Objects, Ids, To("merging"))
        /\ IsPatch(Objects, Ids, [status |-> "validating", run |-> Candidate])
        /\ IsPatch(Objects, Ids, [status |-> "merging", failed |-> FALSE])
        /\ IsPatch(Objects, Ids, [status |-> "validating", failed |-> FALSE])
        /\ IsPatch(Objects, Ids, Evict("feature_changed"))
    BY <1>2, CheckPatches, NamedPatches, CompoundPatches
  <2>4. CASE Skip
    BY <2>4, NextIsFree, <2>1 DEF Skip, TypeOK
  <2>5. CASE ~Skip
    <3>1. ASSUME NEW patch, Decide(patch), IsPatch(Objects, Ids, patch) PROVE TickOK'
      BY <1>1, <2>1, <3>1, GrownRows, DecidedTick DEF Decide
    <3>2. ASSUME DecideThen(Evict("feature_changed"), todo.down, todo.tail, TRUE)
          PROVE  TickOK'
      BY <1>1, <1>3, <2>1, <2>3, <3>2, GrownRows, DecidedTick
    <3>3. TickOK'
      BY <2>2, <2>3, <2>5, <3>1, <3>2
    <3> QED BY <2>1, <3>3 DEF TypeOK
  <2> QED BY <2>4, <2>5
<1>5. CASE ChecksFail
  <2>1. left' \in 0..MaxDeeds
    BY <1>5 DEF ChecksFail, TypeOK, WorldOK
  <2> QED BY <1>1, <1>5, <2>1, HoldTypes DEF ChecksFail
<1>6. ASSUME MayRerun PROVE snap.retries + 1 \in 0..FlakyRetries
  BY <1>2, <1>6, StewardAssumption DEF MayRerun
<1>7. CASE Rerun
  <2>1. Objects' = Objects /\ ci' \in [Objects' -> {"pending", "pass", "fail"}]
    BY <1>7 DEF Rerun, Objects, TypeOK, WorldOK
  <2>2. WorldOK' /\ StoreOK' /\ Grown
    BY <1>7, <2>1 DEF Rerun, TypeOK, WorldOK, StoreOK, IsStore, Grown, Ids
  <2>3. IsPatch(Objects, Ids, [status |-> "validating", run |-> Candidate,
                               retries |-> snap.retries + 1])
    BY <1>2, <1>6, <1>7, CheckPatches DEF Rerun
  <2>4. TickOK'
    BY <1>1, <1>7, <2>2, <2>3, GrownRows, DecidedTick DEF Rerun, Decide
  <2> QED BY <2>2, <2>4 DEF TypeOK
<1>8. CASE RerunUnavailable
  <2>1. left' \in 0..MaxDeeds
    BY <1>8 DEF RerunUnavailable, TypeOK, WorldOK
  <2>2. CASE Hold
    BY <1>1, <1>8, <2>1, <2>2, HoldTypes DEF RerunUnavailable
  <2>3. CASE Decide([status |-> "validating", retries |-> snap.retries + 1]) /\ UNCHANGED ws
    <3>1. WorldOK' /\ StoreOK' /\ Grown
      BY <1>8, <2>3, QuietOK DEF RerunUnavailable, Quiet, github
    <3>2. IsPatch(Objects, Ids, [status |-> "validating", retries |-> snap.retries + 1])
      BY <1>6, <1>8, CheckPatches DEF RerunUnavailable
    <3>3. TickOK'
      BY <1>1, <2>3, <3>1, <3>2, GrownRows, DecidedTick DEF Decide
    <3> QED BY <3>1, <3>3 DEF TypeOK
  <2> QED BY <1>8, <2>2, <2>3 DEF RerunUnavailable
<1> QED BY <1>4, <1>5, <1>7, <1>8

LEMMA DecidedAtZero ==
  ASSUME TickOK, Grown, pc \in Busy, NEW patch, NEW clean,
         DecideAtZero(patch, clean), IsPatch(Objects', Ids', patch)
  PROVE  TickOK'
<1>1. PICK list \in {ListActive(entries)} :
        DecideThen(patch, Below(list, 1), TailFor(list, 1), clean)
  BY DEF DecideAtZero
<1>2. TailFor(list, 1) \in {"next", "halt", "retire", "checks"}
  BY DEF TailFor
<1> QED BY <1>1, <1>2, DecidedTick

\* mergeHead
LEMMA MergeTypes ==
  ASSUME TypeOK, \/ Revalidate \/ Land \/ Gate \/ RevalidationFails
                 \/ Push \/ PushOverrun \/ PushRejected
  PROVE  TypeOK'
<1> USE DEF Statuses, Terminal
<1>1. pc \in {"merge", "land", "gate", "push"} /\ pc \in Busy /\ TickOK
  BY DEF Revalidate, Land, Gate, RevalidationFails, Push, PushOverrun, PushRejected, Busy,
         TypeOK
<1>2. snap.branch \in PR /\ snap.sha \in Objects \cup {Null}
      /\ snap.attempts \in 0..MaxRetries
  BY <1>1, SnapRow
<1>3. pc \in {"land", "gate", "push"} => snap.sha \in Objects
  BY <1>1 DEF TickOK
<1>4. ASSUME NEW patch, NEW clean, Grown, IsPatch(Objects', Ids', patch),
             \/ DecideThen(patch, {}, "retire", clean)
             \/ DecideThen(patch, {}, "next", clean)
             \/ DecideThen(patch, Dependents, "next", clean)
             \/ DecideAtZero(patch, clean)
      PROVE  TickOK'
  BY <1>1, <1>4, DecidedTick, DecidedAtZero
<1>5. CASE Revalidate
  <2>1. WorldOK' /\ StoreOK' /\ Grown
    BY <1>5, QuietOK DEF Revalidate
  <2>2. gh[snap.branch].base \in PR \cup {Main}
    BY <1>2 DEF TypeOK, WorldOK
  <2>3. /\ IsPatch(Objects', Ids', Merge) /\ IsPatch(Objects', Ids', To("merging"))
        /\ IsPatch(Objects', Ids', Spread(To("dequeued"), CleanRef))
        /\ IsPatch(Objects', Ids', Supersede) /\ IsPatch(Objects', Ids', Reprepare)
        /\ IsPatch(Objects', Ids', Rebase(gh[snap.branch].base))
    BY <2>2, NamedPatches, CompoundPatches
  <2>4. CASE HasCandidate /\ Goto("land")
    <3>1. snap.sha \in Objects
      BY <1>1, <1>2, <2>4, SnapRow DEF HasCandidate
    <3>2. TickOK'
      BY <1>1, <2>1, <2>4, <3>1, GoneTick DEF Busy
    <3> QED BY <2>1, <3>2 DEF TypeOK
  <2>5. CASE ~(HasCandidate /\ Goto("land"))
    <3>1. \/ DecideThen(Merge, {}, "next", TRUE)
          \/ DecideAtZero(Spread(To("dequeued"), CleanRef), TRUE)
          \/ DecideThen(To("merging"), {}, "next", FALSE)
          \/ DecideThen(Supersede, Dependents, "next", TRUE)
          \/ DecideAtZero(Rebase(gh[snap.branch].base), TRUE)
          \/ DecideThen(Reprepare, {}, "next", FALSE)
      BY <1>5, <2>5 DEF Revalidate, DecideAndClean, Decide, SupersedeThen
    <3>2. TickOK'
      BY <1>4, <2>1, <2>3, <3>1
    <3> QED BY <2>1, <3>2 DEF TypeOK
  <2> QED BY <2>4, <2>5
<1>6. CASE Land \/ Gate
  <2>1. WorldOK' /\ StoreOK' /\ Grown
    BY <1>6, QuietOK DEF Land, Gate
  <2>2. /\ IsPatch(Objects', Ids', To("validating")) /\ IsPatch(Objects', Ids', Reprepare)
        /\ IsPatch(Objects', Ids', Evict("policy_blocked"))
    BY NamedPatches, CompoundPatches
  <2>3. CASE Goto("gate") \/ Goto("push")
    <3>1. snap.sha \in Objects
      BY <1>3, <1>6 DEF Land, Gate
    <3>2. TickOK'
      BY <1>1, <2>1, <2>3, <3>1, GoneTick DEF Busy
    <3> QED BY <2>1, <3>2 DEF TypeOK
  <2>4. CASE ~(Goto("gate") \/ Goto("push"))
    <3>1. \/ DecideThen(To("validating"), {}, "next", FALSE)
          \/ DecideAtZero(Reprepare, FALSE)
          \/ DecideThen(Evict("policy_blocked"), Dependents, "next", TRUE)
      BY <1>6, <2>4 DEF Land, Gate, Decide
    <3>2. TickOK'
      BY <1>4, <2>1, <2>2, <3>1
    <3> QED BY <2>1, <3>2 DEF TypeOK
  <2> QED BY <2>3, <2>4
<1>7. CASE RevalidationFails
  <2>1. WorldOK' /\ StoreOK' /\ Grown
    BY <1>7, SpentOK DEF RevalidationFails
  <2>2. IsPatch(Objects', Ids', To("validating")) /\ IsPatch(Objects', Ids', Reprepare)
    BY NamedPatches, CompoundPatches
  <2>3. TickOK'
    BY <1>4, <1>7, <2>1, <2>2 DEF RevalidationFails, Decide
  <2> QED BY <2>1, <2>3 DEF TypeOK
<1>8. CASE Push
  <2>1. main' \in Objects
    BY <1>2, <1>3, <1>8 DEF Push
  <2>2. WorldOK' /\ StoreOK' /\ Grown
    BY <1>8, <2>1 DEF Push, TypeOK, WorldOK, StoreOK, IsStore, Grown, Objects, Ids
  <2>3. IsPatch(Objects', Ids', Merge)
    BY CompoundPatches
  <2>4. TickOK'
    BY <1>4, <1>8, <2>2, <2>3 DEF Push
  <2> QED BY <2>2, <2>4 DEF TypeOK
<1>9. CASE PushOverrun
  <2>1. WorldOK' /\ StoreOK' /\ Grown
    BY <1>9, QuietOK DEF PushOverrun
  <2>2. IsPatch(Objects', Ids', Evict("integration_conflict"))
    BY CompoundPatches
  <2>3. ASSUME snap.attempts < MaxRetries
        PROVE  IsPatch(Objects', Ids', Spread(Reprepare, [attempts |-> snap.attempts + 1]))
    <3>1. snap.attempts + 1 \in 0..MaxRetries
      BY <1>2, <2>3, StewardAssumption
    <3>2. IsPatch(Objects', Ids', [attempts |-> snap.attempts + 1])
      BY <3>1, PatchColumns DEF Columns, Fixed, HasCommit
    <3> QED BY <3>2, CompoundPatches, SpreadPatch
  <2>4. snap.attempts >= MaxRetries \/ snap.attempts < MaxRetries
    BY <1>2, StewardAssumption
  <2>5. TickOK'
    BY <1>4, <1>9, <2>1, <2>2, <2>3, <2>4 DEF PushOverrun
  <2> QED BY <2>1, <2>5 DEF TypeOK
<1>10. CASE PushRejected
  <2> DEFINE k == IF snap.attempts < MaxRetries THEN snap.attempts + 1 ELSE MaxRetries
  <2>1. WorldOK' /\ StoreOK' /\ Grown
    BY <1>10, SpentOK DEF PushRejected
  <2>2. k \in 0..MaxRetries
    BY <1>2, StewardAssumption
  <2>3. Decide([status |-> "merging", attempts |-> k]) \/ DecideAtZero(Reprepare, FALSE)
    BY <1>10 DEF PushRejected
  <2> HIDE DEF k
  <2>4. IsPatch(Objects', Ids', [status |-> "merging", attempts |-> k])
        /\ IsPatch(Objects', Ids', Reprepare)
    BY <2>2, CheckPatches, CompoundPatches
  <2>5. TickOK'
    BY <1>4, <2>1, <2>3, <2>4 DEF Decide
  <2> QED BY <2>1, <2>5 DEF TypeOK
<1> QED BY <1>5, <1>6, <1>7, <1>8, <1>9, <1>10

-----------------------------------------------------------------------------
\* The writes at the end of a handler

LEMMA ClearedOK ==
  ASSUME TypeOK, NEW refs
  PROVE  Cleared(refs) \in [PR -> Objects \cup {Null}]
BY DEF Cleared, TypeOK, WorldOK

\* The store is written and refs are deleted.
LEMMA StoredOK ==
  ASSUME TypeOK, IsStore(Objects, entries'), Ids' = Ids,
         ws' \in [PR -> Objects \cup {Null}],
         UNCHANGED <<gh, main, ci, vouched, refused, hooks, left, deleting, admitting>>
  PROVE  WorldOK' /\ StoreOK' /\ Grown
BY DEF TypeOK, WorldOK, StoreOK, Grown, Objects, Ids

LEMMA ResumedTick ==
  ASSUME TickOK, Grown, StoreOK', pc \in {"apply", "cascade"}, snap.id \in Ids,
         Resume(todo.tail)
  PROVE  TickOK'
<1>1. todo.tail \in {"next", "halt", "retire", "checks"}
  BY DEF TickOK
<1>2. CASE todo.tail = "halt" \/ todo.tail = "next"
  BY <1>2, NextIsFree DEF Resume
<1>3. CASE todo.tail = "retire"
  <2>1. Goto("retire")
    BY <1>3 DEF Resume
  <2> QED BY <2>1, GoneTick DEF Busy
<1>4. CASE todo.tail = "checks"
  <2>1. pc' = "checks" /\ snap' = entries'[snap.id] /\ UNCHANGED <<work, nb, idx, todo>>
    BY <1>4 DEF Resume
  <2>2. IsRow(Objects', Ids', snap')
    BY <2>1 DEF StoreOK, IsStore, Grown, Ids
  <2> QED BY <2>1, <2>2, GrownRows DEF TickOK, Busy
<1> QED BY <1>1, <1>2, <1>3, <1>4

\* Apply, Cascade and what follows them.
LEMMA WriteTypes ==
  ASSUME TypeOK, Retire \/ Apply \/ ApplyThrows \/ Cascade \/ TickFails
  PROVE  TypeOK'
<1>1. pc \in Busy /\ TickOK
  BY DEF Retire, Apply, ApplyThrows, Cascade, TickFails, Busy, TypeOK
<1>2. snap.id \in Ids /\ snap.branch \in PR
  BY <1>1, SnapRow
<1>3. IsStore(Objects, entries)
  BY DEF TypeOK, StoreOK
<1>4. CASE Retire
  <2>1. gh' \in [PR -> [state : {"open", "closed", "merged"}, head : Objects,
                        base : PR \cup {Main}, ok : BOOLEAN]]
    BY <1>4 DEF Retire, TypeOK, WorldOK
  <2>2. WorldOK' /\ StoreOK'
    BY <1>4, <2>1 DEF Retire, TypeOK, WorldOK, StoreOK, IsStore, Objects
  <2>3. TickOK'
    BY <1>4, NextIsFree DEF Retire
  <2> QED BY <2>2, <2>3 DEF TypeOK
<1>5. CASE Apply
  <2> DEFINE es == Transition(entries, snap.id, todo.patch)
  <2>1. /\ entries' = es /\ ws' \in [PR -> Objects \cup {Null}]
        /\ UNCHANGED <<gh, main, ci, vouched, refused, hooks, left, deleting, admitting>>
        /\ pc = "apply" /\ (Resume(todo.tail) \/ Goto("cascade"))
    BY <1>5, ClearedOK DEF Apply
  <2>2. IsStore(Objects, es) /\ DOMAIN es = Ids
    BY <1>1, <1>2, <1>3, <2>1, TransitionStore DEF TickOK, Ids
  <2>3. WorldOK' /\ StoreOK' /\ Grown
    BY <2>1, <2>2, StoredOK DEF Ids
  <2>4. TickOK'
    BY <1>1, <1>2, <2>1, <2>3, ResumedTick, GoneTick DEF Busy
  <2> QED BY <2>3, <2>4 DEF TypeOK
<1>6. CASE ApplyThrows
  <2>1. ws' \in [PR -> Objects \cup {Null}]
    BY <1>6, ClearedOK DEF ApplyThrows
  <2>2. WorldOK' /\ StoreOK'
    BY <1>3, <1>6, <2>1, StoredOK DEF ApplyThrows, Ids
  <2>3. TickOK'
    BY <1>6, NextIsFree DEF ApplyThrows
  <2> QED BY <2>2, <2>3 DEF TypeOK
<1>7. CASE Cascade
  <2> DEFINE es == Invalidate(entries, todo.down)
  <2>1. /\ \/ entries' = es /\ Resume(todo.tail)
           \/ Halt /\ UNCHANGED entries
        /\ ws' \in [PR -> Objects \cup {Null}]
        /\ UNCHANGED <<gh, main, ci, vouched, refused, hooks, left, deleting, admitting>>
        /\ pc = "cascade"
    BY <1>7, ClearedOK DEF Cascade
  <2>2. IsStore(Objects, es) /\ DOMAIN es = Ids
    BY <1>3, InvalidateStore DEF Ids
  <2> HIDE DEF es
  <2>3. WorldOK' /\ StoreOK' /\ Grown
    BY <1>3, <2>1, <2>2, StoredOK DEF Ids
  <2>4. TickOK'
    BY <1>1, <1>2, <2>1, <2>3, ResumedTick, NextIsFree
  <2> QED BY <2>3, <2>4 DEF TypeOK
<1>8. CASE TickFails
  <2>1. WorldOK' /\ StoreOK'
    BY <1>8, SpentOK DEF TickFails
  <2>2. TickOK'
    BY <1>8, NextIsFree DEF TickFails
  <2> QED BY <2>1, <2>2 DEF TypeOK
<1> QED BY <1>4, <1>5, <1>6, <1>7, <1>8

LEMMA CrashTypes ==
  ASSUME TypeOK, Crash
  PROVE  TypeOK'
<1>1. ws' \in [PR -> Objects \cup {Null}]
  BY ClearedOK DEF Crash
<1>2. left' \in 0..MaxDeeds
  BY StewardAssumption DEF Crash, Spend, TypeOK, WorldOK
<1>3. WorldOK' /\ StoreOK'
  BY <1>1, <1>2 DEF Crash, TypeOK, WorldOK, StoreOK, IsStore, Objects
<1>4. TickOK'
  BY FreeTick DEF Crash
<1> QED BY <1>3, <1>4 DEF TypeOK

-----------------------------------------------------------------------------
\* Admission, webhooks and operator commands

\* Nothing a command touches is more than the store, what it deletes and what
\* is being admitted.
LEMMA CommandOK ==
  ASSUME TypeOK, IsStore(Objects, entries'), Ids \subseteq Ids',
         deleting' \subseteq PR,
         admitting' \in [pr : PR, head : Objects, base : PR \cup {Main}] \cup {Null},
         hooks' \subseteq hooks, left' \in 0..MaxDeeds,
         UNCHANGED <<tick, gh, main, ci, vouched, refused, ws>>
  PROVE  TypeOK'
<1>1. WorldOK' /\ StoreOK' /\ Grown
  BY DEF TypeOK, WorldOK, StoreOK, Grown, Objects
<1>2. TickOK'
  BY <1>1, KeptTick DEF TypeOK
<1> QED BY <1>1, <1>2 DEF TypeOK

LEMMA NewEntryRow ==
  ASSUME NEW O, NEW n \in Nat \ {0}, NEW p \in PR, NEW head \in O,
         NEW base \in PR \cup {Main}, NEW prio \in Nat
  PROVE  IsRow(O, 1..n, NewEntry(n, p, head, base, prio))
         /\ NewEntry(n, p, head, base, prio).id = n
<1> DEFINE e == NewEntry(n, p, head, base, prio)
<1>1. /\ DOMAIN e = Columns
      /\ e.id = n /\ e.branch = p /\ e.head = head /\ e.base = base /\ e.status = "queued"
      /\ e.prio = prio /\ e.kind = "none" /\ e.ref = FALSE /\ e.sha = Null /\ e.dep = Null
      /\ e.run = Null /\ e.retries = 0 /\ e.attempts = 0 /\ e.failed = FALSE /\ e.why = "none"
  BY DEF NewEntry, Columns
<1>2. n \in 1..n /\ 0 \in 0..FlakyRetries /\ 0 \in 0..MaxRetries
  BY StewardAssumption
<1> HIDE DEF e
<1>3. ASSUME NEW c \in Columns PROVE e[c] \in Type(O, 1..n)[c]
  <2> DEFINE T == Type(O, 1..n)
  <2>1. /\ T.id = 1..n /\ T.retries = 0..FlakyRetries /\ T.attempts = 0..MaxRetries
        /\ T.prio = Nat
    BY DEF Type
  <2>2. /\ T.branch = PR /\ T.head = O /\ T.base = PR \cup {Main} /\ "queued" \in T.status
        /\ "none" \in T.kind /\ "none" \in T.why
    BY DEF Type, Statuses
  <2>3. /\ FALSE \in T.ref /\ FALSE \in T.failed /\ Null \in T.sha /\ Null \in T.dep
        /\ Null \in T.run
    BY DEF Type
  <2> SUFFICES e[c] \in T[c]
    OBVIOUS
  <2> HIDE DEF T
  <2>4. CASE c \in {"id", "retries", "attempts", "prio"}
    BY <1>1, <1>2, <2>1, <2>4
  <2>5. CASE c \in {"branch", "head", "base", "status", "kind", "why"}
    BY <1>1, <2>2, <2>5
  <2>6. CASE c \in {"ref", "failed", "sha", "dep", "run"}
    BY <1>1, <2>3, <2>6
  <2> QED BY <2>4, <2>5, <2>6 DEF Columns
<1>4. IsRow(O, 1..n, e) /\ e.id = n
  BY <1>1, <1>3 DEF IsRow, HasCommit, Columns
<1> QED BY <1>4 DEF e

\* A pull request is queued.
LEMMA QueuedStore ==
  ASSUME TypeOK, NEW p \in PR, NEW head \in Objects, NEW base \in PR \cup {Main},
         NEW prio \in Nat,
         entries' = Append(entries, NewEntry(Len(entries) + 1, p, head, base, prio))
  PROVE  IsStore(Objects, entries') /\ Ids \subseteq Ids'
<1>1. IsStore(Objects, entries)
  BY DEF TypeOK, StoreOK
<1>2. Len(entries) + 1 \in Nat \ {0}
  BY <1>1, LenProperties DEF IsStore
<1> DEFINE e == NewEntry(Len(entries) + 1, p, head, base, prio)
<1>3. IsRow(Objects, 1..(Len(entries) + 1), e) /\ e.id = Len(entries) + 1
  BY <1>2, NewEntryRow
<1> HIDE DEF e
<1>4. IsStore(Objects, Append(entries, e)) /\ Ids \subseteq DOMAIN Append(entries, e)
  BY <1>1, <1>3, AppendStore DEF Ids
<1> QED BY <1>4 DEF e, Ids

\* An entry is retired, and with it what was built on it.
LEMMA RetiredStore ==
  ASSUME TypeOK, NEW n \in Ids, NEW patch, NEW own, own \subseteq PR,
         IsPatch(Objects, Ids, patch), Retired(n, patch, own)
  PROVE  IsStore(Objects, entries') /\ Ids' = Ids /\ deleting' \subseteq PR
<1>1. IsStore(Objects, entries)
  BY DEF TypeOK, StoreOK
<1> DEFINE es == Transition(entries, n, patch)
<1>2. PICK down : entries' = Invalidate(es, down) /\ deleting' = deleting \cup RefsOf(down) \cup own
  BY DEF Retired
<1>3. IsStore(Objects, es) /\ DOMAIN es = Ids
  BY <1>1, TransitionStore DEF Ids
<1> HIDE DEF es
<1>4. IsStore(Objects, entries') /\ Ids' = Ids
  BY <1>2, <1>3, InvalidateStore DEF Ids
<1>5. RefsOf(down) \subseteq PR
  BY <1>1, RowColumns DEF RefsOf, IsStore
<1> QED BY <1>2, <1>4, <1>5 DEF TypeOK, StoreOK

LEMMA CommandTypes ==
  ASSUME TypeOK, Commands
  PROVE  TypeOK'
<1>1. IsStore(Objects, entries) /\ deleting \subseteq PR /\ left \in 0..MaxDeeds
      /\ admitting \in [pr : PR, head : Objects, base : PR \cup {Main}] \cup {Null}
  BY DEF TypeOK, StoreOK, WorldOK
<1>2. ASSUME NEW deed, Spend(deed) PROVE left' \in 0..MaxDeeds
  BY <1>1, <1>2, StewardAssumption DEF Spend
<1>3. ASSUME NEW p \in PR, AdmitStart(p) PROVE TypeOK'
  <2>1. admitting' \in [pr : PR, head : Objects, base : PR \cup {Main}]
    BY <1>3 DEF AdmitStart, TypeOK, WorldOK
  <2> QED BY <1>1, <1>3, <2>1, CommandOK DEF AdmitStart, github, Ids
<1>4. ASSUME NEW p \in PR, OperatorDequeue(p) PROVE TypeOK'
  <2>1. PICK n \in Ids : Retired(n, To("dequeued"), {})
    BY <1>4 DEF OperatorDequeue, ActiveRows, Ids
  <2>2. IsPatch(Objects, Ids, To("dequeued"))
    BY NamedPatches DEF Statuses, Terminal
  <2>3. IsStore(Objects, entries') /\ Ids' = Ids /\ deleting' \subseteq PR
    BY <2>1, <2>2, RetiredStore
  <2>4. left' \in 0..MaxDeeds
    BY <1>2, <1>4 DEF OperatorDequeue
  <2> QED BY <1>1, <1>4, <2>3, <2>4, CommandOK DEF OperatorDequeue
<1>5. ASSUME NEW p \in PR, FinishDelete(p) PROVE TypeOK'
  <2>1. ws' \in [PR -> Objects \cup {Null}]
    BY <1>5, ClearedOK DEF FinishDelete
  <2>2. WorldOK' /\ StoreOK' /\ Grown
    BY <1>5, <2>1 DEF FinishDelete, TypeOK, WorldOK, StoreOK, IsStore, Grown, Objects, Ids
  <2>3. TickOK'
    BY <1>5, <2>2, KeptTick DEF FinishDelete, TypeOK
  <2> QED BY <2>2, <2>3 DEF TypeOK
<1>6. ASSUME NEW p \in PR, NEW prio \in {0, 1}, OperatorEnqueue(p, prio) PROVE TypeOK'
  <2>1. gh[p].head \in Objects
    BY DEF TypeOK, WorldOK
  <2>2. IsStore(Objects, entries') /\ Ids \subseteq Ids'
    BY <1>6, <2>1, QueuedStore DEF OperatorEnqueue
  <2>3. left' \in 0..MaxDeeds
    BY <1>2, <1>6 DEF OperatorEnqueue
  <2> QED BY <1>1, <1>6, <2>2, <2>3, CommandOK DEF OperatorEnqueue
<1>7. CASE AdmitFinish
  <2>1. admitting \in [pr : PR, head : Objects, base : PR \cup {Main}]
    BY <1>1, <1>7 DEF AdmitFinish
  <2>2. \/ entries' = entries
        \/ entries' = Append(entries, NewEntry(Len(entries) + 1, admitting.pr, admitting.head,
                                               admitting.base, 0))
    BY <1>7 DEF AdmitFinish
  <2>3. IsStore(Objects, entries') /\ Ids \subseteq Ids'
    <3>1. CASE entries' = entries
      BY <1>1, <3>1 DEF Ids
    <3>2. CASE entries' # entries
      BY <2>1, <2>2, <3>2, QueuedStore
    <3> QED BY <3>1, <3>2
  <2> QED BY <1>1, <1>7, <2>3, CommandOK DEF AdmitFinish, github
<1>8. CASE Deliver
  <2>1. PICK hook \in hooks :
          /\ hooks' = hooks \ {hook} /\ Handle(hook)
          /\ UNCHANGED <<admitting, tick, gh, main, ci, vouched, refused, ws, left>>
    BY <1>8 DEF Deliver
  <2>2. \/ UNCHANGED <<entries, deleting>>
        \/ \E n \in Ids : \/ Retired(n, Supersede, RefsOf({n}))
                          \/ Retired(n, To("dequeued"), {})
                          \/ Retired(n, To("merged"), {})
    <3>1. hook.type \in {"synchronize", "closed", "merged"}
      BY DEF TypeOK, WorldOK
    <3> QED BY <2>1, <3>1 DEF Handle, ActiveRows, Ids
  <2>3. /\ IsPatch(Objects, Ids, Supersede) /\ IsPatch(Objects, Ids, To("dequeued"))
        /\ IsPatch(Objects, Ids, To("merged"))
    BY NamedPatches, CompoundPatches DEF Statuses, Terminal
  <2>4. \A n \in Ids : RefsOf({n}) \subseteq PR
    BY <1>1, RowColumns DEF RefsOf, IsStore
  <2>5. IsStore(Objects, entries') /\ Ids \subseteq Ids' /\ deleting' \subseteq PR
    <3>1. CASE UNCHANGED <<entries, deleting>>
      BY <1>1, <3>1 DEF Ids
    <3>2. ASSUME NEW n \in Ids, NEW patch, NEW own, own \subseteq PR,
                 IsPatch(Objects, Ids, patch), Retired(n, patch, own)
          PROVE  IsStore(Objects, entries') /\ Ids \subseteq Ids' /\ deleting' \subseteq PR
      BY <3>2, RetiredStore
    <3>3. CASE ~UNCHANGED <<entries, deleting>>
      <4>1. PICK n \in Ids : \/ Retired(n, Supersede, RefsOf({n}))
                             \/ Retired(n, To("dequeued"), {})
                             \/ Retired(n, To("merged"), {})
        BY <2>2, <3>3
      <4>2. RefsOf({n}) \subseteq PR
        BY <2>4
      <4> QED BY <2>3, <3>2, <4>1, <4>2
    <3> QED BY <3>1, <3>3
  <2> QED BY <1>1, <2>1, <2>5, CommandOK
<1> QED BY <1>3, <1>4, <1>5, <1>6, <1>7, <1>8 DEF Commands

-----------------------------------------------------------------------------
\* The world

PullRequests(O) == [state : {"open", "closed", "merged"}, head : O,
                    base : PR \cup {Main}, ok : BOOLEAN]

Hooks(O) == [type : {"synchronize", "closed", "merged"}, branch : PR, head : O]

\* The commits there are stay the commits there are.
LEMMA StillOK ==
  ASSUME TypeOK, Still, gh' \in [PR -> PullRequests(Objects)], main' \in Objects,
         ci' \in [Objects -> {"pending", "pass", "fail"}],
         vouched' \subseteq Objects, refused' \subseteq Objects,
         ws' \in [PR -> Objects \cup {Null}], hooks' \subseteq Hooks(Objects),
         left' \in 0..MaxDeeds
  PROVE  TypeOK'
<1>1. Objects' = Objects
  BY DEF Objects
<1>2. WorldOK'
  BY <1>1 DEF WorldOK, PullRequests, Hooks
<1>3. StoreOK' /\ Grown
  BY <1>1 DEF Still, TypeOK, StoreOK, IsStore, Grown, Ids
<1>4. TickOK'
  BY <1>3, KeptTick DEF Still, TypeOK
<1> QED BY <1>2, <1>3, <1>4 DEF TypeOK

\* There is one more.
LEMMA StillMadeOK ==
  ASSUME TypeOK, Still, NEW c, ci' = Made(c),
         gh' \in [PR -> PullRequests(Objects \cup {c})], main' \in Objects \cup {c},
         UNCHANGED <<vouched, refused>>,
         ws' \in [PR -> Objects \cup {c, Null}], hooks' \subseteq Hooks(Objects \cup {c}),
         left' \in 0..MaxDeeds
  PROVE  TypeOK'
<1>1. /\ Objects' = Objects \cup {c}
      /\ ci' \in [Objects' -> {"pending", "pass", "fail"}]
  BY DEF Made, Objects, TypeOK, WorldOK
<1>2. WorldOK'
  BY <1>1 DEF TypeOK, WorldOK, PullRequests, Hooks
<1>3. Grown /\ IsStore(Objects', entries')
  BY <1>1, StoreGrows DEF Still, TypeOK, StoreOK, Grown, Ids
<1>4. StoreOK'
  BY <1>1, <1>3 DEF Still, TypeOK, StoreOK
<1>5. TickOK'
  BY <1>3, KeptTick DEF Still, TypeOK
<1> QED BY <1>2, <1>4, <1>5 DEF TypeOK

LEMMA WorldTypes ==
  ASSUME TypeOK, World
  PROVE  TypeOK'
<1>1. /\ gh \in [PR -> PullRequests(Objects)] /\ main \in Objects
      /\ ci \in [Objects -> {"pending", "pass", "fail"}]
      /\ vouched \subseteq Objects /\ refused \subseteq Objects
      /\ ws \in [PR -> Objects \cup {Null}] /\ hooks \subseteq Hooks(Objects)
      /\ left \in 0..MaxDeeds
  BY DEF TypeOK, WorldOK, PullRequests, Hooks
<1>2. ASSUME NEW deed, Spend(deed) PROVE left' \in 0..MaxDeeds
  BY <1>1, <1>2, StewardAssumption DEF Spend
<1>3. /\ PullRequests(Objects) \subseteq [state : {"open", "closed", "merged"}, head : Objects,
                                          base : PR \cup {Main}, ok : BOOLEAN]
      /\ \A p \in PR : gh[p].head \in Objects /\ gh[p].base \in PR \cup {Main}
  BY <1>1 DEF PullRequests
<1>4. ASSUME NEW p \in PR, NEW head, Reheaded(p, head), Still, left' \in 0..MaxDeeds,
             UNCHANGED <<main, vouched, refused, ws>>
      PROVE  TypeOK'
  <2>1. gh' \in [PR -> PullRequests(Objects \cup {head})]
    BY <1>1, <1>4 DEF Reheaded, PullRequests
  <2>2. hooks' \subseteq Hooks(Objects \cup {head})
    BY <1>1, <1>4 DEF Reheaded, Hook, Hooks
  <2>3. ci' = Made(head)
    BY <1>4 DEF Reheaded
  <2> QED BY <1>1, <1>4, <2>1, <2>2, <2>3, StillMadeOK
<1>5. ASSUME NEW p \in PR, PushHead(p) PROVE TypeOK'
  BY <1>2, <1>4, <1>5 DEF PushHead
<1>6. ASSUME NEW p \in PR, UpdateBranch(p) PROVE TypeOK'
  BY <1>2, <1>4, <1>6 DEF UpdateBranch
<1>7. ASSUME NEW p \in PR, NEW q \in PullRequests(Objects), gh' = [gh EXCEPT ![p] = q], Still,
             hooks' \subseteq Hooks(Objects), left' \in 0..MaxDeeds,
             UNCHANGED <<main, ci, vouched, refused, ws>>
      PROVE  TypeOK'
  <2>1. gh' \in [PR -> PullRequests(Objects)]
    BY <1>1, <1>7
  <2> QED BY <1>1, <1>7, <2>1, StillOK
<1>8. ASSUME NEW p \in PR, Approve(p) \/ Revoke(p) \/ Close(p) \/ MarkMerged(p) PROVE TypeOK'
  <2>1. \A b \in BOOLEAN, s \in {"open", "closed", "merged"} :
          /\ [gh[p] EXCEPT !.ok = b] \in PullRequests(Objects)
          /\ [gh[p] EXCEPT !.state = s] \in PullRequests(Objects)
    BY <1>1 DEF PullRequests
  <2>2. PICK q \in PullRequests(Objects) : gh' = [gh EXCEPT ![p] = q]
    <3>1. PICK b \in BOOLEAN, s \in {"open", "closed", "merged"} :
            gh' = [gh EXCEPT ![p].ok = b] \/ gh' = [gh EXCEPT ![p].state = s]
      BY <1>8 DEF Approve, Revoke, Close, MarkMerged
    <3> QED BY <2>1, <3>1
  <2>3. left' \in 0..MaxDeeds
    BY <1>1, <1>2, <1>8 DEF Approve, Revoke, Close, MarkMerged
  <2>4. hooks' \subseteq Hooks(Objects)
    BY <1>1, <1>3, <1>8 DEF Approve, Revoke, Close, MarkMerged, Hook, Hooks
  <2> QED BY <1>7, <1>8, <2>2, <2>3, <2>4 DEF Approve, Revoke, Close, MarkMerged
<1>9. ASSUME NEW p \in PR, NEW base \in PR \cup {Main}, Retarget(p, base) PROVE TypeOK'
  <2>1. [gh[p] EXCEPT !.base = base] \in PullRequests(Objects)
    BY <1>1 DEF PullRequests
  <2>2. gh' = [gh EXCEPT ![p] = [gh[p] EXCEPT !.base = base]]
    BY <1>9 DEF Retarget
  <2>3. left' \in 0..MaxDeeds
    BY <1>2, <1>9 DEF Retarget
  <2> QED BY <1>1, <1>7, <1>9, <2>1, <2>2, <2>3 DEF Retarget
<1>10. ASSUME NEW p \in PR, ExternalMerge(p) PROVE TypeOK'
  <2> DEFINE c == MergeOf("github", p, main, gh[p].head)
  <2>1. ci' = Made(c) /\ main' = c /\ gh' = [gh EXCEPT ![p].state = "merged"]
        /\ hooks' = hooks \cup {[type |-> "merged", branch |-> p, head |-> gh[p].head]}
        /\ Still /\ UNCHANGED <<vouched, refused, ws>> /\ left' \in 0..MaxDeeds
    BY <1>2, <1>10 DEF ExternalMerge, Hook
  <2> HIDE DEF c
  <2>2. gh' \in [PR -> PullRequests(Objects \cup {c})]
    BY <1>1, <2>1 DEF PullRequests
  <2>3. hooks' \subseteq Hooks(Objects \cup {c})
    BY <1>1, <1>3, <2>1 DEF Hooks
  <2> QED BY <1>1, <2>1, <2>2, <2>3, StillMadeOK
<1>11. ASSUME NEW p \in PR, MergeIntoParent(p) PROVE TypeOK'
  <2> DEFINE q == gh[p].base
             c == MergeOf("github", p, gh[q].head, gh[p].head)
  <2>1. /\ ci' = Made(c)
        /\ gh' = [gh EXCEPT ![p].state = "merged", ![q].head = c, ![q].ok = FALSE]
        /\ hooks' = hooks \cup {[type |-> "merged", branch |-> p, head |-> gh[p].head],
                                [type |-> "synchronize", branch |-> q, head |-> c]}
        /\ Still /\ UNCHANGED <<main, vouched, refused, ws>> /\ left' \in 0..MaxDeeds
    BY <1>2, <1>11 DEF MergeIntoParent
  <2>2. q \in PR
    BY <1>3, <1>11 DEF MergeIntoParent
  <2> HIDE DEF c, q
  <2>3. gh' \in [PR -> PullRequests(Objects \cup {c})]
    <3> DEFINE g == [gh EXCEPT ![p].state = "merged"]
    <3>1. g \in [PR -> PullRequests(Objects \cup {c})]
      BY <1>1 DEF PullRequests
    <3>2. gh' = [g EXCEPT ![q].head = c, ![q].ok = FALSE]
      BY <2>1
    <3> HIDE DEF g
    <3> QED BY <2>2, <3>1, <3>2 DEF PullRequests
  <2>4. hooks' \subseteq Hooks(Objects \cup {c})
    BY <1>1, <1>3, <2>1, <2>2 DEF Hooks
  <2> QED BY <1>1, <2>1, <2>3, <2>4, StillMadeOK
<1>12. ASSUME NEW p \in PR, DirectPush(p) PROVE TypeOK'
  <2>1. main' \in Objects /\ left' \in 0..MaxDeeds
    BY <1>2, <1>3, <1>12 DEF DirectPush
  <2> QED BY <1>1, <1>12, <2>1, StillOK DEF DirectPush
<1>13. ASSUME NEW p \in PR, Repair(p) PROVE TypeOK'
  <2> DEFINE c == MergeOf("repair", p, ws[p], gh[p].head)
  <2>1. ci' = Made(c) /\ ws' = [ws EXCEPT ![p] = c] /\ Still /\ left' \in 0..MaxDeeds
        /\ UNCHANGED <<gh, main, vouched, refused, hooks>>
    BY <1>2, <1>13 DEF Repair
  <2> HIDE DEF c
  <2>2. ws' \in [PR -> Objects \cup {c, Null}]
    BY <1>1, <2>1
  <2>3. gh' \in [PR -> PullRequests(Objects \cup {c})] /\ hooks' \subseteq Hooks(Objects \cup {c})
    BY <1>1, <2>1 DEF PullRequests, Hooks
  <2> QED BY <1>1, <2>1, <2>2, <2>3, StillMadeOK
<1>14. ASSUME NEW p \in PR, Vouch(p) \/ Refuse(p) PROVE TypeOK'
  <2>1. left' \in 0..MaxDeeds
    BY <1>1, <1>2, <1>14 DEF Vouch, Refuse
  <2>2. vouched' \subseteq Objects /\ refused' \subseteq Objects
    BY <1>1, <1>14 DEF Vouch, Refuse
  <2> QED BY <1>1, <1>14, <2>1, <2>2, StillOK DEF Vouch, Refuse
<1>15. ASSUME NEW c \in DOMAIN ci, Conclude(c) \/ RerunByHand(c) PROVE TypeOK'
  <2>1. left' \in 0..MaxDeeds
    BY <1>1, <1>2, <1>15 DEF Conclude, RerunByHand
  <2>2. ci' \in [Objects -> {"pending", "pass", "fail"}]
    BY <1>1, <1>15 DEF Conclude, RerunByHand
  <2> QED BY <1>1, <1>15, <2>1, <2>2, StillOK DEF Conclude, RerunByHand
<1>16. CASE Lose
  <2>1. Still /\ UNCHANGED <<gh, main, ci, vouched, refused, ws>> /\ hooks' \subseteq hooks
        /\ left' \in 0..MaxDeeds
    BY <1>2, <1>16 DEF Lose, Still
  <2> QED BY <1>1, <2>1, StillOK
<1> QED BY <1>5, <1>6, <1>8, <1>9, <1>10, <1>11, <1>12, <1>13, <1>14, <1>15, <1>16 DEF World

-----------------------------------------------------------------------------
\* Type correctness

LEMMA StepTypes ==
  ASSUME TypeOK, [Next]_vars
  PROVE  TypeOK'
<1>1. CASE Tick
  BY <1>1, WalkTypes, PrepareTypes, RefreshTypes, CheckTypes, MergeTypes, WriteTypes DEF Tick
<1>2. CASE Commands \/ World \/ Crash
  BY <1>2, CommandTypes, WorldTypes, CrashTypes
<1>3. CASE UNCHANGED vars
  <2>1. Quiet /\ UNCHANGED tick
    BY <1>3 DEF vars, Quiet
  <2> QED BY <2>1, QuietOK, KeptTick DEF TypeOK
<1> QED BY <1>1, <1>2, <1>3 DEF Next

\* Rows, the tick's copies of them and what it is about to write never name a
\* commit that was not made or a row that was not inserted; a candidate selected
\* as the head of its pull request has that commit, and so has whatever
\* mergeHead is about to push.
THEOREM TypeSafety == Spec => []TypeOK
<1>1. Init => TypeOK
  BY InitTypes
<1>2. TypeOK /\ [Next]_vars => TypeOK'
  BY StepTypes
<1> QED BY <1>1, <1>2, PTL DEF Spec

\* No push and no rerun is retried past its limit, across resets of the
\* counters, writes of stale columns and crashes.
THEOREM RetriesAreBounded == Spec => []Budgets
<1>1. TypeOK => Budgets
  BY RowColumns, StewardAssumption DEF TypeOK, StoreOK, IsStore, Budgets
<1> QED BY <1>1, TypeSafety, PTL

-----------------------------------------------------------------------------
\* Only what is green lands.  The push does not look at the checks any more: it
\* relies on nothing having taken the verdict back since Land read it.

PastChecks == pc \in {"gate", "push"} => ci[snap.sha] = "pass"

\* Neither the end of an entry nor a decision is past the checks.
LEMMA ShortOfGate ==
  ASSUME \/ Halt \/ NextEntry \/ Advance \/ Skip
         \/ \E patch, down, tail, clean : DecideThen(patch, down, tail, clean)
         \/ \E patch, down, tail : DecideChecked(patch, down, tail)
         \/ \E patch, clean : DecideAtZero(patch, clean)
         \/ \E patch : WriteNow(patch)
  PROVE  pc' \in {"idle", "pick", "apply"}
BY DEF Halt, NextEntry, Advance, Skip, DecideThen, DecideChecked, DecideAtZero, WriteNow

\* Commands and the world leave the tick where it is.
LEMMA TickIsAlone ==
  ASSUME Commands \/ World
  PROVE  UNCHANGED tick
BY DEF Commands, World, AdmitStart, OperatorDequeue, FinishDelete, OperatorEnqueue,
       AdmitFinish, Deliver, Lose, PushHead, UpdateBranch, Approve, Revoke, Close,
       ExternalMerge, MergeIntoParent, DirectPush, MarkMerged, Repair, Vouch, Refuse,
       Retarget, Conclude, RerunByHand, Still

\* Only Land and Gate come past the checks.
LEMMA WayToGate ==
  ASSUME TypeOK, Tick, ~Land, ~Gate
  PROVE  pc' \notin {"gate", "push"}
<1>1. CASE \/ TickStart \/ Pick \/ Sanitize \/ SanitizeFails \/ WaitForParent \/ DropStale
           \/ Promote \/ StartPrepare \/ StartValidation \/ StartMerge
  BY <1>1, ShortOfGate
     DEF TickStart, Pick, Sanitize, SanitizeFails, WaitForParent, DropStale, Promote,
         StartPrepare, StartValidation, StartMerge, SupersedeThen, DecideAndClean, Goto
<1>2. CASE \/ PrepareWaits \/ PrepareMoved \/ PrepareBlocked \/ PrepareContained
           \/ PrepareHeadCandidate \/ PrepareConflict \/ PrepareIntegration \/ PrepareFails
  BY <1>2, ShortOfGate
     DEF PrepareWaits, PrepareMoved, PrepareBlocked, PrepareContained, PrepareHeadCandidate,
         PrepareConflict, PrepareIntegration, PrepareFails, SupersedeThen, DecideAndClean, Decide
<1>3. CASE \/ RefreshWorkspace \/ ChecksWait \/ ChecksPass \/ ChecksFail \/ Rerun
           \/ RerunUnavailable
  BY <1>3, ShortOfGate
     DEF RefreshWorkspace, ChecksWait, ChecksPass, ChecksFail, Rerun, RerunUnavailable, Accept,
         Hold, Decide, Goto
<1>4. CASE Revalidate \/ RevalidationFails \/ Push \/ PushOverrun \/ PushRejected
  BY <1>4, ShortOfGate
     DEF Revalidate, RevalidationFails, Push, PushOverrun, PushRejected, SupersedeThen,
         DecideAndClean, Decide, Goto
<1>5. CASE Retire \/ Apply \/ ApplyThrows \/ Cascade \/ TickFails
  <2>1. ASSUME Resume(todo.tail), pc \in {"apply", "cascade"} PROVE pc' \notin {"gate", "push"}
    <3>1. todo.tail \in {"next", "halt", "retire", "checks"}
      BY <2>1 DEF TypeOK, TickOK
    <3> QED BY <2>1, <3>1, ShortOfGate DEF Resume, Goto
  <2> QED BY <1>5, <2>1, ShortOfGate
          DEF Retire, Apply, ApplyThrows, Cascade, TickFails, Goto
<1> QED BY <1>1, <1>2, <1>3, <1>4, <1>5 DEF Tick

\* The step that lands a row is the push.
LEMMA LandingIsPush ==
  ASSUME TypeOK, [Next]_vars, Landing
  PROVE  Push
<1>1. pc = "push" /\ pc' = "apply" /\ todo'.tail = "retire"
  BY DEF Landing
<1>2. ~UNCHANGED tick
  BY <1>1 DEF tick
<1>3. Tick
  BY <1>1, <1>2, TickIsAlone DEF Next, Crash, vars
<1>4. Push \/ PushOverrun \/ PushRejected
  BY <1>1, <1>3
     DEF Tick, TickStart, Pick, Sanitize, SanitizeFails, WaitForParent, DropStale, Promote,
         StartPrepare, StartValidation, StartMerge, Dispatched, Sane, PrepareWaits,
         PrepareMoved, PrepareBlocked, PrepareContained, PrepareHeadCandidate,
         PrepareConflict, PrepareIntegration, PrepareFails, Building, PrepareAllowed,
         Preparing, RefreshWorkspace, ChecksWait, ChecksPass, ChecksFail, Rerun,
         RerunUnavailable, Checking, Revalidate, Land, Gate, RevalidationFails, Retire,
         Apply, ApplyThrows, Cascade, TickFails
<1>5. ASSUME PushOverrun \/ PushRejected PROVE todo'.tail \in {"next", "halt"}
  BY <1>5 DEF PushOverrun, PushRejected, DecideAtZero, DecideThen, Decide, TailFor
<1> QED BY <1>1, <1>4, <1>5

LEMMA StepPastChecks ==
  ASSUME TypeOK, PastChecks, [Next]_vars
  PROVE  PastChecks'
<1> SUFFICES ASSUME pc' \in {"gate", "push"} PROVE ci'[snap'.sha] = "pass"
  BY DEF PastChecks
<1>1. CASE Land \/ Gate
  BY <1>1 DEF Land, Gate, PastChecks, Quiet, github, Decide, DecideThen, DecideAtZero, Goto
<1>2. CASE Tick /\ ~Land /\ ~Gate
  BY <1>2, WayToGate
<1>3. CASE Crash
  BY <1>3 DEF Crash
<1>4. CASE UNCHANGED tick
  <2>1. pc \in {"gate", "push"} /\ snap' = snap /\ ci[snap.sha] = "pass"
        /\ snap.sha \in DOMAIN ci
    BY <1>4 DEF tick, PastChecks, TypeOK, TickOK, Objects
  <2>2. ASSUME NEW c, ci' = Made(c) PROVE ci'[snap.sha] = "pass"
    BY <2>1, <2>2 DEF Made
  <2>3. ASSUME NEW c \in DOMAIN ci, Conclude(c) \/ RerunByHand(c)
        PROVE  ci'[snap.sha] = "pass"
    BY <2>1, <2>3 DEF Conclude, RerunByHand, TypeOK, WorldOK
  <2>4. CASE UNCHANGED ci
    BY <2>1, <2>4
  <2>5. CASE Commands
    BY <2>4, <2>5
       DEF Commands, AdmitStart, OperatorDequeue, FinishDelete, OperatorEnqueue, AdmitFinish,
           Deliver, github
  <2>6. CASE World
    <3>1. ASSUME NEW p \in PR, \/ PushHead(p) \/ UpdateBranch(p) \/ ExternalMerge(p)
                               \/ MergeIntoParent(p) \/ Repair(p)
          PROVE  \E c : ci' = Made(c)
      BY <3>1 DEF PushHead, UpdateBranch, Reheaded, ExternalMerge, MergeIntoParent, Repair
    <3>2. ASSUME NEW p \in PR, \/ Approve(p) \/ Revoke(p) \/ Close(p) \/ DirectPush(p)
                               \/ MarkMerged(p) \/ Vouch(p) \/ Refuse(p)
                               \/ \E base \in PR \cup {Main} : Retarget(p, base)
          PROVE  UNCHANGED ci
      BY <3>2 DEF Approve, Revoke, Close, DirectPush, MarkMerged, Vouch, Refuse, Retarget
    <3>3. ASSUME Lose PROVE UNCHANGED ci
      BY <3>3 DEF Lose
    <3>4. CASE UNCHANGED ci
      BY <2>4, <3>4
    <3>5. CASE \E c : ci' = Made(c)
      BY <2>1, <2>2, <3>5
    <3>6. CASE \E c \in DOMAIN ci : Conclude(c) \/ RerunByHand(c)
      BY <2>1, <2>3, <3>6
    <3> QED BY <2>6, <3>1, <3>2, <3>3, <3>4, <3>5, <3>6 DEF World
  <2>7. CASE UNCHANGED vars
    BY <2>4, <2>7 DEF vars, github
  <2>8. ~Tick \/ Land \/ Gate
    BY <1>2, <2>1, <1>4, WayToGate DEF tick
  <2> QED BY <1>1, <1>3, <2>5, <2>6, <2>7, <2>8 DEF Next
<1> QED BY <1>1, <1>2, <1>3, <1>4, TickIsAlone DEF Next, vars

\* What lands on main is a commit whose required checks have passed, and still
\* pass when it lands: whatever was pushed, rerun or repaired since the entry
\* was validated, and whatever the rest of the queue did meanwhile.
THEOREM OnlyGreenLands == Spec => LandsGreen
<1>1. Init => PastChecks
  BY DEF Init, PastChecks
<1>2. TypeOK /\ PastChecks /\ [Next]_vars => PastChecks'
  BY StepPastChecks
<1>3. TypeOK /\ PastChecks /\ [Next]_vars => [Landing => ci[main'] = "pass"]_vars
  <2> SUFFICES ASSUME TypeOK, PastChecks, [Next]_vars, Landing PROVE ci[main'] = "pass"
    OBVIOUS
  <2>1. Push
    BY LandingIsPush
  <2> QED BY <2>1 DEF Push, PastChecks
<1> QED BY <1>1, <1>2, <1>3, TypeSafety, PTL DEF Spec, LandsGreen
-----------------------------------------------------------------------------
\* What lands is what was admitted.  The push does not look at the candidate
\* itself: it relies on the status that an earlier tick wrote to a row, after
\* awaits during which commands and webhooks may have rewritten that row.

\* A row tells the truth about its candidate: the head of the pull request is
\* the head that was admitted, and what is merging contains it and, if it was
\* repaired, is one of the candidates v that were vouched for.
RowTrue(e, v) ==
  /\ e.kind = "head" => e.sha = e.head
  /\ e.status = "merging" /\ e.ref /\ e.sha # Null => IsAncestor(e.head, e.sha)
  /\ e.status = "merging" /\ e.ref /\ e.kind = "integration_repair" => e.sha \in v

\* The head of a row is on the base branch m, or GitHub says g that it is done.
SettledIn(e, m, g) == IsAncestor(e.head, m) \/ g[e.branch].state = "merged"

StoreTrue(es, m, g, v) ==
  \A n \in DOMAIN es :
    RowTrue(es[n], v) /\ (es[n].status = "merged" => SettledIn(es[n], m, g))

\* A write that the tick has not made itself leaves the candidate of a row
\* alone or clears it.
Follows(e, f) ==
  /\ f.head = e.head /\ f.branch = e.branch
  /\ f.ref => e.ref /\ f.sha = e.sha /\ f.kind = e.kind

\* A patch that may be written to any row, unless it says merged.
Harmless(p) ==
  /\ "status" \in DOMAIN p /\ p.status # "merging"
  /\ "ref" \in DOMAIN p => p.ref = FALSE
  /\ "kind" \in DOMAIN p => p.kind = "none" /\ "ref" \in DOMAIN p

\* What the tick may have decided to write to the row it has read.
MayWrite(p) ==
  /\ "status" \in DOMAIN p
  /\ "kind" \in DOMAIN p /\ p.kind = "head" => p.sha = snap.head
  /\ p.status = "merging" =>
       /\ DOMAIN p \cap {"kind", "ref", "sha"} = {}
       /\ snap.ref /\ snap.sha # Null => IsAncestor(snap.head, snap.sha)
       /\ snap.ref /\ snap.kind = "integration_repair" => snap.sha \in vouched
  /\ p.status = "merged" => SettledIn(snap, main, gh)

\* GitHub announces only merges that it made.
HooksOK == \A h \in hooks : h.type = "merged" => gh[h.branch].state = "merged"

\* Until the tick has written, the row it works on has the candidate it read,
\* or none.
Unwritten == Busy \ {"cascade", "retire"}

SnapOK ==
  /\ pc \in Busy => /\ RowTrue(snap, vouched)
                    /\ entries[snap.id].head = snap.head
                    /\ entries[snap.id].branch = snap.branch
  /\ pc \in Unwritten /\ entries[snap.id].ref => /\ snap.ref
                                               /\ entries[snap.id].sha = snap.sha
                                               /\ entries[snap.id].kind = snap.kind
  /\ pc \in {"probe", "unseen"} => Active(snap)
  /\ pc \in {"merge", "land", "gate", "push"} => snap.status = "merging"
  /\ pc \in {"land", "gate", "push"} => IsAncestor(snap.head, snap.sha) /\ HasCandidate
  /\ pc = "apply" => MayWrite(todo.patch)

LandInv == StoreTrue(entries, main, gh, vouched) /\ HooksOK /\ SnapOK

\* What is settled stays settled.
Lasting ==
  /\ IsAncestor(main, main') /\ vouched \subseteq vouched'
  /\ \A p \in PR : gh[p].state = "merged" => gh'[p].state = "merged"

\* A dequeue that drops the candidate's ref.
LEMMA DequeueHarmless ==
  /\ Harmless(Spread(To("dequeued"), CleanRef))
  /\ Spread(To("dequeued"), CleanRef).status = "dequeued"
BY DEF Harmless, Spread, To, CleanRef

\* A new preparation that counts an attempt.
LEMMA RetryHarmless ==
  \A k : /\ Harmless(Spread(Reprepare, [attempts |-> k]))
         /\ Spread(Reprepare, [attempts |-> k]).status = "preparing_head"
<1>1. /\ Reprepare.status = "preparing_head" /\ Reprepare.ref = FALSE /\ Reprepare.kind = "none"
      /\ {"status", "ref", "kind"} \subseteq DOMAIN Reprepare
  BY DEF Reprepare, Spread, To, CleanCI, ClearCandidate
<1> QED BY <1>1 DEF Harmless, Spread

\* The patches of the code, by what they do to a candidate.
LEMMA HarmlessPatches ==
  /\ \A s \in Statuses \ {"merging"} : Harmless(To(s)) /\ To(s).status = s
  /\ Harmless(Reprepare) /\ Reprepare.status = "preparing_head"
  /\ Harmless(Invalidation) /\ Invalidation.status = "preparing_head"
  /\ Harmless(Supersede) /\ Supersede.status = "superseded"
  /\ Harmless(Merge) /\ Merge.status = "merged"
  /\ \A b : Harmless(Rebase(b)) /\ Rebase(b).status = "queued"
  /\ \A w : Harmless(Evict(w)) /\ Evict(w).status = "evicted"
  /\ /\ Harmless(Spread(To("dequeued"), CleanRef))
     /\ Spread(To("dequeued"), CleanRef).status = "dequeued"
  /\ \A k : /\ Harmless(Spread(Reprepare, [attempts |-> k]))
            /\ Spread(Reprepare, [attempts |-> k]).status = "preparing_head"
<1>1. \A s \in Statuses \ {"merging"} : Harmless(To(s)) /\ To(s).status = s
  BY DEF Harmless, To
<1>2. ASSUME NEW s \in {"preparing_head", "superseded"}
      PROVE  LET p == Spread(To(s), Spread(CleanCI, ClearCandidate))
             IN  /\ p.status = s /\ p.ref = FALSE /\ p.kind = "none"
                 /\ {"status", "ref", "kind"} \subseteq DOMAIN p
  BY DEF Spread, To, CleanCI, ClearCandidate
<1>3. /\ Reprepare.status = "preparing_head" /\ Reprepare.ref = FALSE /\ Reprepare.kind = "none"
      /\ {"status", "ref", "kind"} \subseteq DOMAIN Reprepare
      /\ Supersede.status = "superseded" /\ Supersede.ref = FALSE /\ Supersede.kind = "none"
      /\ {"status", "ref", "kind"} \subseteq DOMAIN Supersede
  BY <1>2 DEF Reprepare, Supersede
<1>4. Harmless(Reprepare) /\ Harmless(Supersede)
  BY <1>3 DEF Harmless
<1>5. /\ Invalidation.status = "preparing_head" /\ Invalidation.ref = FALSE
      /\ Invalidation.kind = "none" /\ {"status", "ref", "kind"} \subseteq DOMAIN Invalidation
  BY <1>3 DEF Invalidation, Spread
<1>6. Harmless(Invalidation)
  BY <1>5 DEF Harmless
<1>7. ASSUME NEW b PROVE Harmless(Rebase(b)) /\ Rebase(b).status = "queued"
  <2>1. /\ Rebase(b).status = "queued" /\ Rebase(b).ref = FALSE /\ Rebase(b).kind = "none"
        /\ {"status", "ref", "kind"} \subseteq DOMAIN Rebase(b)
    BY <1>5 DEF Rebase, Spread
  <2> QED BY <2>1 DEF Harmless
<1>8. Harmless(Merge) /\ Merge.status = "merged"
  BY DEF Harmless, Merge, Spread, To, CleanRef
<1>9. ASSUME NEW w PROVE Harmless(Evict(w)) /\ Evict(w).status = "evicted"
  BY DEF Harmless, Evict, Spread, To, CleanRef
<1> QED BY <1>1, <1>3, <1>4, <1>5, <1>6, <1>7, <1>8, <1>9, DequeueHarmless, RetryHarmless

LEMMA HarmlessMayBeWritten ==
  ASSUME NEW p, Harmless(p), p.status = "merged" => SettledIn(snap, main, gh)
  PROVE  MayWrite(p)
BY DEF Harmless, MayWrite

\* A harmless patch leaves a row true.
LEMMA HarmlessRow ==
  ASSUME NEW O, NEW N, NEW e, IsRow(O, N, e), NEW p, IsPatch(O, N, p), Harmless(p),
         NEW v, RowTrue(e, v), NEW f \in {e, Spread(e, p)}
  PROVE  RowTrue(f, v) /\ Follows(e, f) /\ (f = e \/ f.status = p.status)
<1>1. DOMAIN e = Columns /\ DOMAIN p \subseteq Columns \ Fixed
      /\ ("kind" \in DOMAIN p <=> "sha" \in DOMAIN p)
  BY DEF IsRow, IsPatch, HasCommit
<1>2. CASE f = e
  BY <1>2 DEF Follows
<1>3. CASE f = Spread(e, p)
  <2>1. f.head = e.head /\ f.branch = e.branch /\ f.status = p.status
    BY <1>1, <1>3 DEF Spread, Columns, Fixed, Harmless
  <2>2. /\ f.ref = IF "ref" \in DOMAIN p THEN p.ref ELSE e.ref
        /\ f.kind = IF "kind" \in DOMAIN p THEN p.kind ELSE e.kind
        /\ f.sha = IF "sha" \in DOMAIN p THEN p.sha ELSE e.sha
    BY <1>1, <1>3 DEF Spread, Columns
  <2> QED BY <1>1, <2>1, <2>2 DEF Harmless, RowTrue, Follows
<1> QED BY <1>2, <1>3

LEMMA TransitionTrue ==
  ASSUME NEW O, NEW es, IsStore(O, es), NEW m, NEW g, NEW v, StoreTrue(es, m, g, v),
         NEW n \in DOMAIN es, NEW p, IsPatch(O, DOMAIN es, p), Harmless(p),
         p.status = "merged" => SettledIn(es[n], m, g)
  PROVE  LET fs == Transition(es, n, p) IN
         StoreTrue(fs, m, g, v) /\ \A k \in DOMAIN es : Follows(es[k], fs[k])
<1> DEFINE fs == Transition(es, n, p)
<1>1. DOMAIN fs = DOMAIN es /\ fs[n] = Written(es[n], p)
      /\ \A k \in DOMAIN es \ {n} : fs[k] = es[k]
  BY DEF Transition
<1> HIDE DEF fs
<1>2. fs[n] \in {es[n], Spread(es[n], p)}
  BY <1>1 DEF Written
<1>3. IsRow(O, DOMAIN es, es[n]) /\ RowTrue(es[n], v)
      /\ (es[n].status = "merged" => SettledIn(es[n], m, g))
  BY DEF IsStore, StoreTrue
<1>4. RowTrue(fs[n], v) /\ Follows(es[n], fs[n]) /\ (fs[n] = es[n] \/ fs[n].status = p.status)
  BY <1>2, <1>3, HarmlessRow
<1>5. fs[n].status = "merged" => SettledIn(fs[n], m, g)
  BY <1>3, <1>4 DEF Follows, SettledIn
<1>6. StoreTrue(fs, m, g, v)
  BY <1>1, <1>4, <1>5 DEF StoreTrue
<1>7. \A k \in DOMAIN es : Follows(es[k], fs[k])
  BY <1>1, <1>4 DEF Follows
<1> QED BY <1>6, <1>7 DEF fs

LEMMA InvalidateTrue ==
  ASSUME NEW O, NEW es, IsStore(O, es), NEW m, NEW g, NEW v, StoreTrue(es, m, g, v), NEW ids
  PROVE  LET fs == Invalidate(es, ids) IN
         StoreTrue(fs, m, g, v) /\ \A k \in DOMAIN es : Follows(es[k], fs[k])
<1> DEFINE fs == Invalidate(es, ids)
<1>1. DOMAIN fs = DOMAIN es
      /\ \A k \in DOMAIN es : fs[k] = IF k \in ids THEN Spread(es[k], Invalidation) ELSE es[k]
  BY DEF Invalidate
<1> HIDE DEF fs
<1>2. IsPatch(O, DOMAIN es, Invalidation) /\ Harmless(Invalidation)
      /\ Invalidation.status = "preparing_head"
  BY CompoundPatches, HarmlessPatches
<1>3. ASSUME NEW k \in DOMAIN es
      PROVE  /\ RowTrue(fs[k], v) /\ Follows(es[k], fs[k])
             /\ fs[k].status = "merged" => SettledIn(fs[k], m, g)
  <2>1. IsRow(O, DOMAIN es, es[k]) /\ RowTrue(es[k], v)
        /\ (es[k].status = "merged" => SettledIn(es[k], m, g))
    BY DEF IsStore, StoreTrue
  <2>2. fs[k] \in {es[k], Spread(es[k], Invalidation)}
    BY <1>1
  <2>3. RowTrue(fs[k], v) /\ Follows(es[k], fs[k])
        /\ (fs[k] = es[k] \/ fs[k].status = Invalidation.status)
    BY <1>2, <2>1, <2>2, HarmlessRow
  <2> QED BY <1>2, <2>1, <2>3
<1> QED BY <1>1, <1>3 DEF StoreTrue, fs

\* The world moves on.
LEMMA TrueLater ==
  ASSUME TypeOK', StoreTrue(entries', main, gh, vouched), Lasting
  PROVE  StoreTrue(entries', main', gh', vouched')
<1>1. \A n \in DOMAIN entries' : entries'[n].branch \in PR
  BY RowColumns DEF TypeOK, StoreOK, IsStore
<1> QED BY <1>1 DEF StoreTrue, RowTrue, SettledIn, Lasting, IsAncestor

\* Of the tick, only the push moves the base branch and only Retire touches
\* pull requests; no step of it sends a webhook or vouches for a candidate.
LEMMA TickFrame ==
  ASSUME Tick
  PROVE  UNCHANGED <<hooks, vouched>> /\ (Push \/ Retire \/ UNCHANGED <<gh, main>>)
<1>1. CASE \/ TickStart \/ Pick \/ Sanitize \/ SanitizeFails \/ WaitForParent \/ DropStale
           \/ Promote \/ StartPrepare \/ StartValidation \/ StartMerge
  BY <1>1 DEF TickStart, Pick, Sanitize, SanitizeFails, WaitForParent, DropStale, Promote,
              StartPrepare, StartValidation, StartMerge, Quiet, github
<1>2. CASE \/ PrepareWaits \/ PrepareMoved \/ PrepareBlocked \/ PrepareContained
           \/ PrepareHeadCandidate \/ PrepareConflict \/ PrepareIntegration \/ PrepareFails
  BY <1>2 DEF PrepareWaits, PrepareMoved, PrepareBlocked, PrepareContained,
              PrepareHeadCandidate, PrepareConflict, PrepareIntegration, PrepareFails,
              Quiet, github
<1>3. CASE \/ RefreshWorkspace \/ ChecksWait \/ ChecksPass \/ ChecksFail \/ Rerun
           \/ RerunUnavailable
  BY <1>3 DEF RefreshWorkspace, ChecksWait, ChecksPass, ChecksFail, Rerun, RerunUnavailable,
              Quiet, github
<1>4. CASE Revalidate \/ Land \/ Gate \/ RevalidationFails \/ Push \/ PushOverrun \/ PushRejected
  BY <1>4 DEF Revalidate, Land, Gate, RevalidationFails, Push, PushOverrun, PushRejected,
              Quiet, github
<1>5. CASE Retire \/ Apply \/ ApplyThrows \/ Cascade \/ TickFails
  BY <1>5 DEF Retire, Apply, ApplyThrows, Cascade, TickFails
<1> QED BY <1>1, <1>2, <1>3, <1>4, <1>5 DEF Tick

\* A merge into the branch of a parent, as it shows in the states.
LEMMA MergedIntoParent ==
  ASSUME TypeOK, NEW p \in PR, MergeIntoParent(p)
  PROVE  gh'[p].state = "merged" /\ \A r \in PR \ {p} : gh'[r].state = gh[r].state
<1> DEFINE q == gh[p].base
           g == [gh EXCEPT ![p].state = "merged"]
<1>1. gh \in [PR -> PullRequests(Objects)]
  BY DEF TypeOK, WorldOK, PullRequests
<1>2. PICK c : gh' = [gh EXCEPT ![p].state = "merged", ![q].head = c, ![q].ok = FALSE]
  BY DEF MergeIntoParent
<1>3. gh' = [g EXCEPT ![q].head = c, ![q].ok = FALSE]
  BY <1>2
<1>4. DOMAIN g = PR /\ g[p].state = "merged" /\ \A r \in PR \ {p} : g[r] = gh[r]
  BY <1>1 DEF PullRequests
<1>5. \A r \in PR : DOMAIN g[r] = {"state", "head", "base", "ok"}
  BY <1>1 DEF PullRequests
<1> HIDE DEF q, g
<1>6. \A r \in PR : gh'[r].state = g[r].state
  BY <1>3, <1>4, <1>5
<1> QED BY <1>4, <1>6

\* The base branch only grows, a pull request that is merged stays so, and whom
\* Review Quill has vouched for.
LEMMA StepLasts ==
  ASSUME TypeOK, [Next]_vars
  PROVE  Lasting
<1> USE DEF Lasting, IsAncestor
<1>1. gh \in [PR -> PullRequests(Objects)]
  BY DEF TypeOK, WorldOK, PullRequests
<1>2. CASE UNCHANGED <<gh, main>> /\ vouched \subseteq vouched'
  BY <1>2
<1>3. CASE Tick
  <2>1. CASE Push
    BY <2>1 DEF Push, FastForward
  <2>2. CASE Retire
    BY <1>1, <2>2 DEF Retire
  <2> QED BY <1>2, <1>3, <2>1, <2>2, TickFrame
<1>4. CASE Commands \/ Crash \/ UNCHANGED vars
  BY <1>2, <1>4
     DEF Commands, AdmitStart, OperatorDequeue, FinishDelete, OperatorEnqueue, AdmitFinish,
         Deliver, Crash, vars, github
<1>5. ASSUME NEW p \in PR, NEW head, Reheaded(p, head), UNCHANGED <<main, vouched>>
      PROVE  Lasting
  BY <1>1, <1>5 DEF Reheaded
<1>6. ASSUME NEW p \in PR, \/ PushHead(p) \/ UpdateBranch(p) \/ Approve(p) \/ Revoke(p)
                           \/ Close(p) \/ Repair(p) \/ Vouch(p) \/ Refuse(p) \/ MarkMerged(p)
      PROVE  Lasting
  <2>1. CASE PushHead(p) \/ UpdateBranch(p)
    BY <1>5, <2>1 DEF PushHead, UpdateBranch
  <2>2. CASE Approve(p) \/ Revoke(p) \/ Close(p) \/ MarkMerged(p)
    BY <1>1, <2>2 DEF Approve, Revoke, Close, MarkMerged
  <2>3. CASE Repair(p) \/ Vouch(p) \/ Refuse(p)
    BY <1>2, <2>3 DEF Repair, Vouch, Refuse
  <2> QED BY <1>6, <2>1, <2>2, <2>3
<1>7. ASSUME NEW p \in PR, ExternalMerge(p) PROVE Lasting
  BY <1>1, <1>7 DEF ExternalMerge, MergeOf
<1>8. ASSUME NEW p \in PR, MergeIntoParent(p) PROVE Lasting
  <2>1. UNCHANGED <<main, vouched>>
    BY <1>8 DEF MergeIntoParent
  <2>2. gh'[p].state = "merged" /\ \A r \in PR \ {p} : gh'[r].state = gh[r].state
    BY <1>8, MergedIntoParent
  <2> QED BY <2>1, <2>2
<1>9. ASSUME NEW p \in PR, DirectPush(p) \/ \E base \in PR \cup {Main} : Retarget(p, base)
      PROVE  Lasting
  BY <1>1, <1>9 DEF DirectPush, Retarget
<1>10. CASE Lose \/ \E c \in DOMAIN ci : Conclude(c) \/ RerunByHand(c)
  BY <1>2, <1>10 DEF Lose, Conclude, RerunByHand
<1>11. CASE World
  BY <1>6, <1>7, <1>8, <1>9, <1>10, <1>11 DEF World
<1> QED BY <1>3, <1>4, <1>11 DEF Next

LEMMA StepHooks ==
  ASSUME TypeOK, HooksOK, [Next]_vars
  PROVE  HooksOK'
<1>1. Lasting
  BY StepLasts
<1>2. \A h \in hooks : h.branch \in PR
  BY DEF TypeOK, WorldOK
<1>3. gh \in [PR -> PullRequests(Objects)]
  BY DEF TypeOK, WorldOK, PullRequests
<1>4. CASE hooks' \subseteq hooks
  BY <1>1, <1>2, <1>4 DEF HooksOK, Lasting
<1>5. ASSUME NEW h, hooks' = hooks \cup {h}, h.type = "merged" => gh'[h.branch].state = "merged"
      PROVE  HooksOK'
  BY <1>1, <1>2, <1>5 DEF HooksOK, Lasting
<1>6. CASE Tick \/ Commands \/ Crash \/ UNCHANGED vars
  BY <1>4, <1>6, TickFrame
     DEF Commands, AdmitStart, OperatorDequeue, FinishDelete, OperatorEnqueue, AdmitFinish,
         Deliver, Crash, vars, github
<1>7. ASSUME NEW p \in PR, PushHead(p) \/ UpdateBranch(p) \/ Close(p)
      PROVE  HooksOK'
  <2>1. PICK t \in {"synchronize", "closed"} : \E head : Hook(t, p, head)
    BY <1>7 DEF PushHead, UpdateBranch, Reheaded, Close
  <2> QED BY <1>5, <2>1 DEF Hook
<1>8. ASSUME NEW p \in PR, ExternalMerge(p) \/ MarkMerged(p)
      PROVE  HooksOK'
  <2>1. Hook("merged", p, gh[p].head) /\ gh' = [gh EXCEPT ![p].state = "merged"]
    BY <1>8 DEF ExternalMerge, MarkMerged
  <2>2. gh'[p].state = "merged"
    BY <1>3, <2>1 DEF PullRequests
  <2> QED BY <1>5, <2>1, <2>2 DEF Hook
<1>9. ASSUME NEW p \in PR, MergeIntoParent(p)
      PROVE  HooksOK'
  <2>1. PICK q, c :
          hooks' = hooks \cup {[type |-> "merged", branch |-> p, head |-> gh[p].head],
                               [type |-> "synchronize", branch |-> q, head |-> c]}
    BY <1>9 DEF MergeIntoParent
  <2>2. gh'[p].state = "merged"
    BY <1>9, MergedIntoParent
  <2> QED BY <1>1, <1>2, <2>1, <2>2 DEF HooksOK, Lasting
<1>10. ASSUME NEW p \in PR, \/ Approve(p) \/ Revoke(p) \/ DirectPush(p) \/ Repair(p) \/ Vouch(p)
                            \/ Refuse(p) \/ \E base \in PR \cup {Main} : Retarget(p, base)
       PROVE  HooksOK'
  BY <1>4, <1>10 DEF Approve, Revoke, DirectPush, Repair, Vouch, Refuse, Retarget
<1>11. CASE Lose \/ \E c \in DOMAIN ci : Conclude(c) \/ RerunByHand(c)
  BY <1>4, <1>11 DEF Lose, Conclude, RerunByHand
<1>12. CASE World
  BY <1>7, <1>8, <1>9, <1>10, <1>11, <1>12 DEF World
<1> QED BY <1>6, <1>12 DEF Next

\* While the tick awaits, others leave its premises alone.
LEMMA OthersKeepSnap ==
  ASSUME TypeOK, SnapOK, UNCHANGED tick, Lasting, Ids \subseteq Ids',
         \A n \in Ids : Follows(entries[n], entries'[n])
  PROVE  SnapOK'
<1>1. pc' = pc /\ snap' = snap /\ todo' = todo
  BY DEF tick
<1>2. pc \in Busy => snap.id \in Ids /\ snap.branch \in PR
  BY SnapRow
<1>3. pc \in Busy => /\ entries'[snap.id].head = entries[snap.id].head
                     /\ entries'[snap.id].branch = entries[snap.id].branch
                     /\ entries'[snap.id].ref => /\ entries[snap.id].ref
                                                 /\ entries'[snap.id].sha = entries[snap.id].sha
                                                 /\ entries'[snap.id].kind = entries[snap.id].kind
  BY <1>2 DEF Follows
<1>4. pc = "apply" => MayWrite(todo.patch)'
  <2> SUFFICES ASSUME pc = "apply" PROVE MayWrite(todo.patch)'
    OBVIOUS
  <2>1. MayWrite(todo.patch) /\ snap.branch \in PR
    BY <1>2 DEF SnapOK, Busy
  <2>2. SettledIn(snap, main, gh) => SettledIn(snap', main', gh')
    BY <1>1, <2>1 DEF SettledIn, Lasting, IsAncestor
  <2> QED BY <1>1, <2>1, <2>2 DEF MayWrite, Lasting
<1>5. RowTrue(snap, vouched) => RowTrue(snap', vouched')
  BY <1>1 DEF RowTrue, Lasting
<1>6. HasCandidate => HasCandidate'
  BY <1>1 DEF HasCandidate
<1> QED BY <1>1, <1>3, <1>4, <1>5, <1>6 DEF SnapOK, Unwritten

\* Between two entries nothing is promised.
LEMMA FreeSnap ==
  ASSUME pc' \in {"boot", "idle", "pick"}
  PROVE  SnapOK'
BY DEF SnapOK, Unwritten, Busy

LEMMA EndIsFree ==
  ASSUME NextEntry \/ Halt \/ Advance
  PROVE  SnapOK'
<1>1. pc' \in {"boot", "idle", "pick"}
  BY DEF NextEntry, Halt, Advance
<1> QED BY <1>1, FreeSnap

\* The tick decides what to write.
LEMMA DecidedSnap ==
  ASSUME TypeOK, SnapOK, pc \in Unwritten, UNCHANGED entries, Lasting,
         snap' = snap, pc' = "apply", MayWrite(todo'.patch)
  PROVE  SnapOK'
<1>1. pc \in Busy /\ snap.branch \in PR
  BY SnapRow DEF Unwritten
<1>2. SettledIn(snap, main, gh) => SettledIn(snap', main', gh')
  BY <1>1 DEF SettledIn, Lasting, IsAncestor
<1>3. MayWrite(todo.patch)'
  BY <1>2 DEF MayWrite, Lasting
<1>4. RowTrue(snap, vouched) => RowTrue(snap', vouched')
  BY DEF RowTrue, Lasting
<1> QED BY <1>1, <1>3, <1>4 DEF SnapOK, Unwritten, Busy

LEMMA DecideSnap ==
  ASSUME TypeOK, SnapOK, pc \in Unwritten, UNCHANGED entries, Lasting,
         NEW patch, MayWrite(patch),
         \/ \E down, tail, clean : DecideThen(patch, down, tail, clean)
         \/ \E clean : DecideAtZero(patch, clean)
         \/ Decide(patch) \/ DecideAndClean(patch)
  PROVE  SnapOK'
<1>1. \E down, tail, clean : DecideThen(patch, down, tail, clean)
  BY DEF DecideAtZero, Decide, DecideAndClean
<1>2. snap' = snap /\ pc' = "apply" /\ todo'.patch = patch
  BY <1>1 DEF DecideThen
<1> QED BY <1>2, DecidedSnap

LEMMA CheckedSnap ==
  ASSUME TypeOK, SnapOK, pc \in {"refresh", "checks"}, UNCHANGED entries, Lasting,
         NEW patch, MayWrite(patch), NEW down, NEW tail, DecideChecked(patch, down, tail)
  PROVE  SnapOK'
<1>1. "patch" \in DOMAIN todo
  BY DEF TypeOK, TickOK
<1>2. snap' = snap /\ pc' = "apply" /\ todo'.patch = patch
  BY <1>1 DEF DecideChecked
<1> QED BY <1>2, DecidedSnap DEF Unwritten, Busy

\* It goes on with the row it has read.
LEMMA GoneSnap ==
  ASSUME TypeOK, SnapOK, Lasting, pc \in Unwritten, UNCHANGED <<entries, snap>>,
         pc' \in Unwritten \ {"apply"},
         pc' \in {"probe", "unseen"} => Active(snap),
         pc' \in {"merge", "land", "gate", "push"} => snap.status = "merging",
         pc' \in {"land", "gate", "push"} => IsAncestor(snap.head, snap.sha) /\ HasCandidate
  PROVE  SnapOK'
<1>1. RowTrue(snap, vouched) => RowTrue(snap', vouched')
  BY DEF RowTrue, Lasting
<1>2. HasCandidate => HasCandidate'
  BY DEF HasCandidate
<1> QED BY <1>1, <1>2 DEF SnapOK, Unwritten

\* What it decided is written to whatever row is there by then.
LEMMA OwnWrite ==
  ASSUME TypeOK, LandInv, pc \in Unwritten, NEW p, IsPatch(Objects, Ids, p), MayWrite(p)
  PROVE  LET es == Transition(entries, snap.id, p) IN
         /\ StoreTrue(es, main, gh, vouched)
         /\ \A n \in Ids : es[n].head = entries[n].head /\ es[n].branch = entries[n].branch
<1> DEFINE es == Transition(entries, snap.id, p)
           e  == entries[snap.id]
           f  == Written(e, p)
<1>1. pc \in Busy /\ snap.id \in Ids
  BY SnapRow DEF Unwritten
<1>2. DOMAIN es = Ids /\ es[snap.id] = f /\ \A n \in Ids \ {snap.id} : es[n] = entries[n]
  BY <1>1 DEF Transition, Ids
<1>3. IsRow(Objects, Ids, e) /\ RowTrue(e, vouched)
      /\ (e.status = "merged" => SettledIn(e, main, gh))
  BY <1>1 DEF TypeOK, StoreOK, IsStore, LandInv, StoreTrue, Ids
<1>4. e.head = snap.head /\ e.branch = snap.branch /\ (e.ref => snap.ref /\ e.sha = snap.sha)
      /\ (e.ref => e.kind = snap.kind)
  BY <1>1 DEF LandInv, SnapOK
<1>5. CASE f = e
  BY <1>2, <1>3, <1>5 DEF LandInv, StoreTrue, Ids
<1>6. CASE f = Spread(e, p)
  <2>1. DOMAIN e = Columns /\ DOMAIN p \subseteq Columns \ Fixed /\ "status" \in DOMAIN p
        /\ ("kind" \in DOMAIN p <=> "sha" \in DOMAIN p)
    BY <1>3 DEF IsRow, IsPatch, HasCommit, MayWrite
  <2>2. f.head = e.head /\ f.branch = e.branch /\ f.status = p.status
    BY <1>6, <2>1 DEF Spread, Columns, Fixed
  <2>3. /\ f.ref = IF "ref" \in DOMAIN p THEN p.ref ELSE e.ref
        /\ f.kind = IF "kind" \in DOMAIN p THEN p.kind ELSE e.kind
        /\ f.sha = IF "sha" \in DOMAIN p THEN p.sha ELSE e.sha
    BY <1>6, <2>1 DEF Spread, Columns
  <2> HIDE DEF f, e
  <2>4. f.kind = "head" => f.sha = f.head
    BY <1>3, <1>4, <2>1, <2>2, <2>3 DEF RowTrue, MayWrite
  <2>5. f.status = "merging" /\ f.ref /\ f.sha # Null => IsAncestor(f.head, f.sha)
    BY <1>4, <2>1, <2>2, <2>3 DEF MayWrite
  <2>6. f.status = "merged" => SettledIn(f, main, gh)
    BY <1>4, <2>2 DEF MayWrite, SettledIn
  <2>8. f.status = "merging" /\ f.ref /\ f.kind = "integration_repair" => f.sha \in vouched
    BY <1>4, <2>1, <2>2, <2>3 DEF MayWrite
  <2>7. StoreTrue(es, main, gh, vouched)
    BY <1>2, <2>4, <2>5, <2>6, <2>8 DEF LandInv, StoreTrue, RowTrue, Ids
  <2> QED BY <1>2, <2>2, <2>7 DEF e
<1>7. f = e \/ f = Spread(e, p)
  BY DEF Written
<1> QED BY <1>5, <1>6, <1>7

LEMMA WriteNowTrue ==
  ASSUME TypeOK, LandInv, pc \in Unwritten, NEW p, IsPatch(Objects, Ids, p), MayWrite(p),
         WriteNow(p)
  PROVE  StoreTrue(entries', main, gh, vouched) /\ SnapOK'
<1>1. StoreTrue(entries', main, gh, vouched)
  BY OwnWrite DEF WriteNow, LandInv
<1>2. SnapOK'
  BY EndIsFree DEF WriteNow
<1> QED BY <1>1, <1>2

-----------------------------------------------------------------------------
\* Commands, webhooks and the world

LEMMA SameStore ==
  ASSUME TypeOK, LandInv, UNCHANGED <<entries, tick>>, Lasting
  PROVE  StoreTrue(entries', main, gh, vouched) /\ SnapOK'
<1>1. \A n \in Ids : Follows(entries[n], entries'[n])
  BY DEF Follows
<1> QED BY <1>1, OthersKeepSnap DEF LandInv, Ids

LEMMA QueuedTrue ==
  ASSUME TypeOK, LandInv, UNCHANGED tick, Lasting, NEW p, NEW head, NEW base, NEW prio,
         entries' = Append(entries, NewEntry(Len(entries) + 1, p, head, base, prio))
  PROVE  StoreTrue(entries', main, gh, vouched) /\ SnapOK'
<1> DEFINE e == NewEntry(Len(entries) + 1, p, head, base, prio)
           S == Range(entries) \cup {e}
<1>1. e.kind = "none" /\ e.status = "queued"
  BY DEF NewEntry
<1>2. entries \in Seq(S) /\ e \in S
  BY SeqMonotonic DEF TypeOK, StoreOK, IsStore
<1>3. entries' = Append(entries, e)
  OBVIOUS
<1> HIDE DEF e, S
<1>4. /\ Len(entries) \in Nat /\ Ids = 1..Len(entries)
      /\ Ids' = 1..(Len(entries) + 1) /\ entries'[Len(entries) + 1] = e
      /\ \A n \in 1..Len(entries) : entries'[n] = entries[n]
  BY <1>2, <1>3, LenProperties, AppendProperties DEF Ids
<1>5. Ids \subseteq Ids' /\ \A n \in Ids : Follows(entries[n], entries'[n])
  BY <1>4 DEF Follows
<1>6. StoreTrue(entries', main, gh, vouched)
  <2> SUFFICES ASSUME NEW n \in Ids'
               PROVE  /\ RowTrue(entries'[n], vouched)
                      /\ entries'[n].status = "merged" => SettledIn(entries'[n], main, gh)
    BY DEF StoreTrue, Ids
  <2>1. CASE n = Len(entries) + 1
    BY <1>1, <1>4, <2>1 DEF RowTrue
  <2>2. CASE n \in Ids
    BY <1>4, <2>2 DEF LandInv, StoreTrue, Ids
  <2> QED BY <1>4, <2>1, <2>2
<1> QED BY <1>5, <1>6, OthersKeepSnap DEF LandInv

LEMMA RetiredTrue ==
  ASSUME TypeOK, LandInv, UNCHANGED tick, Lasting, NEW n \in Ids, NEW patch, NEW own,
         IsPatch(Objects, Ids, patch), Harmless(patch),
         patch.status = "merged" => SettledIn(entries[n], main, gh),
         Retired(n, patch, own)
  PROVE  StoreTrue(entries', main, gh, vouched) /\ SnapOK'
<1> DEFINE es == Transition(entries, n, patch)
<1>1. PICK down : entries' = Invalidate(es, down)
  BY DEF Retired
<1>2. IsStore(Objects, entries) /\ StoreTrue(entries, main, gh, vouched) /\ DOMAIN entries = Ids
  BY DEF TypeOK, StoreOK, LandInv, Ids
<1>3. IsStore(Objects, es) /\ DOMAIN es = Ids
  BY <1>2, TransitionStore
<1>4. StoreTrue(es, main, gh, vouched) /\ \A k \in Ids : Follows(entries[k], es[k])
  BY <1>2, TransitionTrue
<1> HIDE DEF es
<1>5. DOMAIN entries' = Ids
  BY <1>1, <1>3, InvalidateStore
<1>6. StoreTrue(entries', main, gh, vouched) /\ \A k \in Ids : Follows(es[k], entries'[k])
  BY <1>1, <1>3, <1>4, InvalidateTrue
<1>7. \A k \in Ids : Follows(entries[k], entries'[k])
  BY <1>4, <1>6 DEF Follows
<1>8. Ids' = Ids
  BY <1>5 DEF Ids
<1> QED BY <1>6, <1>7, <1>8, OthersKeepSnap DEF LandInv

LEMMA CommandsTrue ==
  ASSUME TypeOK, LandInv, Lasting, Commands
  PROVE  StoreTrue(entries', main, gh, vouched) /\ SnapOK'
<1>1. UNCHANGED tick
  BY TickIsAlone
<1>2. CASE UNCHANGED entries
  BY <1>1, <1>2, SameStore
<1>3. /\ IsPatch(Objects, Ids, Supersede) /\ IsPatch(Objects, Ids, To("dequeued"))
      /\ IsPatch(Objects, Ids, To("merged"))
      /\ Harmless(Supersede) /\ Harmless(To("dequeued")) /\ Harmless(To("merged"))
      /\ Supersede.status = "superseded" /\ To("dequeued").status = "dequeued"
  BY NamedPatches, CompoundPatches, HarmlessPatches DEF Statuses, Terminal
<1>4. ASSUME NEW p \in PR, OperatorDequeue(p)
      PROVE  StoreTrue(entries', main, gh, vouched) /\ SnapOK'
  <2>1. PICK n \in Ids : Retired(n, To("dequeued"), {})
    BY <1>4 DEF OperatorDequeue, ActiveRows, Ids
  <2> QED BY <1>1, <1>3, <2>1, RetiredTrue
<1>5. ASSUME NEW p \in PR, NEW prio \in {0, 1}, OperatorEnqueue(p, prio)
      PROVE  StoreTrue(entries', main, gh, vouched) /\ SnapOK'
  BY <1>1, <1>5, QueuedTrue DEF OperatorEnqueue
<1>6. CASE AdmitFinish
  <2>1. \/ entries' = entries
        \/ entries' = Append(entries, NewEntry(Len(entries) + 1, admitting.pr, admitting.head,
                                               admitting.base, 0))
    BY <1>6 DEF AdmitFinish
  <2> QED BY <1>1, <1>2, <2>1, QueuedTrue
<1>7. CASE Deliver
  <2>1. PICK hook \in hooks : Handle(hook)
    BY <1>7 DEF Deliver
  <2>2. hook.type \in {"synchronize", "closed", "merged"}
    BY DEF TypeOK, WorldOK
  <2>3. CASE UNCHANGED <<entries, deleting>>
    BY <1>2, <2>3
  <2>4. CASE ~UNCHANGED <<entries, deleting>>
    <3>1. PICK n \in Ids :
            /\ entries[n].branch = hook.branch
            /\ \/ Retired(n, Supersede, RefsOf({n}))
               \/ Retired(n, To("dequeued"), {})
               \/ hook.type = "merged" /\ Retired(n, To("merged"), {})
      BY <2>1, <2>2, <2>4 DEF Handle, ActiveRows, Ids
    <3>2. hook.type = "merged" => SettledIn(entries[n], main, gh)
      BY <3>1 DEF LandInv, HooksOK, SettledIn
    <3>3. CASE Retired(n, Supersede, RefsOf({n}))
      BY <1>1, <1>3, <3>3, RetiredTrue
    <3>4. CASE Retired(n, To("dequeued"), {})
      BY <1>1, <1>3, <3>4, RetiredTrue
    <3>5. CASE hook.type = "merged" /\ Retired(n, To("merged"), {})
      BY <1>1, <1>3, <3>2, <3>5, RetiredTrue
    <3> QED BY <3>1, <3>3, <3>4, <3>5
  <2> QED BY <2>3, <2>4
<1>8. ASSUME NEW p \in PR, AdmitStart(p) \/ FinishDelete(p)
      PROVE  UNCHANGED entries
  BY <1>8 DEF AdmitStart, FinishDelete
<1> QED BY <1>2, <1>4, <1>5, <1>6, <1>7, <1>8 DEF Commands

LEMMA WorldIsStill ==
  ASSUME World
  PROVE  UNCHANGED entries
BY DEF World, Still, PushHead, UpdateBranch, Approve, Revoke, Close, ExternalMerge,
       MergeIntoParent, DirectPush, MarkMerged, Repair, Vouch, Refuse, Retarget, Conclude,
       RerunByHand, Lose

-----------------------------------------------------------------------------
\* The steps of the tick

\* An await in which the tick only reads.
LEMMA ReadOnly ==
  ASSUME LandInv, UNCHANGED entries
  PROVE  StoreTrue(entries', main, gh, vouched)
BY DEF LandInv

\* Pick and the dispatch of the loop body.
LEMMA WalkTrue ==
  ASSUME TypeOK, LandInv, Lasting,
         \/ TickStart \/ Pick \/ Sanitize \/ SanitizeFails
         \/ WaitForParent \/ DropStale \/ Promote
         \/ StartPrepare \/ StartValidation \/ StartMerge
  PROVE  StoreTrue(entries', main, gh, vouched) /\ SnapOK'
<1>1. CASE TickStart
  BY <1>1, ReadOnly, FreeSnap DEF TickStart
<1>2. CASE Pick
  <2>1. UNCHANGED entries
    BY <1>2 DEF Pick
  <2>2. CASE Advance
    BY <2>1, <2>2, ReadOnly, EndIsFree
  <2>3. CASE /\ Row(work[idx]) # Null /\ Active(entries[work[idx]])
             /\ pc' = "probe" /\ snap' = entries[work[idx]]
    <3>1. work[idx] \in Ids
      BY <2>3 DEF Row, Ids
    <3>2. RowTrue(snap', vouched') /\ snap'.id = work[idx]
      BY <2>3, <3>1 DEF LandInv, StoreTrue, RowTrue, Lasting, TypeOK, StoreOK, IsStore, Ids
    <3>3. SnapOK'
      BY <2>1, <2>3, <3>2 DEF SnapOK, Unwritten, Busy
    <3> QED BY <2>1, <3>3, ReadOnly
  <2> QED BY <1>2, <2>2, <2>3 DEF Pick
<1> SUFFICES ASSUME ~TickStart, ~Pick
             PROVE  StoreTrue(entries', main, gh, vouched) /\ SnapOK'
  BY <1>1, <1>2
<1>3. pc \in {"probe", "unseen"} /\ pc \in Unwritten /\ pc \in Busy
  BY DEF Sanitize, SanitizeFails, WaitForParent, DropStale, Promote, StartPrepare,
         StartValidation, StartMerge, Dispatched, Sane, Unwritten, Busy
<1>4. SnapOK /\ Active(snap) /\ RowTrue(snap, vouched)
  BY <1>3 DEF LandInv, SnapOK
<1>5. snap.status \in Statuses
  BY <1>3, SnapRow
<1>6. CASE Sanitize
  <2> DEFINE stop == IF IsBlocked THEN "next" ELSE "halt"
             pr   == gh[snap.branch]
  <2> HIDE DEF stop
  <2>1. UNCHANGED entries
    BY <1>6 DEF Sanitize, Quiet
  <2>2. \E patch, down :
          /\ DecideThen(patch, down, stop, TRUE)
          /\ \/ patch = Merge /\ pr.state = "merged"
             \/ patch \in {Supersede, Rebase(pr.base), To("dequeued")}
    BY <1>6 DEF Sanitize, SupersedeThen, stop
  <2>3. PICK patch, down :
          /\ DecideThen(patch, down, stop, TRUE)
          /\ \/ patch = Merge /\ pr.state = "merged"
             \/ patch \in {Supersede, Rebase(pr.base), To("dequeued")}
    BY <2>2
  <2>4. Harmless(patch) /\ (patch.status = "merged" => SettledIn(snap, main, gh))
    BY <2>3, HarmlessPatches DEF SettledIn, Statuses, Terminal
  <2>5. MayWrite(patch)
    BY <2>4, HarmlessMayBeWritten
  <2>6. SnapOK'
    BY <1>3, <1>4, <2>1, <2>3, <2>5, DecideSnap
  <2> QED BY <2>1, <2>6, ReadOnly
<1>7. CASE SanitizeFails
  <2>1. UNCHANGED <<entries, snap>> /\ pc' = "unseen"
    BY <1>7 DEF SanitizeFails, Goto
  <2> QED BY <1>3, <1>4, <2>1, ReadOnly, GoneSnap DEF Unwritten, Busy
<1>8. MayWrite(Invalidation)
  BY HarmlessPatches, HarmlessMayBeWritten
<1>9. CASE WaitForParent
  <2>1. CASE DecideAndClean(Invalidation) /\ UNCHANGED entries
    BY <1>3, <1>4, <1>8, <2>1, DecideSnap, ReadOnly
  <2>2. CASE WriteNow(To(snap.status))
    <3>1. MayWrite(To(snap.status))
      BY <1>4 DEF MayWrite, To, RowTrue, Active, Terminal
    <3> QED BY <1>3, <1>5, <2>2, <3>1, NamedPatches, WriteNowTrue
  <2>3. CASE Skip
    BY <2>3, ReadOnly, EndIsFree DEF Skip
  <2> QED BY <1>9, <2>1, <2>2, <2>3 DEF WaitForParent
<1>10. CASE DropStale
  BY <1>3, <1>4, <1>8, <1>10, DecideSnap, ReadOnly DEF DropStale, Quiet
<1>11. CASE Promote
  <2>1. MayWrite(To("preparing_head")) /\ IsPatch(Objects, Ids, To("preparing_head"))
    BY HarmlessPatches, HarmlessMayBeWritten, NamedPatches DEF Statuses
  <2> QED BY <1>3, <1>11, <2>1, WriteNowTrue DEF Promote
<1>12. CASE StartPrepare \/ StartValidation
  <2>1. UNCHANGED <<entries, snap>> /\ pc' \in {"prepare", "refresh", "checks"}
    BY <1>12 DEF StartPrepare, StartValidation, Quiet
  <2> QED BY <1>3, <1>4, <2>1, ReadOnly, GoneSnap DEF Unwritten, Busy
<1>13. CASE StartMerge
  <2>1. CASE Goto("merge") /\ UNCHANGED entries
    <3>1. snap.status = "merging"
      BY <1>13 DEF StartMerge, Dispatched
    <3> QED BY <1>3, <1>4, <2>1, <3>1, ReadOnly, GoneSnap DEF Goto, Unwritten, Busy
  <2>2. CASE Skip
    BY <2>2, ReadOnly, EndIsFree DEF Skip
  <2> QED BY <1>13, <2>1, <2>2 DEF StartMerge
<1> QED BY <1>6, <1>7, <1>9, <1>10, <1>11, <1>12, <1>13

\* What prepareEntry selects is the admitted head, or not ready to land yet.
LEMMA SelectedMayBeWritten ==
  /\ MayWrite(Spread(CleanCI, Selected("head", FALSE, snap.head)))
  /\ \A p, sha : MayWrite(Spread(p, Selected("integration", TRUE, sha)))
<1>1. ASSUME NEW p, NEW kind, NEW ref, NEW sha, kind = "head" => sha = snap.head
      PROVE  MayWrite(Spread(p, Selected(kind, ref, sha)))
  <2> DEFINE s == Selected(kind, ref, sha)
             q == Spread(p, s)
  <2>1. s.status = "validating" /\ s.kind = kind /\ s.sha = sha
        /\ {"status", "kind", "sha"} \subseteq DOMAIN s
    BY DEF Selected
  <2> HIDE DEF s
  <2>2. q.status = "validating" /\ q.kind = kind /\ q.sha = sha /\ "status" \in DOMAIN q
    BY <2>1 DEF Spread
  <2> HIDE DEF q
  <2>3. MayWrite(q)
    BY <1>1, <2>2 DEF MayWrite
  <2> QED BY <2>3 DEF q, s
<1>2. MayWrite(Spread(CleanCI, Selected("head", FALSE, snap.head)))
  BY <1>1
<1>3. \A p, sha : MayWrite(Spread(p, Selected("integration", TRUE, sha)))
  BY <1>1
<1> QED BY <1>2, <1>3

LEMMA PrepareTrue ==
  ASSUME TypeOK, LandInv, Lasting,
         \/ PrepareWaits \/ PrepareMoved \/ PrepareBlocked \/ PrepareContained
         \/ PrepareHeadCandidate \/ PrepareConflict \/ PrepareIntegration \/ PrepareFails
  PROVE  StoreTrue(entries', main, gh, vouched) /\ SnapOK'
<1>1. pc = "prepare" /\ pc \in Busy /\ pc \in Unwritten /\ SnapOK /\ TickOK
  BY DEF PrepareWaits, PrepareMoved, PrepareBlocked, PrepareContained, PrepareHeadCandidate,
         PrepareConflict, PrepareIntegration, PrepareFails, Building, PrepareAllowed,
         Preparing, Busy, Unwritten, LandInv, TypeOK
<1>2. /\ MayWrite(To("preparing_head")) /\ MayWrite(Supersede) /\ MayWrite(Reprepare)
      /\ \A w : MayWrite(Evict(w))
  BY HarmlessPatches, HarmlessMayBeWritten DEF Statuses
<1>3. CASE PrepareWaits
  <2>1. CASE WriteNow(To("preparing_head"))
    <3>1. IsPatch(Objects, Ids, To("preparing_head"))
      BY NamedPatches DEF Statuses
    <3> QED BY <1>1, <1>2, <2>1, <3>1, WriteNowTrue
  <2>2. CASE Skip
    BY <2>2, ReadOnly, EndIsFree DEF Skip
  <2> QED BY <1>3, <2>1, <2>2 DEF PrepareWaits
<1>4. ASSUME UNCHANGED entries, NEW patch, MayWrite(patch),
             \/ Decide(patch) \/ DecideAndClean(patch)
             \/ \E down, tail, clean : DecideThen(patch, down, tail, clean)
      PROVE  StoreTrue(entries', main, gh, vouched) /\ SnapOK'
  BY <1>1, <1>4, DecideSnap, ReadOnly
<1>5. CASE PrepareMoved \/ PrepareBlocked
  BY <1>2, <1>4, <1>5 DEF PrepareMoved, PrepareBlocked, SupersedeThen, Quiet
<1>6. CASE PrepareContained
  <2>1. UNCHANGED entries /\ (Decide(Reprepare) \/ Skip)
    BY <1>6 DEF PrepareContained, Quiet
  <2> QED BY <1>2, <1>4, <2>1, ReadOnly, EndIsFree DEF Skip
<1>7. CASE PrepareHeadCandidate
  BY <1>4, <1>7, SelectedMayBeWritten DEF PrepareHeadCandidate, Quiet
<1>8. CASE PrepareConflict
  BY <1>4, <1>8, SelectedMayBeWritten DEF PrepareConflict
<1>9. CASE PrepareIntegration
  <2> DEFINE c == MergeOf("merge", snap.branch, Base, snap.head)
  <2>1. Decide(Spread([run |-> c, failed |-> FALSE], Selected("integration", TRUE, c)))
        /\ UNCHANGED entries
    BY <1>9 DEF PrepareIntegration
  <2> HIDE DEF c
  <2> QED BY <1>4, <2>1, SelectedMayBeWritten
<1>10. CASE PrepareFails
  <2>1. CASE IsHead
    BY <1>2, <1>4, <1>10, <2>1 DEF PrepareFails
  <2>2. CASE ~IsHead
    <3> DEFINE one == Transition(entries, Prev.id, Reprepare)
               two == Transition(one, snap.id, Reprepare)
    <3>1. Prev.id \in Ids /\ snap.id \in Ids
      <4>1. IsRow(Objects, Ids, todo)
        BY <1>1, <1>10, <2>2 DEF PrepareFails, Building, PrepareAllowed, Preparing, Base, Prev,
                                 TickOK
      <4> QED BY <1>1, <4>1, SnapRow, RowColumns DEF Prev
    <3>2. /\ \A N : IsPatch(Objects, N, Reprepare)
          /\ Harmless(Reprepare) /\ Reprepare.status # "merged"
      BY CompoundPatches, HarmlessPatches
    <3>3. IsStore(Objects, entries) /\ StoreTrue(entries, main, gh, vouched) /\ DOMAIN entries = Ids
      BY DEF TypeOK, StoreOK, LandInv, Ids
    <3>4. IsStore(Objects, one) /\ DOMAIN one = Ids
      BY <3>1, <3>2, <3>3, TransitionStore
    <3>5. StoreTrue(one, main, gh, vouched)
      BY <3>1, <3>2, <3>3, TransitionTrue
    <3>6. entries' \in {entries, one, two} /\ (NextEntry \/ Halt)
      BY <1>10, <2>2 DEF PrepareFails
    <3> HIDE DEF one
    <3>7. StoreTrue(two, main, gh, vouched)
      BY <3>1, <3>2, <3>4, <3>5, TransitionTrue
    <3> QED BY <3>3, <3>5, <3>6, <3>7, EndIsFree
  <2> QED BY <2>1, <2>2
<1> QED BY <1>3, <1>5, <1>6, <1>7, <1>8, <1>9, <1>10

\* refreshIntegrationWorkspace and checkValidation
LEMMA CheckTrue ==
  ASSUME TypeOK, LandInv, Lasting,
         \/ RefreshWorkspace \/ ChecksWait \/ ChecksPass \/ ChecksFail
         \/ Rerun \/ RerunUnavailable
  PROVE  StoreTrue(entries', main, gh, vouched) /\ SnapOK'
<1>1. pc \in {"refresh", "checks"} /\ pc \in Unwritten /\ SnapOK /\ RowTrue(snap, vouched)
  BY DEF RefreshWorkspace, ChecksWait, ChecksPass, ChecksFail, Rerun, RerunUnavailable,
         Checking, Unwritten, Busy, LandInv, SnapOK
<1>2. UNCHANGED entries
  BY DEF RefreshWorkspace, ChecksWait, ChecksPass, ChecksFail, Rerun, RerunUnavailable, Quiet
<1>3. StoreTrue(entries', main, gh, vouched)
  BY <1>2, ReadOnly
<1>4. ASSUME NEW patch, MayWrite(patch),
             \/ Decide(patch)
             \/ \E down, tail, clean : DecideThen(patch, down, tail, clean)
      PROVE  SnapOK'
  BY <1>1, <1>2, <1>4, DecideSnap
<1>5. ASSUME NEW patch, MayWrite(patch), NEW down, NEW tail, DecideChecked(patch, down, tail)
      PROVE  SnapOK'
  BY <1>1, <1>2, <1>5, CheckedSnap
<1>6. MayWrite(Reprepare) /\ MayWrite(To("validating")) /\ \A w : MayWrite(Evict(w))
  BY HarmlessPatches, HarmlessMayBeWritten DEF Statuses
<1>7. ASSUME NEW p, "status" \in DOMAIN p, p.status = "validating",
             "kind" \in DOMAIN p => p.kind # "head"
      PROVE  MayWrite(p)
  BY <1>7 DEF MayWrite
<1>8. CASE RefreshWorkspace
  <2> DEFINE p == [status |-> "validating", run |-> Null, retries |-> 0,
                   kind |-> "integration_repair", ref |-> TRUE, sha |-> Live,
                   dep |-> snap.dep, failed |-> TRUE]
  <2>1. "status" \in DOMAIN p /\ p.status = "validating" /\ p.kind # "head"
    OBVIOUS
  <2>2. \/ Halt
        \/ DecideChecked(Reprepare, todo.down, todo.tail)
        \/ Goto("checks")
        \/ DecideChecked(p, todo.down, "checks")
    BY <1>8 DEF RefreshWorkspace
  <2> HIDE DEF p
  <2>3. CASE Halt
    BY <1>3, <2>3, EndIsFree
  <2>4. CASE Goto("checks")
    BY <1>1, <1>2, <1>3, <2>4, GoneSnap DEF Goto, Unwritten, Busy
  <2>5. MayWrite(p)
    BY <1>7, <2>1
  <2> QED BY <1>3, <1>5, <1>6, <2>2, <2>3, <2>4, <2>5
<1>9. ASSUME Hold PROVE SnapOK'
  <2> DEFINE p == [status |-> "validating",
                   kind |-> IF snap.kind = "integration_repair" THEN snap.kind
                                                                ELSE "integration",
                   run |-> IF snap.run = Null THEN HeadRun ELSE snap.run,
                   ref |-> TRUE, sha |-> Candidate, dep |-> snap.dep, failed |-> TRUE]
  <2>1. "status" \in DOMAIN p /\ p.status = "validating" /\ p.kind # "head"
    OBVIOUS
  <2>2. DecideChecked(p, todo.down, todo.tail)
    BY <1>9 DEF Hold
  <2> HIDE DEF p
  <2>3. MayWrite(p)
    BY <1>7, <2>1
  <2> QED BY <1>5, <2>2, <2>3
<1>10. /\ \A r : MayWrite([status |-> "validating", run |-> r])
       /\ MayWrite([status |-> "validating", failed |-> FALSE])
       /\ \A k : MayWrite([status |-> "validating", retries |-> k])
       /\ \A r, k : MayWrite([status |-> "validating", run |-> r, retries |-> k])
  BY DEF MayWrite
<1>11. CASE ChecksWait
  <2>1. \/ Skip \/ Decide(To("validating"))
        \/ Decide([status |-> "validating", run |-> Candidate])
    BY <1>11 DEF ChecksWait
  <2> QED BY <1>3, <1>4, <1>6, <1>10, <2>1, EndIsFree DEF Skip
<1>12. CASE ChecksPass
  <2>1. \/ Skip \/ Decide(To("validating"))
        \/ Decide([status |-> "validating", failed |-> FALSE])
        \/ DecideThen(Evict("feature_changed"), todo.down, todo.tail, TRUE)
        \/ OnHead /\ Decide(To("merging"))
        \/ /\ ~Unrepaired /\ (snap.kind = "integration_repair" => snap.sha \in vouched)
           /\ Decide([status |-> "merging", failed |-> FALSE])
    BY <1>12 DEF ChecksPass, Checking, Accept
  <2>2. ASSUME OnHead PROVE MayWrite(To("merging"))
    BY <1>1, <2>2 DEF OnHead, RowTrue, MayWrite, To, IsAncestor
  <2>3. ASSUME ~Unrepaired, snap.kind = "integration_repair" => snap.sha \in vouched
        PROVE  MayWrite([status |-> "merging", failed |-> FALSE])
    BY <2>3 DEF Unrepaired, Candidate, MayWrite
  <2> QED BY <1>3, <1>4, <1>6, <1>10, <2>1, <2>2, <2>3, EndIsFree DEF Skip
<1>13. CASE ChecksFail
  BY <1>3, <1>9, <1>13 DEF ChecksFail
<1>14. CASE Rerun \/ RerunUnavailable
  <2>1. \/ Hold
        \/ Decide([status |-> "validating", retries |-> snap.retries + 1])
        \/ Decide([status |-> "validating", run |-> Candidate, retries |-> snap.retries + 1])
    BY <1>14 DEF Rerun, RerunUnavailable
  <2> QED BY <1>3, <1>4, <1>9, <1>10, <2>1
<1> QED BY <1>8, <1>11, <1>12, <1>13, <1>14

\* mergeHead
LEMMA MergeTrue ==
  ASSUME TypeOK, LandInv, Lasting,
         \/ Revalidate \/ Land \/ Gate \/ RevalidationFails
         \/ Push \/ PushOverrun \/ PushRejected
  PROVE  StoreTrue(entries', main, gh, vouched) /\ SnapOK'
<1>1. pc \in {"merge", "land", "gate", "push"} /\ pc \in Unwritten /\ pc \in Busy
      /\ SnapOK /\ RowTrue(snap, vouched)
  BY DEF Revalidate, Land, Gate, RevalidationFails, Push, PushOverrun, PushRejected,
         Unwritten, Busy, LandInv, SnapOK
<1>2. UNCHANGED entries
  BY DEF Revalidate, Land, Gate, RevalidationFails, Push, PushOverrun, PushRejected, Quiet
<1>3. StoreTrue(entries', main, gh, vouched)
  BY <1>2, ReadOnly
<1>4. ASSUME NEW patch, MayWrite(patch),
             \/ Decide(patch) \/ DecideAndClean(patch)
             \/ \E clean : DecideAtZero(patch, clean)
             \/ \E down, tail, clean : DecideThen(patch, down, tail, clean)
      PROVE  SnapOK'
  BY <1>1, <1>2, <1>4, DecideSnap
<1>5. /\ MayWrite(Reprepare) /\ MayWrite(To("validating")) /\ MayWrite(Supersede)
      /\ \A w : MayWrite(Evict(w))
      /\ \A b : MayWrite(Rebase(b))
      /\ MayWrite(Spread(To("dequeued"), CleanRef))
      /\ \A k : MayWrite(Spread(Reprepare, [attempts |-> k]))
  <2>1. \A p : Harmless(p) /\ p.status # "merged" => MayWrite(p)
    BY HarmlessMayBeWritten
  <2>2. Harmless(To("validating")) /\ To("validating").status = "validating"
    BY HarmlessPatches DEF Statuses
  <2>3. \A k : /\ Harmless(Spread(Reprepare, [attempts |-> k]))
               /\ Spread(Reprepare, [attempts |-> k]).status = "preparing_head"
    BY RetryHarmless, Zenon
  <2>4. /\ Harmless(Spread(To("dequeued"), CleanRef))
        /\ Spread(To("dequeued"), CleanRef).status = "dequeued"
    BY DequeueHarmless
  <2> QED BY <2>1, <2>2, <2>3, <2>4, HarmlessPatches
\* A row that merges lacks nothing of what was admitted.
<1>6. /\ snap.ref /\ snap.sha # Null => IsAncestor(snap.head, snap.sha)
      /\ snap.ref /\ snap.kind = "integration_repair" => snap.sha \in vouched
  BY <1>1 DEF SnapOK, RowTrue
<1>7. MayWrite(To("merging")) /\ \A k : MayWrite([status |-> "merging", attempts |-> k])
  BY <1>6 DEF MayWrite, To
<1>8. CASE Revalidate
  <2>1. CASE HasCandidate /\ Goto("land") /\ pc = "merge"
    <3>1. IsAncestor(snap.head, snap.sha) /\ snap.status = "merging"
      BY <1>1, <1>6, <2>1 DEF HasCandidate, RowTrue, IsAncestor, SnapOK
    <3> QED BY <1>1, <1>2, <1>3, <2>1, <3>1, GoneSnap DEF Goto, Unwritten, Busy
  <2>2. ASSUME gh[snap.branch].state = "merged" PROVE MayWrite(Merge)
    BY <2>2, HarmlessPatches, HarmlessMayBeWritten DEF SettledIn
  <2>3. CASE ~(HasCandidate /\ Goto("land") /\ pc = "merge")
    <3>1. \/ gh[snap.branch].state = "merged" /\ DecideAndClean(Merge)
          \/ DecideAtZero(Spread(To("dequeued"), CleanRef), TRUE)
          \/ Decide(To("merging"))
          \/ DecideThen(Supersede, Dependents, "next", TRUE)
          \/ DecideAtZero(Rebase(gh[snap.branch].base), TRUE)
          \/ Decide(Reprepare)
      BY <1>8, <2>3 DEF Revalidate, SupersedeThen
    <3> QED BY <1>3, <1>4, <1>5, <1>7, <2>2, <3>1
  <2> QED BY <2>1, <2>3
<1>9. CASE Land \/ Gate
  <2>1. \/ Decide(To("validating")) \/ DecideAtZero(Reprepare, FALSE)
        \/ DecideThen(Evict("policy_blocked"), Dependents, "next", TRUE)
        \/ pc \in {"land", "gate"} /\ (Goto("gate") \/ Goto("push"))
    BY <1>9 DEF Land, Gate
  <2>2. CASE pc \in {"land", "gate"} /\ (Goto("gate") \/ Goto("push"))
    <3>1. IsAncestor(snap.head, snap.sha) /\ HasCandidate /\ snap.status = "merging"
      BY <1>1, <2>2 DEF SnapOK
    <3> QED BY <1>1, <1>2, <1>3, <2>2, <3>1, GoneSnap DEF Goto, Unwritten, Busy
  <2> QED BY <1>3, <1>4, <1>5, <2>1, <2>2
<1>10. CASE RevalidationFails
  BY <1>3, <1>4, <1>5, <1>10 DEF RevalidationFails
\* What is pushed has the admitted head, and so has main from then on.
<1>11. CASE Push
  <2>1. pc = "push" /\ main' = snap.sha /\ snap' = snap /\ pc' = "apply" /\ todo'.patch = Merge
    BY <1>11 DEF Push, DecideThen
  <2>2. SettledIn(snap', main', gh')
    BY <1>1, <2>1 DEF SnapOK, SettledIn
  <2>3. MayWrite(todo.patch)'
    BY <2>1, <2>2, HarmlessPatches DEF MayWrite, Harmless
  <2>5. RowTrue(snap', vouched')
    BY <1>1, <2>1 DEF RowTrue, Lasting
  <2>4. SnapOK'
    BY <1>1, <1>2, <2>1, <2>3, <2>5 DEF SnapOK, Unwritten, Busy
  <2> QED BY <1>3, <2>4
<1>12. CASE PushOverrun
  BY <1>3, <1>4, <1>5, <1>12 DEF PushOverrun
<1>13. CASE PushRejected
  <2>1. \/ \E k : Decide([status |-> "merging", attempts |-> k])
        \/ DecideAtZero(Reprepare, FALSE)
    BY <1>13 DEF PushRejected
  <2> QED BY <1>3, <1>4, <1>5, <1>7, <2>1
<1> QED BY <1>8, <1>9, <1>10, <1>11, <1>12, <1>13

\* The row is written; what the tick remembers of it is its identity.
LEMMA RewrittenSnap ==
  ASSUME SnapOK, Lasting, pc \in Busy, snap' = snap, pc' \in {"cascade", "retire"},
         entries'[snap.id].head = entries[snap.id].head,
         entries'[snap.id].branch = entries[snap.id].branch
  PROVE  SnapOK'
<1>1. RowTrue(snap', vouched')
  BY DEF SnapOK, RowTrue, Lasting
<1> QED BY <1>1 DEF SnapOK, Unwritten, Busy

LEMMA ResumedSnap ==
  ASSUME TypeOK, TypeOK', SnapOK, Lasting, StoreTrue(entries', main, gh, vouched),
         pc \in {"apply", "cascade"}, Ids' = Ids,
         entries'[snap.id].head = entries[snap.id].head,
         entries'[snap.id].branch = entries[snap.id].branch,
         Resume(todo.tail)
  PROVE  SnapOK'
<1>1. pc \in Busy /\ snap.id \in Ids /\ todo.tail \in {"next", "halt", "retire", "checks"}
  BY SnapRow DEF Busy, TypeOK, TickOK
<1>2. CASE todo.tail \in {"halt", "next"}
  BY <1>2, EndIsFree DEF Resume
<1>3. CASE todo.tail = "retire"
  <2>1. Goto("retire")
    BY <1>3 DEF Resume
  <2> QED BY <1>1, <2>1, RewrittenSnap DEF Goto
<1>4. CASE todo.tail = "checks"
  <2>1. pc' = "checks" /\ snap' = entries'[snap.id]
    BY <1>4 DEF Resume
  <2>2. snap'.id = snap.id /\ RowTrue(snap', vouched')
    BY <1>1, <2>1 DEF TypeOK, StoreOK, IsStore, StoreTrue, RowTrue, Lasting, Ids
  <2> QED BY <2>1, <2>2 DEF SnapOK, Unwritten, Busy
<1> QED BY <1>1, <1>2, <1>3, <1>4

LEMMA WriteTrue ==
  ASSUME TypeOK, TypeOK', LandInv, Lasting, Retire \/ Apply \/ ApplyThrows \/ Cascade \/ TickFails
  PROVE  StoreTrue(entries', main, gh, vouched) /\ SnapOK'
<1>1. pc \in Busy /\ SnapOK /\ snap.id \in Ids
  BY SnapRow DEF Retire, Apply, ApplyThrows, Cascade, TickFails, Busy, LandInv
<1>2. CASE Retire \/ ApplyThrows \/ TickFails
  BY <1>2, ReadOnly, EndIsFree DEF Retire, ApplyThrows, TickFails
<1>3. CASE Apply
  <2> DEFINE es == Transition(entries, snap.id, todo.patch)
  <2>1. pc = "apply" /\ entries' = es /\ (Resume(todo.tail) \/ Goto("cascade"))
    BY <1>3 DEF Apply
  <2>2. pc \in Unwritten /\ IsPatch(Objects, Ids, todo.patch) /\ MayWrite(todo.patch)
    BY <1>1, <2>1 DEF Unwritten, Busy, SnapOK, TypeOK, TickOK
  <2>3. StoreTrue(es, main, gh, vouched)
        /\ \A n \in Ids : es[n].head = entries[n].head /\ es[n].branch = entries[n].branch
    BY <2>2, OwnWrite
  <2>4. DOMAIN es = Ids
    BY <1>1, <2>2, TransitionStore DEF TypeOK, StoreOK, Ids
  <2> HIDE DEF es
  <2>5. /\ Ids' = Ids /\ StoreTrue(entries', main, gh, vouched)
        /\ entries'[snap.id].head = entries[snap.id].head
        /\ entries'[snap.id].branch = entries[snap.id].branch
    BY <1>1, <2>1, <2>3, <2>4 DEF Ids
  <2>6. CASE Resume(todo.tail)
    BY <1>1, <2>1, <2>5, <2>6, ResumedSnap
  <2>7. CASE Goto("cascade")
    BY <1>1, <2>5, <2>7, RewrittenSnap DEF Goto
  <2> QED BY <2>1, <2>5, <2>6, <2>7
<1>4. CASE Cascade
  <2> DEFINE es == Invalidate(entries, todo.down)
  <2>1. /\ pc = "cascade"
        /\ \/ entries' = es /\ Resume(todo.tail)
           \/ UNCHANGED entries /\ Halt
    BY <1>4 DEF Cascade
  <2>2. IsStore(Objects, entries) /\ StoreTrue(entries, main, gh, vouched) /\ DOMAIN entries = Ids
    BY DEF TypeOK, StoreOK, LandInv, Ids
  <2>3. StoreTrue(es, main, gh, vouched) /\ \A n \in Ids : Follows(entries[n], es[n])
    BY <2>2, InvalidateTrue
  <2>4. DOMAIN es = Ids
    BY <2>2, InvalidateStore
  <2> HIDE DEF es
  <2>5. CASE entries' = es /\ Resume(todo.tail)
    <3>1. /\ Ids' = Ids
          /\ entries'[snap.id].head = entries[snap.id].head
          /\ entries'[snap.id].branch = entries[snap.id].branch
      BY <1>1, <2>3, <2>4, <2>5 DEF Ids, Follows
    <3> QED BY <1>1, <2>1, <2>3, <2>5, <3>1, ResumedSnap
  <2>6. CASE UNCHANGED entries /\ Halt
    BY <2>6, ReadOnly, EndIsFree
  <2> QED BY <2>1, <2>5, <2>6
<1> QED BY <1>2, <1>3, <1>4

-----------------------------------------------------------------------------
\* What lands

LEMMA InitLandInv ==
  ASSUME Init
  PROVE  LandInv
<1>1. DOMAIN entries = {}
  BY DEF Init
<1> QED BY <1>1 DEF Init, LandInv, StoreTrue, HooksOK, SnapOK, Unwritten, Busy

LEMMA StepLandInv ==
  ASSUME TypeOK, LandInv, [Next]_vars
  PROVE  LandInv'
<1>1. TypeOK' /\ Lasting
  BY StepTypes, StepLasts
<1>2. HooksOK'
  BY StepHooks DEF LandInv
<1> SUFFICES StoreTrue(entries', main, gh, vouched) /\ SnapOK'
  <2>1. ASSUME StoreTrue(entries', main, gh, vouched) PROVE StoreTrue(entries', main', gh', vouched')
    BY <1>1, <2>1, TrueLater
  <2> QED BY <1>2, <2>1 DEF LandInv
<1>3. CASE Tick
  BY <1>1, <1>3, WalkTrue, PrepareTrue, CheckTrue, MergeTrue, WriteTrue DEF Tick
<1>4. CASE Commands
  BY <1>1, <1>4, CommandsTrue
<1>5. CASE World
  BY <1>1, <1>5, SameStore, WorldIsStill, TickIsAlone
<1>6. CASE Crash
  BY <1>6, ReadOnly, FreeSnap DEF Crash
<1>7. CASE UNCHANGED vars
  BY <1>1, <1>7, SameStore DEF vars
<1> QED BY <1>3, <1>4, <1>5, <1>6, <1>7 DEF Next

LEMMA LandInvHolds == Spec => []LandInv
<1>1. TypeOK /\ LandInv /\ [Next]_vars => LandInv'
  BY StepLandInv
<1>2. Init => LandInv
  BY InitLandInv
<1> QED BY <1>1, <1>2, TypeSafety, PTL DEF Spec

\* What lands contains the head that was admitted, although a candidate may have
\* been published for repair before it had that head, and although commands and
\* webhooks rewrite rows between the reads of the tick and its writes.
THEOREM AdmittedHeadLands == Spec => LandsAdmitted
<1>1. TypeOK /\ LandInv /\ [Next]_vars => [Landing => IsAncestor(snap.head, main')]_vars
  <2> SUFFICES ASSUME TypeOK, LandInv, [Next]_vars, Landing
               PROVE  IsAncestor(snap.head, main')
    OBVIOUS
  <2>1. Push
    BY LandingIsPush
  <2> QED BY <2>1 DEF Push, LandInv, SnapOK
<1> QED BY <1>1, LandInvHolds, TypeSafety, PTL DEF Spec, LandsAdmitted

\* What PatchRelay repaired lands only after Review Quill vouched for that commit:
\* the row says merging by a verdict of an earlier tick, and is the row of another
\* candidate if anything has reset it or the candidate was repaired again since.
THEOREM RepairedLandsVouched ==
  Spec => [][Landing /\ snap.kind = "integration_repair" => main' \in vouched]_vars
<1>1. TypeOK /\ LandInv /\ [Next]_vars =>
        [Landing /\ snap.kind = "integration_repair" => main' \in vouched]_vars
  <2> SUFFICES ASSUME TypeOK, LandInv, [Next]_vars, Landing, snap.kind = "integration_repair"
               PROVE  main' \in vouched
    OBVIOUS
  <2>1. Push
    BY LandingIsPush
  <2> QED BY <2>1 DEF Push, LandInv, SnapOK, RowTrue, HasCandidate, Busy
<1> QED BY <1>1, LandInvHolds, TypeSafety, PTL DEF Spec

\* A row that says merged tells the truth for ever: main has the head it
\* admitted, or GitHub shows its pull request merged, whichever of the tick, a
\* webhook delivered late and a crash between the push and the write came first.
THEOREM MergedRowsAreLanded == Spec => []MergedIsLanded
<1>1. LandInv => MergedIsLanded
  BY DEF LandInv, StoreTrue, SettledIn, MergedIsLanded
<1> QED BY <1>1, LandInvHolds, PTL

-----------------------------------------------------------------------------
\* A stack lands in its order.  The tick takes the schedule from the listing it
\* reads at its start, and lands the first ready row many awaits later: the row of
\* the parent, which says merged, has to say so still.

\* What the store lists.
LEMMA StoreTable ==
  ASSUME NEW O, NEW es, IsStore(O, es), Unique(es)
  PROVE  IsTable(Range(es), es)
<1>1. es \in Seq(Range(es))
  BY DEF IsStore
<1>2. ASSUME NEW k \in DOMAIN es PROVE es[k].id = k /\ es[k].prio \in Int
  <2>1. IsRow(O, DOMAIN es, es[k]) /\ es[k].id = k
    BY DEF IsStore
  <2>2. es[k]["prio"] \in Type(O, DOMAIN es)["prio"]
    BY <2>1 DEF IsRow, Columns
  <2>3. Type(O, DOMAIN es)["prio"] = Nat
    BY DEF Type
  <2> QED BY <2>1, <2>2, <2>3
<1>3. \A j, k \in DOMAIN es :
        Active(es[j]) /\ Active(es[k]) /\ es[j].branch = es[k].branch => j = k
  BY DEF Unique
<1> QED BY <1>1, <1>2, <1>3 DEF IsTable

LEMMA ActiveListing ==
  ASSUME NEW O, NEW es, IsStore(O, es), Unique(es)
  PROVE  LET l == ListActive(es) IN
         /\ l \in Seq(Range(es)) /\ Keyed(l) /\ Branched(l)
         /\ \A k \in 1..Len(l) : l[k].id \in DOMAIN es /\ es[l[k].id] = l[k] /\ Active(l[k])
<1> DEFINE l == ListActive(es)
<1>1. IsListing(Range(es), es, l)
  BY StoreTable, ListedIs DEF ListActive
<1>2. /\ l \in Seq(Range(es)) /\ Keyed(l) /\ Branched(l)
      /\ Range(l) = {e \in Range(es) : Active(e)}
  BY <1>1, Zenon DEF IsListing
<1> HIDE DEF l
<1>3. ASSUME NEW k \in 1..Len(l)
      PROVE  l[k].id \in DOMAIN es /\ es[l[k].id] = l[k] /\ Active(l[k])
  <2>1. l[k] \in Range(l)
    BY <1>2, RangeIs
  <2>2. l[k] \in Range(es) /\ Active(l[k])
    BY <1>2, <2>1
  <2>3. PICK n \in DOMAIN es : l[k] = es[n]
    BY <2>2 DEF Range
  <2>4. es[n].id = n
    BY DEF IsStore
  <2> QED BY <2>2, <2>3, <2>4
<1> QED BY <1>2, <1>3 DEF l

LEMMA DownIsActive ==
  ASSUME NEW O, NEW es, IsStore(O, es), Unique(es), NEW x,
         NEW n \in SelectDownstream(ListActive(es), x)
  PROVE  n \in DOMAIN es /\ Active(es[n])
<1> DEFINE l == ListActive(es)
<1>1. /\ l \in Seq(Range(es))
      /\ \A k \in 1..Len(l) : l[k].id \in DOMAIN es /\ es[l[k].id] = l[k] /\ Active(l[k])
  BY ActiveListing
<1> HIDE DEF l
<1>2. PICK k \in 1..Len(l) : n = l[k].id /\ Active(l[k])
  BY <1>1, DownstreamIsActive DEF l
<1> QED BY <1>1, <1>2

LEMMA BelowIsActive ==
  ASSUME TypeOK, Unique(entries), NEW k, NEW n \in Below(ListActive(entries), k)
  PROVE  n \in Ids /\ Active(entries[n])
<1>1. IsStore(Objects, entries)
  BY DEF TypeOK, StoreOK
<1>2. \E x : n \in SelectDownstream(ListActive(entries), x)
  BY DEF Below
<1> QED BY <1>1, <1>2, DownIsActive DEF Ids

-----------------------------------------------------------------------------
\* Commands and webhooks retire rows and rewrite active ones.

Keeps(es, fs) ==
  /\ DOMAIN es \subseteq DOMAIN fs
  /\ \A n \in DOMAIN es : /\ fs[n].branch = es[n].branch /\ fs[n].base = es[n].base
                          /\ ~Active(es[n]) => fs[n].status = es[n].status

LEMMA PatchedRow ==
  ASSUME NEW O, NEW N, NEW e, IsRow(O, N, e), NEW p, IsPatch(O, N, p),
         "status" \in DOMAIN p
  PROVE  LET f == Spread(e, p) IN
         /\ f.branch = e.branch /\ f.status = p.status
         /\ "base" \notin DOMAIN p => f.base = e.base
<1>1. DOMAIN e = Columns /\ DOMAIN p \subseteq Columns \ Fixed
  BY DEF IsRow, IsPatch
<1> QED BY <1>1 DEF Spread, Columns, Fixed

\* A row that is invalidated is active, and stays so.
LEMMA InvalidateKeeps ==
  ASSUME NEW O, NEW es, IsStore(O, es), Unique(es), NEW ids,
         \A n \in ids : n \in DOMAIN es /\ Active(es[n])
  PROVE  LET fs == Invalidate(es, ids) IN Unique(fs) /\ Keeps(es, fs)
<1> DEFINE fs == Invalidate(es, ids)
<1>1. DOMAIN fs = DOMAIN es
      /\ \A k \in DOMAIN es : fs[k] = IF k \in ids THEN Spread(es[k], Invalidation) ELSE es[k]
  BY DEF Invalidate
<1> HIDE DEF fs
<1>2. /\ IsPatch(O, DOMAIN es, Invalidation) /\ Invalidation.status = "preparing_head"
      /\ "status" \in DOMAIN Invalidation
  BY CompoundPatches, HarmlessPatches DEF Harmless
<1>3. "base" \notin DOMAIN Invalidation
  BY DEF Invalidation, Reprepare, Spread, To, CleanCI, ClearCandidate
<1>4. ASSUME NEW k \in DOMAIN es
      PROVE  /\ fs[k].branch = es[k].branch /\ fs[k].base = es[k].base
             /\ ~Active(es[k]) => fs[k].status = es[k].status
             /\ Active(fs[k]) => Active(es[k])
  <2>1. CASE k \in ids
    <3>1. IsRow(O, DOMAIN es, es[k]) /\ Active(es[k])
      BY <2>1 DEF IsStore
    <3>2. fs[k] = Spread(es[k], Invalidation)
      BY <1>1, <2>1
    <3> QED BY <1>2, <1>3, <3>1, <3>2, PatchedRow
  <2>2. CASE k \notin ids
    BY <1>1, <2>2
  <2> QED BY <2>1, <2>2
<1>5. Unique(fs)
  BY <1>1, <1>4 DEF Unique
<1> QED BY <1>1, <1>4, <1>5 DEF Keeps, fs

LEMMA RetiredKeeps ==
  ASSUME TypeOK, Unique(entries), NEW n \in Ids, Active(entries[n]), NEW patch, NEW own,
         IsPatch(Objects, Ids, patch), "status" \in DOMAIN patch, "base" \notin DOMAIN patch,
         patch.status \in Terminal, Retired(n, patch, own)
  PROVE  Unique(entries') /\ Keeps(entries, entries')
<1> DEFINE es == Transition(entries, n, patch)
<1>1. PICK down : down = SelectDownstream(ListActive(es), n) /\ entries' = Invalidate(es, down)
  BY DEF Retired
<1>2. IsStore(Objects, entries) /\ DOMAIN entries = Ids
  BY DEF TypeOK, StoreOK, Ids
<1>3. IsStore(Objects, es) /\ DOMAIN es = Ids
  BY <1>2, TransitionStore
<1>4. es[n] = Spread(entries[n], patch) /\ \A k \in Ids \ {n} : es[k] = entries[k]
  BY <1>2 DEF Transition, Written
<1> HIDE DEF es
<1>5. /\ es[n].branch = entries[n].branch /\ es[n].base = entries[n].base
      /\ ~Active(es[n])
  <2>1. IsRow(Objects, Ids, entries[n])
    BY <1>2 DEF IsStore
  <2> QED BY <1>4, <2>1, PatchedRow DEF Active
<1>6. Keeps(entries, es)
  BY <1>2, <1>3, <1>4, <1>5 DEF Keeps
<1>7. Unique(es)
  BY <1>2, <1>3, <1>4, <1>5 DEF Unique
<1>8. \A k \in down : k \in DOMAIN es /\ Active(es[k])
  BY <1>1, <1>3, <1>7, DownIsActive
<1>9. Unique(entries') /\ Keeps(es, entries')
  BY <1>1, <1>3, <1>7, <1>8, InvalidateKeeps
<1>10. Keeps(entries, entries')
  BY <1>2, <1>3, <1>6, <1>9 DEF Keeps, Active
<1> QED BY <1>9, <1>10

LEMMA QueuedKeeps ==
  ASSUME TypeOK, Unique(entries), NEW p, ActiveRows(p) = {}, NEW head, NEW base, NEW prio,
         entries' = Append(entries, NewEntry(Len(entries) + 1, p, head, base, prio))
  PROVE  Unique(entries') /\ Keeps(entries, entries')
<1> DEFINE e == NewEntry(Len(entries) + 1, p, head, base, prio)
           S == Range(entries) \cup {e}
<1>1. e.branch = p
  BY DEF NewEntry
<1>2. entries \in Seq(S) /\ e \in S
  BY SeqMonotonic DEF TypeOK, StoreOK, IsStore
<1>3. entries' = Append(entries, e)
  OBVIOUS
<1> HIDE DEF e, S
<1>4. /\ Len(entries) \in Nat /\ DOMAIN entries = 1..Len(entries)
      /\ DOMAIN entries' = 1..(Len(entries) + 1) /\ entries'[Len(entries) + 1] = e
      /\ \A n \in 1..Len(entries) : entries'[n] = entries[n]
  BY <1>2, <1>3, LenProperties, AppendProperties
<1>5. \A n \in DOMAIN entries : Active(entries[n]) => entries[n].branch # p
  BY DEF ActiveRows
<1>6. \A n \in DOMAIN entries' : n \in DOMAIN entries \/ n = Len(entries) + 1
  BY <1>4
<1>7. \A n \in DOMAIN entries : entries'[n] = entries[n]
  BY <1>4
<1>8. Unique(entries')
  BY <1>1, <1>4, <1>5, <1>6, <1>7 DEF Unique
<1>9. DOMAIN entries \subseteq DOMAIN entries'
  BY <1>4
<1> QED BY <1>7, <1>8, <1>9 DEF Keeps

LEMMA CommandsKeep ==
  ASSUME TypeOK, Unique(entries), Commands
  PROVE  Unique(entries') /\ Keeps(entries, entries')
<1>1. CASE UNCHANGED entries
  BY <1>1 DEF Keeps
<1>2. /\ IsPatch(Objects, Ids, Supersede) /\ IsPatch(Objects, Ids, To("dequeued"))
      /\ IsPatch(Objects, Ids, To("merged"))
      /\ Supersede.status = "superseded"
      /\ "status" \in DOMAIN Supersede
  BY NamedPatches, CompoundPatches, HarmlessPatches DEF Statuses, Terminal, Harmless
<1>3. "base" \notin DOMAIN Supersede
  BY DEF Supersede, Spread, To, CleanCI, ClearCandidate
<1>4. \A s : "base" \notin DOMAIN To(s) /\ "status" \in DOMAIN To(s) /\ To(s).status = s
  BY DEF To
<1>5. ASSUME NEW n \in Ids, Active(entries[n]),
             \/ Retired(n, To("dequeued"), {})
             \/ Retired(n, Supersede, RefsOf({n}))
             \/ Retired(n, To("merged"), {})
      PROVE  Unique(entries') /\ Keeps(entries, entries')
  <2>1. CASE Retired(n, Supersede, RefsOf({n}))
    BY <1>2, <1>3, <1>5, <2>1, RetiredKeeps DEF Terminal
  <2>2. CASE Retired(n, To("dequeued"), {})
    BY <1>2, <1>4, <1>5, <2>2, RetiredKeeps DEF Terminal
  <2>3. CASE Retired(n, To("merged"), {})
    BY <1>2, <1>4, <1>5, <2>3, RetiredKeeps DEF Terminal
  <2> QED BY <1>5, <2>1, <2>2, <2>3
<1>6. ASSUME NEW p \in PR, OperatorDequeue(p)
      PROVE  Unique(entries') /\ Keeps(entries, entries')
  BY <1>5, <1>6 DEF OperatorDequeue, ActiveRows, Ids
<1>7. ASSUME NEW p \in PR, NEW prio \in {0, 1}, OperatorEnqueue(p, prio)
      PROVE  Unique(entries') /\ Keeps(entries, entries')
  BY <1>7, QueuedKeeps DEF OperatorEnqueue
<1>8. CASE AdmitFinish
  <2>1. \/ entries' = entries
        \/ /\ ActiveRows(admitting.pr) = {}
           /\ entries' = Append(entries, NewEntry(Len(entries) + 1, admitting.pr,
                                                  admitting.head, admitting.base, 0))
    BY <1>8 DEF AdmitFinish
  <2> QED BY <1>1, <2>1, QueuedKeeps
<1>9. CASE Deliver
  <2>1. PICK hook \in hooks : Handle(hook)
    BY <1>9 DEF Deliver
  <2>2. hook.type \in {"synchronize", "closed", "merged"}
    BY DEF TypeOK, WorldOK
  <2>3. CASE ~UNCHANGED <<entries, deleting>>
    <3>1. PICK n \in Ids :
            /\ Active(entries[n])
            /\ \/ Retired(n, Supersede, RefsOf({n}))
               \/ Retired(n, To("dequeued"), {})
               \/ Retired(n, To("merged"), {})
      BY <2>1, <2>2, <2>3 DEF Handle, ActiveRows, Ids
    <3> QED BY <1>5, <3>1
  <2> QED BY <1>1, <2>3
<1>10. ASSUME NEW p \in PR, AdmitStart(p) \/ FinishDelete(p)
       PROVE  UNCHANGED entries
  BY <1>10 DEF AdmitStart, FinishDelete
<1> QED BY <1>1, <1>6, <1>7, <1>8, <1>9, <1>10 DEF Commands

-----------------------------------------------------------------------------
\* What a step of the tick writes, decides, and where it goes.

LEMMA TickWrites ==
  ASSUME Tick
  PROVE  \/ UNCHANGED entries
         \/ /\ Unique(entries')
            /\ \/ pc = "prepare"
               \/ pc \in Busy /\ \E p : entries' = Transition(entries, snap.id, p)
               \/ pc = "cascade" /\ entries' = Invalidate(entries, todo.down)
<1>1. CASE TickStart \/ Pick \/ Sanitize \/ SanitizeFails \/ DropStale
           \/ StartPrepare \/ StartValidation \/ StartMerge
  BY <1>1 DEF TickStart, Pick, Sanitize, SanitizeFails, DropStale, StartPrepare,
              StartValidation, StartMerge, Quiet, Skip
<1>2. CASE WaitForParent \/ Promote
  <2>1. pc \in Busy
    BY <1>2 DEF WaitForParent, Promote, Dispatched, Sane, Busy
  <2> QED BY <1>2, <2>1 DEF WaitForParent, Promote, WriteNow, Skip
<1>3. CASE \/ PrepareWaits \/ PrepareMoved \/ PrepareBlocked \/ PrepareContained
           \/ PrepareHeadCandidate \/ PrepareConflict \/ PrepareIntegration
  BY <1>3 DEF PrepareWaits, PrepareMoved, PrepareBlocked, PrepareContained,
              PrepareHeadCandidate, PrepareConflict, PrepareIntegration, Quiet,
              WriteNow, Skip
<1>4. CASE PrepareFails
  BY <1>4 DEF PrepareFails, Building, PrepareAllowed, Preparing
<1>5. CASE \/ RefreshWorkspace \/ ChecksWait \/ ChecksPass \/ ChecksFail \/ Rerun
           \/ RerunUnavailable
  BY <1>5 DEF RefreshWorkspace, ChecksWait, ChecksPass, ChecksFail, Rerun, RerunUnavailable,
              Quiet
<1>6. CASE Revalidate \/ Land \/ Gate \/ RevalidationFails \/ Push \/ PushOverrun \/ PushRejected
  BY <1>6 DEF Revalidate, Land, Gate, RevalidationFails, Push, PushOverrun, PushRejected, Quiet
<1>7. CASE Retire \/ ApplyThrows \/ TickFails
  BY <1>7 DEF Retire, ApplyThrows, TickFails
<1>8. CASE Apply
  BY <1>8 DEF Apply, Busy
<1>9. CASE Cascade
  BY <1>9 DEF Cascade
<1> QED BY <1>1, <1>2, <1>3, <1>4, <1>5, <1>6, <1>7, <1>8, <1>9 DEF Tick

\* The steps in which the tick has only its work list, or an entry's ids to reset.
Resetting == {"refresh", "checks", "apply", "cascade"}

\* The ids it resets were active when it decided on them.
LEMMA DecidedDown ==
  ASSUME TypeOK, Unique(entries), NEW patch, NEW down, NEW tail, NEW clean,
         DecideThen(patch, down, tail, clean),
         down = {} \/ (\E k : down = Below(ListActive(entries), k)),
         NEW n \in todo'.down
  PROVE  n \in Ids /\ Active(entries[n])
<1>1. todo'.down = down
  BY DEF DecideThen
<1> QED BY <1>1, BelowIsActive

LEMMA TickDown ==
  ASSUME TypeOK, Unique(entries), Tick, pc' \in Resetting, NEW n \in todo'.down
  PROVE  (pc \in Resetting /\ n \in todo.down) \/ (n \in Ids /\ Active(entries[n]))
<1> USE DEF Resetting
<1>1. ASSUME \/ Halt \/ NextEntry \/ Advance \/ Skip \/ \E p : WriteNow(p)
      PROVE  FALSE
  BY <1>1 DEF Halt, NextEntry, Advance, Skip, WriteNow
<1>2. ASSUME \/ \E patch, clean : DecideAtZero(patch, clean)
             \/ \E patch : Decide(patch) \/ DecideAndClean(patch)
             \/ \E tail : SupersedeThen(tail)
             \/ \E patch, tail, clean : DecideThen(patch, {}, tail, clean)
             \/ \E patch, tail, clean : DecideThen(patch, Dependents, tail, clean)
      PROVE  n \in Ids /\ Active(entries[n])
  BY <1>2, DecidedDown
     DEF DecideAtZero, Decide, DecideAndClean, SupersedeThen, Dependents
<1>3. CASE \/ TickStart \/ Pick \/ Sanitize \/ SanitizeFails \/ WaitForParent \/ DropStale
           \/ Promote \/ StartPrepare \/ StartMerge
  BY <1>1, <1>2, <1>3
     DEF TickStart, Pick, Sanitize, SanitizeFails, WaitForParent, DropStale, Promote,
         StartPrepare, StartMerge, Goto
<1>4. CASE StartValidation
  <2>1. \E k : todo'.down = Below(ListActive(entries), k)
    BY <1>4 DEF StartValidation
  <2> QED BY <2>1, BelowIsActive
<1>5. CASE \/ PrepareWaits \/ PrepareMoved \/ PrepareBlocked \/ PrepareContained
           \/ PrepareHeadCandidate \/ PrepareConflict \/ PrepareIntegration
  BY <1>1, <1>2, <1>5
     DEF PrepareWaits, PrepareMoved, PrepareBlocked, PrepareContained, PrepareHeadCandidate,
         PrepareConflict, PrepareIntegration
<1>6. CASE PrepareFails
  BY <1>1, <1>2, <1>6 DEF PrepareFails
<1>7. ASSUME pc \in {"refresh", "checks"}, NEW patch, NEW tail,
             \/ DecideChecked(patch, todo.down, tail)
             \/ \E clean : DecideThen(patch, todo.down, tail, clean)
             \/ Goto("checks")
      PROVE  pc \in Resetting /\ n \in todo.down
  <2>1. "down" \in DOMAIN todo
    BY <1>7 DEF TypeOK, TickOK
  <2>2. CASE DecideChecked(patch, todo.down, tail)
    <3>1. todo' = [todo EXCEPT !.patch = patch, !.down = todo.down, !.tail = tail]
      BY <2>2 DEF DecideChecked
    <3>2. todo'.down = todo.down
      BY <2>1, <3>1
    <3> QED BY <1>7, <3>2
  <2>3. CASE \E clean : DecideThen(patch, todo.down, tail, clean)
    BY <1>7, <2>3 DEF DecideThen
  <2>4. CASE Goto("checks")
    BY <1>7, <2>4 DEF Goto
  <2> QED BY <1>7, <2>2, <2>3, <2>4
<1>8. CASE RefreshWorkspace
  BY <1>1, <1>7, <1>8 DEF RefreshWorkspace
<1>9. CASE ChecksWait \/ ChecksPass \/ ChecksFail \/ Rerun \/ RerunUnavailable
  <2>1. pc = "checks"
    BY <1>9 DEF ChecksWait, ChecksPass, ChecksFail, Rerun, RerunUnavailable, Checking
  <2> QED BY <1>1, <1>2, <1>7, <1>9, <2>1
          DEF ChecksWait, ChecksPass, ChecksFail, Rerun, RerunUnavailable, Accept, Hold
<1>10. CASE Revalidate \/ Land \/ Gate \/ RevalidationFails \/ Push \/ PushOverrun \/ PushRejected
  BY <1>2, <1>10
     DEF Revalidate, Land, Gate, RevalidationFails, Push, PushOverrun, PushRejected, Goto
<1>11. CASE Retire \/ ApplyThrows \/ TickFails
  BY <1>1, <1>11 DEF Retire, ApplyThrows, TickFails
<1>12. CASE Apply \/ Cascade
  <2>1. pc \in {"apply", "cascade"} /\ todo.tail \in {"next", "halt", "retire", "checks"}
    BY <1>12 DEF Apply, Cascade, TypeOK, TickOK
  <2>2. Halt \/ NextEntry \/ UNCHANGED todo
    BY <1>12, <2>1 DEF Apply, Cascade, Resume, Goto
  <2> QED BY <1>1, <2>1, <2>2
<1> QED BY <1>3, <1>4, <1>5, <1>6, <1>8, <1>9, <1>10, <1>11, <1>12 DEF Tick

\* The labels at which the row as read is what counts: before the dispatch, and on
\* the way to the push.
HeadReads == {"probe", "unseen", "merge", "land", "gate", "push"}

\* It goes on with the row as read.
Rereads ==
  /\ pc \in HeadReads /\ pc' \in HeadReads /\ UNCHANGED <<entries, work, nb, idx, snap>>
  /\ pc' \notin {"probe", "unseen"} => IsHead \/ pc \in {"merge", "land", "gate"}

\* Or the row no longer counts.
Settles ==
  /\ pc \in Busy /\ pc' \in Busy \ HeadReads /\ UNCHANGED <<work, nb, idx>>
  /\ snap'.id = snap.id
  /\ pc' = "prepare" => ~IsBlocked

Picks ==
  /\ pc = "pick" /\ pc' = "probe" /\ UNCHANGED <<entries, work, nb, idx>>
  /\ work[idx] \in Ids /\ snap' = entries[work[idx]]

LEMMA TickMoves ==
  ASSUME TypeOK, TypeOK', Tick
  PROVE  TickStart \/ Halt \/ Advance \/ Picks \/ Rereads \/ Settles
<1> DEFINE Moves == Halt \/ Advance \/ Picks \/ Rereads \/ Settles
<1>1. ASSUME \/ NextEntry \/ Skip \/ \E p : WriteNow(p)
      PROVE  Halt \/ Advance
  BY <1>1 DEF NextEntry, Skip, WriteNow
<1>2. ASSUME pc \in Busy,
             \/ \E patch, down, tail, clean : DecideThen(patch, down, tail, clean)
             \/ \E patch, clean : DecideAtZero(patch, clean)
             \/ \E patch : Decide(patch) \/ DecideAndClean(patch)
             \/ \E tail : SupersedeThen(tail)
             \/ \E patch, down, tail : DecideChecked(patch, down, tail)
      PROVE  Settles
  BY <1>2 DEF DecideThen, DecideAtZero, Decide, DecideAndClean, SupersedeThen, DecideChecked,
              Settles, Busy, HeadReads
<1>3. CASE Pick
  BY <1>3 DEF Pick, Picks, Row, Ids
<1>4. CASE \/ Sanitize \/ SanitizeFails \/ WaitForParent \/ DropStale
           \/ Promote \/ StartPrepare \/ StartValidation \/ StartMerge
  <2>1. pc \in {"probe", "unseen"} /\ pc \in Busy
    BY <1>4 DEF Sanitize, SanitizeFails, WaitForParent, DropStale, Promote, StartPrepare,
                StartValidation, StartMerge, Dispatched, Sane, Busy
  <2>2. CASE Sanitize \/ DropStale \/ WaitForParent \/ Promote
    BY <1>1, <1>2, <2>1, <2>2 DEF Sanitize, WaitForParent, DropStale, Promote
  <2>3. CASE SanitizeFails
    BY <2>1, <2>3 DEF SanitizeFails, Goto, Rereads, HeadReads
  <2>4. CASE StartPrepare \/ StartValidation
    BY <2>1, <2>4 DEF StartPrepare, StartValidation, Dispatched, Settles, Busy, HeadReads
  <2>5. CASE StartMerge
    BY <1>1, <2>1, <2>5 DEF StartMerge, Goto, Rereads, HeadReads
  <2> QED BY <1>4, <2>2, <2>3, <2>4, <2>5
<1>5. CASE \/ PrepareWaits \/ PrepareMoved \/ PrepareBlocked \/ PrepareContained
           \/ PrepareHeadCandidate \/ PrepareConflict \/ PrepareIntegration \/ PrepareFails
  <2>1. pc \in Busy
    BY <1>5 DEF PrepareWaits, PrepareMoved, PrepareBlocked, PrepareContained,
                PrepareHeadCandidate, PrepareConflict, PrepareIntegration, PrepareFails,
                Building, PrepareAllowed, Preparing, Busy
  <2> QED BY <1>1, <1>2, <1>5, <2>1
          DEF PrepareWaits, PrepareMoved, PrepareBlocked, PrepareContained,
              PrepareHeadCandidate, PrepareConflict, PrepareIntegration, PrepareFails
<1>6. CASE RefreshWorkspace
  <2>1. pc \in Busy
    BY <1>6 DEF RefreshWorkspace, Busy
  <2>2. CASE Goto("checks")
    BY <2>1, <2>2 DEF Goto, Settles, Busy, HeadReads
  <2> QED BY <1>1, <1>2, <1>6, <2>1, <2>2 DEF RefreshWorkspace
<1>7. CASE ChecksWait \/ ChecksPass \/ ChecksFail \/ Rerun \/ RerunUnavailable
  <2>1. pc \in Busy
    BY <1>7 DEF ChecksWait, ChecksPass, ChecksFail, Rerun, RerunUnavailable, Checking, Busy
  <2> QED BY <1>1, <1>2, <1>7, <2>1
          DEF ChecksWait, ChecksPass, ChecksFail, Rerun, RerunUnavailable, Accept, Hold
<1>8. CASE Revalidate \/ Land \/ Gate \/ RevalidationFails \/ Push \/ PushOverrun \/ PushRejected
  <2>1. pc \in {"merge", "land", "gate", "push"} /\ pc \in Busy
    BY <1>8 DEF Revalidate, Land, Gate, RevalidationFails, Push, PushOverrun, PushRejected, Busy
  <2>2. ASSUME \E label \in {"land", "gate", "push"} : Goto(label), pc \in {"merge", "land", "gate"},
               UNCHANGED entries
        PROVE  Rereads
    BY <2>2 DEF Goto, Rereads, HeadReads
  <2>3. CASE Revalidate \/ Land \/ Gate
    BY <1>2, <2>1, <2>2, <2>3 DEF Revalidate, Land, Gate, Quiet
  <2> QED BY <1>2, <1>8, <2>1, <2>3 DEF RevalidationFails, Push, PushOverrun, PushRejected
<1>9. CASE Retire \/ ApplyThrows \/ TickFails
  BY <1>1, <1>9 DEF Retire, ApplyThrows, TickFails
<1>10. CASE Apply \/ Cascade
  <2>1. /\ pc \in {"apply", "cascade"} /\ pc \in Busy
        /\ todo.tail \in {"next", "halt", "retire", "checks"}
    BY <1>10 DEF Apply, Cascade, TypeOK, TickOK, Busy
  <2>2. \/ Halt \/ NextEntry \/ Goto("retire") \/ Goto("cascade")
        \/ /\ pc' = "checks" /\ snap' = entries'[snap.id]
           /\ UNCHANGED <<work, nb, idx>>
    BY <1>10, <2>1 DEF Apply, Cascade, Resume
  <2>3. CASE Goto("retire") \/ Goto("cascade")
    BY <2>1, <2>3 DEF Goto, Settles, Busy, HeadReads
  <2>4. CASE /\ pc' = "checks" /\ snap' = entries'[snap.id]
             /\ UNCHANGED <<work, nb, idx>>
    <3>1. snap.id \in Ids
      BY <2>1, SnapRow
    <3>2. Ids' = Ids
      BY <1>10 DEF Apply, Cascade, Transition, Invalidate, Ids
    <3>3. snap'.id = snap.id
      BY <2>4, <3>1, <3>2 DEF TypeOK, StoreOK, IsStore, Ids
    <3> QED BY <2>1, <2>4, <3>3 DEF Settles, Busy, HeadReads
  <2> QED BY <1>1, <2>2, <2>3, <2>4
<1> QED BY <1>3, <1>4, <1>5, <1>6, <1>7, <1>8, <1>9, <1>10 DEF Tick

-----------------------------------------------------------------------------
\* The parent of the head has landed, as long as the head is on its way.

\* The row n says merged, and nothing the tick still does can make it say
\* otherwise: the tick neither visits it nor resets it.
Safe(n) ==
  /\ n \in Ids /\ entries[n].status = "merged"
  /\ \A k \in 1..Len(work) : work[k] # n
  /\ pc \in Resetting => n \notin todo.down

Parented(b) == b = Main \/ \E n \in Ids : entries[n].branch = b /\ Safe(n)

\* The tick has not read the head of the train yet.
Unread == (pc = "pick" /\ idx <= nb + 1) \/ (pc \in Busy /\ idx <= nb)

\* The blocked entries come first, then the head, which is none of them; only the
\* head gets to the merge.
WalkOK ==
  /\ pc \in Busy \cup {"pick"} =>
       /\ nb \in Nat /\ work \in Seq(Nat) /\ idx \in 1..Len(work)
       /\ nb < Len(work) => \A k \in 1..nb : work[k] # work[nb + 1]
  /\ pc \in Busy => snap.id = work[idx]
  /\ pc \in {"merge", "land", "gate", "push"} => IsHead
  /\ pc = "prepare" => ~IsBlocked

HeadInv ==
  /\ Unique(entries)
  /\ WalkOK
  /\ Unread /\ nb < Len(work) =>
       work[nb + 1] \in Ids /\ Parented(entries[work[nb + 1]].base)
  /\ pc \in HeadReads /\ IsHead => Parented(snap.base)

-----------------------------------------------------------------------------
\* The first ids of a schedule.

UpTo(ids) == SubSeq([k \in DOMAIN ids |-> ids[k].id], 1,
                    IF Len(ids) < Depth THEN Len(ids) ELSE Depth)

LEMMA UpToIs ==
  ASSUME NEW S, NEW ids \in Seq(S), \A k \in 1..Len(ids) : ids[k].id \in Nat
  PROVE  /\ UpTo(ids) \in Seq(Nat) /\ Len(UpTo(ids)) <= Len(ids)
         /\ Len(ids) # 0 => Len(UpTo(ids)) # 0
         /\ \A k \in 1..Len(UpTo(ids)) : k \in 1..Len(ids) /\ UpTo(ids)[k] = ids[k].id
<1> DEFINE s == [k \in DOMAIN ids |-> ids[k].id]
           m == IF Len(ids) < Depth THEN Len(ids) ELSE Depth
<1>1. Len(ids) \in Nat /\ DOMAIN ids = 1..Len(ids) /\ Depth \in Nat \ {0}
  BY StewardAssumption
<1>2. m \in Nat /\ m <= Len(ids) /\ (Len(ids) # 0 => m # 0)
  BY <1>1
<1>3. s \in Seq(Nat) /\ Len(s) = Len(ids) /\ \A k \in 1..Len(ids) : s[k] = ids[k].id
  BY <1>1
<1>4. UpTo(ids) = SubSeq(s, 1, m)
  BY DEF UpTo
<1> HIDE DEF s, m
<1>5. SubSeq(s, 1, m) \in Seq(Nat) /\ Len(SubSeq(s, 1, m)) = m
      /\ \A k \in 1..m : SubSeq(s, 1, m)[k] = s[k]
  BY <1>1, <1>2, <1>3
<1> QED BY <1>1, <1>2, <1>3, <1>4, <1>5

LEMMA StartHead ==
  ASSUME TypeOK, Unique(entries), TickStart
  PROVE  HeadInv'
<1> DEFINE l == ListActive(entries)
           ready == ReadySchedule(l, entries)
           blocked == BlockedSchedule(l, entries)
<1>1. IsStore(Objects, entries)
  BY DEF TypeOK, StoreOK
<1>2. /\ l \in Seq(Range(entries)) /\ Keyed(l) /\ Branched(l)
      /\ \A k \in 1..Len(l) : l[k].id \in Ids /\ entries[l[k].id] = l[k] /\ Active(l[k])
  BY <1>1, ActiveListing DEF Ids
<1>3. /\ work' = UpTo(blocked) \o UpTo(ready) /\ nb' = Len(UpTo(blocked))
      /\ pc' = "pick" /\ idx' = 1 /\ UNCHANGED entries /\ l # <<>>
  BY DEF TickStart, UpTo
<1> HIDE DEF l
<1>4. /\ ready \in Seq(Range(entries)) /\ blocked \in Seq(Range(entries))
      /\ \A i \in 1..Len(ready) : ready[i] \in Range(l) /\ ready[i].id \in ReadyIds(l, entries)
      /\ \A i \in 1..Len(blocked) :
           blocked[i] \in Range(l) /\ blocked[i].id \notin ReadyIds(l, entries)
      /\ Len(ready) # 0 => ready[1].base = Main \/ Landed(entries, ready[1].base)
      /\ Len(ready) # 0 \/ Len(blocked) # 0
  <2>1. Len(l) # 0
    BY <1>2, <1>3
  <2> QED BY <1>2, <2>1, SchedulesAre
<1>5. \A e \in Range(l) : e.id \in Ids /\ entries[e.id] = e /\ Active(e)
  BY <1>2, RangeIs
<1>6. Ids \subseteq Nat
  BY <1>1, LenProperties DEF IsStore, Ids
<1> DEFINE b == UpTo(blocked)
           r == UpTo(ready)
<1>7. /\ b \in Seq(Nat) /\ Len(b) <= Len(blocked) /\ (Len(blocked) # 0 => Len(b) # 0)
      /\ \A k \in 1..Len(b) : k \in 1..Len(blocked) /\ b[k] = blocked[k].id
  BY <1>4, <1>5, <1>6, UpToIs
<1>8. /\ r \in Seq(Nat) /\ Len(r) <= Len(ready) /\ (Len(ready) # 0 => Len(r) # 0)
      /\ \A k \in 1..Len(r) : k \in 1..Len(ready) /\ r[k] = ready[k].id
  BY <1>4, <1>5, <1>6, UpToIs
<1> HIDE DEF ready, blocked, b, r
<1>9. ASSUME NEW k \in 1..Len(b)
      PROVE  b[k] \in Ids /\ Active(entries[b[k]]) /\ b[k] \notin ReadyIds(l, entries)
  <2>1. blocked[k] \in Range(l) /\ blocked[k].id \notin ReadyIds(l, entries)
    BY <1>4, <1>7
  <2> QED BY <1>5, <1>7, <2>1
<1>18. ASSUME NEW k \in 1..Len(r)
       PROVE  r[k] \in Ids /\ Active(entries[r[k]]) /\ r[k] \in ReadyIds(l, entries)
  <2>1. ready[k] \in Range(l) /\ ready[k].id \in ReadyIds(l, entries)
    BY <1>4, <1>8
  <2> QED BY <1>5, <1>8, <2>1
<1>10. /\ work' \in Seq(Nat) /\ Len(work') = Len(b) + Len(r) /\ nb' = Len(b) /\ nb' \in Nat
       /\ \A k \in 1..Len(b) : work'[k] = b[k]
       /\ \A k \in 1..Len(r) : work'[nb' + k] = r[k]
  BY <1>3, <1>7, <1>8 DEF b, r
<1>11. \A k \in 1..Len(work') :
         k \in 1..Len(b) \/ (k - nb' \in 1..Len(r) /\ k = nb' + (k - nb'))
  <2>1. Len(b) \in Nat /\ Len(r) \in Nat /\ nb' = Len(b) /\ Len(work') = Len(b) + Len(r)
    BY <1>7, <1>8, <1>10
  <2> QED BY <2>1
<1>12. ASSUME NEW k \in 1..Len(work')
       PROVE  work'[k] \in Ids /\ Active(entries[work'[k]])
  <2>1. CASE k \in 1..Len(b)
    BY <1>9, <1>10, <2>1
  <2>2. CASE k - nb' \in 1..Len(r) /\ k = nb' + (k - nb')
    <3>1. work'[k] = r[k - nb']
      BY <1>10, <2>2
    <3> QED BY <1>18, <2>2, <3>1
  <2> QED BY <1>11, <2>1, <2>2
<1>13. ASSUME nb' < Len(work')
       PROVE  /\ \A k \in 1..nb' : work'[k] # work'[nb' + 1]
              /\ work'[nb' + 1] \in Ids
              /\ \/ entries[work'[nb' + 1]].base = Main
                 \/ Landed(entries, entries[work'[nb' + 1]].base)
  <2>1. 1 \in 1..Len(r) /\ 1 \in 1..Len(ready)
    BY <1>7, <1>8, <1>10, <1>13
  <2>2. work'[nb' + 1] = r[1] /\ r[1] = ready[1].id
    BY <1>8, <1>10, <2>1
  <2>3. entries[ready[1].id] = ready[1]
    BY <1>4, <1>5, <2>1
  <2>4. Len(ready) # 0
    BY <2>1
  <2> QED BY <1>4, <1>9, <1>10, <1>18, <2>1, <2>2, <2>3, <2>4
<1>14. ASSUME NEW c, Landed(entries, c) PROVE Parented(c)'
  <2>1. PICK n \in Ids : entries[n].branch = c /\ entries[n].status = "merged"
    BY <1>14 DEF Landed, Ids
  <2>2. \A k \in 1..Len(work') : work'[k] # n
    BY <1>12, <2>1 DEF Active, Terminal
  <2>3. Ids' = Ids /\ entries' = entries /\ pc' \notin Resetting
    BY <1>3 DEF Ids, Resetting
  <2> QED BY <2>1, <2>2, <2>3 DEF Parented, Safe
<1>19. 1 \in 1..Len(work')
  BY <1>4, <1>7, <1>8, <1>10
<1>15. WalkOK'
  BY <1>3, <1>10, <1>13, <1>19 DEF WalkOK, Busy
<1>16. nb' < Len(work') =>
         work'[nb' + 1] \in Ids' /\ Parented(entries[work[nb + 1]].base)'
  <2> SUFFICES ASSUME nb' < Len(work')
               PROVE  work'[nb' + 1] \in Ids' /\ Parented(entries[work[nb + 1]].base)'
    OBVIOUS
  <2>1. Ids' = Ids /\ entries' = entries
    BY <1>3 DEF Ids
  <2>2. CASE entries[work'[nb' + 1]].base = Main
    BY <1>13, <2>1, <2>2 DEF Parented
  <2>3. CASE Landed(entries, entries[work'[nb' + 1]].base)
    BY <1>13, <1>14, <2>1, <2>3
  <2> QED BY <1>13, <2>2, <2>3
<1>17. Unique(entries)' /\ pc' \notin HeadReads
  BY <1>3 DEF HeadReads
<1> QED BY <1>15, <1>16, <1>17 DEF HeadInv

\* As long as the head is unread, a step of the tick leaves alone the base of its
\* row, and every row that is safe.
LEMMA UnreadWrites ==
  ASSUME TypeOK, HeadInv, Tick, Unread, nb < Len(work)
  PROVE  /\ Ids' = Ids
         /\ entries'[work[nb + 1]].base = entries[work[nb + 1]].base
         /\ \A n \in Ids : Safe(n) => entries'[n] = entries[n]
<1> DEFINE h == work[nb + 1]
<1>1. h \in Ids /\ WalkOK /\ pc # "prepare"
  BY DEF HeadInv, WalkOK, Unread, IsBlocked, Busy
<1>2. DOMAIN entries = Ids /\ IsStore(Objects, entries)
  BY DEF TypeOK, StoreOK, Ids
<1>3. CASE UNCHANGED entries
  BY <1>3 DEF Ids
<1>4. ASSUME pc \in Busy, NEW p, entries' = Transition(entries, snap.id, p)
      PROVE  /\ Ids' = Ids /\ entries'[h].base = entries[h].base
             /\ \A n \in Ids : Safe(n) => entries'[n] = entries[n]
  <2>1. /\ nb \in Nat /\ idx \in 1..nb /\ work \in Seq(Nat) /\ idx \in 1..Len(work)
        /\ snap.id = work[idx] /\ work[idx] # h
    BY <1>1, <1>4 DEF WalkOK, Unread, Busy
  <2>2. snap.id # h /\ \A n \in Ids : Safe(n) => n # snap.id
    BY <2>1 DEF Safe
  <2>3. Ids' = Ids /\ \A n \in Ids \ {snap.id} : entries'[n] = entries[n]
    BY <1>4 DEF Transition, Ids
  <2> QED BY <1>1, <2>2, <2>3
<1>5. ASSUME pc = "cascade", entries' = Invalidate(entries, todo.down)
      PROVE  /\ Ids' = Ids /\ entries'[h].base = entries[h].base
             /\ \A n \in Ids : Safe(n) => entries'[n] = entries[n]
  <2>1. /\ Ids' = Ids
        /\ \A n \in Ids : entries'[n] = IF n \in todo.down THEN Spread(entries[n], Invalidation)
                                                           ELSE entries[n]
    BY <1>5 DEF Invalidate, Ids
  <2>2. \A n \in Ids : Safe(n) => n \notin todo.down
    BY <1>5 DEF Safe, Resetting
  <2>3. IsRow(Objects, Ids, entries[h])
    BY <1>1, <1>2 DEF IsStore
  <2>4. IsPatch(Objects, Ids, Invalidation) /\ "status" \in DOMAIN Invalidation
    BY CompoundPatches, HarmlessPatches DEF Harmless
  <2>5. "base" \notin DOMAIN Invalidation
    BY DEF Invalidation, Reprepare, Spread, To, CleanCI, ClearCandidate
  <2>6. Spread(entries[h], Invalidation).base = entries[h].base
    BY <2>3, <2>4, <2>5, PatchedRow
  <2> QED BY <1>1, <2>1, <2>2, <2>6
<1> QED BY <1>1, <1>3, <1>4, <1>5, TickWrites

\* The head waits on while the tick goes through the blocked entries.
LEMMA StillUnread ==
  ASSUME TypeOK, HeadInv, Tick, UNCHANGED <<work, nb>>, Unread, nb < Len(work)
  PROVE  work'[nb' + 1] \in Ids' /\ Parented(entries[work[nb + 1]].base)'
<1> PICK h : h = work[nb + 1]
  OBVIOUS
<1> PICK c : c = entries[h].base
  OBVIOUS
<1>1. h \in Ids /\ Parented(c) /\ Unique(entries)
  BY DEF HeadInv
<1>2. /\ Ids' = Ids /\ entries'[h].base = c
      /\ \A n \in Ids : Safe(n) => entries'[n] = entries[n]
  BY UnreadWrites
<1>3. work' = work /\ nb' = nb /\ work'[nb' + 1] = h
  OBVIOUS
<1>4. ASSUME NEW n \in Ids, Safe(n) PROVE Safe(n)'
  <2>1. entries'[n] = entries[n] /\ n \in Ids'
    BY <1>2, <1>4
  <2>2. entries[n].status = "merged" /\ \A k \in 1..Len(work) : work[k] # n
    BY <1>4 DEF Safe
  <2>3. ~Active(entries[n])
    BY <2>2 DEF Active, Terminal
  <2>4. pc' \in Resetting => n \notin todo'.down
    BY <1>1, <1>4, <2>3, TickDown DEF Safe
  <2> QED BY <1>3, <2>1, <2>2, <2>4 DEF Safe
<1>5. Parented(c)'
  <2>1. CASE c = Main
    BY <2>1 DEF Parented
  <2>2. ASSUME NEW n \in Ids, entries[n].branch = c, Safe(n) PROVE Parented(c)'
    <3>1. n \in Ids' /\ entries'[n].branch = c /\ Safe(n)'
      BY <1>2, <1>4, <2>2
    <3> QED BY <3>1 DEF Parented
  <2> QED BY <1>1, <2>1, <2>2 DEF Parented
<1>6. entries'[work'[nb' + 1]].base = c
  BY <1>2, <1>3
<1> QED BY <1>1, <1>2, <1>3, <1>5, <1>6

\* Whatever the tick does but to start, it is at work.
LEMMA AtWork ==
  ASSUME Tick, ~TickStart
  PROVE  pc \in Busy \cup {"pick"}
<1>1. CASE \/ Pick \/ Sanitize \/ SanitizeFails \/ WaitForParent \/ DropStale
           \/ Promote \/ StartPrepare \/ StartValidation \/ StartMerge
  BY <1>1 DEF Pick, Sanitize, SanitizeFails, WaitForParent, DropStale,
              Promote, StartPrepare, StartValidation, StartMerge, Dispatched, Sane, Busy
<1>2. CASE \/ PrepareWaits \/ PrepareMoved \/ PrepareBlocked \/ PrepareContained
           \/ PrepareHeadCandidate \/ PrepareConflict \/ PrepareIntegration \/ PrepareFails
  BY <1>2 DEF PrepareWaits, PrepareMoved, PrepareBlocked, PrepareContained,
              PrepareHeadCandidate, PrepareConflict, PrepareIntegration, PrepareFails,
              Building, PrepareAllowed, Preparing, Busy
<1>3. CASE \/ RefreshWorkspace \/ ChecksWait \/ ChecksPass \/ ChecksFail \/ Rerun
           \/ RerunUnavailable
  BY <1>3 DEF RefreshWorkspace, ChecksWait, ChecksPass, ChecksFail, Rerun, RerunUnavailable,
              Checking, Busy
<1>4. CASE Revalidate \/ Land \/ Gate \/ RevalidationFails \/ Push \/ PushOverrun \/ PushRejected
  BY <1>4 DEF Revalidate, Land, Gate, RevalidationFails, Push, PushOverrun, PushRejected, Busy
<1>5. CASE Retire \/ Apply \/ ApplyThrows \/ Cascade \/ TickFails
  BY <1>5 DEF Retire, Apply, ApplyThrows, Cascade, TickFails, Busy
<1> QED BY <1>1, <1>2, <1>3, <1>4, <1>5 DEF Tick

LEMMA TickHead ==
  ASSUME TypeOK, TypeOK', HeadInv, Tick
  PROVE  HeadInv'
<1>1. Unique(entries) /\ WalkOK
  BY DEF HeadInv
<1>2. Unique(entries')
  BY <1>1, TickWrites
<1>3. CASE TickStart
  BY <1>1, <1>3, StartHead
<1>4. CASE Halt
  BY <1>2, <1>4 DEF Halt, HeadInv, WalkOK, Unread, Busy, HeadReads
<1>5. CASE Advance /\ ~Halt /\ ~TickStart
  <2>1. pc' = "pick" /\ idx' = idx + 1 /\ UNCHANGED <<work, nb>> /\ idx # Len(work)
    BY <1>5 DEF Advance
  <2>2. pc \in Busy \cup {"pick"}
    BY <1>5, AtWork
  <2>3. /\ nb \in Nat /\ work \in Seq(Nat) /\ idx \in 1..Len(work)
        /\ nb < Len(work) => \A k \in 1..nb : work[k] # work[nb + 1]
    BY <1>1, <2>2 DEF WalkOK
  <2>4. WalkOK'
    <3>1. idx' \in 1..Len(work')
      BY <2>1, <2>3
    <3> QED BY <2>1, <2>3, <3>1 DEF WalkOK, Busy
  <2>5. idx \in Nat /\ nb \in Nat /\ pc' \notin Busy
    BY <2>1, <2>3 DEF Busy
  <2>7. Unread' => Unread
    BY <2>1, <2>2, <2>5 DEF Unread
  <2>6. pc' \notin HeadReads
    BY <2>1 DEF HeadReads
  <2> QED BY <1>2, <2>1, <2>4, <2>6, <2>7, StillUnread DEF HeadInv
<1>6. CASE Picks
  <2>1. /\ pc = "pick" /\ pc' = "probe" /\ UNCHANGED <<entries, work, nb, idx>>
        /\ work[idx] \in Ids /\ snap' = entries[work[idx]]
    BY <1>6 DEF Picks
  <2>2. /\ nb \in Nat /\ work \in Seq(Nat) /\ idx \in 1..Len(work)
        /\ nb < Len(work) => \A k \in 1..nb : work[k] # work[nb + 1]
    BY <1>1, <2>1 DEF WalkOK
  <2>3. snap'.id = work[idx]
    BY <2>1 DEF TypeOK, StoreOK, IsStore, Ids
  <2>4. WalkOK'
    BY <2>1, <2>2, <2>3 DEF WalkOK, Busy
  <2>5. Unread' => Unread
    BY <2>1, <2>2 DEF Unread, Busy
  <2>6. CASE IsHead
    <3>1. Unread /\ idx = nb + 1 /\ nb < Len(work) /\ ~Unread'
      BY <2>1, <2>2, <2>6 DEF Unread, IsHead
    <3>2. Parented(entries[work[nb + 1]].base)'
      BY <2>6, <3>1, <2>1, StillUnread
    <3>3. Parented(snap.base)'
      BY <2>1, <3>1, <3>2
    <3> QED BY <1>2, <2>1, <2>4, <3>1, <3>3 DEF HeadInv
  <2>7. CASE ~IsHead
    <3>1. ~IsHead'
      BY <2>1, <2>7 DEF IsHead
    <3> QED BY <1>2, <2>1, <2>4, <2>5, <3>1, StillUnread DEF HeadInv
  <2> QED BY <2>6, <2>7
<1>7. CASE Rereads
  <2>1. /\ pc \in HeadReads /\ pc' \in HeadReads
        /\ UNCHANGED <<entries, work, nb, idx, snap>>
        /\ pc' \notin {"probe", "unseen"} => IsHead \/ pc \in {"merge", "land", "gate"}
    BY <1>7 DEF Rereads
  <2>2. pc \in Busy /\ pc' \in Busy /\ pc' \notin Resetting
    BY <2>1 DEF HeadReads, Busy, Resetting
  <2>3. WalkOK'
    BY <1>1, <2>1, <2>2 DEF WalkOK, IsHead, HeadReads
  <2>4. Unread' => Unread
    BY <2>1, <2>2 DEF Unread, HeadReads
  <2>5. IsHead' => IsHead
    BY <2>1 DEF IsHead
  <2>6. IsHead => Parented(snap.base)
    BY <2>1 DEF HeadInv
  <2>7. \A n : Safe(n) => Safe(n)'
    BY <2>1, <2>2 DEF Safe, Ids
  <2>8. Parented(snap.base) => Parented(snap.base)'
    BY <2>1, <2>7 DEF Parented, Ids
  <2> QED BY <1>2, <2>1, <2>3, <2>4, <2>5, <2>6, <2>8, StillUnread DEF HeadInv
<1>8. CASE Settles
  <2>1. /\ pc \in Busy /\ pc' \in Busy \ HeadReads /\ UNCHANGED <<work, nb, idx>>
        /\ snap'.id = snap.id
        /\ pc' = "prepare" => ~IsBlocked
    BY <1>8 DEF Settles
  <2>2. WalkOK'
    BY <1>1, <2>1 DEF WalkOK, IsBlocked, HeadReads
  <2>3. Unread' => Unread
    BY <2>1 DEF Unread, Busy
  <2> QED BY <1>2, <2>1, <2>2, <2>3, StillUnread DEF HeadInv
<1> QED BY <1>3, <1>4, <1>5, <1>6, <1>7, <1>8, TickMoves

LEMMA OthersHead ==
  ASSUME TypeOK, HeadInv, UNCHANGED tick, Unique(entries'), Keeps(entries, entries')
  PROVE  HeadInv'
<1>1. /\ UNCHANGED <<pc, work, nb, idx, snap, todo>> /\ Ids \subseteq Ids'
      /\ \A n \in Ids : /\ entries'[n].branch = entries[n].branch
                        /\ entries'[n].base = entries[n].base
                        /\ ~Active(entries[n]) => entries'[n].status = entries[n].status
  BY DEF tick, Keeps, Ids
<1>2. \A n : Safe(n) => Safe(n)'
  BY <1>1 DEF Safe, Active, Terminal
<1>3. \A b : Parented(b) => Parented(b)'
  BY <1>1, <1>2 DEF Parented
<1>4. WalkOK' /\ (Unread' <=> Unread) /\ (IsHead' <=> IsHead)
  BY <1>1 DEF HeadInv, WalkOK, Unread, IsHead, IsBlocked
<1>5. ASSUME Unread, nb < Len(work)
      PROVE  work[nb + 1] \in Ids' /\ Parented(entries[work[nb + 1]].base)'
  <2>1. work[nb + 1] \in Ids /\ Parented(entries[work[nb + 1]].base)
    BY <1>5 DEF HeadInv
  <2> QED BY <1>1, <1>3, <2>1
<1>6. ASSUME pc \in HeadReads, IsHead PROVE Parented(snap.base)'
  BY <1>1, <1>3, <1>6 DEF HeadInv
<1> QED BY <1>1, <1>4, <1>5, <1>6 DEF HeadInv

LEMMA StepHead ==
  ASSUME TypeOK, HeadInv, [Next]_vars
  PROVE  HeadInv'
<1>1. TypeOK' /\ Unique(entries)
  BY StepTypes DEF HeadInv
<1>2. CASE Tick
  BY <1>1, <1>2, TickHead
<1>3. CASE Commands
  BY <1>1, <1>3, CommandsKeep, TickIsAlone, OthersHead
<1>4. ASSUME UNCHANGED <<entries, tick>> PROVE HeadInv'
  <2>1. Keeps(entries, entries')
    BY <1>4 DEF Keeps
  <2> QED BY <1>1, <1>4, <2>1, OthersHead
<1>5. CASE World \/ UNCHANGED vars
  BY <1>4, <1>5, WorldIsStill, TickIsAlone DEF vars
<1>6. CASE Crash
  <2>1. pc' = "boot" /\ UNCHANGED entries
    BY <1>6 DEF Crash
  <2> QED BY <1>1, <2>1 DEF HeadInv, WalkOK, Unread, Busy, HeadReads
<1> QED BY <1>2, <1>3, <1>5, <1>6 DEF Next

LEMMA HeadInvHolds == Spec => []HeadInv
<1>1. ASSUME Init PROVE HeadInv
  <2>1. DOMAIN entries = {} /\ pc = "boot"
    BY <1>1 DEF Init
  <2> QED BY <2>1 DEF HeadInv, WalkOK, Unread, Unique, Busy, HeadReads
<1>2. TypeOK /\ HeadInv /\ [Next]_vars => HeadInv'
  BY StepHead
<1> QED BY <1>1, <1>2, TypeSafety, PTL DEF Spec

\* A stacked pull request lands only after its parent: many awaits after the tick
\* read the schedule, and whatever webhooks, operators and other writes of the tick
\* did to the queue meanwhile, a row of the parent says merged, and says so truly.
THEOREM StacksLandInOrder == Spec => ParentFirst
<1> DEFINE P == \/ snap.base = Main
                \/ \E n \in DOMAIN entries : /\ entries[n].branch = snap.base
                                             /\ entries[n].status = "merged"
                                             /\ \/ IsAncestor(entries[n].head, main)
                                                \/ gh[snap.base].state = "merged"
<1>1. TypeOK /\ LandInv /\ HeadInv /\ [Next]_vars => [Landing => P]_vars
  <2> SUFFICES ASSUME TypeOK, LandInv, HeadInv, [Next]_vars, Landing PROVE P
    OBVIOUS
  <2>1. pc = "push"
    BY DEF Landing
  <2>2. IsHead /\ Parented(snap.base)
    BY <2>1 DEF HeadInv, WalkOK, HeadReads
  <2>3. CASE snap.base # Main
    <3>1. PICK n \in Ids : entries[n].branch = snap.base /\ entries[n].status = "merged"
      BY <2>2, <2>3 DEF Parented, Safe
    <3>2. IsAncestor(entries[n].head, main) \/ gh[snap.base].state = "merged"
      BY <3>1 DEF LandInv, StoreTrue, SettledIn, Ids
    <3> QED BY <3>1, <3>2 DEF Ids
  <2> QED BY <2>3
<1> QED BY <1>1, HeadInvHolds, LandInvHolds, TypeSafety, PTL DEF Spec, ParentFirst

-----------------------------------------------------------------------------
\* The history that branches share

\* Head number n of a pull request is not made yet.
NotMade(n) == \A c \in Objects : \A p \in PR : <<"head", p, n>> \notin c

Numbered == \A n \in Nat : n >= MaxDeeds - left + 2 => NotMade(n)

\* A head is part of just what was built on the commit that made it.
Born(a) == \E d \in Objects : a \in d /\ \A c \in Objects : a \in c => IsAncestor(d, c)

HistoryInv == Numbered /\ \A c \in Objects : \A a \in Heads(c) : Born(a)

\* The commits there are, while at most one disturbance more is spent.
SameCommits == Objects' = Objects /\ left' \in {left, left - 1}

\* One more: a merge of two, of any kind, or the next head on top of one.
IsMerge(c) == \E b, h \in Objects : \E k \in {"merge", "github", "repair"}, p \in PR :
                c = MergeOf(k, p, b, h)

MoreCommits ==
  \E c : /\ Objects' = Objects \cup {c}
         /\ \/ IsMerge(c) /\ left' \in {left, left - 1}
            \/ /\ \E b \in Objects, p \in PR : c = HeadOn(b, p, MaxDeeds - left + 2)
               /\ left' = left - 1

\* What making a commit does to the commits there are.
LEMMA MadeObjects ==
  ASSUME NEW c, ci' = Made(c)
  PROVE  Objects' = Objects \cup {c}
BY DEF Made, Objects

\* Making a merge.
LEMMA MadeMerge ==
  ASSUME NEW c, ci' = Made(c), IsMerge(c), left' \in {left, left - 1}
  PROVE  MoreCommits
BY MadeObjects DEF MoreCommits

\* The tick makes merges only.
LEMMA TickCommits ==
  ASSUME TypeOK, Tick
  PROVE  SameCommits \/ MoreCommits
<1> USE DEF SameCommits, Objects
<1>1. CASE \/ TickStart \/ Pick \/ Sanitize \/ SanitizeFails \/ WaitForParent \/ DropStale
           \/ Promote \/ StartPrepare \/ StartValidation \/ StartMerge
  BY <1>1 DEF TickStart, Pick, Sanitize, SanitizeFails, WaitForParent, DropStale, Promote,
              StartPrepare, StartValidation, StartMerge, Quiet, github, Spend
<1>2. CASE \/ PrepareWaits \/ PrepareMoved \/ PrepareBlocked \/ PrepareContained
           \/ PrepareHeadCandidate \/ PrepareConflict \/ PrepareFails
  BY <1>2 DEF PrepareWaits, PrepareMoved, PrepareBlocked, PrepareContained,
              PrepareHeadCandidate, PrepareConflict, PrepareFails, Quiet, github, Spend
<1>3. CASE PrepareIntegration
  <2>1. pc = "prepare" /\ pc \in Busy /\ TickOK /\ Base # Null
    BY <1>3 DEF PrepareIntegration, Building, PrepareAllowed, Preparing, Busy, TypeOK
  <2>2. IsHead \/ IsRow(Objects, Ids, todo)
    BY <2>1 DEF Base, Prev, TickOK
  <2>3. Base \in Objects
    BY <2>1, <2>2, RowColumns DEF Base, Prev, TypeOK, WorldOK
  <2>4. snap.branch \in PR /\ snap.head \in Objects
    BY <2>1, SnapRow
  <2>5. IsMerge(MergeOf("merge", snap.branch, Base, snap.head))
    BY <2>3, <2>4 DEF IsMerge
  <2> QED BY <1>3, <2>5, MadeMerge DEF PrepareIntegration
<1>4. CASE \/ RefreshWorkspace \/ ChecksWait \/ ChecksPass \/ ChecksFail
           \/ RerunUnavailable
  BY <1>4 DEF RefreshWorkspace, ChecksWait, ChecksPass, ChecksFail, RerunUnavailable,
              Quiet, github
<1>5. CASE Rerun
  BY <1>5 DEF Rerun, TypeOK, WorldOK
<1>6. CASE Revalidate \/ Land \/ Gate \/ RevalidationFails \/ Push \/ PushOverrun \/ PushRejected
  BY <1>6 DEF Revalidate, Land, Gate, RevalidationFails, Push, PushOverrun, PushRejected,
              Quiet, github, Spend
<1>7. CASE Retire \/ Apply \/ ApplyThrows \/ Cascade \/ TickFails
  BY <1>7 DEF Retire, Apply, ApplyThrows, Cascade, TickFails, Spend
<1> QED BY <1>1, <1>2, <1>3, <1>4, <1>5, <1>6, <1>7 DEF Tick

\* Authors, GitHub and repair runs make merges and new heads.
LEMMA WorldCommits ==
  ASSUME TypeOK, World
  PROVE  SameCommits \/ MoreCommits
<1>1. /\ main \in Objects /\ ci \in [Objects -> {"pending", "pass", "fail"}]
      /\ \A p \in PR : gh[p].head \in Objects /\ gh[p].base \in PR \cup {Main}
      /\ \A p \in PR : ws[p] \in Objects \cup {Null}
  BY DEF TypeOK, WorldOK
<1>2. ASSUME NEW p \in PR, PushHead(p) PROVE MoreCommits
  <2>1. PICK b \in {gh[p].head, main} : Reheaded(p, HeadOn(b, p, MaxDeeds - left + 2))
    BY <1>2 DEF PushHead
  <2>2. Objects' = Objects \cup {HeadOn(b, p, MaxDeeds - left + 2)}
    BY <2>1, MadeObjects DEF Reheaded
  <2> QED BY <1>1, <1>2, <2>2 DEF PushHead, MoreCommits, Spend
<1>3. ASSUME NEW p \in PR, \/ UpdateBranch(p) \/ ExternalMerge(p)
      PROVE  MoreCommits
  <2>1. IsMerge(MergeOf("github", p, main, gh[p].head))
    BY <1>1 DEF IsMerge
  <2>2. ci' = Made(MergeOf("github", p, main, gh[p].head)) /\ left' = left - 1
    BY <1>3 DEF UpdateBranch, ExternalMerge, Reheaded, Spend
  <2> QED BY <2>1, <2>2, MadeMerge
<1>4. ASSUME NEW p \in PR, MergeIntoParent(p) PROVE MoreCommits
  <2>1. gh[p].base \in PR
    BY <1>1, <1>4 DEF MergeIntoParent
  <2>2. IsMerge(MergeOf("github", p, gh[gh[p].base].head, gh[p].head))
    BY <1>1, <2>1 DEF IsMerge
  <2>3. ci' = Made(MergeOf("github", p, gh[gh[p].base].head, gh[p].head)) /\ left' = left - 1
    BY <1>4 DEF MergeIntoParent, Spend
  <2> QED BY <2>2, <2>3, MadeMerge
<1>5. ASSUME NEW p \in PR, Repair(p) PROVE MoreCommits
  <2>1. IsMerge(MergeOf("repair", p, ws[p], gh[p].head))
    BY <1>1, <1>5 DEF IsMerge, Repair
  <2>2. ci' = Made(MergeOf("repair", p, ws[p], gh[p].head)) /\ left' = left - 1
    BY <1>5 DEF Repair, Spend
  <2> QED BY <2>1, <2>2, MadeMerge
<1>6. ASSUME NEW p \in PR, \/ Approve(p) \/ Revoke(p) \/ Close(p) \/ DirectPush(p) \/ MarkMerged(p)
                           \/ Vouch(p) \/ Refuse(p) \/ \E base \in PR \cup {Main} : Retarget(p, base)
      PROVE  SameCommits
  BY <1>6 DEF SameCommits, Objects, Approve, Revoke, Close, DirectPush, MarkMerged, Vouch,
              Refuse, Retarget, Spend
<1>7. CASE Lose \/ \E c \in DOMAIN ci : Conclude(c) \/ RerunByHand(c)
  BY <1>1, <1>7 DEF SameCommits, Objects, Lose, Conclude, RerunByHand, Spend
<1> QED BY <1>2, <1>3, <1>4, <1>5, <1>6, <1>7 DEF World

\* Every step makes at most one commit, out of those there are.
LEMMA StepCommits ==
  ASSUME TypeOK, [Next]_vars
  PROVE  SameCommits \/ MoreCommits
<1>1. CASE Commands \/ Crash \/ UNCHANGED vars
  BY <1>1 DEF SameCommits, Objects, Commands, AdmitStart, OperatorDequeue, FinishDelete,
              OperatorEnqueue, AdmitFinish, Deliver, Crash, vars, github, Spend
<1> QED BY <1>1, TickCommits, WorldCommits DEF Next

\* Numbers that are not used yet are found among those that were not used before.
LEMMA Later ==
  ASSUME left \in Nat, left' \in {left, left - 1}
  PROVE  \A n \in Nat : n >= MaxDeeds - left' + 2 => n >= MaxDeeds - left + 2
<1>1. MaxDeeds \in Nat
  BY StewardAssumption
<1>2. CASE left' = left
  BY <1>1, <1>2
<1>3. CASE left' = left - 1
  BY <1>1, <1>3
<1> QED BY <1>2, <1>3

\* A commit that has no head of its own.
LEMMA MergeHistory ==
  ASSUME HistoryInv, NEW c, Objects' = Objects \cup {c}, IsMerge(c),
         left \in Nat, left' \in {left, left - 1}
  PROVE  HistoryInv'
<1>1. PICK b \in Objects, h \in Objects, k \in {"merge", "github", "repair"}, p \in PR :
        c = MergeOf(k, p, b, h)
  BY DEF IsMerge
<1>2. Heads(c) \subseteq Heads(b) \cup Heads(h)
  BY <1>1 DEF Heads, MergeOf
<1>3. b \subseteq c /\ h \subseteq c
  BY <1>1 DEF MergeOf
<1>4. Numbered'
  <2> SUFFICES ASSUME NEW n \in Nat, n >= MaxDeeds - left' + 2, NEW q \in PR, NEW e \in Objects',
                      <<"head", q, n>> \in e
               PROVE  FALSE
    BY DEF Numbered, NotMade
  <2>1. NotMade(n)
    BY Later DEF HistoryInv, Numbered
  <2>2. e = c /\ <<"head", q, n>> \in b \cup h
    BY <1>1, <2>1 DEF MergeOf, NotMade
  <2> QED BY <2>1, <2>2 DEF NotMade
<1>5. ASSUME NEW e \in Objects', NEW a \in Heads(e)
      PROVE  Born(a)'
  <2>1. PICK f \in Objects : a \in Heads(f)
    BY <1>2, <1>5
  <2>2. PICK d \in Objects : a \in d /\ \A g \in Objects : a \in g => IsAncestor(d, g)
    BY <2>1 DEF HistoryInv, Born
  <2>3. a \in c => IsAncestor(d, c)
    BY <1>2, <1>3, <2>2, <2>1 DEF Heads, IsAncestor
  <2> QED BY <2>2, <2>3 DEF Born
<1> QED BY <1>4, <1>5 DEF HistoryInv

\* A new head.
LEMMA HeadHistory ==
  ASSUME HistoryInv, NEW b \in Objects, NEW p \in PR, left \in 0..MaxDeeds, left' = left - 1,
         Objects' = Objects \cup {HeadOn(b, p, MaxDeeds - left + 2)}
  PROVE  HistoryInv'
<1> DEFINE n == MaxDeeds - left + 2
           new == <<"head", p, n>>
           c == b \cup {new}
<1>1. Objects' = Objects \cup {c}
  BY DEF HeadOn
<1>2. n \in Nat /\ \A i \in Nat : i >= MaxDeeds - left' + 2 => i >= MaxDeeds - left + 2 /\ i # n
  BY StewardAssumption
<1>3. NotMade(n)
  BY <1>2 DEF HistoryInv, Numbered
<1>4. Heads(c) = Heads(b) \cup {new}
  BY DEF Heads
<1>5. \A i, q : <<"head", q, i>> = new => i = n
  OBVIOUS
<1>6. \A e \in Objects : new \notin e
  BY <1>3 DEF NotMade
<1> HIDE DEF n, new
<1>7. Numbered'
  <2> SUFFICES ASSUME NEW i \in Nat, i >= MaxDeeds - left' + 2, NEW q \in PR, NEW e \in Objects',
                      <<"head", q, i>> \in e
               PROVE  FALSE
    BY DEF Numbered, NotMade
  <2>1. NotMade(i) /\ i # n
    BY <1>2 DEF HistoryInv, Numbered
  <2> QED BY <1>1, <1>5, <2>1 DEF NotMade
<1>8. ASSUME NEW e \in Objects', NEW a \in Heads(e)
      PROVE  Born(a)'
  <2>1. CASE a = new
    <3>1. \A g \in Objects' : a \in g => g = c
      BY <1>1, <1>6, <2>1
    <3> QED BY <1>1, <2>1, <3>1 DEF Born, IsAncestor
  <2>2. CASE a # new
    <3>1. PICK f \in Objects : a \in Heads(f)
      BY <1>1, <1>4, <1>8, <2>2
    <3>2. PICK d \in Objects : a \in d /\ \A g \in Objects : a \in g => IsAncestor(d, g)
      BY <3>1 DEF HistoryInv, Born
    <3>3. a \in c => IsAncestor(d, c)
      BY <2>2, <3>2 DEF IsAncestor
    <3> QED BY <1>1, <3>2, <3>3 DEF Born
  <2> QED BY <2>1, <2>2
<1> QED BY <1>7, <1>8 DEF HistoryInv

\* What is there at the start is stacked as the branches are.
LEMMA InitHistory == Init => HistoryInv
<1> SUFFICES ASSUME Init PROVE HistoryInv
  OBVIOUS
<1>1. PICK shape \in Shapes :
        ci = [c \in {Root} \cup {InitialHead(shape, p) : p \in PR} |-> "pass"]
  BY DEF Init
<1> DEFINE Has(p) == shape.carries[p] \cup {p}
           Of(p) == {<<"head", q, 1>> : q \in Has(p)}
<1>2. \A p \in PR : InitialHead(shape, p) = Of(p) /\ Has(p) \subseteq PR
  <2> SUFFICES ASSUME NEW p \in PR PROVE InitialHead(shape, p) = Of(p) /\ Has(p) \subseteq PR
    OBVIOUS
  <2>1. shape.carries[p] \subseteq PR
    BY StewardAssumption
  <2> QED BY <2>1 DEF InitialHead, HeadOn
<1>3. Objects = {{}} \cup {Of(p) : p \in PR}
  BY <1>1, <1>2 DEF Objects, Root
<1>4. \A p, q \in PR : q \in Has(p) => Has(q) \subseteq Has(p)
  BY StewardAssumption
<1>5. \A p, q : q \in Has(p) <=> <<"head", q, 1>> \in Of(p)
  OBVIOUS
<1>6. Numbered
  BY <1>3, StewardAssumption DEF Init, Numbered, NotMade
<1>7. ASSUME NEW c \in Objects, NEW a \in Heads(c) PROVE Born(a)
  <2>1. PICK p \in PR : a \in Of(p)
    BY <1>3, <1>7 DEF Heads
  <2>2. PICK q \in PR : a = <<"head", q, 1>>
    BY <1>2, <2>1
  <2>3. a \in Of(q) /\ Of(q) \in Objects
    BY <1>3, <2>2
  <2>4. ASSUME NEW d \in Objects, a \in d PROVE IsAncestor(Of(q), d)
    <3>1. PICK r \in PR : d = Of(r)
      BY <1>3, <2>4
    <3>2. Has(q) \subseteq Has(r)
      BY <1>4, <1>5, <2>2, <2>4, <3>1
    <3> QED BY <3>1, <3>2 DEF IsAncestor
  <2> QED BY <2>3, <2>4 DEF Born
<1> QED BY <1>6, <1>7 DEF HistoryInv

\* No commit has a head without the commit that made that head.
LEMMA HistoryHolds == Spec => []HistoryInv
<1>1. Init => HistoryInv
  BY InitHistory
<1>2. TypeOK /\ HistoryInv /\ [Next]_vars => HistoryInv'
  <2> SUFFICES ASSUME TypeOK, HistoryInv, [Next]_vars PROVE HistoryInv'
    OBVIOUS
  <2>1. left \in 0..MaxDeeds
    BY DEF TypeOK, WorldOK
  <2>2. CASE SameCommits
    <3>1. \A n \in Nat : n >= MaxDeeds - left' + 2 => n >= MaxDeeds - left + 2
      BY <2>1, <2>2, Later DEF SameCommits
    <3> QED BY <2>2, <3>1 DEF SameCommits, HistoryInv, Numbered, NotMade, Born
  <2>3. CASE MoreCommits
    BY <2>1, <2>3, MergeHistory, HeadHistory DEF MoreCommits
  <2> QED BY <2>2, <2>3, StepCommits
<1> QED BY <1>1, <1>2, TypeSafety, PTL DEF Spec

\* The last gate of mergeHead stops every candidate that would land history an open
\* pull request has too, and main has not, however the candidate came to carry it:
\* the gate asks git for a merge base and asks whether main has that commit, and
\* this is enough as long as one commit has all they share.
THEOREM GateSeesSharedHistory == Spec => NoOpenPrBypassed
<1>1. TypeOK /\ HistoryInv /\ [Next]_vars =>
        [pc = "gate" /\ pc' = "push" =>
           \A q \in Suspects(snap.branch, snap.head) :
             Straight(gh[q].head, snap.sha) => Heads(gh[q].head \cap snap.sha) \subseteq main]_vars
  <2> SUFFICES ASSUME TypeOK, HistoryInv, [Next]_vars, pc = "gate", pc' = "push",
                      NEW q \in Suspects(snap.branch, snap.head),
                      Straight(gh[q].head, snap.sha),
                      NEW a \in Heads(gh[q].head \cap snap.sha)
               PROVE  a \in main
    OBVIOUS
  <2>1. MayClear(snap.branch, snap.head, snap.sha)
    <3>1. Tick
      BY TickIsAlone DEF Next, Crash, tick, vars
    <3>2. Gate \/ Land
      BY <3>1, WayToGate
    <3>3. ~Land
      BY DEF Land
    <3> QED BY <3>2, <3>3, ShortOfGate DEF Gate, DecideAtZero
  <2>2. gh[q].head \in Objects /\ snap.sha \in Objects
    BY DEF Suspects, TypeOK, WorldOK, TickOK
  <2>3. PICK m \in CommonAncestors(gh[q].head, snap.sha) :
           \A c \in CommonAncestors(gh[q].head, snap.sha) : IsAncestor(c, m)
    BY DEF Straight
  <2>4. PICK l \in MergeBases(gh[q].head, snap.sha) : IsAncestor(l, main)
    BY <2>1 DEF MayClear
  <2>5. IsAncestor(m, main)
    BY <2>3, <2>4 DEF MergeBases
  <2>6. PICK d \in Objects : a \in d /\ \A c \in Objects : a \in c => IsAncestor(d, c)
    <3>1. a \in Heads(snap.sha) /\ a[1] = "head"
      BY DEF Heads
    <3> QED BY <2>2, <3>1 DEF HistoryInv, Born
  <2>7. d \in CommonAncestors(gh[q].head, snap.sha)
    BY <2>2, <2>6 DEF CommonAncestors, Heads, Objects
  <2> QED BY <2>3, <2>5, <2>6, <2>7 DEF IsAncestor
<1> QED BY <1>1, HistoryHolds, TypeSafety, PTL DEF Spec, NoOpenPrBypassed

=============================================================================
