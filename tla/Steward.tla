------------------------------- MODULE Steward -------------------------------
(***************************************************************************)
(* Merge Steward: the queue that lands approved pull requests on main.     *)
(*                                                                         *)
(* One reconcile tick at a time walks a snapshot of the queue and drives   *)
(* every entry through queued, preparing_head, validating, merging.  Each  *)
(* await of the tick is a point where the webhook commands, the admission  *)
(* scan, an operator, GitHub, CI, PatchRelay and humans may interleave.    *)
(* The tick works on `snap', the row it read before its awaits, and in the *)
(* end writes `todo', the columns it decided on, to whatever row is there  *)
(* by then.                                                                *)
(*                                                                         *)
(* A commit is the set of its ancestors' atoms, so "is an ancestor of" is  *)
(* set inclusion.  A pull request owns one branch, which names it.  The    *)
(* verdict of a commit is what evaluateCheckPolicy makes of its check runs *)
(* (module CheckPolicy).                                                   *)
(***************************************************************************)
EXTENDS QueueOrder

CONSTANTS
  PR,            \* pull requests, named by their head branch
  HeadRun,       \* the "head:<sha>" run id that a held head candidate gets
  Shapes,        \* how the pull requests may be opened: base gives the branch each
                 \* targets, carries whose first commits its first head contains
  Conflicts,     \* sets {p, q} of pull requests whose changes conflict
  Depth,         \* speculativeDepth
  MaxRetries,    \* maxRetries: rejected pushes retried before eviction
  FlakyRetries,  \* flakyRetries: reruns of a red candidate
  MaxEntries,    \* bound: entries ever admitted
  Deeds,         \* what people, PatchRelay, CI, GitHub and the host may do to the queue
  MaxDeeds       \* bound: how often they do anything of it

AllDeeds == {"push", "update", "close", "merge", "direct", "revoke", "retarget",
             "red", "rerun", "repair", "refuse", "lose", "dequeue", "enqueue",
             "crash", "outage", "git", "reject"}

ASSUME StewardAssumption ==
  /\ Main \notin PR
  /\ Shapes \subseteq [base : [PR -> PR \cup {Main}], carries : [PR -> SUBSET PR]]
  /\ \A s \in Shapes : \A p \in PR : \A q \in s.carries[p] : s.carries[q] \subseteq s.carries[p]
  /\ Depth \in Nat \ {0}
  /\ MaxRetries \in Nat
  /\ FlakyRetries \in Nat
  /\ MaxEntries \in Nat
  /\ Deeds \subseteq AllDeeds
  /\ MaxDeeds \in Nat

VARIABLES
  gh,         \* [PR -> record]: what GitHub's API answers for a pull request
  main,       \* the tip of the base branch on GitHub
  ci,         \* [commits made so far -> verdict of the required checks]
  vouched,    \* repaired candidates with a passing review-quill/integration
  refused,    \* and those with a failing one
  ws,         \* [PR -> commit or Null]: the refs merge-steward/main/pr-N
  hooks,      \* webhook deliveries on their way
  left,       \* what remains of MaxDeeds
  entries,    \* the queue_entries table: a sequence indexed by position
  deleting,   \* branches whose candidate ref is being deleted, fire and forget
  admitting,  \* an admission past its GitHub reads, or Null
  pc,         \* where the tick is
  work, nb,   \* ids the tick walks: nb blocked ones, then the ready ones
  idx,        \* position in work
  snap,       \* the row read at work[idx]
  todo        \* what the tick decided, to be written after its last await; while
              \* it prepares an entry, the row of the predecessor

github == <<gh, main, ci, vouched, refused, ws, hooks, left>>
tick   == <<pc, work, nb, idx, snap, todo>>
vars   == <<github, entries, deleting, admitting, tick>>

-----------------------------------------------------------------------------
\* Commits

Root == {}

\* The n-th head of p, on top of what b already contains.
HeadOn(b, p, n) == b \cup {<<"head", p, n>>}

\* The merge commit of kind k made for p of the commits b and h.
MergeOf(k, p, b, h) == b \cup h \cup {<<k, p, Cardinality(b)>>}

InitialHead(shape, p) == HeadOn({<<"head", q, 1>> : q \in shape.carries[p]}, p, 1)

IsAncestor(a, b) == a \subseteq b

\* git merge-base prints one best common ancestor; with a criss-cross history
\* there are several, and which of them it prints is not specified.
CommonAncestors(a, b) == {c \in DOMAIN ci : IsAncestor(c, a) /\ IsAncestor(c, b)}

MergeBases(a, b) ==
  {c \in CommonAncestors(a, b) : \A d \in CommonAncestors(a, b) : IsAncestor(c, d) => d = c}

\* A textual conflict is decided by whose changes meet in the merge.
Clashes(p, base, head) ==
  \E q \in PR : {p, q} \in Conflicts /\ \E a \in base \ head : a[2] = q

\* The object store gains the commit c; nothing has checked it yet.
Made(c) == [d \in DOMAIN ci \cup {c} |-> IF d \in DOMAIN ci THEN ci[d] ELSE "pending"]

-----------------------------------------------------------------------------
\* Rows of the store.  A patch is a record of the columns it sets.

Statuses == {"queued", "preparing_head", "validating", "merging"} \cup Terminal

\* { ...p, ...q }.  (The @@ of TLC, in a form whose definition can be used in
\* a proof.)
Spread(p, q) == [c \in DOMAIN p \cup DOMAIN q |-> IF c \in DOMAIN q THEN q[c] ELSE p[c]]

To(status) == [status |-> status]

ClearCandidate == [kind |-> "none", ref |-> FALSE, sha |-> Null, dep |-> Null]
CleanRef       == [ref |-> FALSE, dep |-> Null]
CleanCI        == [run |-> Null, retries |-> 0]

Reprepare == Spread(To("preparing_head"), Spread(CleanCI, ClearCandidate))

\* INVALIDATION_PATCH, always written together with preparing_head
Invalidation == Spread(Reprepare, [attempts |-> 0, failed |-> FALSE])

Supersede    == Spread(To("superseded"), Spread(CleanCI, ClearCandidate))
Merge        == Spread(To("merged"), CleanRef)
Evict(why)   == Spread(To("evicted"), Spread(CleanRef, [why |-> why]))
Rebase(base) == Spread(Invalidation, [status |-> "queued", base |-> base])

NewEntry(n, p, head, base, prio) ==
  [id |-> n, branch |-> p, head |-> head, base |-> base, status |-> "queued",
   prio |-> prio, kind |-> "none", ref |-> FALSE, sha |-> Null, dep |-> Null,
   run |-> Null, retries |-> 0, attempts |-> 0, failed |-> FALSE, why |-> "none"]

\* transition writes unconditionally; updateBaseRef alone re-reads the row and
\* leaves a terminal or an already rebased one as it is.
Written(row, patch) ==
  IF "base" \in DOMAIN patch /\ (~Active(row) \/ row.base = patch.base)
  THEN row ELSE Spread(row, patch)

Transition(es, n, patch) == [es EXCEPT ![n] = Written(es[n], patch)]

Invalidate(es, ids) ==
  [n \in DOMAIN es |-> IF n \in ids THEN Spread(es[n], Invalidation) ELSE es[n]]

\* The unique index over the active rows of a pull request: a write that
\* breaks it throws.
Unique(es) == \A n, m \in DOMAIN es :
  (Active(es[n]) /\ Active(es[m]) /\ es[n].branch = es[m].branch) => n = m

ListActive(es) == OrderActiveQueue(ActiveOf(es))

ActiveRows(p) == {n \in DOMAIN entries : entries[n].branch = p /\ Active(entries[n])}

-----------------------------------------------------------------------------
\* Initially every pull request is open, approved and green, and not queued.

Init ==
  /\ \E shape \in Shapes :
       /\ gh = [p \in PR |-> [state |-> "open", head |-> InitialHead(shape, p),
                              base |-> shape.base[p], ok |-> TRUE]]
       /\ ci = [c \in {Root} \cup {InitialHead(shape, p) : p \in PR} |-> "pass"]
  /\ main = Root
  /\ vouched = {} /\ refused = {}
  /\ ws = [p \in PR |-> Null]
  /\ hooks = {}
  /\ left = MaxDeeds
  /\ entries = <<>>
  /\ deleting = {} /\ admitting = Null
  /\ pc = "boot" /\ work = <<>> /\ nb = 0 /\ idx = 0 /\ snap = Null /\ todo = Null

-----------------------------------------------------------------------------
\* The tick: reconcile

IsHead == idx = nb + 1
IsBlocked == idx <= nb

Halt == pc' = "idle" /\ work' = <<>> /\ nb' = 0 /\ idx' = 0 /\ snap' = Null /\ todo' = Null

\* continue: on to the next id of the snapshot
Advance ==
  IF idx = Len(work) THEN Halt
  ELSE /\ pc' = "pick" /\ idx' = idx + 1 /\ snap' = Null /\ todo' = Null
       /\ UNCHANGED <<work, nb>>

\* The end of the loop body: it re-reads the row and stops the tick when the
\* entry left the queue.
NextEntry ==
  IF ~IsBlocked /\ entries'[snap.id].status \in {"evicted", "dequeued"}
  THEN Halt ELSE Advance

Skip == UNCHANGED entries /\ NextEntry   \* nothing to write

Goto(label) == pc' = label /\ UNCHANGED <<work, nb, idx, snap, todo>>

\* The tick has read all it needs: write `patch' to the row, reset `down',
\* go on as `tail' says.  cleanupCandidate deletes the ref of the row as read.
DecideThen(patch, down, tail, clean) ==
  /\ pc' = "apply"
  /\ todo' = [patch |-> patch, down |-> down, tail |-> tail, clean |-> clean /\ snap.ref,
              landing |-> FALSE]
  /\ UNCHANGED <<work, nb, idx, snap>>

Decide(patch)        == DecideThen(patch, {}, "next", FALSE)
DecideAndClean(patch) == DecideThen(patch, {}, "next", TRUE)

\* allActive and the index of the entry whose dependents are invalidated; an
\* index past the end throws, after the row was written.
Below(list, k)     == IF k \in DOMAIN list THEN SelectDownstream(list, list[k].id) ELSE {}
TailFor(list, k)   == IF k \in DOMAIN list THEN "next" ELSE "halt"
IndexOf(list, n)   == Last0({k \in DOMAIN list : list[k].id = n})
Dependents         == LET list == ListActive(entries) IN Below(list, IndexOf(list, snap.id))

\* The landing path passes index 0, whatever entry stands there.
DecideAtZero(patch, clean) ==
  \E list \in {ListActive(entries)} :
    DecideThen(patch, Below(list, 1), TailFor(list, 1), clean)

\* supersedeAdmittedHead
SupersedeThen(tail) == DecideThen(Supersede, Dependents, tail, TRUE)

TickStart ==
  /\ pc \in {"boot", "idle"}
  /\ \E list \in {ListActive(entries)} :
       LET upTo(ids) == SubSeq([k \in DOMAIN ids |-> ids[k].id], 1,
                               IF Len(ids) < Depth THEN Len(ids) ELSE Depth)
           blocked   == upTo(BlockedSchedule(list, entries))
       IN  /\ list # <<>>
           /\ work' = blocked \o upTo(ReadySchedule(list, entries))
           /\ nb' = Len(blocked)
  /\ pc' = "pick" /\ idx' = 1
  /\ UNCHANGED <<snap, todo, entries, deleting, admitting, github>>

\* getEntry, with null for an id the store does not have
Row(n) == IF n \in DOMAIN entries THEN entries[n] ELSE Null

\* The next id: its row as it is after the awaits of the one before.
Pick ==
  /\ pc = "pick"
  /\ IF Row(work[idx]) # Null /\ Active(entries[work[idx]])
     THEN pc' = "probe" /\ snap' = entries[work[idx]] /\ UNCHANGED <<work, nb, idx, todo>>
     ELSE Advance
  /\ UNCHANGED <<entries, deleting, admitting, github>>


Quiet == UNCHANGED <<entries, deleting, admitting, github>>

\* What GitHub shows against an entry whose PR is still open, if anything.
Moved(pr)    == pr.head # snap.head
Rebased(pr)  == ~Moved(pr) /\ pr.base # snap.base
Matches(pr)  == pr.state = "open" /\ ~Moved(pr) /\ ~Rebased(pr)

\* sanitizeEntry: GitHub's truth comes before anything else is done with the
\* entry.  A ready entry found out of date ends the tick.
Sanitize ==
  /\ pc = "probe"
  /\ LET pr   == gh[snap.branch]
         stop == IF IsBlocked THEN "next" ELSE "halt"
     IN  \/ pr.state = "merged" /\ DecideThen(Merge, {}, stop, TRUE)
         \/ pr.state # "merged" /\ Moved(pr) /\ SupersedeThen(stop)
         \/ pr.state # "merged" /\ Rebased(pr) /\ DecideThen(Rebase(pr.base), {}, stop, TRUE)
         \/ /\ pr.state = "closed" /\ ~Moved(pr) /\ ~Rebased(pr)
            /\ DecideThen(To("dequeued"), {}, stop, TRUE)
  /\ Quiet

Spend(deed) == deed \in Deeds /\ left > 0 /\ left' = left - 1

\* A failed probe does not block the tick: the entry is handled unseen.
SanitizeFails ==
  /\ pc = "probe" /\ Spend("outage") /\ Goto("unseen")
  /\ UNCHANGED <<gh, main, ci, vouched, refused, ws, hooks, entries, deleting, admitting>>

\* What follows the probe without another await.
Sane == \/ pc = "probe" /\ Matches(gh[snap.branch])
        \/ pc = "unseen"

\* A synchronous write of the loop body.
WriteNow(patch) ==
  LET es == Transition(entries, snap.id, patch) IN
  IF Unique(es) THEN entries' = es /\ NextEntry ELSE Halt /\ UNCHANGED entries

WaitForParent ==
  /\ Sane /\ IsBlocked
  /\ IF snap.sha # Null \/ snap.ref \/ snap.kind # "none"
     THEN DecideAndClean(Invalidation) /\ UNCHANGED entries
     ELSE \/ WriteNow(To(snap.status))   \* a new waitDetail
          \/ Skip
  /\ UNCHANGED <<deleting, admitting, github>>

\* (mutant of StaleDependency: a candidate outlives what it was built on)
DependencyIgnored == FALSE

StaleDependency ==
  snap.dep # Null /\ entries[snap.dep].status \in {"dequeued", "evicted", "superseded"}

DropStale ==
  /\ Sane /\ ~IsBlocked /\ StaleDependency
  /\ DecideAndClean(Invalidation) /\ Quiet

Dispatched(status) ==
  Sane /\ ~IsBlocked /\ ~StaleDependency /\ snap.status = status

Promote ==
  /\ Dispatched("queued")
  /\ WriteNow(To("preparing_head"))
  /\ UNCHANGED <<deleting, admitting, github>>

\* The row of the predecessor is read before the awaits, too.
StartPrepare ==
  /\ Dispatched("preparing_head")
  /\ pc' = "prepare"
  /\ todo' = IF IsHead THEN Null ELSE Row(work[idx - 1])
  /\ UNCHANGED <<work, nb, idx, snap>>
  /\ Quiet

\* The queue is read again; its index falls back to the loop's when the entry
\* has left it meanwhile.
StartValidation ==
  /\ Dispatched("validating")
  /\ pc' = IF snap.ref THEN "refresh" ELSE "checks"
  /\ \E list \in {ListActive(entries)} :
       LET own   == IndexOf(list, snap.id)
           k     == IF own = 0 THEN idx - nb ELSE own
           ready == ReadySchedule(list, entries)
       IN  todo' = [patch |-> <<>>, down |-> Below(list, k), tail |-> TailFor(list, k),
                    clean |-> FALSE, landing |-> ready # <<>> /\ ready[1].id = snap.id]
  /\ UNCHANGED <<work, nb, idx, snap>>
  /\ Quiet

StartMerge ==
  /\ Dispatched("merging")
  /\ IF IsHead THEN Goto("merge") /\ UNCHANGED entries ELSE Skip
  /\ UNCHANGED <<deleting, admitting, github>>

-----------------------------------------------------------------------------
\* prepareEntry

Prev == todo

\* The predecessor's candidate failed or does not contain its head yet.
PredecessorAwaitsRepair ==
  /\ Prev # Null /\ Prev.sha # Null
  /\ (Prev.failed /\ Prev.run # Null) \/ ~IsAncestor(Prev.head, Prev.sha)

Base == IF IsHead THEN main ELSE IF Prev = Null THEN Null ELSE Prev.sha
Dep  == IF IsHead THEN Null ELSE Prev.id

\* findUnlandedOpenPrAncestors: open PRs that are neither declared nor visible
\* children of p may share history with the candidate that main does not have.
Suspects(p, head) ==
  {q \in PR \ {p} : /\ gh[q].state = "open"
                    /\ gh[q].base # p
                    /\ gh[q].head = head \/ ~IsAncestor(head, gh[q].head)}

MayBlock(p, head, cand) ==
  \E q \in Suspects(p, head) : \E m \in MergeBases(gh[q].head, cand) : ~IsAncestor(m, main)

\* (mutant of MayClear: no ancestry gate)
AlwaysClears(p, head, cand) == TRUE

MayClear(p, head, cand) ==
  \A q \in Suspects(p, head) : \E m \in MergeBases(gh[q].head, cand) : IsAncestor(m, main)

PrepareWaits ==
  /\ pc = "prepare"
  /\ \/ PredecessorAwaitsRepair /\ WriteNow(To("preparing_head"))
     \/ (PredecessorAwaitsRepair \/ Base = Null) /\ Skip
  /\ UNCHANGED <<deleting, admitting, github>>

Preparing == pc = "prepare" /\ ~PredecessorAwaitsRepair /\ Base # Null

PrepareMoved ==
  /\ Preparing /\ Moved(gh[snap.branch])
  /\ SupersedeThen("next") /\ Quiet

PrepareBlocked ==
  /\ Preparing /\ ~Moved(gh[snap.branch]) /\ IsHead
  /\ MayBlock(snap.branch, snap.head, snap.head)
  /\ DecideAndClean(Evict("policy_blocked")) /\ Quiet

PrepareAllowed ==
  /\ Preparing /\ ~Moved(gh[snap.branch])
  /\ IsHead => MayClear(snap.branch, snap.head, snap.head)

Contained == Base # snap.head /\ IsAncestor(snap.head, Base)

\* GitHub has not recognized the merge yet: wait for sanitizeEntry to see it.
PrepareContained ==
  /\ PrepareAllowed /\ Contained
  /\ \/ Decide(Reprepare)                 \* a new waitDetail
     \/ Skip
  /\ Quiet

Selected(kind, ref, sha) ==
  [status |-> "validating", kind |-> kind, ref |-> ref, sha |-> sha, dep |-> Dep]

PrepareHeadCandidate ==
  /\ PrepareAllowed /\ ~Contained /\ IsAncestor(Base, snap.head)
  /\ Decide(Spread(CleanCI, Selected("head", FALSE, snap.head)))
  /\ Quiet

Building == PrepareAllowed /\ ~Contained /\ ~IsAncestor(Base, snap.head)

\* On a conflict the workspace is published at its base, for PatchRelay.
PrepareConflict ==
  /\ Building /\ Clashes(snap.branch, Base, snap.head)
  /\ ws' = [ws EXCEPT ![snap.branch] = Base]
  /\ Decide(Spread(Spread(CleanCI, [failed |-> TRUE]), Selected("integration", TRUE, Base)))
  /\ UNCHANGED <<entries, deleting, admitting, gh, main, ci, vouched, refused, hooks, left>>

PrepareIntegration ==
  /\ Building /\ ~Clashes(snap.branch, Base, snap.head)
  /\ LET c == MergeOf("merge", snap.branch, Base, snap.head) IN
       /\ ci' = Made(c)
       /\ ws' = [ws EXCEPT ![snap.branch] = c]
       /\ Decide(Spread([run |-> c, failed |-> FALSE], Selected("integration", TRUE, c)))
  /\ UNCHANGED <<entries, deleting, admitting, gh, main, vouched, refused, hooks, left>>

\* git fails while building: the head is evicted, another entry rebuilds
\* together with its predecessor.
PrepareFails ==
  /\ Building /\ Spend("git")
  /\ IF IsHead
     THEN DecideAndClean(Evict("branch_local")) /\ UNCHANGED entries
     ELSE LET one == Transition(entries, Prev.id, Reprepare)
              two == Transition(one, snap.id, Reprepare)
          IN  IF Unique(one) /\ Unique(two)
              THEN entries' = two /\ NextEntry
              ELSE /\ entries' = IF Unique(one) THEN one ELSE entries
                   /\ Halt
  /\ UNCHANGED <<deleting, admitting, gh, main, ci, vouched, refused, ws, hooks>>

-----------------------------------------------------------------------------
\* checkValidation

DecideChecked(patch, down, tail) ==
  /\ pc' = "apply"
  /\ todo' = [todo EXCEPT !.patch = patch, !.down = down, !.tail = tail]
  /\ UNCHANGED <<work, nb, idx, snap>>

\* refreshIntegrationWorkspace: the live ref of the candidate against the
\* recorded candidate and against the base it has to extend.
Live == ws[snap.branch]

Expected ==
  IF snap.dep # Null /\ entries[snap.dep].status # "merged"
  THEN entries[snap.dep].sha ELSE main

OffBase == Expected # Null => ~IsAncestor(Expected, Live)

RefreshWorkspace ==
  /\ pc = "refresh"
  /\ \/ Live = Null /\ Halt          \* rev-parse of a missing ref throws
     \/ Live # Null /\ OffBase /\ DecideChecked(Reprepare, todo.down, todo.tail)
     \/ Live # Null /\ ~OffBase /\ Live = snap.sha /\ Goto("checks")
     \/ /\ Live # Null /\ ~OffBase /\ Live # snap.sha
        /\ DecideChecked([status |-> "validating", run |-> Null, retries |-> 0,
                          kind |-> "integration_repair", ref |-> TRUE, sha |-> Live,
                          dep |-> snap.dep, failed |-> TRUE],
                         todo.down, "checks")
  /\ Quiet

Candidate == IF snap.sha = Null THEN snap.head ELSE snap.sha

\* (mutant of Unrepaired: the published base counts as a candidate)
RepairAssumed == FALSE

Unrepaired == snap.ref /\ ~IsAncestor(snap.head, Candidate)

\* A failed candidate with a run: its exact commit is read again, in case an
\* operator reran it.
AwaitsRerun == snap.ref /\ snap.failed /\ snap.run # Null

OnHead == ~AwaitsRerun /\ snap.kind = "head"

\* The verdict the branch of checkValidation goes by.  A run id other than
\* "sha:<sha>" names no commit: its status never settles.
Reading ==
  IF AwaitsRerun \/ OnHead \/ snap.run = Null THEN ci[Candidate]
  ELSE IF snap.run = HeadRun THEN "pending"
  ELSE ci[snap.run]

Checking == pc = "checks" /\ ~Unrepaired

\* (mutant of Accept: green is enough, also for a repaired candidate)
AcceptUnreviewed ==
  IF todo.landing THEN Decide([status |-> "merging", failed |-> FALSE]) ELSE Skip

\* acceptPassingIntegrationCandidate
Accept ==
  \/ /\ snap.kind = "integration_repair" /\ snap.sha \notin vouched \cup refused
     /\ Decide(To("validating"))
  \/ /\ snap.kind = "integration_repair" /\ snap.sha \in refused
     /\ DecideThen(Evict("feature_changed"), todo.down, todo.tail, TRUE)
  \/ /\ snap.kind = "integration_repair" => snap.sha \in vouched \ refused
     /\ IF todo.landing THEN Decide([status |-> "merging", failed |-> FALSE])
        ELSE IF snap.failed THEN Decide([status |-> "validating", failed |-> FALSE])
        ELSE Skip

ChecksWait ==
  /\ pc = "checks"
  /\ \/ Unrepaired /\ Skip
     \/ ~Unrepaired /\ AwaitsRerun /\ Reading = "fail" /\ Skip
     \/ ~Unrepaired /\ AwaitsRerun /\ Reading = "pending" /\ Decide(To("validating"))
     \/ ~Unrepaired /\ ~AwaitsRerun /\ Reading = "pending" /\ Skip
     \/ \* no check run exists yet
        /\ ~Unrepaired /\ ~AwaitsRerun /\ ~OnHead /\ snap.run = Null /\ Reading = "pending"
        /\ Decide([status |-> "validating", run |-> Candidate])
  /\ Quiet

ChecksPass ==
  /\ Checking /\ Reading = "pass"
  /\ IF OnHead
     THEN IF todo.landing THEN Decide(To("merging")) ELSE Skip
     ELSE Accept
  /\ Quiet

\* holdForIntegrationRepair
Hold ==
  /\ ws' = IF snap.ref THEN ws ELSE [ws EXCEPT ![snap.branch] = Candidate]
  /\ DecideChecked([status |-> "validating",
                    kind |-> IF snap.kind = "integration_repair" THEN snap.kind ELSE "integration",
                    run |-> IF snap.run = Null THEN HeadRun ELSE snap.run,
                    ref |-> TRUE, sha |-> Candidate, dep |-> snap.dep, failed |-> TRUE],
                   todo.down, todo.tail)

MayRerun == (OnHead \/ snap.run # Null) /\ snap.retries < FlakyRetries

ChecksFail ==
  /\ Checking /\ Reading = "fail" /\ ~AwaitsRerun /\ ~MayRerun
  /\ Hold
  /\ UNCHANGED <<entries, deleting, admitting, gh, main, ci, vouched, refused, hooks, left>>

\* requestBoundedRerun, when GitHub accepts the rerun and when it does not
Rerun ==
  /\ Checking /\ Reading = "fail" /\ ~AwaitsRerun /\ MayRerun
  /\ ci' = [ci EXCEPT ![Candidate] = "pending"]
  /\ Decide([status |-> "validating", run |-> Candidate, retries |-> snap.retries + 1])
  /\ UNCHANGED <<entries, deleting, admitting, gh, main, vouched, refused, ws, hooks, left>>

RerunUnavailable ==
  /\ Checking /\ Reading = "fail" /\ ~AwaitsRerun /\ MayRerun
  /\ "reject" \in Deeds
  /\ IF snap.retries + 1 >= FlakyRetries
     THEN Hold
     ELSE /\ Decide([status |-> "validating", retries |-> snap.retries + 1])
          /\ UNCHANGED ws
  /\ UNCHANGED <<entries, deleting, admitting, gh, main, ci, vouched, refused, hooks, left>>


-----------------------------------------------------------------------------
\* mergeHead

\* (mutant of HasCandidate: the status is trusted)
CandidateAssumed == TRUE

HasCandidate == snap.kind = "head" \/ (snap.ref /\ snap.sha # Null)

\* PR truth is read first and, after all other checks, once more; the two
\* reads differ only in when a missing approval is looked at.
Revalidate ==
  /\ pc \in {"merge", "gate"}
  /\ LET pr      == gh[snap.branch]
         first   == pc = "merge"
         open    == pr.state = "open"
         waiting == ~pr.ok /\ (first \/ Matches(pr))
     IN  \/ pr.state = "merged" /\ DecideAndClean(Merge)
         \/ pr.state = "closed" /\ DecideAtZero(Spread(To("dequeued"), CleanRef), TRUE)
         \/ open /\ waiting /\ Decide(To("merging"))
         \/ open /\ ~waiting /\ Moved(pr) /\ SupersedeThen("next")
         \/ open /\ ~waiting /\ Rebased(pr) /\ DecideAtZero(Rebase(pr.base), TRUE)
         \/ /\ open /\ ~waiting /\ Matches(pr) /\ first
            /\ IF HasCandidate THEN Goto("land") ELSE Decide(Reprepare)
  /\ Quiet

FastForward == IsAncestor(main, snap.sha)

\* (mutants of Land: the verdict of the validation is trusted; a candidate main
\* has left behind is kept)
LandUnchecked ==
  /\ pc = "land"
  /\ IF FastForward THEN Goto("gate") ELSE DecideAtZero(Reprepare, FALSE)
  /\ Quiet

LandPatiently ==
  /\ pc = "land"
  /\ IF ci[snap.sha] = "pass" /\ FastForward THEN Goto("gate") ELSE Decide(To("merging"))
  /\ Quiet

\* Main, policy and checks; the approval read is the next one.
Land ==
  /\ pc = "land"
  /\ \/ ci[snap.sha] # "pass" /\ Decide(To("validating"))
     \/ ci[snap.sha] = "pass" /\ ~FastForward /\ DecideAtZero(Reprepare, FALSE)
     \/ ci[snap.sha] = "pass" /\ FastForward /\ Goto("gate")
  /\ Quiet

\* The last reads before the push: main again, then the open PRs.
Gate ==
  /\ pc = "gate" /\ Matches(gh[snap.branch]) /\ gh[snap.branch].ok
  /\ \/ ~FastForward /\ DecideAtZero(Reprepare, FALSE)
     \/ /\ FastForward /\ MayBlock(snap.branch, snap.head, snap.sha)
        /\ DecideThen(Evict("policy_blocked"), Dependents, "next", TRUE)
     \/ /\ FastForward /\ MayClear(snap.branch, snap.head, snap.sha)
        /\ Goto("push")
  /\ Quiet

RevalidationFails ==
  /\ pc \in {"land", "gate"} /\ Spend("outage")
  /\ Decide(IF snap.kind = "head" THEN Reprepare ELSE To("validating"))
  /\ UNCHANGED <<gh, main, ci, vouched, refused, ws, hooks, entries, deleting, admitting>>

\* The immutable push. GitHub takes it when it fast-forwards main.
Push ==
  /\ pc = "push" /\ FastForward
  /\ main' = snap.sha
  /\ DecideThen(Merge, {}, "retire", TRUE)
  /\ UNCHANGED <<entries, deleting, admitting, gh, ci, vouched, refused, ws, hooks, left>>

\* (mutant of PushOverrun: the failure of the push is swallowed)
OverrunIgnored ==
  /\ pc = "push" /\ ~FastForward
  /\ DecideThen(Merge, {}, "next", TRUE)
  /\ Quiet

PushOverrun ==
  /\ pc = "push" /\ ~FastForward
  /\ IF snap.attempts >= MaxRetries
     THEN DecideAtZero(Evict("integration_conflict"), TRUE)
     ELSE DecideAtZero(Spread(Reprepare, [attempts |-> snap.attempts + 1]), FALSE)
  /\ Quiet

\* (mutant of PushRejected: the attempts are counted without end)
RejectedForEver ==
  /\ pc = "push" /\ FastForward /\ Spend("reject")
  /\ \/ Decide([status |-> "merging", attempts |-> snap.attempts + 1])
     \/ DecideAtZero(Reprepare, FALSE)
  /\ UNCHANGED <<gh, main, ci, vouched, refused, ws, hooks, entries, deleting, admitting>>

\* Protection, permission or a timeout rejects it: with the protection rules
\* changed the entry is prepared again, otherwise the candidate is kept.
PushRejected ==
  /\ pc = "push" /\ FastForward /\ Spend("reject")
  /\ \/ Decide([status |-> "merging",
                attempts |-> IF snap.attempts < MaxRetries THEN snap.attempts + 1
                                                           ELSE MaxRetries])
     \/ DecideAtZero(Reprepare, FALSE)
  /\ UNCHANGED <<gh, main, ci, vouched, refused, ws, hooks, entries, deleting, admitting>>

\* deletePrBranchAfterGitHubMarksMerged: open children are retargeted before
\* their parent's branch goes; the poll gives up after a while.
Retire ==
  /\ pc = "retire"
  /\ \/ /\ gh[snap.branch].state = "merged"
        /\ gh' = [q \in PR |-> IF gh[q].state = "open" /\ gh[q].base = snap.branch
                               THEN [gh[q] EXCEPT !.base = Main] ELSE gh[q]]
     \/ UNCHANGED gh
  /\ UNCHANGED <<entries, deleting, admitting, main, ci, vouched, refused, ws, hooks, left>>
  /\ NextEntry

-----------------------------------------------------------------------------
\* The writes at the end of a handler

Cleared(refs) == [p \in PR |-> IF p \in refs THEN Null ELSE ws[p]]

\* Go on after the last write of the handler.
Resume(tail) ==
  CASE tail = "halt"   -> Halt
    [] tail = "retire" -> Goto("retire")
    [] tail = "next"   -> NextEntry
    [] tail = "checks" -> /\ pc' = "checks" /\ snap' = entries'[snap.id]
                          /\ UNCHANGED <<work, nb, idx, todo>>

Apply ==
  /\ pc = "apply"
  /\ LET es == Transition(entries, snap.id, todo.patch) IN
       /\ Unique(es)
       /\ entries' = es
  /\ ws' = Cleared(IF todo.clean THEN {snap.branch} ELSE {})
  /\ IF todo.down = {} THEN Resume(todo.tail) ELSE Goto("cascade")
  /\ UNCHANGED <<deleting, admitting, gh, main, ci, vouched, refused, hooks, left>>

\* The entry was retired while the tick awaited and its pull request has been
\* queued again: the unique index refuses to make the old row active.
ApplyThrows ==
  /\ pc = "apply" /\ ~Unique(Transition(entries, snap.id, todo.patch))
  /\ ws' = Cleared(IF todo.clean THEN {snap.branch} ELSE {})
  /\ Halt
  /\ UNCHANGED <<entries, deleting, admitting, gh, main, ci, vouched, refused, hooks, left>>

RefsOf(ids) == {entries[n].branch : n \in {m \in DOMAIN entries : m \in ids /\ entries[m].ref}}

\* invalidateDownstream
Cascade ==
  /\ pc = "cascade"
  /\ ws' = Cleared(RefsOf(todo.down))
  /\ LET es == Invalidate(entries, todo.down) IN
     IF Unique(es) THEN entries' = es /\ Resume(todo.tail) ELSE Halt /\ UNCHANGED entries
  /\ UNCHANGED <<deleting, admitting, gh, main, ci, vouched, refused, hooks, left>>

\* A read or a git command of the handler throws: the tick fails.
TickFails ==
  /\ pc \in {"prepare", "refresh", "checks", "merge"} /\ Spend("outage") /\ Halt
  /\ UNCHANGED <<gh, main, ci, vouched, refused, ws, hooks, entries, deleting, admitting>>

\* The process dies.  Any of the ref deletions under way may be done.
Crash ==
  /\ pc # "boot" /\ Spend("crash")
  /\ LET doomed == deleting
             \cup (IF pc = "apply" THEN IF todo.clean THEN {snap.branch} ELSE {} ELSE {})
             \cup (IF pc = "cascade" THEN RefsOf(todo.down) ELSE {})
     IN  \E gone \in SUBSET doomed : ws' = Cleared(gone)
  /\ pc' = "boot" /\ work' = <<>> /\ nb' = 0 /\ idx' = 0 /\ snap' = Null /\ todo' = Null
  /\ deleting' = {} /\ admitting' = Null
  /\ UNCHANGED <<entries, gh, main, ci, vouched, refused, hooks>>

-----------------------------------------------------------------------------
\* Admission: scanEligibleOpenPrs and the review and check webhooks

LatestEvicted(p) == Last0({n \in DOMAIN entries : entries[n].branch = p
                                                  /\ entries[n].status = "evicted"})

\* An evicted head is not taken again, except that the scan at startup reads
\* evictions on environment again.
Admissible(p) ==
  LET n == LatestEvicted(p) IN
  /\ ActiveRows(p) = {}
  /\ n # 0 => \/ entries[n].head # gh[p].head
              \/ pc = "boot" /\ entries[n].why = "policy_blocked"

AdmitStart(p) ==
  /\ admitting = Null /\ Len(entries) < MaxEntries
  /\ Admissible(p)
  /\ gh[p].ok /\ ci[gh[p].head] = "pass"
  /\ admitting' = [pr |-> p, head |-> gh[p].head, base |-> gh[p].base]
  /\ UNCHANGED <<entries, deleting, tick, github>>

\* A stacked PR is taken only while its parent is queued; a duplicate is not.
AdmitFinish ==
  /\ admitting # Null
  /\ LET p == admitting.pr IN
     entries' = IF /\ ActiveRows(p) = {}
                   /\ admitting.base = Main \/ ActiveRows(admitting.base) # {}
                THEN Append(entries, NewEntry(Len(entries) + 1, p, admitting.head,
                                              admitting.base, 0))
                ELSE entries
  /\ admitting' = Null
  /\ UNCHANGED <<deleting, tick, github>>

\* POST /queue/enqueue: no review, no checks, no base, a priority.
OperatorEnqueue(p, prio) ==
  /\ Len(entries) < MaxEntries - (IF admitting = Null THEN 0 ELSE 1)
  /\ ActiveRows(p) = {}
  /\ Spend("enqueue")
  /\ entries' = Append(entries, NewEntry(Len(entries) + 1, p, gh[p].head, Main, prio))
  /\ UNCHANGED <<deleting, admitting, tick, gh, main, ci, vouched, refused, ws, hooks>>

-----------------------------------------------------------------------------
\* Webhook and operator commands: synchronous but for the ref deletions

\* transition, then invalidateDownstreamOf
Retired(n, patch, own) ==
  \E es \in {Transition(entries, n, patch)} :
    \E down \in {SelectDownstream(ListActive(es), n)} :
      /\ entries' = Invalidate(es, down)
      /\ deleting' = deleting \cup RefsOf(down) \cup own

\* updateHeadByPR, dequeueByPR, acknowledgeExternalMerge
Handle(hook) ==
  LET row(n) == entries[n] IN
  \/ \E n \in ActiveRows(hook.branch) :
       CASE hook.type = "synchronize" -> /\ row(n).head # hook.head
                                         /\ Retired(n, Supersede, RefsOf({n}))
         [] hook.type = "closed"      -> Retired(n, To("dequeued"), {})
         [] hook.type = "merged"      -> Retired(n, To("merged"), {})
  \/ /\ \/ ActiveRows(hook.branch) = {}
        \/ hook.type = "synchronize" /\ \E n \in ActiveRows(hook.branch) : row(n).head = hook.head
     /\ UNCHANGED <<entries, deleting>>

\* Deliveries arrive in any order.
Deliver ==
  \E hook \in hooks :
    /\ hooks' = hooks \ {hook}
    /\ Handle(hook)
    /\ UNCHANGED <<admitting, tick, gh, main, ci, vouched, refused, ws, left>>

Lose ==
  \E hook \in hooks :
    /\ hooks' = hooks \ {hook} /\ Spend("lose")
    /\ UNCHANGED <<entries, deleting, admitting, tick, gh, main, ci, vouched, refused, ws>>

\* DELETE /queue/entries/:id
OperatorDequeue(p) ==
  /\ Spend("dequeue")
  /\ \E n \in ActiveRows(p) : Retired(n, To("dequeued"), {})
  /\ UNCHANGED <<admitting, tick, gh, main, ci, vouched, refused, ws, hooks>>

\* deleteSpeculative, fire and forget, gets through.
FinishDelete(p) ==
  /\ p \in deleting
  /\ deleting' = deleting \ {p}
  /\ ws' = Cleared({p})
  /\ UNCHANGED <<entries, admitting, tick, gh, main, ci, vouched, refused, hooks, left>>


-----------------------------------------------------------------------------
\* The world: GitHub, CI, PatchRelay, Review Quill and humans (external)

Still == UNCHANGED <<entries, deleting, admitting, tick>>

Hook(type, p, head) == hooks' = hooks \cup {[type |-> type, branch |-> p, head |-> head]}

Reheaded(p, head) ==
  /\ gh' = [gh EXCEPT ![p].head = head, ![p].ok = FALSE]
  /\ ci' = Made(head)
  /\ Hook("synchronize", p, head)

\* A new commit on top of the branch, or the branch rebased on main.
PushHead(p) ==
  /\ gh[p].state = "open" /\ Spend("push")
  /\ LET n == MaxDeeds - left + 2 IN
     \E b \in {gh[p].head, main} : Reheaded(p, HeadOn(b, p, n))
  /\ Still /\ UNCHANGED <<main, vouched, refused, ws>>

\* The "Update branch" button: main is merged into the branch.
UpdateBranch(p) ==
  /\ gh[p].state = "open" /\ ~IsAncestor(main, gh[p].head) /\ Spend("update")
  /\ Reheaded(p, MergeOf("github", p, main, gh[p].head))
  /\ Still /\ UNCHANGED <<main, vouched, refused, ws>>

\* An approval counts for the head it was given on.
Approve(p) ==
  /\ gh[p].state = "open" /\ ~gh[p].ok
  /\ gh' = [gh EXCEPT ![p].ok = TRUE]
  /\ Still /\ UNCHANGED <<main, ci, vouched, refused, ws, hooks, left>>

Revoke(p) ==
  /\ gh[p].state = "open" /\ gh[p].ok /\ Spend("revoke")
  /\ gh' = [gh EXCEPT ![p].ok = FALSE]
  /\ Still /\ UNCHANGED <<main, ci, vouched, refused, ws, hooks>>

Close(p) ==
  /\ gh[p].state = "open" /\ Spend("close")
  /\ gh' = [gh EXCEPT ![p].state = "closed"]
  /\ Hook("closed", p, gh[p].head)
  /\ Still /\ UNCHANGED <<main, ci, vouched, refused, ws>>

Retarget(p, base) ==
  /\ gh[p].state = "open" /\ gh[p].base # base /\ base # p /\ Spend("retarget")
  /\ gh' = [gh EXCEPT ![p].base = base]
  /\ Still /\ UNCHANGED <<main, ci, vouched, refused, ws, hooks>>

\* Somebody presses the merge button.
ExternalMerge(p) ==
  /\ gh[p].state = "open" /\ gh[p].base = Main /\ Spend("merge")
  /\ ~IsAncestor(gh[p].head, main) /\ ~Clashes(p, main, gh[p].head)
  /\ LET c == MergeOf("github", p, main, gh[p].head) IN main' = c /\ ci' = Made(c)
  /\ gh' = [gh EXCEPT ![p].state = "merged"]
  /\ Hook("merged", p, gh[p].head)
  /\ Still /\ UNCHANGED <<vouched, refused, ws>>

\* Somebody pushes the head of a pull request straight to main.
DirectPush(p) ==
  /\ IsAncestor(main, gh[p].head) /\ main # gh[p].head /\ Spend("direct")
  /\ main' = gh[p].head
  /\ Still /\ UNCHANGED <<gh, ci, vouched, refused, ws, hooks>>

\* A stacked pull request is merged into its parent's branch.
MergeIntoParent(p) ==
  /\ gh[p].state = "open" /\ gh[p].base # Main /\ Spend("merge")
  /\ LET q == gh[p].base
         c == MergeOf("github", p, gh[q].head, gh[p].head)
     IN  /\ gh[q].state = "open"
         /\ ~IsAncestor(gh[p].head, gh[q].head) /\ ~Clashes(p, gh[q].head, gh[p].head)
         /\ gh' = [gh EXCEPT ![p].state = "merged", ![q].head = c, ![q].ok = FALSE]
         /\ ci' = Made(c)
         /\ hooks' = hooks \cup {[type |-> "merged", branch |-> p, head |-> gh[p].head],
                                 [type |-> "synchronize", branch |-> q, head |-> c]}
  /\ Still /\ UNCHANGED <<main, vouched, refused, ws>>

\* GitHub notices that main contains the head of a pull request against it.
MarkMerged(p) ==
  /\ gh[p].state = "open" /\ gh[p].base = Main /\ IsAncestor(gh[p].head, main)
  /\ gh' = [gh EXCEPT ![p].state = "merged"]
  /\ Hook("merged", p, gh[p].head)
  /\ Still /\ UNCHANGED <<main, ci, vouched, refused, ws, left>>

\* The required checks of a commit conclude.
Conclude(c) ==
  /\ c \in DOMAIN ci /\ ci[c] = "pending"
  /\ \/ ci' = [ci EXCEPT ![c] = "pass"] /\ UNCHANGED left
     \/ ci' = [ci EXCEPT ![c] = "fail"] /\ Spend("red")
  /\ Still /\ UNCHANGED <<gh, main, vouched, refused, ws, hooks>>

\* Somebody reruns the workflow of a commit in place.  What is rerun between the
\* last look of the tick at the checks and its push, nothing could still see.
RerunByHand(c) ==
  /\ c \in DOMAIN ci /\ ci[c] # "pending" /\ Spend("rerun")
  /\ pc \notin {"gate", "push"}
  /\ ci' = [ci EXCEPT ![c] = "pending"]
  /\ Still /\ UNCHANGED <<gh, main, vouched, refused, ws, hooks>>

\* PatchRelay pushes a repair on top of the published workspace: it merges the
\* head where that conflicted, or it adds a fix to a red candidate.
Repair(p) ==
  /\ ws[p] # Null /\ Spend("repair")
  /\ ~IsAncestor(gh[p].head, ws[p]) \/ ci[ws[p]] = "fail"
  /\ LET c == MergeOf("repair", p, ws[p], gh[p].head) IN
       ci' = Made(c) /\ ws' = [ws EXCEPT ![p] = c]
  /\ Still /\ UNCHANGED <<gh, main, vouched, refused, hooks>>

\* Review Quill's review-quill/integration check on a repaired candidate.
Vouch(p) ==
  /\ ws[p] # Null /\ ws[p] \notin vouched \cup refused
  /\ \E a \in ws[p] : a[1] = "repair" /\ a[2] = p
  /\ vouched' = vouched \cup {ws[p]}
  /\ Still /\ UNCHANGED <<gh, main, ci, refused, ws, hooks, left>>

\* It may also refuse, at first or when asked again.
Refuse(p) ==
  /\ ws[p] # Null /\ ws[p] \notin refused /\ Spend("refuse")
  /\ \E a \in ws[p] : a[1] = "repair" /\ a[2] = p
  /\ refused' = refused \cup {ws[p]}
  /\ Still /\ UNCHANGED <<gh, main, ci, vouched, ws, hooks>>

-----------------------------------------------------------------------------
Tick ==
  \/ TickStart \/ Pick \/ Sanitize \/ SanitizeFails
  \/ WaitForParent \/ DropStale \/ Promote \/ StartPrepare \/ StartValidation \/ StartMerge
  \/ PrepareWaits \/ PrepareMoved \/ PrepareBlocked \/ PrepareContained
  \/ PrepareHeadCandidate \/ PrepareConflict \/ PrepareIntegration \/ PrepareFails
  \/ RefreshWorkspace \/ ChecksWait \/ ChecksPass \/ ChecksFail \/ Rerun \/ RerunUnavailable
  \/ Revalidate \/ Land \/ Gate \/ RevalidationFails
  \/ Push \/ PushOverrun \/ PushRejected \/ Retire
  \/ Apply \/ ApplyThrows \/ Cascade \/ TickFails

Commands ==
  \/ \E p \in PR : \/ AdmitStart(p) \/ OperatorDequeue(p) \/ FinishDelete(p)
                   \/ \E prio \in {0, 1} : OperatorEnqueue(p, prio)
  \/ AdmitFinish \/ Deliver

World ==
  \/ \E p \in PR : \/ PushHead(p) \/ UpdateBranch(p) \/ Approve(p) \/ Revoke(p) \/ Close(p)
                   \/ ExternalMerge(p) \/ MergeIntoParent(p) \/ DirectPush(p) \/ MarkMerged(p)
                   \/ Repair(p) \/ Vouch(p) \/ Refuse(p)
                   \/ \E base \in PR \cup {Main} : Retarget(p, base)
  \/ \E c \in DOMAIN ci : Conclude(c) \/ RerunByHand(c)
  \/ Lose

Next == Tick \/ Commands \/ World \/ Crash

Spec == Init /\ [][Next]_vars

\* What was begun is brought to its end: admissions, deletions, deliveries,
\* checks, reviews and GitHub noticing a merge.
Answer ==
  \/ AdmitFinish \/ Deliver
  \/ \E c \in DOMAIN ci : Conclude(c)
  \/ \E p \in PR : FinishDelete(p) \/ MarkMerged(p) \/ Approve(p) \/ Vouch(p)

\* The service ticks on a timer, and the answers come.  There are only finitely
\* many answers to any finite number of requests, so none of them is starved.
Fairness == WF_vars(Tick) /\ WF_vars(Answer)

FairSpec == Spec /\ Fairness

-----------------------------------------------------------------------------
\* Types

Objects == DOMAIN ci
Ids     == DOMAIN entries

\* The columns of a row when O are the commits there are and N the rows.
Type(O, N) ==
  [id |-> N, branch |-> PR, head |-> O, base |-> PR \cup {Main},
   status |-> Statuses, prio |-> Nat,
   kind |-> {"none", "head", "integration", "integration_repair"},
   ref |-> BOOLEAN, sha |-> O \cup {Null}, dep |-> N \cup {Null},
   run |-> O \cup {Null, HeadRun},
   retries |-> 0..FlakyRetries, attempts |-> 0..MaxRetries,
   failed |-> BOOLEAN,
   why |-> {"none", "branch_local", "integration_conflict", "feature_changed",
            "policy_blocked"}]

Columns == {"id", "branch", "head", "base", "status", "prio", "kind", "ref", "sha", "dep",
            "run", "retries", "attempts", "failed", "why"}
Fixed   == {"id", "branch", "head", "prio"}

\* The kind of a candidate is written together with its commit.
HasCommit(O, p) ==
  /\ "kind" \in DOMAIN p <=> "sha" \in DOMAIN p
  /\ "kind" \in DOMAIN p /\ p.kind = "head" => p.sha \in O

IsRow(O, N, e) ==
  DOMAIN e = Columns /\ (\A c \in Columns : e[c] \in Type(O, N)[c]) /\ HasCommit(O, e)

IsPatch(O, N, p) ==
  /\ DOMAIN p \subseteq Columns \ Fixed
  /\ \A c \in DOMAIN p : p[c] \in Type(O, N)[c]
  /\ HasCommit(O, p)

WorldOK ==
  /\ gh \in [PR -> [state : {"open", "closed", "merged"}, head : Objects,
                    base : PR \cup {Main}, ok : BOOLEAN]]
  /\ ci \in [Objects -> {"pending", "pass", "fail"}]
  /\ main \in Objects
  /\ vouched \subseteq Objects /\ refused \subseteq Objects
  /\ ws \in [PR -> Objects \cup {Null}]
  /\ hooks \subseteq [type : {"synchronize", "closed", "merged"}, branch : PR, head : Objects]
  /\ left \in 0..MaxDeeds

\* A table of rows; the position of a row is its id.
IsStore(O, es) ==
  /\ es \in Seq(Range(es))
  /\ \A n \in DOMAIN es : IsRow(O, DOMAIN es, es[n]) /\ es[n].id = n

StoreOK ==
  /\ IsStore(Objects, entries)
  /\ deleting \subseteq PR
  /\ admitting \in [pr : PR, head : Objects, base : PR \cup {Main}] \cup {Null}

Busy == {"probe", "unseen", "prepare", "refresh", "checks", "merge", "land", "gate",
         "push", "retire", "apply", "cascade"}

TickOK ==
  /\ pc \in Busy \cup {"boot", "idle", "pick"}
  /\ pc \in Busy => IsRow(Objects, Ids, snap)
  /\ pc \in {"land", "gate", "push"} => snap.sha \in Objects
  /\ pc = "prepare" => todo = Null \/ IsRow(Objects, Ids, todo)
  /\ pc \in {"refresh", "checks", "apply", "cascade"} =>
       /\ DOMAIN todo = {"patch", "down", "tail", "clean", "landing"}
       /\ IsPatch(Objects, Ids, todo.patch)
       /\ todo.tail \in {"next", "halt", "retire", "checks"}

\* Everything that is stored refers to what exists: rows, the tick's stale
\* copies of them and what it is about to write name only commits that were made
\* and rows that were inserted, and a landing row has a candidate, also after a
\* crash, a force-push or a deleted ref.
TypeOK == WorldOK /\ StoreOK /\ TickOK

-----------------------------------------------------------------------------
\* What landing promises.  In the step that pushes main, snap is the row that
\* lands.

Landing == pc = "push" /\ pc' = "apply" /\ todo'.tail = "retire"

Heads(c) == {a \in c : a[1] = "head"}

\* mergeHead lands the admitted head of one pull request and nothing else: no
\* commit of another branch that left the queue rides along in a candidate.
NoStowaway == [][Landing => Heads(main' \ main) \subseteq snap.head]_vars

\* One commit has all the history that a and b share.  This fails when both of them
\* have merged the base branch, or a parent, on their own: git then has several
\* merge bases to choose from.
Straight(a, b) ==
  \E m \in CommonAncestors(a, b) : \A c \in CommonAncestors(a, b) : IsAncestor(c, m)

\* The last gate of mergeHead lets no candidate pass that shares a head with a pull
\* request that is open and is not a child of the landing one, unless main has that
\* head: neither would the other's commits land past their own review, nor this
\* one's while another branch claims them, whatever both were rebased on, merged
\* with or repaired to since the queue saw them.
NoOpenPrBypassed ==
  [][pc = "gate" /\ pc' = "push" =>
       \A q \in Suspects(snap.branch, snap.head) :
         Straight(gh[q].head, snap.sha) => Heads(gh[q].head \cap snap.sha) \subseteq main]_vars

\* What lands is the very commit whose required checks passed, whatever was
\* pushed to the branch or to the candidate ref and rerun since.
LandsGreen == [][Landing => ci[main'] = "pass"]_vars

\* What lands contains the head that was admitted: a workspace published for
\* repair is no candidate until the repair has brought the head in.
LandsAdmitted == [][Landing => IsAncestor(snap.head, main')]_vars

\* A candidate PatchRelay changed lands only after Review Quill vouched for it.
LandsReviewed ==
  [][Landing /\ (\E a \in main' \ main : a[1] = "repair" /\ a[2] = snap.branch)
       => snap.sha \in vouched]_vars

\* A stacked pull request lands only once the row of its parent says merged, and
\* main has the parent's head or GitHub shows the parent merged, wherever into.
ParentFirst ==
  [][Landing => \/ snap.base = Main
                \/ \E n \in DOMAIN entries : /\ entries[n].branch = snap.base
                                             /\ entries[n].status = "merged"
                                             /\ \/ IsAncestor(entries[n].head, main)
                                                \/ gh[snap.base].state = "merged"]_vars

\* A row that says merged tells the truth: main has the head it admitted, or
\* GitHub shows the pull request merged with another one.
MergedIsLanded ==
  \A n \in DOMAIN entries :
    entries[n].status = "merged" =>
      IsAncestor(entries[n].head, main) \/ gh[entries[n].branch].state = "merged"

\* Neither a push nor a rerun is retried past its budget, across resets,
\* stale writes and crashes.
Budgets ==
  \A n \in DOMAIN entries : /\ entries[n].attempts <= MaxRetries
                            /\ entries[n].retries <= FlakyRetries

Decided(n) == n \in DOMAIN entries /\ ~Active(entries[n])

Waiting(n) == n \in DOMAIN entries /\ Active(entries[n])

\* PatchRelay's turn: a candidate lacks its approved head, or it is red.
AwaitsRepair(n) == /\ Waiting(n) /\ entries[n].ref
                   /\ \/ ~IsAncestor(entries[n].head, entries[n].sha)
                      \/ ci[entries[n].sha] = "fail"

\* The ref of a candidate is gone while the row still names it.
RefLost(n) == Waiting(n) /\ entries[n].ref /\ ws[entries[n].branch] = Null

\* A stacked pull request whose parent is not in the queue.
Orphan(n) == Waiting(n) /\ entries[n].base # Main /\ ActiveRows(entries[n].base) = {}

Rows == 1..MaxEntries

\* The steward always has a next step for an admitted pull request, until it is
\* decided on, or PatchRelay has to repair a candidate of the train; as long as
\* the refs of the candidates are where the rows say.
DrainsUnlessRefLost ==
  \A n \in Rows : (n \in DOMAIN entries)
                   ~> (Decided(n) \/ Orphan(n) \/ \E m \in Rows : AwaitsRepair(m) \/ RefLost(m))

=============================================================================
