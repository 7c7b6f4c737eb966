----------------------------- MODULE QueueOrder -----------------------------
(***************************************************************************)
(* The pure queue policy of Merge Steward: the order of the active queue,  *)
(* the entries whose stack ancestry lets them advance, and the candidates  *)
(* that a removed entry contaminates.  These are the three side-effect     *)
(* free functions of queue-order.ts and invalidation.ts; the reconciler    *)
(* and the webhook commands (module Steward) call them on what they have   *)
(* just read from the store.                                               *)
(*                                                                         *)
(* An entry is a record with at least                                      *)
(*   id      its position: positions are handed out in increasing order    *)
(*           and never reused, so the position names the entry             *)
(*   branch  the head branch of its pull request                           *)
(*   base    the branch the pull request targets (Main when unset)         *)
(*   prio    the priority lane, 0 unless an operator enqueued it by hand   *)
(*   status  its queue status                                              *)
(*   dep     candidateBasedOn: the id of the entry its candidate extends   *)
(* A queue is a sequence of entries.                                       *)
(***************************************************************************)
EXTENDS Integers, Sequences, FiniteSets, SequencesExt

CONSTANTS Main,  \* the repository's base branch
          Null   \* the null of the store: no entry, no commit

Terminal == {"merged", "evicted", "dequeued", "superseded"}

Active(e) == e.status \notin Terminal

\* compareReady: the higher priority first, then the older position.
Before(l, r) == l.prio > r.prio \/ (l.prio = r.prio /\ l.id < r.id)

Last0(S) == IF S = {} THEN 0 ELSE CHOOSE k \in S : \A j \in S : j <= k

\* The index of the entry that owns branch b: a Map built in queue order
\* keeps the last one.  0 when no entry does.
Owner(q, b) == Last0({k \in DOMAIN q : q[k].branch = b})

\* (mutant of Released: priority decides, topology does not)
IgnoringParents(q, K) == DOMAIN q \ K

\* Once the indices in K have been emitted, an entry is released when its
\* parent, if it is in the queue, is among them.
Released(q, K) == {k \in DOMAIN q \ K : Owner(q, q[k].base) \in K \cup {0}}

First(q, K) == CHOOSE k \in K : \A j \in K \ {k} : Before(q[k], q[j])

\* The entries of q with an index in K, in their order.  (A SelectSeq that a proof
\* can unfold, and so are the loops below: each takes as many rounds as there are
\* entries, and idles when it has nothing left.)
Among(q, K) ==
  LET kept[n \in 0..Len(q)] ==
        IF n = 0 THEN <<>> ELSE IF n \in K THEN Append(kept[n-1], q[n]) ELSE kept[n-1]
  IN  kept[Len(q)]

\* listActive, before the order: the active entries in the order of positions.
ActiveOf(es) == Among(es, {k \in DOMAIN es : Active(es[k])})

\* Of the indices in K, the first one follows the sequence of indices s.
Emit(q, s, K) == IF K = {} THEN s ELSE Append(s, First(q, K))

\* (mutant of MalformedTail: a cycle falls out of the queue)
NoTail(q, s) == s

\* What is never released, a cycle and what hangs off it, goes to the tail.
MalformedTail(q, s) ==
  LET emit == [t \in Seq(DOMAIN q) |-> Emit(q, t, DOMAIN q \ Range(t))]
      tail[n \in 0..Len(q)] == IF n = 0 THEN s ELSE emit[tail[n-1]]
  IN  tail[Len(q)]

\* The loop of orderActiveQueue: of the released entries the first one goes next.
Emission(q) ==
  LET emit == [t \in Seq(DOMAIN q) |-> Emit(q, t, Released(q, Range(t)))]
      emitted[n \in 0..Len(q)] == IF n = 0 THEN <<>> ELSE emit[emitted[n-1]]
  IN  emitted[Len(q)]

OrderActiveQueue(q) ==
  LET rows == [s \in Seq(DOMAIN q) |-> [k \in DOMAIN s |-> q[s[k]]]]
  IN  rows[MalformedTail(q, Emission(q))]

\* (mutants of Landed: an older landing of the branch will do; any entry will)
EverLanded(all, b) == \E k \in DOMAIN all : all[k].branch = b /\ all[k].status = "merged"
EverQueued(all, b) == \E k \in DOMAIN all : all[k].branch = b

\* An absent parent has landed when the newest of all entries on its branch was
\* merged.
Landed(all, b) ==
  \E k \in DOMAIN all :
    /\ all[k].branch = b /\ all[k].status = "merged"
    /\ \A j \in DOMAIN all : all[j].branch = b => all[j].id <= all[k].id

\* buildDependencyReadySchedule, the part that decides readiness: ids of the
\* entries of the ordered queue that may advance.  `all' is every entry ever
\* queued.
ReadyIds(active, all) ==
  LET passes(e, before) ==
        \/ e.base = Main
        \/ /\ Owner(active, e.base) # 0
           /\ active[Owner(active, e.base)].id \in before
        \/ Owner(active, e.base) = 0 /\ Landed(all, e.base)
      ready[n \in 0..Len(active)] ==
        IF n = 0 THEN {}
        ELSE LET before == ready[n-1]
             IN  before \cup (IF passes(active[n], before) THEN {active[n].id} ELSE {})
  IN  ready[Len(active)]

ReadySchedule(active, all) ==
  LET ready == ReadyIds(active, all)
  IN  Among(active, {k \in DOMAIN active : active[k].id \in ready})

BlockedSchedule(active, all) ==
  LET ready == ReadyIds(active, all)
  IN  Among(active, {k \in DOMAIN active : active[k].id \notin ready})

\* (mutant of SelectDownstream: one hop only)
DirectDependents(active, removed) ==
  {active[n].id : n \in {m \in DOMAIN active : Active(active[m]) /\ active[m].dep = removed}}

\* selectDownstream: one pass over the queue in its order, following the
\* persisted candidate dependencies out of the removed entry.
SelectDownstream(active, removed) ==
  LET hit(e, dirty) == Active(e) /\ e.dep \in dirty
      dirty[n \in 0..Len(active)] ==
        IF n = 0 THEN {removed}
        ELSE IF hit(active[n], dirty[n-1]) THEN dirty[n-1] \cup {active[n].id}
                                           ELSE dirty[n-1]
  IN  {active[n].id : n \in {m \in DOMAIN active : hit(active[m], dirty[m-1])}}

=============================================================================
