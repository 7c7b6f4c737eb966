----------------------------- MODULE MCDecisions -----------------------------
(***************************************************************************)
(* TLC harness for the pure decisions of the steward.  A behaviour is      *)
(* either about QueueOrder, and grows the history of a queue one entry at  *)
(* a time over all shapes up to MaxLen entries, or about CheckPolicy, and  *)
(* lets GitHub post check runs on a commit, in any order of listing, and   *)
(* complete them.  At every step the functions are compared with what they *)
(* promise.                                                                *)
(***************************************************************************)
EXTENDS QueueOrder, CheckPolicy

CONSTANTS MaxLen,      \* bound: entries ever queued
          Branches,    \* head branches, numbered
          Priorities,
          Statuses,
          n1, n2, a1,
          Names, Apps,
          MaxRuns      \* bound: check runs posted on the commit

\* Priorities are numbers, and no queued pull request has the base branch as
\* its head.
ASSUME BranchesAssumption == Main \notin Branches /\ Priorities \subseteq Int

DecisionSymmetry == Permutations(Branches) \cup Permutations(Names)

VARIABLES about,   \* which functions the behaviour is about
          q,       \* every entry ever queued, in the order of positions
          listed,  \* listActive: what the order makes of the active ones
          rules,   \* the required checks of the branch
          checks   \* the listing: the newest run comes first or last

queue == <<q, listed>>
commit == <<rules, checks>>

\* Only an active entry's base, priority and candidate are ever looked at.
Entries(n) ==
  {e \in [id : {n}, branch : Branches, base : Branches \cup {Main},
          prio : Priorities, status : Statuses, dep : (1..MaxLen) \cup {Null}] :
     /\ e.dep # n
     /\ ~Active(e) => e.dep = Null /\ e.base = Main /\ e.prio = 0
     \* the unique index: one active entry per pull request
     /\ Active(e) => \A k \in DOMAIN q : q[k].branch = e.branch => ~Active(q[k])}

Raw == {"success", "skipped", "failure", "timed_out", "startup_failure"}

Rules == [name : Names, app : Apps \cup {NoApp}]

RuleSets == {R \in SUBSET Rules : Cardinality(R) <= 2}

Init ==
  /\ q = <<>> /\ listed = <<>> /\ checks = <<>>
  /\ \/ about = "queue" /\ rules = {}
     \/ about = "checks" /\ rules \in RuleSets

Enqueue ==
  /\ about = "queue"
  /\ Len(q) < MaxLen
  /\ \E e \in Entries(Len(q) + 1) : q' = Append(q, e)
  /\ listed' = OrderActiveQueue(ActiveOf(q'))
  /\ UNCHANGED <<about, commit>>

Check(name, app, run, status, raw) ==
  [name |-> name, app |-> app, run |-> run, conclusion |-> Conclusion(status, raw)]

\* A new run starts; a source without numbers numbers nothing.
Post(name, app) ==
  /\ about = "checks"
  /\ Len(checks) < MaxRuns
  /\ \E run \in {Len(checks) + 1, NoRun} :
       LET c == Check(name, app, run, "in_progress", "none")
       IN  checks' = Append(checks, c) \/ checks' = <<c>> \o checks
  /\ UNCHANGED <<about, queue, rules>>

Complete(k) ==
  /\ checks[k].conclusion = "pending"
  /\ \E raw \in Raw :
       checks' = [checks EXCEPT ![k].conclusion = Conclusion("completed", raw)]
  /\ UNCHANGED <<about, queue, rules>>

\* The harness starts over, so that the growth never deadlocks.
StartOver ==
  /\ Len(q) = MaxLen \/ Len(checks) = MaxRuns
  /\ q' = <<>> /\ listed' = <<>> /\ checks' = <<>>
  /\ UNCHANGED <<about, rules>>

Next == \/ Enqueue
        \/ \E name \in Names, app \in Apps \cup {NoApp} : Post(name, app)
        \/ \E k \in DOMAIN checks : Complete(k)
        \/ StartOver

Spec == Init /\ [][Next]_<<about, queue, commit>>

-----------------------------------------------------------------------------
ParentOf(k) == Owner(listed, listed[k].base)

\* The ancestors of a listed entry along the stack, itself excluded.
Ancestors(k) ==
  LET up[n \in 0..Len(listed)] ==
        IF n = 0 THEN {ParentOf(k)} \ {0}
        ELSE up[n-1] \cup ({ParentOf(j) : j \in up[n-1]} \ {0})
  IN  up[Len(listed)]

\* An entry is malformed when following its bases runs into a cycle.
Malformed(k) == \E j \in Ancestors(k) \cup {k} : j \in Ancestors(j)

\* Ordering the queue loses and duplicates no entry, whatever the bases say:
\* a lost entry would never be scheduled again.
OrderIsPermutation ==
  /\ Len(listed) = Cardinality({k \in DOMAIN q : Active(q[k])})
  /\ Range(listed) = {e \in Range(q) : Active(e)}

\* Topology wins over priority: a stacked entry comes after its whole stack,
\* although its priority or its age would put it first.  Priority then age
\* decide between entries whose parents are both out of the way: nobody
\* overtakes an entry that beats it and was free to go.  (orderActiveQueue)
StackThenPriority ==
  /\ \A k \in DOMAIN listed : ~Malformed(k) => \A j \in Ancestors(k) : j < k
  /\ \A j, k \in DOMAIN listed :
       (j < k /\ ~Malformed(j) /\ ~Malformed(k) /\ Before(listed[k], listed[j]))
          => ParentOf(k) >= j

\* A ready entry has its whole active stack ready, and the stack ends at the
\* base branch or at a branch whose newest entry landed.
ReadyStacksAreRooted ==
  LET ready == ReadyIds(listed, q) IN
  \A k \in DOMAIN listed :
    listed[k].id \in ready <=>
      /\ ~Malformed(k)
      /\ \A j \in Ancestors(k) \cup {k} :
           \/ ParentOf(j) # 0
           \/ listed[j].base = Main
           \/ \E m \in DOMAIN q :
                /\ q[m].branch = listed[j].base
                /\ q[m].status = "merged"
                /\ \A n \in DOMAIN q : q[n].branch = q[m].branch => n <= m

\* Invalidation hits nothing but the dependency closure of the removed entry,
\* and all of it when the candidates were chained in queue order.
Reaches(removed) ==
  LET hop[n \in 0..Len(listed)] ==
        IF n = 0 THEN {removed}
        ELSE hop[n-1] \cup {e.id : e \in {f \in Range(listed) : f.dep \in hop[n-1]}}
  IN  hop[Len(listed)]

ChainedInOrder ==
  \A k \in DOMAIN listed :
    \A j \in DOMAIN listed : listed[k].dep = listed[j].id => j < k

DownstreamIsClosure ==
  \A r \in DOMAIN q :
    LET hit == SelectDownstream(listed, r)
    IN  /\ hit \subseteq Reaches(r)
        /\ ChainedInOrder => hit = Reaches(r) \ {r}

Numbered == \A k \in DOMAIN checks : checks[k].run # NoRun

\* The newest run that answers a rule, by its number alone.
NewestFor(rule) ==
  {k \in DOMAIN checks :
     /\ checks[k].name = rule.name
     /\ rule.app \in {NoApp, checks[k].app}
     /\ \A j \in DOMAIN checks :
          (checks[j].name = rule.name /\ rule.app \in {NoApp, checks[j].app})
             => checks[j].run <= checks[k].run}

\* Green is never assumed: every required check has a run of the right producer
\* and the newest one succeeded, however reruns and foreign runs are listed.
\* (evaluateCheckPolicy, the named-rule branch.)
GreenIsEarned ==
  (Verdict(rules, checks) = "pass" /\ Numbered) =>
    \A rule \in rules : \E k \in NewestFor(rule) :
      checks[k].conclusion \in {"success", "neutral"}

=============================================================================
