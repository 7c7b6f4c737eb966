----------------------------- MODULE CheckPolicy -----------------------------
(***************************************************************************)
(* check-policy.ts: what the check runs of one commit amount to under the  *)
(* required checks of the branch.  Merge Steward evaluates it on an exact  *)
(* SHA at admission, while validating and once more before the push        *)
(* (module Steward reads the outcome as ci[commit]).                       *)
(*                                                                         *)
(* A check is a record of name, app and run (NoApp and NoRun where GitHub  *)
(* gave none) and its conclusion; names are compared normalized.  A rule   *)
(* is a name and an app, NoApp accepting any.                              *)
(***************************************************************************)
EXTENDS Integers, Sequences, FiniteSets

CONSTANTS NoApp, NoRun

\* The numbers of check runs are GitHub's ids.
ASSUME CheckPolicyAssumption == NoRun \notin Nat

\* mapGitHubCheckConclusion: a conclusion it does not know keeps the run pending.
Conclusion(status, raw) ==
  CASE status # "completed" -> "pending"
    [] status = "completed" /\ raw \in {"success", "neutral", "skipped"} -> raw
    [] status = "completed" /\ raw \in {"failure", "cancelled", "timed_out", "stale",
                                        "action_required"} -> "failure"
    [] OTHER -> "pending"

\* matchesRule
MatchesRule(check, rule) ==
  check.name = rule.name /\ (rule.app = NoApp \/ check.app = rule.app)

\* (mutant of LatestRerun: the first listed one counts)
FirstListed(checks, K) == {k \in K : \A j \in K : k <= j}

\* selectLatestRerun, of the checks at the indices K: the newest run, unless a
\* run is unnumbered or two have the same number.
LatestRerun(checks, K) ==
  IF \/ \E k \in K : checks[k].run = NoRun
     \/ \E j, k \in K : j # k /\ checks[j].run = checks[k].run
  THEN K
  ELSE {k \in K : \A j \in K : checks[j].run <= checks[k].run}

\* coalesceReruns
Coalesced(checks) ==
  UNION {LatestRerun(checks, {j \in DOMAIN checks : /\ checks[j].name = checks[k].name
                                                    /\ checks[j].app = checks[k].app})
           : k \in DOMAIN checks}

\* evaluateCheckPolicy.  Without named rules all observed checks count, and a
\* skipped one does not apply.
Verdict(rules, checks) ==
  LET current(rule) == LatestRerun(checks, {k \in DOMAIN checks : MatchesRule(checks[k], rule)})
      counted == IF rules = {} THEN Coalesced(checks) ELSE UNION {current(rule) : rule \in rules}
      missing == IF rules = {} THEN checks = <<>> ELSE \E rule \in rules : current(rule) = {}
      bad     == IF rules = {} THEN {"failure"} ELSE {"failure", "skipped"}
      some(conclusions) == \E k \in counted : checks[k].conclusion \in conclusions
  IN  IF some(bad) THEN "fail"
      ELSE IF missing \/ some({"pending"}) THEN "pending" ELSE "pass"
=============================================================================
