------------------------------ MODULE MCSteward ------------------------------
(***************************************************************************)
(* TLC harness for Steward: the pull requests, how they are stacked, what  *)
(* conflicts, and which disturbances a run allows.                         *)
(***************************************************************************)
EXTENDS Steward

CONSTANTS x, y, z

Independent == [base |-> [p \in PR |-> Main], carries |-> [p \in PR |-> {}]]

\* y is opened on x's branch, or on main; with x's commit in its history or not.
Stack(child, parent, base, carried) ==
  [base    |-> [p \in PR |-> IF p = child THEN base ELSE Main],
   carries |-> [p \in PR |-> IF p = child THEN carried ELSE {}]]

Unstacked == {Independent}

Stacks ==
  Unstacked \cup
  UNION {{Stack(child, parent, base, carried) : base \in {parent, Main}, carried \in {{}, {parent}}}
           : <<child, parent>> \in {t \in PR \X PR : t[1] # t[2]}}

AllPairs == {{p, q} : <<p, q>> \in {t \in PR \X PR : t[1] # t[2]}}

Repairs == {"reject", "red", "repair", "refuse", "crash", "push", "rerun"}

Closing == {"close"}

PRSymmetry == Permutations(PR)
=============================================================================
