--------------------------- MODULE OneRunPerIssue ---------------------------
(***************************************************************************)
(* What the run machinery of PatchRelay promises of one issue, whatever    *)
(* leases, launches, notifications and recoveries it takes: one run works  *)
(* at a time, and a run that has ended is never taken up again.            *)
(***************************************************************************)
CONSTANTS
  Runs,    \* the runs that may ever be created for the issue
  NoRun    \* not a run: nobody works

VARIABLES
  worker,  \* the run that works on the issue
  ended    \* the runs that have worked on it

abstractVars == <<worker, ended>>

AbstractInit ==
  /\ worker = NoRun
  /\ ended = {}

\* A run takes the issue up when nobody works on it.
Begin(r) ==
  /\ worker = NoRun
  /\ r \notin ended
  /\ worker' = r
  /\ UNCHANGED ended

\* The run that works ends, for whatever reason.
End ==
  /\ worker # NoRun
  /\ ended' = ended \cup {worker}
  /\ worker' = NoRun

AbstractNext == End \/ \E r \in Runs : Begin(r)

AbstractSpec == AbstractInit /\ [][AbstractNext]_abstractVars
=============================================================================
