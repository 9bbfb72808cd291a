---------------------------- MODULE JobLifecycle ----------------------------
(***************************************************************************)
(* What a client of the Jev queue may rely on when it polls its jobs,      *)
(* without the host, its children, their channels and timers: a job is     *)
(* tried a bounded number of times, one attempt after the other, and ends  *)
(* once.  JevQueue implements it.                                          *)
(***************************************************************************)
EXTENDS Naturals

CONSTANTS Jobs, MaxAttempts

VARIABLES
  status,   \* of each job's row, "absent" before there is one
  attempts  \* how often each was tried

vars == <<status, attempts>>

States == {"absent", "queued", "running", "succeeded", "failed", "cancelled"}

Init ==
  /\ status = [j \in Jobs |-> "absent"]
  /\ attempts = [j \in Jobs |-> 0]

Becomes(j, next) == status'[j] = next /\ attempts'[j] = attempts[j]

\* A new job waits, or is tried at once.
Submit(j) == status[j] = "absent" /\ Becomes(j, "queued")

Try(j) ==
  /\ status[j] \in {"absent", "queued"}
  /\ attempts[j] < MaxAttempts
  /\ status'[j] = "running"
  /\ attempts'[j] = attempts[j] + 1

\* An attempt ends with a result, without one, or for another attempt, which is
\* not made at once.
Finish(j) ==
  /\ status[j] = "running"
  /\ \/ \E end \in {"succeeded", "failed"} : Becomes(j, end)
     \/ attempts[j] < MaxAttempts /\ Becomes(j, "queued")

\* A job is withdrawn, or given up while it waits.
Withdraw(j) ==
  \/ status[j] \in {"queued", "running"} /\ Becomes(j, "cancelled")
  \/ status[j] = "queued" /\ Becomes(j, "failed")

Moves(j) == Becomes(j, status[j]) \/ Submit(j) \/ Try(j) \/ Finish(j) \/ Withdraw(j)

\* Handlers of the queue change several jobs at once.
Next ==
  /\ status' \in [Jobs -> States]
  /\ attempts' \in [Jobs -> 0 .. MaxAttempts]
  /\ \A j \in Jobs : Moves(j)

Spec == Init /\ [][Next]_vars
=============================================================================
