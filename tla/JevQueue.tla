------------------------------ MODULE JevQueue ------------------------------
(***************************************************************************)
(* The Jev host of packages/jev/src/service.ts: a supervisor that keeps    *)
(* jobs in SQLite (store.ts) and runs each in one of a fixed number of     *)
(* child processes (worker.ts).  Every handler of the supervisor runs to   *)
(* its end, so it is one action together with the dispatch it ends with;   *)
(* what happens between handlers is the children's replies, deaths and     *)
(* channels, the timers, the clients and the end of the host itself.       *)
(*                                                                         *)
(* Jobs are numbered in the order of their rows, which is the order        *)
(* dispatch takes them in.  One host at a time owns the database.          *)
(***************************************************************************)
EXTENDS Naturals, FiniteSets

CONSTANTS
  Slots,         \* worker slots
  MaxJobs,       \* bound: jobs inserted altogether
  MaxAttempts,   \* maxAttempts
  MaxActive,     \* maxQueuedJobs
  Rate,          \* requestsPerMinute
  Outcomes,      \* how a provider call may end: "ok", "retryable", "terminal"
  MaxSubmits,    \* bound: submissions in progress at a time
  MaxFaults,     \* bound: worker deaths, hung calls, ends of the host
  NoJob          \* a slot without a job

JobIds == 1 .. MaxJobs

ASSUME BoundsAssumption ==
  /\ MaxJobs \in Nat
  /\ MaxAttempts \in Nat \ {0}
  /\ MaxActive \in Nat
  /\ Rate \in Nat \ {0}
  /\ MaxSubmits \in Nat
  /\ MaxFaults \in Nat
ASSUME SlotsAssumption == IsFiniteSet(Slots)
ASSUME OutcomesAssumption == Outcomes \subseteq {"ok", "retryable", "terminal"}
ASSUME NoJobAssumption == NoJob \notin JobIds /\ NoJob \notin Outcomes

VARIABLES
  status,      \* jev_jobs.status ("absent": no row yet)
  attempts,    \* job.attempts
  delayed,     \* queued jobs whose available_at is in the future
  host,        \* the supervisor process
  bootFailed,  \* workerBootFailed
  idleExits,   \* idleWorkerExits
  proc,        \* each slot's process, as the supervisor knows it
  slotJob,     \* slot.jobId
  reply,       \* the outcome a child wrote to its channel
  budget,      \* dispatches left in the current minute
  submits,     \* submissions still capturing their input
  faults       \* faults so far

jobVars == <<status, attempts, delayed>>
slotVars == <<proc, slotJob, reply>>
hostVars == <<host, bootFailed, idleExits>>
vars == <<jobVars, hostVars, slotVars, budget, submits, faults>>

----------------------------------------------------------------------------
Terminal == {"succeeded", "failed", "cancelled"}
Active == {"queued", "running"}
JobStates == {"absent"} \cup Active \cup Terminal

\* "open": constructed, not started; "closing": children are terminated.
HostStates == {"down", "open", "running", "closing"}

\* "dying": killed or dead, its channel not read to the end; "cut": channel
\* closed, the close event to come.
ProcStates == {"none", "up", "dying", "cut"}

\* assertOpen
Usable == host \in {"open", "running"}

JobsIn(set) == {j \in JobIds : status[j] \in set}

\* retryOrFail: where a job goes whose attempt ended without a result.
AfterFailure(j, retryable) ==
  IF ~bootFailed /\ retryable /\ attempts[j] < MaxAttempts THEN "queued" ELSE "failed"

Connected(pr, i) == pr[i] \in {"up", "dying"}

Smallest(set, n) == {j \in set : Cardinality({k \in set : k < j}) < n}

Least(set) == CHOOSE n \in set : \A k \in set : n <= k

\* How many jobs a dispatch starts.
Room(free, ready) == Least({Cardinality(free), Cardinality(ready), budget})

\* The jobs of next go to free slots, one each.
Assign(next, free, st, pr, sj) ==
  \E slot \in [next -> free] :
    /\ \A j, k \in next : slot[j] = slot[k] => j = k
    /\ status' = [j \in JobIds |-> IF j \in next THEN "running" ELSE st[j]]
    /\ attempts' = [j \in JobIds |-> IF j \in next THEN attempts[j] + 1 ELSE attempts[j]]
    /\ slotJob' = [i \in Slots |-> IF \E j \in next : slot[j] = i
                                   THEN CHOOSE j \in next : slot[j] = i ELSE sj[i]]
    /\ proc' = pr

\* dispatch, over the values its caller leaves: the oldest available jobs go to
\* the connected slots without a job, while the minute's budget lasts.
Dispatch(st, late, pr, sj, up) ==
  \E free \in {{i \in Slots : Connected(pr, i) /\ sj[i] = NoJob}},
     ready \in {{j \in JobIds : st[j] = "queued" /\ j \notin late}} :
  \E n \in {IF up THEN Room(free, ready) ELSE 0} :
  \E next \in {Smallest(ready, n)} :
    /\ Assign(next, free, st, pr, sj)
    /\ delayed' = late
    /\ budget' = budget - n

----------------------------------------------------------------------------
(* The host process *)

OpenHost ==
  /\ host = "down"
  /\ host' = "open"
  /\ bootFailed' = FALSE
  /\ idleExits' = 0
  /\ budget' = Rate
  /\ UNCHANGED <<jobVars, slotVars, submits, faults>>

\* Mutant of Start: what the last host left running is not recovered.
StartForgetful ==
  /\ host = "open"
  /\ host' = "running"
  /\ Dispatch(status, delayed, [i \in Slots |-> "up"], [i \in Slots |-> NoJob], TRUE)
  /\ UNCHANGED <<bootFailed, idleExits, reply, submits, faults>>

\* Takes the queue over from its last owner, then spawns every worker.
Start ==
  LET interrupted == JobsIn({"running"})
      st == [j \in JobIds |-> IF j \in interrupted THEN AfterFailure(j, TRUE) ELSE status[j]]
  IN /\ host = "open"
     /\ host' = "running"
     /\ Dispatch(st, delayed \cup {j \in interrupted : st[j] = "queued"},
                 [i \in Slots |-> "up"], [i \in Slots |-> NoJob], TRUE)
     /\ UNCHANGED <<bootFailed, idleExits, reply, submits, faults>>

\* close: every child is killed, the submissions in progress will throw.
Close ==
  /\ host \in {"open", "running"}
  /\ faults < MaxFaults
  /\ faults' = faults + 1
  /\ host' = "closing"
  /\ proc' = [i \in Slots |-> IF proc[i] = "up" THEN "dying" ELSE proc[i]]
  /\ submits' = 0
  /\ UNCHANGED <<jobVars, bootFailed, idleExits, slotJob, reply, budget>>

\* The last child is gone: the queue is released.
Closed ==
  /\ host = "closing"
  /\ \A i \in Slots : proc[i] = "none"
  /\ host' = "down"
  /\ UNCHANGED <<jobVars, bootFailed, idleExits, slotVars, budget, submits, faults>>

\* The supervisor is killed: its children exit when their channel closes.
HostCrash ==
  /\ host # "down"
  /\ faults < MaxFaults
  /\ faults' = faults + 1
  /\ host' = "down"
  /\ proc' = [i \in Slots |-> "none"]
  /\ slotJob' = [i \in Slots |-> NoJob]
  /\ reply' = [i \in Slots |-> NoJob]
  /\ submits' = 0
  /\ UNCHANGED <<jobVars, bootFailed, idleExits, budget>>

----------------------------------------------------------------------------
(* Clients *)

\* submitBatch up to its first await.
BeginSubmit ==
  /\ Usable
  /\ ~bootFailed
  /\ submits < MaxSubmits
  /\ submits' = submits + 1
  /\ UNCHANGED <<jobVars, hostVars, slotVars, budget, faults>>

\* Mutant of EndSubmit: the capacity is checked before the batch is counted.
EndSubmitUncounted(size) ==
  LET first == Cardinality(JobIds \ JobsIn({"absent"})) + 1
      batch == first .. (first + size - 1)
      st == [j \in JobIds |-> IF j \in batch THEN "queued" ELSE status[j]]
  IN /\ Usable
     /\ submits > 0
     /\ batch \subseteq JobIds
     /\ Cardinality(JobsIn(Active)) < MaxActive
     /\ submits' = submits - 1
     /\ Dispatch(st, delayed, proc, slotJob, host = "running" /\ ~bootFailed)
     /\ UNCHANGED <<hostVars, reply, faults>>

\* The batch is inserted as a whole, dispatched when the host is started.
EndSubmit(size) ==
  LET first == Cardinality(JobIds \ JobsIn({"absent"})) + 1
      batch == first .. (first + size - 1)
      st == [j \in JobIds |-> IF j \in batch THEN "queued" ELSE status[j]]
  IN /\ Usable
     /\ submits > 0
     /\ batch \subseteq JobIds
     /\ Cardinality(JobsIn(Active)) + size <= MaxActive
     /\ submits' = submits - 1
     /\ Dispatch(st, delayed, proc, slotJob, host = "running" /\ ~bootFailed)
     /\ UNCHANGED <<hostVars, reply, faults>>

\* QUEUE_CAPACITY, a refused input or a matching idempotency key: no row.
RejectSubmit ==
  /\ submits > 0
  /\ submits' = submits - 1
  /\ UNCHANGED <<jobVars, hostVars, slotVars, budget, faults>>

\* Mutant of Cancel: the child goes on with the call.
CancelSparingChild(j) ==
  /\ Usable
  /\ status[j] \in Active
  /\ status' = [status EXCEPT ![j] = "cancelled"]
  /\ delayed' = delayed \ {j}
  /\ UNCHANGED <<attempts, hostVars, slotVars, budget, submits, faults>>

Cancel(j) ==
  /\ Usable
  /\ status[j] \in Active
  /\ status' = [status EXCEPT ![j] = "cancelled"]
  /\ delayed' = delayed \ {j}
  /\ proc' = [i \in Slots |-> IF slotJob[i] = j /\ proc[i] = "up" THEN "dying" ELSE proc[i]]
  /\ UNCHANGED <<attempts, hostVars, slotJob, reply, budget, submits, faults>>

----------------------------------------------------------------------------
(* The children *)

\* A child that lives ends its call and writes the outcome to its channel.
ChildReplies(i, outcome) ==
  /\ proc[i] = "up"
  /\ slotJob[i] # NoJob
  /\ reply[i] = NoJob
  /\ reply' = [reply EXCEPT ![i] = outcome]
  /\ UNCHANGED <<jobVars, hostVars, proc, slotJob, budget, submits, faults>>

\* A child dies by itself, or is killed because its call took too long.
ChildDies(i) ==
  /\ proc[i] = "up"
  /\ faults < MaxFaults
  /\ faults' = faults + 1
  /\ proc' = [proc EXCEPT ![i] = "dying"]
  /\ UNCHANGED <<jobVars, hostVars, slotJob, reply, budget, submits>>

\* The channel of a dead child ends after what it had written.
Disconnect(i) ==
  /\ proc[i] = "dying"
  /\ reply[i] = NoJob
  /\ proc' = [proc EXCEPT ![i] = "cut"]
  /\ UNCHANGED <<jobVars, hostVars, slotJob, reply, budget, submits, faults>>

----------------------------------------------------------------------------
(* Handlers of the supervisor *)

\* Mutant of Complete: the job's status is not read again.
CompleteUnchecked(i) ==
  LET j == slotJob[i]
      st == [status EXCEPT ![j] = IF reply[i] = "ok" THEN "succeeded"
                                  ELSE AfterFailure(j, reply[i] = "retryable")]
  IN /\ Connected(proc, i)
     /\ reply[i] # NoJob
     /\ reply' = [reply EXCEPT ![i] = NoJob]
     /\ idleExits' = 0
     /\ Dispatch(st, IF st[j] = "queued" THEN delayed \cup {j} ELSE delayed, proc,
                 [slotJob EXCEPT ![i] = NoJob], host = "running" /\ ~bootFailed)
     /\ UNCHANGED <<host, bootFailed, submits, faults>>

\* A message from a child.  The job may have been cancelled meanwhile.
Complete(i) ==
  LET j == slotJob[i]
      outcome == reply[i]
      st == IF status[j] # "running" THEN status
            ELSE [status EXCEPT ![j] =
                    IF outcome = "ok" THEN "succeeded"
                    ELSE AfterFailure(j, outcome = "retryable")]
  IN /\ Connected(proc, i)
     /\ outcome # NoJob
     /\ reply' = [reply EXCEPT ![i] = NoJob]
     /\ idleExits' = 0
     /\ Dispatch(st, IF st[j] = "queued" THEN delayed \cup {j} ELSE delayed, proc,
                 [slotJob EXCEPT ![i] = NoJob], host = "running" /\ ~bootFailed)
     /\ UNCHANGED <<host, bootFailed, submits, faults>>

IdleExitLimit == 3

\* Exits of idle workers since a worker last answered.
IdleExitsAfter(i) ==
  IF host = "running" /\ slotJob[i] = NoJob THEN idleExits + 1 ELSE idleExits

\* Mutant of ChildClosed: a worker that exits with a job is only replaced.
ChildClosedForgetful(i) ==
  LET idle == IdleExitsAfter(i)
      giveUp == idle >= IdleExitLimit
      up == host = "running" /\ ~bootFailed /\ ~giveUp
  IN /\ proc[i] = "cut"
     /\ idleExits' = idle
     /\ bootFailed' = (bootFailed \/ giveUp)
     /\ Dispatch([k \in JobIds |-> IF giveUp /\ status[k] = "queued" THEN "failed" ELSE status[k]],
                 IF giveUp THEN {} ELSE delayed,
                 [proc EXCEPT ![i] = IF up THEN "up" ELSE "none"],
                 [slotJob EXCEPT ![i] = NoJob], up)
     /\ UNCHANGED <<host, reply, submits, faults>>

\* The close event of a child: its job is retried, the third exit of an idle
\* worker in a row gives the whole queue up, else the worker is replaced.
ChildClosed(i) ==
  LET j == slotJob[i]
      st == IF j # NoJob /\ status[j] = "running"
            THEN [status EXCEPT ![j] = AfterFailure(j, TRUE)] ELSE status
      late == IF j # NoJob /\ st[j] = "queued" THEN delayed \cup {j} ELSE delayed
      idle == IdleExitsAfter(i)
      giveUp == idle >= IdleExitLimit
      up == host = "running" /\ ~bootFailed /\ ~giveUp
  IN /\ proc[i] = "cut"
     /\ idleExits' = idle
     /\ bootFailed' = (bootFailed \/ giveUp)
     /\ Dispatch([k \in JobIds |-> IF giveUp /\ st[k] = "queued" THEN "failed" ELSE st[k]],
                 IF giveUp THEN {} ELSE late,
                 [proc EXCEPT ![i] = IF up THEN "up" ELSE "none"],
                 [slotJob EXCEPT ![i] = NoJob], up)
     /\ UNCHANGED <<host, reply, submits, faults>>

\* A backoff ends.
Elapse(j) ==
  /\ j \in delayed
  /\ delayed' = delayed \ {j}
  /\ UNCHANGED <<status, attempts, hostVars, slotVars, budget, submits, faults>>

\* The oldest dispatches leave the window of a minute, one or several at a time.
Minute ==
  /\ \E left \in (budget + 1) .. Rate : budget' = left
  /\ UNCHANGED <<jobVars, hostVars, slotVars, submits, faults>>

\* The 25 ms timer.
Timer ==
  /\ host = "running"
  /\ ~bootFailed
  /\ Dispatch(status, delayed, proc, slotJob, TRUE)
  /\ UNCHANGED <<hostVars, reply, submits, faults>>

----------------------------------------------------------------------------
Init ==
  /\ status = [j \in JobIds |-> "absent"]
  /\ attempts = [j \in JobIds |-> 0]
  /\ delayed = {}
  /\ host = "down"
  /\ bootFailed = FALSE
  /\ idleExits = 0
  /\ proc = [i \in Slots |-> "none"]
  /\ slotJob = [i \in Slots |-> NoJob]
  /\ reply = [i \in Slots |-> NoJob]
  /\ budget = Rate
  /\ submits = 0
  /\ faults = 0

HostNext == OpenHost \/ Start \/ Close \/ Closed \/ HostCrash

ClientNext ==
  \/ BeginSubmit
  \/ \E size \in 1 .. 2 : EndSubmit(size)
  \/ RejectSubmit
  \/ \E j \in JobIds : Cancel(j)

ChildNext(i) ==
  \/ \E outcome \in Outcomes : ChildReplies(i, outcome)
  \/ ChildDies(i)
  \/ Disconnect(i)
  \/ Complete(i)
  \/ ChildClosed(i)

Next ==
  \/ HostNext
  \/ ClientNext
  \/ \E i \in Slots : ChildNext(i)
  \/ \E j \in JobIds : Elapse(j)
  \/ Minute
  \/ Timer

Spec == Init /\ [][Next]_vars
\* A provider call ends, by its own timeout if need be; channels, timers and
\* handlers make progress; an operator keeps the host up.
Fairness ==
  /\ WF_vars(OpenHost \/ Start \/ Closed)
  /\ \A i \in Slots :
       WF_vars((\E outcome \in Outcomes : ChildReplies(i, outcome)) \/ Disconnect(i) \/ Complete(i) \/ ChildClosed(i))
  /\ \A j \in JobIds : WF_vars(Elapse(j))
  /\ WF_vars(Minute) /\ WF_vars(Timer)

FairSpec == Spec /\ Fairness

----------------------------------------------------------------------------
TypeOK ==
  /\ status \in [JobIds -> JobStates]
  /\ attempts \in [JobIds -> Nat]
  /\ delayed \subseteq JobIds
  /\ host \in HostStates
  /\ bootFailed \in BOOLEAN
  /\ idleExits \in Nat
  /\ proc \in [Slots -> ProcStates]
  /\ slotJob \in [Slots -> JobIds \cup {NoJob}]
  /\ reply \in [Slots -> Outcomes \cup {NoJob}]
  /\ budget \in 0 .. Rate
  /\ submits \in Nat
  /\ faults \in Nat

\* While a host runs, a running job belongs to exactly one worker slot: no
\* handler loses track of one, and no job runs in two children.
RunningAttached ==
  host = "running" =>
    \A j \in JobIds : status[j] = "running" =>
      \E i \in Slots : slotJob[i] = j /\ \A k \in Slots : slotJob[k] = j => k = i

\* A child that lives works on a running job only: cancellation kills the child
\* of the job it ends, whatever reply, exit or redispatch it races.
LiveWorkIsWanted ==
  \A i \in Slots :
    proc[i] = "up" /\ slotJob[i] # NoJob => status[slotJob[i]] = "running"

\* A queued job has an attempt left, however its attempts ended.
QueuedHasAttempt ==
  \A j \in JobIds :
    /\ attempts[j] <= MaxAttempts
    /\ status[j] = "queued" => attempts[j] < MaxAttempts

\* Concurrent submissions and retries never exceed maxQueuedJobs active jobs.
ActiveBounded == Cardinality(JobsIn(Active)) <= MaxActive

Lifecycle == INSTANCE JobLifecycle WITH Jobs <- JobIds

\* Whatever replies, exits, timers, cancellations and restarts race each other,
\* clients see each job tried within its attempts, one attempt after the other,
\* a failed attempt followed by a wait, and a job that ended stay as it ended.
ImplementsLifecycle == Lifecycle!Spec

\* Submitted jobs end: again and again none is left, or the host has reported
\* that its workers cannot start.
JobsSettle == []<>(JobsIn(Active) = {} \/ bootFailed)
=============================================================================
