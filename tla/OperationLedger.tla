-------------------------- MODULE OperationLedger --------------------------
(***************************************************************************)
(* The durable operation ledger of packages/persistence/src/postgres.ts    *)
(* and the executors that drive it: the canonical workers of               *)
(* apps/worker/src/canonical-worker.ts, which heartbeat a lease while they *)
(* execute an activity, and the in-process callers of                      *)
(* canonical-retrieval-executor.ts, which claim a step only to record an   *)
(* outcome they already have.                                              *)
(*                                                                         *)
(* A ledger transaction is one action, except the claim: its SELECT reads  *)
(* the lease and the operation from a READ COMMITTED snapshot and locks    *)
(* only the step, so the snapshot (ClaimSnapshot) and the write            *)
(* (ClaimStep) are two actions with any other transaction between them.    *)
(*                                                                         *)
(* Time is abstract: a live lease may expire at any moment.                *)
(***************************************************************************)
EXTENDS Naturals, FiniteSets

CONSTANTS
  Ops,           \* operations a client may submit
  Steps,         \* the steps of all operations
  OpOf,          \* the operation of a step
  Pos,           \* the ordinal of a step inside its operation
  Workers,       \* canonical workers
  Callers,       \* in-process executors (canonical retrieval)
  Outputs,       \* what an activity may return
  Keys,          \* idempotency keys of success receipts
  ReceiptKey,    \* the key an executor derives for a step
  MaxAttempts,   \* max_attempts of each new step
  AttemptLimit,  \* bound: an operator retries while max_attempts stays below it
  MaxFaults,     \* bound: crashes and leases lost by a stalled executor
  NoStep,        \* an executor that has no step
  NoReceipt      \* a key no receipt was inserted under

Executors == Workers \cup Callers

ASSUME OpOfAssumption == OpOf \in [Steps -> Ops]
ASSUME PosAssumption == Pos \in [Steps -> Nat]
ASSUME DistinctOrdinals ==
  \A s, t \in Steps : OpOf[s] = OpOf[t] /\ Pos[s] = Pos[t] => s = t
ASSUME EveryOperationHasSteps == \A o \in Ops : \E s \in Steps : OpOf[s] = o
ASSUME KeyAssumption == ReceiptKey \in [Executors -> [Steps -> Keys]]
ASSUME BoundsAssumption ==
  /\ MaxAttempts \in [Steps -> Nat \ {0}]
  /\ AttemptLimit \in Nat
  /\ MaxFaults \in Nat
ASSUME NoStepAssumption == NoStep \notin Steps
ASSUME NoReceiptAssumption == NoReceipt \notin [step : Steps, output : Outputs]
ASSUME ExecutorsDisjoint == Workers \cap Callers = {}

VARIABLES
  opStatus,      \* operation.status ("absent": no row yet)
  stepStatus,    \* operation_step.status
  attempts,      \* operation_step.attempt_count
  maxAttempts,   \* operation_step.max_attempts
  lease,         \* the step's lease row: "none", "live", "expired", "released"
  fence,         \* lease.fencing_token, standing for lease_token as well
  tokenSeq,      \* the identity sequence fencing tokens come from
  receipts,      \* success receipts by idempotency key
  failures,      \* idempotency keys of failure receipts
  pc,            \* where each executor is in #execute
  mine,          \* the step an executor claimed, or is claiming
  held,          \* the fencing token it was given
  claimAttempt,  \* attempt_count as returned by its claim
  faults         \* faults so far

ledgerVars == <<opStatus, stepStatus, attempts, maxAttempts, lease, fence,
                tokenSeq, receipts, failures>>
claimVars == <<mine, held, claimAttempt>>
vars == <<ledgerVars, pc, claimVars, faults>>

----------------------------------------------------------------------------
OpStates == {"absent", "queued", "running", "succeeded", "failed", "cancelled"}
TerminalOp == {"succeeded", "failed", "cancelled"}
OpenOp == {"queued", "running"}
StepStates == {"absent", "queued", "running", "succeeded", "failed"}
LeaseStates == {"none", "live", "expired", "released"}
Phases == {"down", "idle", "claiming", "claimed", "executing", "failing"}
Receipt == [step : Steps, output : Outputs]

StepsOf(o) == {s \in Steps : OpOf[s] = o}
Predecessors(s) == {p \in Steps : OpOf[p] = OpOf[s] /\ Pos[p] < Pos[s]}

\* The status reconciliation gives an operation whose steps have status st.
Derived(o, st) ==
  IF \E s \in StepsOf(o) : st[s] = "failed" THEN "failed"
  ELSE IF \A s \in StepsOf(o) : st[s] = "succeeded" THEN "succeeded"
  ELSE IF \E s \in StepsOf(o) : st[s] = "running" THEN "running"
  ELSE "queued"

\* The database trigger on operation and operation_step: a terminal row may
\* only go from failed back to queued.
TriggerAdmits(old, new) ==
  old \in TerminalOp => (old = "failed" /\ new = "queued")

\* The tail of every transaction that ends an attempt: step, lease, operation.
CanSettle(s, status) ==
  LET st == [stepStatus EXCEPT ![s] = status]
      o == OpOf[s]
  IN /\ TriggerAdmits(stepStatus[s], status)
     /\ Derived(o, st) # opStatus[o] => TriggerAdmits(opStatus[o], Derived(o, st))

\* Mutant of Settle: the lease is not released.
SettleKeepingLease(s, status) ==
  LET st == [stepStatus EXCEPT ![s] = status]
  IN /\ stepStatus' = st
     /\ opStatus' = [opStatus EXCEPT ![OpOf[s]] = Derived(OpOf[s], st)]
     /\ UNCHANGED <<attempts, maxAttempts, lease, fence, tokenSeq>>

\* Mutant of Settle: the transaction ends without #reconcileOperation.
SettleUnreconciled(s, status) ==
  /\ stepStatus' = [stepStatus EXCEPT ![s] = status]
  /\ lease' = [lease EXCEPT ![s] = "released"]
  /\ UNCHANGED <<opStatus, attempts, maxAttempts, fence, tokenSeq>>

Settle(s, status) ==
  LET st == [stepStatus EXCEPT ![s] = status]
  IN /\ stepStatus' = st
     /\ lease' = [lease EXCEPT ![s] = "released"]
     /\ opStatus' = [opStatus EXCEPT ![OpOf[s]] = Derived(OpOf[s], st)]
     /\ UNCHANGED <<attempts, maxAttempts, fence, tokenSeq>>

\* Mutant of HoldsLease: any live lease of the step will do.
HoldsAnyLease(e) == lease[mine[e]] = "live"

\* The lease row still carries the executor's token and has not run out.
HoldsLease(e) ==
  /\ lease[mine[e]] = "live"
  /\ fence[mine[e]] = held[e]

Become(e, phase) == pc' = [pc EXCEPT ![e] = phase]

----------------------------------------------------------------------------
(* Clients *)

CreateOperation(o) ==
  /\ opStatus[o] = "absent"
  /\ opStatus' = [opStatus EXCEPT ![o] = "queued"]
  /\ stepStatus' = [s \in Steps |-> IF OpOf[s] = o THEN "queued" ELSE stepStatus[s]]
  /\ UNCHANGED <<attempts, maxAttempts, lease, fence, tokenSeq, receipts,
                 failures, pc, claimVars, faults>>

\* The steps keep their status: one that is running stays running.
CancelOperation(o) ==
  /\ opStatus[o] \in OpenOp
  /\ opStatus' = [opStatus EXCEPT ![o] = "cancelled"]
  /\ lease' = [s \in Steps |->
                 IF OpOf[s] = o /\ lease[s] \in {"live", "expired"}
                 THEN "released" ELSE lease[s]]
  /\ UNCHANGED <<stepStatus, attempts, maxAttempts, fence, tokenSeq, receipts,
                 failures, pc, claimVars, faults>>

\* Mutant of RetryOperation: every step of the operation is queued again.
RetryAllSteps(o) ==
  LET again == StepsOf(o)
  IN /\ opStatus[o] = "failed"
     /\ \A s \in again : stepStatus[s] = "failed" => 2 * maxAttempts[s] <= AttemptLimit
     /\ opStatus' = [opStatus EXCEPT ![o] = "queued"]
     /\ stepStatus' = [s \in Steps |-> IF s \in again THEN "queued" ELSE stepStatus[s]]
     /\ maxAttempts' = [s \in Steps |-> IF s \in again THEN 2 * maxAttempts[s]
                                        ELSE maxAttempts[s]]
     /\ UNCHANGED <<attempts, lease, fence, tokenSeq, receipts, failures, pc,
                    claimVars, faults>>

RetryOperation(o) ==
  LET again == {s \in StepsOf(o) : stepStatus[s] = "failed"}
  IN /\ opStatus[o] = "failed"
     /\ \A s \in again : 2 * maxAttempts[s] <= AttemptLimit
     /\ opStatus' = [opStatus EXCEPT ![o] = "queued"]
     /\ stepStatus' = [s \in Steps |-> IF s \in again THEN "queued" ELSE stepStatus[s]]
     /\ maxAttempts' = [s \in Steps |-> IF s \in again THEN maxAttempts[s] + maxAttempts[s]
                                        ELSE maxAttempts[s]]
     /\ UNCHANGED <<attempts, lease, fence, tokenSeq, receipts, failures, pc,
                    claimVars, faults>>

\* Reconciles the operations of the set that are still open.
Reconciled(set) ==
  [o \in Ops |-> IF o \in set /\ opStatus[o] \in OpenOp
                 THEN Derived(o, stepStatus) ELSE opStatus[o]]

ReconcileOperation(o) ==
  /\ opStatus[o] # "absent"
  /\ opStatus' = Reconciled({o})
  /\ UNCHANGED <<stepStatus, attempts, maxAttempts, lease, fence, tokenSeq,
                 receipts, failures, pc, claimVars, faults>>

----------------------------------------------------------------------------
(* Claiming *)

\* A worker process starts: it reconciles what the sweep did not skip, then polls.
StartWorker(w) ==
  /\ pc[w] = "down"
  /\ Become(w, "idle")
  /\ \E set \in SUBSET Ops : opStatus' = Reconciled(set)
  /\ UNCHANGED <<stepStatus, attempts, maxAttempts, lease, fence, tokenSeq,
                 receipts, failures, claimVars, faults>>

\* Mutant of StepClaimable: steps left running by a lost executor are skipped.
QueuedStepClaimable(s) ==
  /\ stepStatus[s] = "queued"
  /\ attempts[s] < maxAttempts[s]

\* What the claim rereads of the step once it is locked.
StepClaimable(s) ==
  /\ stepStatus[s] \in {"queued", "running"}
  /\ attempts[s] < maxAttempts[s]

\* Mutant of Claimable: predecessors need only have been started.
ClaimableOutOfOrder(s) ==
  /\ StepClaimable(s)
  /\ lease[s] # "live"
  /\ opStatus[OpOf[s]] \in OpenOp
  /\ \A p \in Predecessors(s) : stepStatus[p] # "queued"

\* The whole condition of the claim's SELECT.
Claimable(s) ==
  /\ StepClaimable(s)
  /\ lease[s] # "live"
  /\ opStatus[OpOf[s]] \in OpenOp
  /\ \A p \in Predecessors(s) : stepStatus[p] = "succeeded"

ClaimSnapshot(e, s) ==
  /\ pc[e] = "idle"
  /\ Claimable(s)
  /\ Become(e, "claiming")
  /\ mine' = [mine EXCEPT ![e] = s]
  /\ UNCHANGED <<ledgerVars, held, claimAttempt, faults>>

ClaimStep(e) ==
  LET s == mine[e]
      o == OpOf[s]
  IN /\ pc[e] = "claiming"
     /\ StepClaimable(s)
     /\ Become(e, "claimed")
     /\ stepStatus' = [stepStatus EXCEPT ![s] = "running"]
     /\ attempts' = [attempts EXCEPT ![s] = attempts[s] + 1]
     /\ lease' = [lease EXCEPT ![s] = "live"]
     /\ tokenSeq' = tokenSeq + 1
     /\ fence' = [fence EXCEPT ![s] = tokenSeq + 1]
     /\ opStatus' = [opStatus EXCEPT ![o] =
                       IF opStatus[o] = "queued" THEN "running" ELSE opStatus[o]]
     /\ held' = [held EXCEPT ![e] = tokenSeq + 1]
     /\ claimAttempt' = [claimAttempt EXCEPT ![e] = attempts[s] + 1]
     /\ UNCHANGED <<maxAttempts, receipts, failures, mine, faults>>

\* The locked row no longer qualifies: the claim returns undefined.
ClaimMissed(e) ==
  /\ pc[e] = "claiming"
  /\ ~StepClaimable(mine[e])
  /\ Become(e, "idle")
  /\ UNCHANGED <<ledgerVars, claimVars, faults>>

\* A worker's first heartbeat decides whether the activity runs at all.
Heartbeat(w) ==
  /\ pc[w] = "claimed"
  /\ Become(w, IF HoldsLease(w) THEN "executing" ELSE "failing")
  /\ UNCHANGED <<ledgerVars, claimVars, faults>>

\* The activity throws, or a later heartbeat found the lease stale.
ActivityFails(w) ==
  /\ pc[w] = "executing"
  /\ Become(w, "failing")
  /\ UNCHANGED <<ledgerVars, claimVars, faults>>

----------------------------------------------------------------------------
(* Recording an outcome *)

\* A worker has run its activity; a caller had its outcome before it claimed.
HasOutcome(e) == pc[e] = (IF e \in Workers THEN "executing" ELSE "claimed")

\* Where an executor goes when completeStep throws: the worker's catch calls
\* failStep, the caller gives up.
Thrown(e) == IF e \in Workers THEN "failing" ELSE "idle"

\* Mutant of PriorReceipt: the receipt is looked up after the update only.
PriorReceiptUnread(e) == NoReceipt

PriorReceipt(e) == receipts[ReceiptKey[e][mine[e]]]

\* No prior receipt: the step succeeds. The reply may be lost after the commit.
CompleteStep(e, out) ==
  /\ HasOutcome(e)
  /\ PriorReceipt(e) = NoReceipt
  /\ HoldsLease(e)
  /\ CanSettle(mine[e], "succeeded")
  /\ Settle(mine[e], "succeeded")
  /\ receipts' = [receipts EXCEPT ![ReceiptKey[e][mine[e]]] =
                    [step |-> mine[e], output |-> out]]
  /\ \E phase \in {"idle", Thrown(e)} : Become(e, phase)
  /\ UNCHANGED <<failures, claimVars, faults>>

\* The key holds the very same receipt: it is returned, the lease not even read.
CompleteReplay(e, out) ==
  /\ HasOutcome(e)
  /\ PriorReceipt(e) = [step |-> mine[e], output |-> out]
  /\ Become(e, "idle")
  /\ UNCHANGED <<ledgerVars, claimVars, faults>>

\* The key holds another receipt: the holder's step fails, then the call throws.
CompleteConflict(e, out) ==
  /\ HasOutcome(e)
  /\ PriorReceipt(e) \notin {NoReceipt, [step |-> mine[e], output |-> out]}
  /\ HoldsLease(e)
  /\ CanSettle(mine[e], "failed")
  /\ Settle(mine[e], "failed")
  /\ Become(e, Thrown(e))
  /\ UNCHANGED <<receipts, failures, claimVars, faults>>

\* STALE_LEASE, or the trigger rolled the transaction back.
CompleteRefused(e, out) ==
  LET status == IF PriorReceipt(e) = NoReceipt THEN "succeeded" ELSE "failed"
  IN /\ HasOutcome(e)
     /\ PriorReceipt(e) # [step |-> mine[e], output |-> out]
     /\ ~(HoldsLease(e) /\ CanSettle(mine[e], status))
     /\ Become(e, Thrown(e))
     /\ UNCHANGED <<ledgerVars, claimVars, faults>>

\* Workers number the failure receipts of a step by attempt, callers do not.
FailureKey(e) == <<mine[e], IF e \in Workers THEN claimAttempt[e] ELSE 0>>

\* A caller never asks for a retry, a worker's error class decides.
MayFail(e, retryable) ==
  \/ e \in Workers /\ pc[e] = "failing"
  \/ e \in Callers /\ pc[e] = "claimed" /\ ~retryable

\* Mutant of NextState: off by one at the last attempt.
NextStateOffByOne(s, retryable) ==
  IF retryable /\ attempts[s] <= maxAttempts[s] THEN "queued" ELSE "failed"

\* Mutant of NextState: the terminal state is the operation's, not the step's.
NextStateCancelled(s, retryable) ==
  IF retryable /\ attempts[s] < maxAttempts[s] THEN "queued" ELSE "cancelled"

NextState(s, retryable) ==
  IF retryable /\ attempts[s] < maxAttempts[s] THEN "queued" ELSE "failed"

FailStep(e, retryable) ==
  /\ MayFail(e, retryable)
  /\ FailureKey(e) \notin failures
  /\ HoldsLease(e)
  /\ CanSettle(mine[e], NextState(mine[e], retryable))
  /\ Settle(mine[e], NextState(mine[e], retryable))
  /\ failures' = failures \cup {FailureKey(e)}
  /\ Become(e, "idle")
  /\ UNCHANGED <<receipts, claimVars, faults>>

\* A receipt has the key already, the lease is stale or the trigger refused:
\* nothing is written, and the worker swallows the error.
FailIgnored(e, retryable) ==
  /\ MayFail(e, retryable)
  /\ \/ FailureKey(e) \in failures
     \/ ~HoldsLease(e)
     \/ ~CanSettle(mine[e], NextState(mine[e], retryable))
  /\ Become(e, "idle")
  /\ UNCHANGED <<ledgerVars, claimVars, faults>>

----------------------------------------------------------------------------
(* Faults *)

Engaged == {"claimed", "executing", "failing"}

\* An executor still works under the lease the row describes.
Attended(s) ==
  \E e \in Executors : pc[e] \in Engaged /\ mine[e] = s /\ fence[s] = held[e]

\* A worker process dies, or a caller's request does.
Crash(e) ==
  /\ pc[e] \notin {"down", "idle"}
  /\ faults < MaxFaults
  /\ faults' = faults + 1
  /\ Become(e, IF e \in Workers THEN "down" ELSE "idle")
  /\ UNCHANGED <<ledgerVars, claimVars>>

\* Nobody extends the lease any more and its time runs out.
Expire(s) ==
  /\ lease[s] = "live"
  /\ ~Attended(s)
  /\ lease' = [lease EXCEPT ![s] = "expired"]
  /\ UNCHANGED <<opStatus, stepStatus, attempts, maxAttempts, fence, tokenSeq,
                 receipts, failures, pc, claimVars, faults>>

\* The holder lives but stalls for longer than its lease.
Stall(s) ==
  /\ lease[s] = "live"
  /\ Attended(s)
  /\ faults < MaxFaults
  /\ faults' = faults + 1
  /\ lease' = [lease EXCEPT ![s] = "expired"]
  /\ UNCHANGED <<opStatus, stepStatus, attempts, maxAttempts, fence, tokenSeq,
                 receipts, failures, pc, claimVars>>

----------------------------------------------------------------------------
Init ==
  /\ opStatus = [o \in Ops |-> "absent"]
  /\ stepStatus = [s \in Steps |-> "absent"]
  /\ attempts = [s \in Steps |-> 0]
  /\ maxAttempts = MaxAttempts
  /\ lease = [s \in Steps |-> "none"]
  /\ fence = [s \in Steps |-> 0]
  /\ tokenSeq = 0
  /\ receipts = [k \in Keys |-> NoReceipt]
  /\ failures = {}
  /\ pc = [e \in Executors |-> IF e \in Workers THEN "down" ELSE "idle"]
  /\ mine = [e \in Executors |-> NoStep]
  /\ held = [e \in Executors |-> 0]
  /\ claimAttempt = [e \in Executors |-> 0]
  /\ faults = 0

ClientNext ==
  \E o \in Ops : \/ CreateOperation(o)
                 \/ CancelOperation(o)
                 \/ RetryOperation(o)
                 \/ ReconcileOperation(o)

\* What an executor does with a step once it has chosen it.
Proceed(e) ==
  \/ ClaimStep(e)
  \/ ClaimMissed(e)
  \/ e \in Workers /\ Heartbeat(e)
  \/ ActivityFails(e)
  \/ \E out \in Outputs : \/ CompleteStep(e, out)
                          \/ CompleteReplay(e, out)
                          \/ CompleteConflict(e, out)
                          \/ CompleteRefused(e, out)
  \/ \E retryable \in BOOLEAN : FailStep(e, retryable) \/ FailIgnored(e, retryable)

Poll(e) == \E s \in Steps : ClaimSnapshot(e, s)

Next ==
  \/ ClientNext
  \/ \E w \in Workers : StartWorker(w)
  \/ \E e \in Executors : Poll(e) \/ Proceed(e) \/ Crash(e)
  \/ \E s \in Steps : Expire(s) \/ Stall(s)

Spec == Init /\ [][Next]_vars

\* Worker processes are restarted and keep polling, executors that claimed a
\* step go on with it, and the clock moves.
Fairness ==
  /\ \A w \in Workers : WF_vars(StartWorker(w)) /\ WF_vars(Poll(w))
  /\ \A e \in Executors : WF_vars(Proceed(e))
  /\ \A s \in Steps : WF_vars(Expire(s))

FairSpec == Spec /\ Fairness

----------------------------------------------------------------------------
TypeOK ==
  /\ opStatus \in [Ops -> OpStates]
  /\ stepStatus \in [Steps -> StepStates]
  /\ attempts \in [Steps -> Nat]
  /\ maxAttempts \in [Steps -> Nat]
  /\ lease \in [Steps -> LeaseStates]
  /\ fence \in [Steps -> Nat]
  /\ tokenSeq \in Nat
  /\ receipts \in [Keys -> Receipt \cup {NoReceipt}]
  /\ failures \subseteq Steps \X Nat
  /\ pc \in [Executors -> Phases]
  /\ mine \in [Executors -> Steps \cup {NoStep}]
  /\ held \in [Executors -> Nat]
  /\ claimAttempt \in [Executors -> Nat]
  /\ faults \in Nat

\* At most one executor holds a valid lease on a step: whatever claims raced,
\* crashed or expired, only one can still heartbeat, complete or fail it.
SingleHolder ==
  \A e, f \in Executors :
    /\ pc[e] \in Engaged /\ HoldsLease(e)
    /\ pc[f] \in Engaged /\ HoldsLease(f)
    /\ mine[e] = mine[f]
    => e = f

\* A lease is outstanding on running steps only, and a step of an open
\* operation runs only under a lease: no handler leaks or drops one.
LeaseBacksRunning ==
  \A s \in Steps :
    /\ lease[s] \in {"live", "expired"} => stepStatus[s] = "running"
    /\ stepStatus[s] = "running" /\ opStatus[OpOf[s]] \in OpenOp
         => lease[s] \in {"live", "expired"}

\* Every handler leaves an operation in the status its steps determine, so the
\* reconciliation sweep finds nothing to repair; only cancellation overrides it.
StatusFollowsSteps ==
  \A o \in Ops :
    opStatus[o] \notin {"absent", "cancelled"} => opStatus[o] = Derived(o, stepStatus)

\* Steps run in ordinal order: one that was ever started has only succeeded
\* predecessors, although the claim checks them in an older snapshot.
StepsInOrder ==
  \A s \in Steps :
    attempts[s] > 0 => \A p \in Predecessors(s) : stepStatus[p] = "succeeded"

\* A step has succeeded exactly when one success receipt names it, under one
\* key, whoever executed it and however often.
OneReceiptPerSuccess ==
  \A s \in Steps :
    LET naming == {k \in Keys : receipts[k] # NoReceipt /\ receipts[k].step = s}
    IN Cardinality(naming) = (IF stepStatus[s] = "succeeded" THEN 1 ELSE 0)

\* A queued step still has an attempt left: exhaustion always ends in failure,
\* never in a step that waits for a claim no worker can make.
QueuedHasAttempt ==
  \A s \in Steps :
    /\ attempts[s] <= maxAttempts[s]
    /\ stepStatus[s] = "queued" => attempts[s] < maxAttempts[s]

\* Success and cancellation are final: no retry, late result or sweep changes
\* the operation, and no step of a cancelled one is recorded as finished.
FinalStays ==
  [][\A o \in Ops : opStatus[o] \in {"succeeded", "cancelled"} =>
       /\ opStatus'[o] = opStatus[o]
       /\ \A s \in StepsOf(o) : stepStatus'[s] \in {stepStatus[s], "running"}]_vars

Lifecycle ==
  INSTANCE OperationLifecycle
  WITH status <- opStatus, done <- {s \in Steps : stepStatus[s] = "succeeded"}

\* The ledger with all its executors and faults implements what clients rely on:
\* steps succeed once and in order, only in open operations, the last success
\* and nothing else makes an operation succeeded, and ended operations stay so
\* but for the retry of a failed one.
ImplementsLifecycle == Lifecycle!Spec

\* A running step whose last attempt was lost with its executor: the claim's
\* attempt_count < max_attempts refuses it and no handler fails it.
LastAttemptLost(s) ==
  /\ stepStatus[s] = "running"
  /\ lease[s] = "expired"
  /\ attempts[s] = maxAttempts[s]

\* An operation that is open ends, whatever crashes, stalls, races and failures
\* its attempts meet, unless a crash or a stall takes the last attempt of a step.
SettlesUnlessLastAttemptLost ==
  \A o \in Ops :
    opStatus[o] \in OpenOp ~>
      (opStatus[o] \in TerminalOp \/ \E s \in StepsOf(o) : LastAttemptLost(s))

\* A step whose lease expired is claimed again or its operation is closed.
ExpiredIsReclaimed ==
  \A s \in Steps :
    lease[s] = "expired" ~> (lease[s] = "live" \/ opStatus[OpOf[s]] \in TerminalOp)
=============================================================================
