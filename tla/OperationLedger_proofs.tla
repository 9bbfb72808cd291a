----------------------- MODULE OperationLedger_proofs -----------------------
(***************************************************************************)
(* Safety of the operation ledger for any operations, steps, executors,    *)
(* keys and bounds.  The invariants are proved in layers, each citing the  *)
(* layers before it:                                                       *)
(*                                                                         *)
(*   Typed    = TypeOK and an executor that claims or works has a step     *)
(*   Fenced   = fencing tokens come from the sequence and are never shared *)
(*   Ordered  = StepsInOrder, strengthened by what a claim that has only   *)
(*              read its snapshot relies on until it writes                *)
(*   Followed = StatusFollowsSteps, which needs Ordered: a step that runs  *)
(*              and a step that failed never belong to the same operation  *)
(*   Leased   = LeaseBacksRunning on top of them, which attempts, receipts *)
(*              and the refinement of OperationLifecycle rest on           *)
(***************************************************************************)
EXTENDS OperationLedger, FiniteSetTheorems, TLAPS

\* An executor that claims or works knows its step.
BusyHasStep ==
  \A e \in Executors : pc[e] \in {"claiming"} \cup Engaged => mine[e] \in Steps

Typed == TypeOK /\ BusyHasStep

\* The steps of the executors and of the environment by what they may write:
\* the actions that write nothing of the ledger ...
Local(e) ==
  \/ ClaimMissed(e)
  \/ e \in Workers /\ Heartbeat(e)
  \/ ActivityFails(e)
  \/ \E out \in Outputs : CompleteReplay(e, out) \/ CompleteRefused(e, out)
  \/ \E retryable \in BOOLEAN : FailIgnored(e, retryable)
  \/ Crash(e)

\* ... and those that end an attempt.
Settles(e) ==
  \/ \E out \in Outputs : CompleteStep(e, out) \/ CompleteConflict(e, out)
  \/ \E retryable \in BOOLEAN : FailStep(e, retryable)

\* The next-state relation, sorted by what a step writes.
LEMMA NextCases ==
  ASSUME Next
  PROVE  \/ \E o \in Ops : \/ CreateOperation(o)
                           \/ CancelOperation(o)
                           \/ RetryOperation(o)
                           \/ ReconcileOperation(o)
         \/ \E w \in Workers : StartWorker(w)
         \/ \E e \in Executors, s \in Steps : ClaimSnapshot(e, s)
         \/ \E e \in Executors : ClaimStep(e)
         \/ \E e \in Executors : Local(e)
         \/ \E e \in Executors : Settles(e)
         \/ \E s \in Steps : Expire(s) \/ Stall(s)
  BY DEF Next, ClientNext, Poll, Proceed, Local, Settles

\* A reconciled operation has one of the four statuses steps determine.
LEMMA DerivedRange ==
  ASSUME NEW o, NEW st
  PROVE  Derived(o, st) \in {"failed", "succeeded", "running", "queued"}
  BY DEF Derived

LEMMA TypedInit == Init => Typed
<1> SUFFICES ASSUME Init PROVE Typed
  OBVIOUS
<1> USE BoundsAssumption DEF Init
<1>1. TypeOK
  BY DEF TypeOK, OpStates, StepStates, LeaseStates, Phases
<1>2. BusyHasStep
  BY DEF BusyHasStep, Engaged
<1> QED
  BY <1>1, <1>2 DEF Typed

\* What an executor writes of the ledger when it ends an attempt.
LEMMA SettlesEffect ==
  ASSUME Typed, NEW e \in Executors, Settles(e)
  PROVE  /\ pc[e] \in Engaged
         /\ mine[e] \in Steps
         /\ HoldsLease(e)
         /\ \E status \in {"succeeded", "failed", "queued"} :
              /\ CanSettle(mine[e], status)
              /\ Settle(mine[e], status)
              /\ status = "queued" => attempts[mine[e]] < maxAttempts[mine[e]]
         /\ receipts' \in [Keys -> Receipt \cup {NoReceipt}]
         /\ failures' \subseteq Steps \X Nat
         /\ pc' = [pc EXCEPT ![e] = pc'[e]]
         /\ pc'[e] \in {"idle", "failing"}
         /\ UNCHANGED <<claimVars, faults>>
<1> USE DEF Typed, TypeOK, BusyHasStep, Engaged
<1>1. CASE \E out \in Outputs : CompleteStep(e, out)
  <2>1. PICK out \in Outputs : CompleteStep(e, out)
    BY <1>1
  <2>2. pc[e] \in Engaged /\ mine[e] \in Steps
    BY <2>1 DEF CompleteStep, HasOutcome
  <2>3. receipts' \in [Keys -> Receipt \cup {NoReceipt}]
    BY <2>1, <2>2 DEF CompleteStep, Receipt
  <2>4. pc' = [pc EXCEPT ![e] = pc'[e]] /\ pc'[e] \in {"idle", "failing"}
    BY <2>1 DEF CompleteStep, Become, Thrown
  <2> QED
    BY <2>1, <2>2, <2>3, <2>4 DEF CompleteStep
<1>2. CASE \E out \in Outputs : CompleteConflict(e, out)
  <2>1. PICK out \in Outputs : CompleteConflict(e, out)
    BY <1>2
  <2>2. pc[e] \in Engaged /\ mine[e] \in Steps
    BY <2>1 DEF CompleteConflict, HasOutcome
  <2>3. pc' = [pc EXCEPT ![e] = pc'[e]] /\ pc'[e] \in {"idle", "failing"}
    BY <2>1 DEF CompleteConflict, Become, Thrown
  <2> QED
    BY <2>1, <2>2, <2>3 DEF CompleteConflict
<1>3. CASE \E retryable \in BOOLEAN : FailStep(e, retryable)
  <2>1. PICK retryable \in BOOLEAN : FailStep(e, retryable)
    BY <1>3
  <2>2. pc[e] \in Engaged /\ mine[e] \in Steps
    BY <2>1 DEF FailStep, MayFail
  <2>3. failures' \subseteq Steps \X Nat
    BY <2>1, <2>2 DEF FailStep, FailureKey
  <2>4. pc' = [pc EXCEPT ![e] = pc'[e]] /\ pc'[e] \in {"idle", "failing"}
    BY <2>1 DEF FailStep, Become
  <2>5. /\ NextState(mine[e], retryable) \in {"failed", "queued"}
        /\ NextState(mine[e], retryable) = "queued"
             => attempts[mine[e]] < maxAttempts[mine[e]]
    BY DEF NextState
  <2> QED
    BY <2>1, <2>2, <2>3, <2>4, <2>5 DEF FailStep
<1> QED
  BY <1>1, <1>2, <1>3 DEF Settles

\* What it writes when it does not: its own program counter.
LEMMA LocalEffect ==
  ASSUME Typed, NEW e \in Executors, Local(e)
  PROVE  /\ UNCHANGED <<ledgerVars, claimVars>>
         /\ faults' \in Nat
         /\ pc' = [pc EXCEPT ![e] = pc'[e]]
         /\ pc'[e] \in Phases
         /\ pc'[e] \in Engaged => pc[e] \in Engaged
         /\ pc'[e] # "claiming"
<1> USE DEF Typed, TypeOK, Phases, Engaged, Become
<1>1. CASE ClaimMissed(e)
  BY <1>1 DEF ClaimMissed
<1>2. CASE Heartbeat(e)
  BY <1>2 DEF Heartbeat
<1>3. CASE ActivityFails(e)
  BY <1>3 DEF ActivityFails
<1>4. CASE \E out \in Outputs : CompleteReplay(e, out)
  BY <1>4 DEF CompleteReplay
<1>5. CASE \E out \in Outputs : CompleteRefused(e, out)
  BY <1>5 DEF CompleteRefused, HasOutcome, Thrown
<1>6. CASE \E retryable \in BOOLEAN : FailIgnored(e, retryable)
  BY <1>6 DEF FailIgnored
<1>7. CASE Crash(e)
  BY <1>7 DEF Crash
<1> QED
  BY <1>1, <1>2, <1>3, <1>4, <1>5, <1>6, <1>7 DEF Local

LEMMA TypedNext == Typed /\ [Next]_vars => Typed'
<1> SUFFICES ASSUME Typed, [Next]_vars PROVE Typed'
  OBVIOUS
<1> USE DEF Typed, TypeOK, OpStates, StepStates, Engaged, BusyHasStep
<1>1. CASE \E o \in Ops : CreateOperation(o)
  BY <1>1 DEF CreateOperation, claimVars
<1>2. CASE \E o \in Ops : CancelOperation(o)
  BY <1>2 DEF CancelOperation, claimVars, LeaseStates
<1>3. CASE \E o \in Ops : RetryOperation(o)
  BY <1>3 DEF RetryOperation, claimVars
<1>4. ASSUME NEW set PROVE Reconciled(set) \in [Ops -> OpStates]
  BY DerivedRange DEF Reconciled
<1>5. CASE \E o \in Ops : ReconcileOperation(o)
  BY <1>4, <1>5 DEF ReconcileOperation, claimVars
<1>6. CASE \E w \in Workers : StartWorker(w)
  <2>1. PICK w \in Workers : StartWorker(w)
    BY <1>6
  <2>2. opStatus' \in [Ops -> OpStates]
    BY <1>4, <2>1 DEF StartWorker
  <2>3. pc' \in [Executors -> Phases] /\ BusyHasStep'
    BY <2>1 DEF StartWorker, claimVars, Become, Phases
  <2> QED
    BY <2>1, <2>2, <2>3 DEF StartWorker, claimVars
<1>7. CASE \E e \in Executors, s \in Steps : ClaimSnapshot(e, s)
  BY <1>7 DEF ClaimSnapshot, ledgerVars, Become, Phases
<1>8. CASE \E e \in Executors : ClaimStep(e)
  <2>1. PICK e \in Executors : ClaimStep(e)
    BY <1>8
  <2>2. mine[e] \in Steps
    BY <2>1 DEF ClaimStep
  <2>3. opStatus' \in [Ops -> OpStates]
    BY <2>1 DEF ClaimStep
  <2>4. /\ attempts' \in [Steps -> Nat]
        /\ claimAttempt' \in [Executors -> Nat]
    BY <2>1, <2>2 DEF ClaimStep
  <2>5. /\ stepStatus' \in [Steps -> StepStates]
        /\ lease' \in [Steps -> LeaseStates]
        /\ tokenSeq' \in Nat
        /\ fence' \in [Steps -> Nat]
        /\ held' \in [Executors -> Nat]
    BY <2>1 DEF ClaimStep, LeaseStates
  <2>6. pc' \in [Executors -> Phases] /\ BusyHasStep'
    BY <2>1, <2>2 DEF ClaimStep, Become, Phases
  <2> QED
    BY <2>1, <2>3, <2>4, <2>5, <2>6 DEF ClaimStep
<1>9. CASE \E e \in Executors : Local(e)
  <2>1. PICK e \in Executors : Local(e)
    BY <1>9
  <2> QED
    BY <2>1, LocalEffect DEF ledgerVars, claimVars, Phases
<1>10. CASE \E e \in Executors : Settles(e)
  <2>1. PICK e \in Executors : Settles(e)
    BY <1>10
  <2>2. PICK status \in {"succeeded", "failed", "queued"} : Settle(mine[e], status)
    BY <2>1, SettlesEffect
  <2>3. /\ stepStatus' \in [Steps -> StepStates]
        /\ lease' \in [Steps -> LeaseStates]
        /\ opStatus' \in [Ops -> OpStates]
    BY <2>2, DerivedRange DEF Settle, LeaseStates
  <2>4. pc' \in [Executors -> Phases] /\ BusyHasStep'
    BY <2>1, SettlesEffect DEF Phases, claimVars
  <2>5. /\ receipts' \in [Keys -> Receipt \cup {NoReceipt}]
        /\ failures' \subseteq Steps \X Nat
        /\ UNCHANGED <<claimVars, faults>>
    BY <2>1, SettlesEffect
  <2> QED
    BY <2>2, <2>3, <2>4, <2>5 DEF Settle, claimVars
<1>11. CASE \E s \in Steps : Expire(s) \/ Stall(s)
  BY <1>11 DEF Expire, Stall, claimVars, LeaseStates
<1>12. CASE UNCHANGED vars
  BY <1>12 DEF vars, ledgerVars, claimVars
<1> QED
  BY <1>1, <1>2, <1>3, <1>5, <1>6, <1>7, <1>8, <1>9, <1>10, <1>11, <1>12, NextCases

\* Every variable keeps its type, in particular a receipt always names a step
\* of the ledger and a failure receipt a step and an attempt.
THEOREM TypeCorrect == Spec => []TypeOK
<1>1. Spec => []Typed
  BY TypedInit, TypedNext, PTL DEF Spec
<1>2. Typed => TypeOK
  BY DEF Typed
<1> QED
  BY <1>1, <1>2, PTL

----------------------------------------------------------------------------
\* Tokens are drawn from the sequence, and no two executors that work hold the
\* same one.
TokensUnique ==
  /\ \A e \in Executors : held[e] <= tokenSeq
  /\ \A e, f \in Executors :
       pc[e] \in Engaged /\ pc[f] \in Engaged /\ held[e] = held[f] => e = f

LEMMA TokensInit == Init => TokensUnique
  BY DEF Init, TokensUnique, Engaged

LEMMA TokensNext == Typed /\ TokensUnique /\ [Next]_vars => TokensUnique'
<1> SUFFICES ASSUME Typed, TokensUnique, [Next]_vars PROVE TokensUnique'
  OBVIOUS
<1> USE DEF TokensUnique, Engaged
<1>1. CASE \E e \in Executors : ClaimStep(e)
  BY <1>1 DEF ClaimStep, Become, Typed, TypeOK
<1>2. CASE \E e \in Executors : Local(e)
  <2>1. PICK e \in Executors : Local(e)
    BY <1>2
  <2> QED
    BY <2>1, LocalEffect DEF ledgerVars, claimVars, Typed, TypeOK
<1>3. CASE \E e \in Executors : Settles(e)
  <2>1. PICK e \in Executors : Settles(e)
    BY <1>3
  <2>2. tokenSeq' = tokenSeq
    BY <2>1, SettlesEffect DEF Settle
  <2>3. /\ pc[e] \in Engaged
        /\ pc' = [pc EXCEPT ![e] = pc'[e]]
        /\ UNCHANGED claimVars
    BY <2>1, SettlesEffect
  <2> QED
    BY <2>2, <2>3 DEF claimVars, Typed, TypeOK
<1>4. CASE \E o \in Ops : \/ CreateOperation(o)
                          \/ CancelOperation(o)
                          \/ RetryOperation(o)
                          \/ ReconcileOperation(o)
  BY <1>4 DEF CreateOperation, CancelOperation, RetryOperation,
              ReconcileOperation, claimVars
<1>5. CASE \E w \in Workers : StartWorker(w)
  BY <1>5 DEF StartWorker, claimVars, Become, Typed, TypeOK
<1>6. CASE \E e \in Executors, s \in Steps : ClaimSnapshot(e, s)
  BY <1>6 DEF ClaimSnapshot, ledgerVars, Become, Typed, TypeOK
<1>7. CASE \E s \in Steps : Expire(s) \/ Stall(s)
  BY <1>7 DEF Expire, Stall, claimVars
<1>8. CASE UNCHANGED vars
  BY <1>8 DEF vars, ledgerVars, claimVars
<1> QED
  BY <1>1, <1>2, <1>3, <1>4, <1>5, <1>6, <1>7, <1>8, NextCases

\* At most one executor can heartbeat, complete or fail a step, for any number
\* of executors and whatever claims, crashes and expiries came before.
THEOREM LeaseExclusive == Spec => []SingleHolder
<1>1. Typed /\ TokensUnique => SingleHolder
  BY DEF SingleHolder, HoldsLease, TokensUnique
<1>2. Init => Typed /\ TokensUnique
  BY TypedInit, TokensInit
<1>3. Typed /\ TokensUnique /\ [Next]_vars => (Typed /\ TokensUnique)'
  BY TypedNext, TokensNext
<1> QED
  BY <1>1, <1>2, <1>3, PTL DEF Spec

----------------------------------------------------------------------------
(* The order of the steps and the status of the operations *)

Started == {"running", "succeeded", "failed"}

\* Steps exist together with their operation, untouched before.
AbsentTogether ==
  \A s \in Steps :
    /\ stepStatus[s] = "absent" <=> opStatus[OpOf[s]] = "absent"
    /\ stepStatus[s] = "absent" => attempts[s] = 0 /\ lease[s] = "none"

StartedHasAttempt ==
  \A s \in Steps : stepStatus[s] \in Started => attempts[s] > 0

\* An executor that works on a step has counted its attempt.
EngagedHasAttempt ==
  \A e \in Executors : pc[e] \in Engaged => attempts[mine[e]] > 0

\* What a claim read of the predecessors stays true: success is final.
ClaimsInOrder ==
  \A e \in Executors :
    pc[e] \in {"claiming"} \cup Engaged =>
      \A p \in Predecessors(mine[e]) : stepStatus[p] = "succeeded"

Ordered ==
  /\ AbsentTogether
  /\ StartedHasAttempt
  /\ EngagedHasAttempt
  /\ ClaimsInOrder
  /\ StepsInOrder

\* A step that has succeeded is never changed: the trigger stops every update
\* of it, and no other handler selects it.
LEMMA SuccessIsFinal ==
  ASSUME Typed, AbsentTogether, [Next]_vars,
         NEW s \in Steps, stepStatus[s] = "succeeded"
  PROVE  stepStatus'[s] = "succeeded"
<1> USE DEF Typed, TypeOK
<1>1. CASE \E o \in Ops : CreateOperation(o)
  BY <1>1 DEF CreateOperation, AbsentTogether
<1>2. CASE \E o \in Ops : CancelOperation(o) \/ ReconcileOperation(o)
  BY <1>2 DEF CancelOperation, ReconcileOperation
<1>3. CASE \E o \in Ops : RetryOperation(o)
  BY <1>3 DEF RetryOperation
<1>4. CASE \E w \in Workers : StartWorker(w)
  BY <1>4 DEF StartWorker
<1>5. CASE \E e \in Executors, t \in Steps : ClaimSnapshot(e, t)
  BY <1>5 DEF ClaimSnapshot, ledgerVars
<1>6. CASE \E e \in Executors : ClaimStep(e)
  BY <1>6 DEF ClaimStep, StepClaimable
<1>7. CASE \E e \in Executors : Local(e)
  BY <1>7, LocalEffect DEF ledgerVars
<1>8. CASE \E e \in Executors : Settles(e)
  <2>1. PICK e \in Executors : Settles(e)
    BY <1>8
  <2>2. PICK status \in {"succeeded", "failed", "queued"} :
          CanSettle(mine[e], status) /\ Settle(mine[e], status)
    BY <2>1, SettlesEffect
  <2> QED
    BY <2>2 DEF CanSettle, Settle, TriggerAdmits, TerminalOp
<1>9. CASE \E t \in Steps : Expire(t) \/ Stall(t)
  BY <1>9 DEF Expire, Stall
<1>10. CASE UNCHANGED vars
  BY <1>10 DEF vars, ledgerVars
<1> QED
  BY <1>1, <1>2, <1>3, <1>4, <1>5, <1>6, <1>7, <1>8, <1>9, <1>10, NextCases

LEMMA OrderedInit == Init => Ordered
  BY OpOfAssumption DEF Init, Ordered, AbsentTogether, StartedHasAttempt,
     EngagedHasAttempt, ClaimsInOrder, StepsInOrder, Engaged, Started

\* A step under a valid lease exists.
LEMMA HeldStepExists ==
  ASSUME Ordered, NEW e \in Executors, mine[e] \in Steps, HoldsLease(e)
  PROVE  stepStatus[mine[e]] # "absent"
  BY DEF HoldsLease, Ordered, AbsentTogether

LEMMA AbsentNext ==
  ASSUME Typed, Ordered, [Next]_vars
  PROVE  AbsentTogether'
<1> USE OpOfAssumption DEF Typed, TypeOK, Ordered, AbsentTogether
<1>1. CASE \E o \in Ops : CreateOperation(o)
  BY <1>1 DEF CreateOperation
<1>2. CASE \E o \in Ops : CancelOperation(o)
  BY <1>2 DEF CancelOperation, OpenOp
<1>3. CASE \E o \in Ops : RetryOperation(o)
  BY <1>3 DEF RetryOperation, StepsOf
<1>4. ASSUME NEW set, opStatus' = Reconciled(set),
             UNCHANGED <<stepStatus, attempts, lease>>
      PROVE  AbsentTogether'
  BY <1>4, DerivedRange DEF Reconciled, OpenOp
<1>5. CASE \E o \in Ops : ReconcileOperation(o)
  BY <1>4, <1>5 DEF ReconcileOperation
<1>6. CASE \E w \in Workers : StartWorker(w)
  BY <1>4, <1>6 DEF StartWorker
<1>7. CASE \E e \in Executors, s \in Steps : ClaimSnapshot(e, s)
  BY <1>7 DEF ClaimSnapshot, ledgerVars
<1>8. CASE \E e \in Executors : ClaimStep(e)
  <2>1. PICK e \in Executors : ClaimStep(e)
    BY <1>8
  <2>2. mine[e] \in Steps /\ opStatus[OpOf[mine[e]]] # "absent"
    BY <2>1 DEF ClaimStep, StepClaimable, BusyHasStep
  <2> QED
    BY <2>1, <2>2 DEF ClaimStep
<1>9. CASE \E e \in Executors : Local(e)
  BY <1>9, LocalEffect DEF ledgerVars
<1>10. CASE \E e \in Executors : Settles(e)
  <2>1. PICK e \in Executors : Settles(e)
    BY <1>10
  <2>2. PICK status \in {"succeeded", "failed", "queued"} : Settle(mine[e], status)
    BY <2>1, SettlesEffect
  <2>3. mine[e] \in Steps /\ opStatus[OpOf[mine[e]]] # "absent"
    BY <2>1, SettlesEffect, HeldStepExists
  <2> QED
    BY <2>2, <2>3, DerivedRange DEF Settle
<1>11. CASE \E s \in Steps : Expire(s) \/ Stall(s)
  BY <1>11 DEF Expire, Stall
<1>12. CASE UNCHANGED vars
  BY <1>12 DEF vars, ledgerVars
<1> QED
  BY <1>1, <1>2, <1>3, <1>5, <1>6, <1>7, <1>8, <1>9, <1>10, <1>11, <1>12, NextCases

\* Attempts are counted by claims alone, which take steps of busy executors.
LEMMA AttemptsEffect ==
  ASSUME Typed, [Next]_vars
  PROVE  \/ attempts' = attempts
         \/ \E e \in Executors :
              /\ ClaimStep(e)
              /\ pc[e] = "claiming"
              /\ mine[e] \in Steps
              /\ attempts' = [attempts EXCEPT ![mine[e]] = attempts[mine[e]] + 1]
<1>1. CASE \E e \in Executors : ClaimStep(e)
  BY <1>1 DEF ClaimStep, Typed, BusyHasStep
<1>2. CASE \E e \in Executors : Local(e)
  BY <1>2, LocalEffect DEF ledgerVars
<1>3. CASE \E e \in Executors : Settles(e)
  BY <1>3, SettlesEffect DEF Settle
<1>4. CASE \E o \in Ops : \/ CreateOperation(o)
                          \/ CancelOperation(o)
                          \/ RetryOperation(o)
                          \/ ReconcileOperation(o)
  BY <1>4 DEF CreateOperation, CancelOperation, RetryOperation, ReconcileOperation
<1>5. CASE \E w \in Workers : StartWorker(w)
  BY <1>5 DEF StartWorker
<1>6. CASE \E e \in Executors, s \in Steps : ClaimSnapshot(e, s)
  BY <1>6 DEF ClaimSnapshot, ledgerVars
<1>7. CASE \E s \in Steps : Expire(s) \/ Stall(s)
  BY <1>7 DEF Expire, Stall
<1>8. CASE UNCHANGED vars
  BY <1>8 DEF vars, ledgerVars
<1> QED
  BY <1>1, <1>2, <1>3, <1>4, <1>5, <1>6, <1>7, <1>8, NextCases

LEMMA StartedNext ==
  ASSUME Typed, Ordered, [Next]_vars
  PROVE  StartedHasAttempt'
<1> USE OpOfAssumption DEF Typed, TypeOK, Ordered, StartedHasAttempt, Started
<1>1. CASE \E o \in Ops : CreateOperation(o)
  BY <1>1 DEF CreateOperation
<1>2. CASE \E o \in Ops : CancelOperation(o) \/ ReconcileOperation(o)
  BY <1>2 DEF CancelOperation, ReconcileOperation
<1>3. CASE \E o \in Ops : RetryOperation(o)
  BY <1>3 DEF RetryOperation
<1>4. CASE \E w \in Workers : StartWorker(w)
  BY <1>4 DEF StartWorker
<1>5. CASE \E e \in Executors, s \in Steps : ClaimSnapshot(e, s)
  BY <1>5 DEF ClaimSnapshot, ledgerVars
<1>6. CASE \E e \in Executors : ClaimStep(e)
  BY <1>6 DEF ClaimStep, BusyHasStep
<1>7. CASE \E e \in Executors : Local(e)
  BY <1>7, LocalEffect DEF ledgerVars
<1>8. CASE \E e \in Executors : Settles(e)
  <2>1. PICK e \in Executors : Settles(e)
    BY <1>8
  <2>2. PICK status \in {"succeeded", "failed", "queued"} : Settle(mine[e], status)
    BY <2>1, SettlesEffect
  <2>3. attempts[mine[e]] > 0
    BY <2>1, SettlesEffect DEF EngagedHasAttempt
  <2> QED
    BY <2>2, <2>3 DEF Settle
<1>9. CASE \E s \in Steps : Expire(s) \/ Stall(s)
  BY <1>9 DEF Expire, Stall
<1>10. CASE UNCHANGED vars
  BY <1>10 DEF vars, ledgerVars
<1> QED
  BY <1>1, <1>2, <1>3, <1>4, <1>5, <1>6, <1>7, <1>8, <1>9, <1>10, NextCases

\* Who is busy with which step: claims choose one whose predecessors are done,
\* and nobody else changes step.
LEMMA MineEffect ==
  ASSUME Typed, [Next]_vars, NEW e \in Executors, pc'[e] \in {"claiming"} \cup Engaged
  PROVE  \/ Claimable(mine'[e]) /\ pc'[e] = "claiming"
         \/ /\ pc[e] \in {"claiming"} \cup Engaged
            /\ mine'[e] = mine[e]
            /\ pc'[e] \in Engaged => pc[e] \in Engaged \/ ClaimStep(e)
<1> USE DEF Typed, TypeOK, Engaged
<1>1. CASE \E f \in Executors : ClaimStep(f)
  BY <1>1 DEF ClaimStep, Become
<1>2. CASE \E f \in Executors : Local(f)
  BY <1>2, LocalEffect DEF claimVars
<1>3. CASE \E f \in Executors : Settles(f)
  BY <1>3, SettlesEffect DEF claimVars
<1>4. CASE \E o \in Ops : \/ CreateOperation(o)
                          \/ CancelOperation(o)
                          \/ RetryOperation(o)
                          \/ ReconcileOperation(o)
  BY <1>4 DEF CreateOperation, CancelOperation, RetryOperation,
              ReconcileOperation, claimVars
<1>5. CASE \E w \in Workers : StartWorker(w)
  BY <1>5 DEF StartWorker, claimVars, Become
<1>6. CASE \E f \in Executors, s \in Steps : ClaimSnapshot(f, s)
  BY <1>6 DEF ClaimSnapshot, Become
<1>7. CASE \E s \in Steps : Expire(s) \/ Stall(s)
  BY <1>7 DEF Expire, Stall, claimVars
<1>8. CASE UNCHANGED vars
  BY <1>8 DEF vars, claimVars
<1> QED
  BY <1>1, <1>2, <1>3, <1>4, <1>5, <1>6, <1>7, <1>8, NextCases

LEMMA EngagedNext ==
  ASSUME Typed, Ordered, [Next]_vars
  PROVE  EngagedHasAttempt'
<1> SUFFICES ASSUME NEW e \in Executors, pc'[e] \in Engaged
             PROVE  attempts'[mine'[e]] > 0
  BY DEF EngagedHasAttempt
<1>1. /\ mine'[e] = mine[e]
      /\ pc[e] \in Engaged \/ ClaimStep(e)
  BY MineEffect DEF Engaged
<1>2. mine[e] \in Steps
  BY <1>1 DEF Typed, BusyHasStep, ClaimStep
<1>3. CASE pc[e] \in Engaged
  BY <1>1, <1>2, <1>3, AttemptsEffect DEF Ordered, EngagedHasAttempt, Typed, TypeOK
<1>4. CASE ClaimStep(e)
  BY <1>1, <1>2, <1>4 DEF ClaimStep, Typed, TypeOK
<1> QED
  BY <1>1, <1>3, <1>4

LEMMA ClaimsNext ==
  ASSUME Typed, Ordered, [Next]_vars
  PROVE  ClaimsInOrder'
<1> SUFFICES ASSUME NEW e \in Executors, pc'[e] \in {"claiming"} \cup Engaged,
                    NEW p \in Predecessors(mine'[e])
             PROVE  stepStatus'[p] = "succeeded"
  BY DEF ClaimsInOrder, Predecessors
<1>1. stepStatus[p] = "succeeded"
  BY MineEffect DEF Claimable, Ordered, ClaimsInOrder
<1> QED
  BY <1>1, SuccessIsFinal DEF Ordered, Predecessors

LEMMA StepsNext ==
  ASSUME Typed, Ordered, [Next]_vars
  PROVE  StepsInOrder'
<1> SUFFICES ASSUME NEW s \in Steps, attempts'[s] > 0, NEW p \in Predecessors(s)
             PROVE  stepStatus'[p] = "succeeded"
  BY DEF StepsInOrder, Predecessors
<1>1. stepStatus[p] = "succeeded"
  <2>1. CASE attempts'[s] = attempts[s]
    BY <2>1 DEF Ordered, StepsInOrder
  <2>2. CASE attempts'[s] # attempts[s]
    <3>1. PICK e \in Executors : pc[e] = "claiming" /\ mine[e] = s
      BY <2>2, AttemptsEffect DEF Typed, TypeOK
    <3> QED
      BY <3>1 DEF Ordered, ClaimsInOrder
  <2> QED
    BY <2>1, <2>2
<1> QED
  BY <1>1, SuccessIsFinal DEF Ordered, Predecessors

LEMMA OrderedNext == Typed /\ Ordered /\ [Next]_vars => Ordered'
  BY AbsentNext, StartedNext, EngagedNext, ClaimsNext, StepsNext DEF Ordered

\* Steps of an operation are attempted in the order of their ordinals, for any
\* number of workers and callers: what the claim's older snapshot said of the
\* predecessors cannot have changed when it writes.
THEOREM AttemptedInOrder == Spec => []StepsInOrder
<1>1. Init => Typed /\ Ordered
  BY TypedInit, OrderedInit
<1>2. Typed /\ Ordered /\ [Next]_vars => (Typed /\ Ordered)'
  BY TypedNext, OrderedNext
<1>3. Typed /\ Ordered => StepsInOrder
  BY DEF Ordered
<1> QED
  BY <1>1, <1>2, <1>3, PTL DEF Spec

----------------------------------------------------------------------------
\* Of a failed step's operation no other step runs or failed: the earlier one
\* of two attempted steps has succeeded.
LEMMA FailedStandsAlone ==
  ASSUME Ordered, NEW f \in Steps, NEW s \in Steps, OpOf[f] = OpOf[s],
         stepStatus[f] = "failed", stepStatus[s] \in {"running", "failed"}
  PROVE  f = s
<1>1. attempts[f] > 0 /\ attempts[s] > 0
  BY DEF Ordered, StartedHasAttempt, Started
<1>2. ~(Pos[f] < Pos[s]) /\ ~(Pos[s] < Pos[f])
  BY <1>1 DEF Ordered, StepsInOrder, Predecessors
<1> QED
  BY <1>2, PosAssumption, DistinctOrdinals

\* Nor is a step about to be claimed there.
LEMMA ClaimedStandsAlone ==
  ASSUME Ordered, NEW s \in Steps, stepStatus[s] \in {"queued", "running"},
         \A p \in Predecessors(s) : stepStatus[p] = "succeeded",
         NEW f \in Steps, OpOf[f] = OpOf[s]
  PROVE  stepStatus[f] # "failed"
<1> SUFFICES ASSUME stepStatus[f] = "failed" PROVE FALSE
  OBVIOUS
<1>1. attempts[f] > 0
  BY DEF Ordered, StartedHasAttempt, Started
<1>2. ~(Pos[f] < Pos[s]) /\ ~(Pos[s] < Pos[f])
  BY <1>1 DEF Ordered, StepsInOrder, Predecessors
<1> QED
  BY <1>2, PosAssumption, DistinctOrdinals

\* The derived status depends on the operation's own steps alone.
LEMMA DerivedLocal ==
  ASSUME NEW o, NEW st1, NEW st2, \A s \in StepsOf(o) : st1[s] = st2[s]
  PROVE  Derived(o, st1) = Derived(o, st2)
  BY DEF Derived

\* What each derived status says of the steps.
LEMMA DerivedMeaning ==
  ASSUME NEW o \in Ops, NEW st
  PROVE  /\ Derived(o, st) = "failed" <=> \E s \in StepsOf(o) : st[s] = "failed"
         /\ Derived(o, st) = "succeeded" <=> \A s \in StepsOf(o) : st[s] = "succeeded"
         /\ Derived(o, st) = "running" => \E s \in StepsOf(o) : st[s] = "running"
         /\ Derived(o, st) = "queued" => \A s \in StepsOf(o) : st[s] # "running"
<1>1. PICK s \in Steps : s \in StepsOf(o)
  BY EveryOperationHasSteps DEF StepsOf
<1> QED
  BY <1>1 DEF Derived

LEMMA FollowedInit == Init => StatusFollowsSteps
  BY DEF Init, StatusFollowsSteps

LEMMA FollowedNext ==
  Typed /\ Ordered /\ StatusFollowsSteps /\ [Next]_vars => StatusFollowsSteps'
<1> SUFFICES ASSUME Typed, Ordered, StatusFollowsSteps, [Next]_vars,
                    NEW o \in Ops, opStatus'[o] \notin {"absent", "cancelled"}
             PROVE  opStatus'[o] = Derived(o, stepStatus')
  BY DEF StatusFollowsSteps, Derived, StepsOf
<1> USE DEF Typed, TypeOK
<1>1. ASSUME opStatus'[o] = opStatus[o],
             \A s \in StepsOf(o) : stepStatus'[s] = stepStatus[s]
      PROVE  opStatus'[o] = Derived(o, stepStatus')
  BY <1>1, DerivedLocal DEF StatusFollowsSteps
<1>2. CASE \E p \in Ops : CreateOperation(p)
  <2>1. PICK p \in Ops : CreateOperation(p)
    BY <1>2
  <2>2. CASE p # o
    BY <2>1, <2>2, <1>1 DEF CreateOperation, StepsOf
  <2>3. CASE p = o
    <3>1. opStatus'[o] = "queued" /\ \A s \in StepsOf(o) : stepStatus'[s] = "queued"
      BY <2>1, <2>3 DEF CreateOperation, StepsOf
    <3>2. \E s \in Steps : s \in StepsOf(o)
      BY EveryOperationHasSteps DEF StepsOf
    <3> QED
      BY <3>1, <3>2 DEF Derived
  <2> QED
    BY <2>2, <2>3
<1>3. CASE \E p \in Ops : CancelOperation(p)
  BY <1>1, <1>3 DEF CancelOperation
<1>4. CASE \E p \in Ops : RetryOperation(p)
  <2>1. PICK p \in Ops : RetryOperation(p)
    BY <1>4
  <2>2. CASE p # o
    BY <2>1, <2>2, <1>1 DEF RetryOperation, StepsOf
  <2>3. CASE p = o
    <3>1. opStatus[o] = "failed" /\ Derived(o, stepStatus) = "failed"
      BY <2>1, <2>3 DEF RetryOperation, StatusFollowsSteps
    <3>2. PICK f \in StepsOf(o) : stepStatus[f] = "failed"
      BY <3>1, DerivedMeaning
    <3>3. \A s \in StepsOf(o) : stepStatus[s] # "running"
      BY <3>2, FailedStandsAlone DEF StepsOf
    <3>4. /\ opStatus'[o] = "queued"
          /\ stepStatus'[f] = "queued"
          /\ \A s \in StepsOf(o) : stepStatus'[s] \notin {"failed", "running"}
      BY <2>1, <2>3, <3>2, <3>3 DEF RetryOperation, StepsOf
    <3> QED
      BY <3>2, <3>4 DEF Derived
  <2> QED
    BY <2>2, <2>3
<1>5. ASSUME NEW set, opStatus' = Reconciled(set), UNCHANGED stepStatus
      PROVE  opStatus'[o] = Derived(o, stepStatus')
  BY <1>5 DEF Reconciled, StatusFollowsSteps
<1>6. CASE \E p \in Ops : ReconcileOperation(p)
  BY <1>5, <1>6 DEF ReconcileOperation
<1>7. CASE \E w \in Workers : StartWorker(w)
  BY <1>5, <1>7 DEF StartWorker
<1>8. CASE \E e \in Executors, s \in Steps : ClaimSnapshot(e, s)
  BY <1>1, <1>8 DEF ClaimSnapshot, ledgerVars
<1>9. CASE \E e \in Executors : ClaimStep(e)
  <2>1. PICK e \in Executors : ClaimStep(e)
    BY <1>9
  <2>2. mine[e] \in Steps /\ stepStatus[mine[e]] \in {"queued", "running"}
    BY <2>1 DEF ClaimStep, StepClaimable, BusyHasStep
  <2>3. CASE OpOf[mine[e]] # o
    BY <2>1, <2>2, <2>3, <1>1 DEF ClaimStep, StepsOf
  <2>4. CASE OpOf[mine[e]] = o
    <3>1. \A f \in StepsOf(o) : stepStatus[f] # "failed"
      BY <2>1, <2>2, <2>4, ClaimedStandsAlone
         DEF ClaimStep, Ordered, ClaimsInOrder, StepsOf
    <3>2. mine[e] \in StepsOf(o)
      BY <2>2, <2>4 DEF StepsOf
    <3>3. /\ \A f \in StepsOf(o) : stepStatus'[f] # "failed"
          /\ stepStatus'[mine[e]] = "running"
      BY <2>1, <2>2, <3>1 DEF ClaimStep, StepsOf
    <3>4. Derived(o, stepStatus') = "running"
      BY <3>2, <3>3 DEF Derived
    <3>5. opStatus[o] \notin {"absent", "cancelled"}
      BY <2>1, <2>4 DEF ClaimStep
    <3>6. opStatus[o] \in {"queued", "running"}
      BY <2>2, <3>1, <3>2, <3>5, DerivedMeaning, DerivedRange DEF StatusFollowsSteps
    <3>7. opStatus'[o] = "running"
      BY <2>1, <2>4, <3>6 DEF ClaimStep
    <3> QED
      BY <3>4, <3>7
  <2> QED
    BY <2>3, <2>4
<1>10. CASE \E e \in Executors : Local(e)
  BY <1>1, <1>10, LocalEffect DEF ledgerVars
<1>11. CASE \E e \in Executors : Settles(e)
  <2>1. PICK e \in Executors : Settles(e)
    BY <1>11
  <2>2. PICK status \in {"succeeded", "failed", "queued"} : Settle(mine[e], status)
    BY <2>1, SettlesEffect
  <2>3. mine[e] \in Steps
    BY <2>1, SettlesEffect
  <2>4. CASE OpOf[mine[e]] # o
    BY <2>2, <2>3, <2>4, <1>1 DEF Settle, StepsOf
  <2>5. CASE OpOf[mine[e]] = o
    BY <2>2, <2>5 DEF Settle
  <2> QED
    BY <2>4, <2>5
<1>12. CASE \E s \in Steps : Expire(s) \/ Stall(s)
  BY <1>1, <1>12 DEF Expire, Stall
<1>13. CASE UNCHANGED vars
  BY <1>1, <1>13 DEF vars, ledgerVars
<1> QED
  BY <1>2, <1>3, <1>4, <1>6, <1>7, <1>8, <1>9, <1>10, <1>11, <1>12, <1>13, NextCases

\* The strengthening that is inductive together.
Followed == Typed /\ Ordered /\ StatusFollowsSteps

LEMMA FollowedInvariant == Spec => []Followed
<1>1. Init => Followed
  BY TypedInit, OrderedInit, FollowedInit DEF Followed
<1>2. Followed /\ [Next]_vars => Followed'
  BY TypedNext, OrderedNext, FollowedNext DEF Followed
<1> QED
  BY <1>1, <1>2, PTL DEF Spec

\* Whatever transactions race, crash or replay, no handler leaves an operation
\* in another status than its steps determine, except a cancelled one.
THEOREM StatusCorrect == Spec => []StatusFollowsSteps
  BY FollowedInvariant, PTL DEF Followed

----------------------------------------------------------------------------
(* Leases *)

\* An attempt ends for a running step of an open operation only: the lease
\* vouches for the step, the trigger for the operation.
LEMMA SettlesOpen ==
  ASSUME Followed, LeaseBacksRunning, NEW e \in Executors, Settles(e)
  PROVE  /\ mine[e] \in Steps
         /\ stepStatus[mine[e]] = "running"
         /\ opStatus[OpOf[mine[e]]] \in OpenOp
<1> DEFINE s == mine[e]
           o == OpOf[s]
<1> USE DEF Followed
<1>1. s \in Steps /\ HoldsLease(e)
  BY SettlesEffect
<1>2. stepStatus[s] = "running"
  BY <1>1 DEF LeaseBacksRunning, HoldsLease
<1>3. o \in Ops /\ s \in StepsOf(o)
  BY <1>1, OpOfAssumption DEF StepsOf
<1>4. opStatus[o] # "absent"
  BY <1>1, <1>2 DEF Ordered, AbsentTogether
<1>5. opStatus[o] # "cancelled"
  <2>1. PICK status \in {"succeeded", "failed", "queued"} : CanSettle(s, status)
    BY SettlesEffect
  <2> QED
    BY <2>1, DerivedRange DEF CanSettle, TriggerAdmits, TerminalOp
<1>6. opStatus[o] # "succeeded"
  BY <1>2, <1>3, DerivedMeaning DEF StatusFollowsSteps
<1>7. opStatus[o] # "failed"
  <2>1. SUFFICES ASSUME opStatus[o] = "failed" PROVE FALSE
    OBVIOUS
  <2>2. PICK f \in StepsOf(o) : stepStatus[f] = "failed"
    BY <1>3, <2>1, DerivedMeaning DEF StatusFollowsSteps
  <2> QED
    BY <1>1, <1>2, <2>2, FailedStandsAlone DEF StepsOf
<1>8. opStatus[o] \in OpStates
  BY <1>3 DEF Typed, TypeOK
<1> QED
  BY <1>1, <1>2, <1>4, <1>5, <1>6, <1>7, <1>8 DEF OpStates, OpenOp

LEMMA LeasesInit == Init => LeaseBacksRunning
  BY DEF Init, LeaseBacksRunning

LEMMA LeasesNext ==
  Followed /\ LeaseBacksRunning /\ [Next]_vars => LeaseBacksRunning'
<1> SUFFICES ASSUME Followed, LeaseBacksRunning, [Next]_vars PROVE LeaseBacksRunning'
  OBVIOUS
<1> USE OpOfAssumption DEF Followed, Typed, TypeOK, LeaseBacksRunning, OpenOp
<1>1. CASE \E o \in Ops : CreateOperation(o)
  BY <1>1 DEF CreateOperation, Ordered, AbsentTogether
<1>2. CASE \E o \in Ops : CancelOperation(o)
  BY <1>2 DEF CancelOperation
<1>3. CASE \E o \in Ops : RetryOperation(o)
  <2>1. PICK o \in Ops : RetryOperation(o)
    BY <1>3
  <2>2. \A s \in StepsOf(o) : stepStatus[s] # "running"
    <3>1. Derived(o, stepStatus) = "failed"
      BY <2>1 DEF RetryOperation, StatusFollowsSteps
    <3>2. PICK f \in StepsOf(o) : stepStatus[f] = "failed"
      BY <3>1, DerivedMeaning
    <3> QED
      BY <3>2, FailedStandsAlone DEF StepsOf
  <2> QED
    BY <2>1, <2>2 DEF RetryOperation, StepsOf
<1>4. ASSUME NEW set, opStatus' = Reconciled(set), UNCHANGED <<stepStatus, lease>>
      PROVE  LeaseBacksRunning'
  BY <1>4 DEF Reconciled
<1>5. CASE \E o \in Ops : ReconcileOperation(o)
  BY <1>4, <1>5 DEF ReconcileOperation
<1>6. CASE \E w \in Workers : StartWorker(w)
  BY <1>4, <1>6 DEF StartWorker
<1>7. CASE \E e \in Executors, s \in Steps : ClaimSnapshot(e, s)
  BY <1>7 DEF ClaimSnapshot, ledgerVars
<1>8. CASE \E e \in Executors : ClaimStep(e)
  BY <1>8 DEF ClaimStep
<1>9. CASE \E e \in Executors : Local(e)
  BY <1>9, LocalEffect DEF ledgerVars
<1>10. CASE \E e \in Executors : Settles(e)
  <2>1. PICK e \in Executors : Settles(e)
    BY <1>10
  <2>2. PICK status \in {"succeeded", "failed", "queued"} : Settle(mine[e], status)
    BY <2>1, SettlesEffect
  <2>3. mine[e] \in Steps /\ opStatus[OpOf[mine[e]]] \in OpenOp
    BY <2>1, SettlesOpen
  <2> QED
    BY <2>2, <2>3 DEF Settle
<1>11. CASE \E s \in Steps : Expire(s) \/ Stall(s)
  BY <1>11 DEF Expire, Stall
<1>12. CASE UNCHANGED vars
  BY <1>12 DEF vars, ledgerVars
<1> QED
  BY <1>1, <1>2, <1>3, <1>5, <1>6, <1>7, <1>8, <1>9, <1>10, <1>11, <1>12, NextCases

\* What the theorems below rest on.
Leased == Followed /\ LeaseBacksRunning

LEMMA LeasedInvariant == Spec => []Leased
<1>1. Init => Leased
  BY TypedInit, OrderedInit, FollowedInit, LeasesInit DEF Leased, Followed
<1>2. Leased /\ [Next]_vars => Leased'
  BY TypedNext, OrderedNext, FollowedNext, LeasesNext DEF Leased, Followed
<1> QED
  BY <1>1, <1>2, PTL DEF Spec

\* No handler leaks a lease on a step that does not run, and none drops the
\* lease of a running step of an open operation.
THEOREM LeasesCorrect == Spec => []LeaseBacksRunning
<1>1. Leased => LeaseBacksRunning
  BY DEF Leased
<1> QED
  BY <1>1, LeasedInvariant, PTL

----------------------------------------------------------------------------
\* A new step may be attempted, and one that does not exist was not.
AttemptsLeft == QueuedHasAttempt /\ \A s \in Steps : maxAttempts[s] > 0

LEMMA AttemptsLeftInit == Init => AttemptsLeft
  BY BoundsAssumption DEF Init, AttemptsLeft, QueuedHasAttempt

LEMMA AttemptsLeftNext ==
  Followed /\ AttemptsLeft /\ [Next]_vars => AttemptsLeft'
<1> SUFFICES ASSUME Followed, AttemptsLeft, [Next]_vars PROVE AttemptsLeft'
  OBVIOUS
<1> USE DEF Followed, Typed, TypeOK, AttemptsLeft, QueuedHasAttempt
<1>1. CASE \E o \in Ops : CreateOperation(o)
  BY <1>1 DEF CreateOperation, Ordered, AbsentTogether
<1>2. CASE \E o \in Ops : CancelOperation(o) \/ ReconcileOperation(o)
  BY <1>2 DEF CancelOperation, ReconcileOperation
<1>3. CASE \E o \in Ops : RetryOperation(o)
  BY <1>3 DEF RetryOperation
<1>4. CASE \E w \in Workers : StartWorker(w)
  BY <1>4 DEF StartWorker
<1>5. CASE \E e \in Executors, s \in Steps : ClaimSnapshot(e, s)
  BY <1>5 DEF ClaimSnapshot, ledgerVars
<1>6. CASE \E e \in Executors : ClaimStep(e)
  BY <1>6 DEF ClaimStep, StepClaimable
<1>7. CASE \E e \in Executors : Local(e)
  BY <1>7, LocalEffect DEF ledgerVars
<1>8. CASE \E e \in Executors : Settles(e)
  <2>1. PICK e \in Executors : Settles(e)
    BY <1>8
  <2>2. PICK status \in {"succeeded", "failed", "queued"} :
          /\ Settle(mine[e], status)
          /\ status = "queued" => attempts[mine[e]] < maxAttempts[mine[e]]
    BY <2>1, SettlesEffect
  <2> QED
    BY <2>2 DEF Settle
<1>9. CASE \E s \in Steps : Expire(s) \/ Stall(s)
  BY <1>9 DEF Expire, Stall
<1>10. CASE UNCHANGED vars
  BY <1>10 DEF vars, ledgerVars
<1> QED
  BY <1>1, <1>2, <1>3, <1>4, <1>5, <1>6, <1>7, <1>8, <1>9, <1>10, NextCases

\* Exhausted attempts end in failure: no step waits for a claim that the
\* attempt limit forbids.
THEOREM AttemptsCorrect == Spec => []QueuedHasAttempt
<1>1. Init => AttemptsLeft
  BY AttemptsLeftInit
<1>2. Followed /\ AttemptsLeft /\ [Next]_vars => AttemptsLeft'
  BY AttemptsLeftNext
<1>3. AttemptsLeft => QueuedHasAttempt
  BY DEF AttemptsLeft
<1> QED
  BY <1>1, <1>2, <1>3, FollowedInvariant, PTL DEF Spec

----------------------------------------------------------------------------
LEMMA FinalNext ==
  ASSUME Leased, [Next]_vars, NEW o \in Ops, opStatus[o] \in {"succeeded", "cancelled"}
  PROVE  /\ opStatus'[o] = opStatus[o]
         /\ \A s \in StepsOf(o) : stepStatus'[s] \in {stepStatus[s], "running"}
<1> USE OpOfAssumption DEF Leased, Followed, Typed, TypeOK, StepsOf
<1>1. CASE \E p \in Ops : CreateOperation(p)
  BY <1>1 DEF CreateOperation
<1>2. CASE \E p \in Ops : CancelOperation(p)
  BY <1>2 DEF CancelOperation, OpenOp
<1>3. CASE \E p \in Ops : RetryOperation(p)
  BY <1>3 DEF RetryOperation
<1>4. CASE \E p \in Ops : ReconcileOperation(p)
  BY <1>4 DEF ReconcileOperation, Reconciled, OpenOp
<1>5. CASE \E w \in Workers : StartWorker(w)
  BY <1>5 DEF StartWorker, Reconciled, OpenOp
<1>6. CASE \E e \in Executors, s \in Steps : ClaimSnapshot(e, s)
  BY <1>6 DEF ClaimSnapshot, ledgerVars
<1>7. CASE \E e \in Executors : ClaimStep(e)
  BY <1>7 DEF ClaimStep
<1>8. CASE \E e \in Executors : Local(e)
  BY <1>8, LocalEffect DEF ledgerVars
<1>9. CASE \E e \in Executors : Settles(e)
  <2>1. PICK e \in Executors : Settles(e)
    BY <1>9
  <2>2. PICK status \in {"succeeded", "failed", "queued"} : Settle(mine[e], status)
    BY <2>1, SettlesEffect
  <2>3. mine[e] \in Steps /\ OpOf[mine[e]] # o
    BY <2>1, SettlesOpen DEF OpenOp
  <2> QED
    BY <2>2, <2>3 DEF Settle
<1>10. CASE \E s \in Steps : Expire(s) \/ Stall(s)
  BY <1>10 DEF Expire, Stall
<1>11. CASE UNCHANGED vars
  BY <1>11 DEF vars, ledgerVars
<1> QED
  BY <1>1, <1>2, <1>3, <1>4, <1>5, <1>6, <1>7, <1>8, <1>9, <1>10, <1>11, NextCases

\* A succeeded or cancelled operation is never changed again, however late a
\* completion, a sweep or a retry comes, and none of its steps is recorded as
\* finished afterwards.
THEOREM FinalityCorrect == Spec => FinalStays
<1>1. Leased /\ [Next]_vars =>
        [\A o \in Ops : opStatus[o] \in {"succeeded", "cancelled"} =>
           /\ opStatus'[o] = opStatus[o]
           /\ \A s \in StepsOf(o) : stepStatus'[s] \in {stepStatus[s], "running"}]_vars
  BY FinalNext
<1> QED
  BY <1>1, LeasedInvariant, PTL DEF Spec, FinalStays

----------------------------------------------------------------------------
\* The refinement of OperationLifecycle: a ledger step is one of its steps or
\* leaves the statuses and the succeeded steps alone.
Succeeded == {s \in Steps : stepStatus[s] = "succeeded"}

\* The reconciliation of an operation whose status is right changes nothing.
LEMMA SweepIsIdle ==
  ASSUME Followed, NEW set PROVE Reconciled(set) = opStatus
  BY DEF Followed, Typed, TypeOK, Reconciled, StatusFollowsSteps, OpenOp

\* The end of an attempt is a step of the abstract specification.
LEMMA SettlesLifecycle ==
  ASSUME Leased, NEW e \in Executors, Settles(e)
  PROVE  Lifecycle!Next
<1> DEFINE s == mine[e]
           o == OpOf[s]
<1> USE DEF Leased, Followed, Typed, TypeOK
<1>1. /\ s \in Steps /\ o \in Ops /\ s \in StepsOf(o)
      /\ stepStatus[s] = "running"
      /\ opStatus[o] \in OpenOp
  BY SettlesOpen, OpOfAssumption DEF StepsOf
<1>2. PICK status \in {"succeeded", "failed", "queued"} : Settle(s, status)
  BY SettlesEffect
<1>3. /\ stepStatus' = [stepStatus EXCEPT ![s] = status]
      /\ opStatus' = [opStatus EXCEPT ![o] = Derived(o, stepStatus')]
  BY <1>2 DEF Settle
<1>4. Derived(o, stepStatus') \in {"failed", "succeeded", "running", "queued"}
  BY DerivedRange
<1>5. CASE status = "succeeded"
  <2>1. Succeeded' = Succeeded \cup {s}
    BY <1>1, <1>3, <1>5 DEF Succeeded
  <2>2. s \notin Succeeded
    BY <1>1 DEF Succeeded
  <2>3. Predecessors(s) \subseteq Succeeded
    BY <1>1, SettlesEffect DEF Ordered, ClaimsInOrder, Predecessors, Succeeded
  <2>4. \A f \in StepsOf(o) : stepStatus'[f] # "failed"
    BY <1>1, <1>3, <1>5, FailedStandsAlone DEF StepsOf
  <2>5. Derived(o, stepStatus') # "failed"
    BY <1>1, <2>4, DerivedMeaning
  <2>6. StepsOf(o) \subseteq Succeeded' <=> Derived(o, stepStatus') = "succeeded"
    BY <1>1, DerivedMeaning DEF StepsOf, Succeeded
  <2>7. PICK t \in Steps : t = s
    BY <1>1
  <2>8. Lifecycle!Finish(t)
    BY <1>1, <2>7, <1>3, <1>4, <2>1, <2>2, <2>3, <2>5, <2>6
       DEF Lifecycle!Finish, Lifecycle!Open, OpenOp, Lifecycle!Before,
           Predecessors, Lifecycle!StepsOf, StepsOf, Succeeded
  <2> QED
    BY <2>8 DEF Lifecycle!Next
<1>6. CASE status # "succeeded"
  <2>1. Succeeded' = Succeeded
    BY <1>1, <1>2, <1>3, <1>6 DEF Succeeded
  <2>2. Derived(o, stepStatus') # "succeeded"
    BY <1>1, <1>3, <1>6, DerivedMeaning
  <2>3. CASE Derived(o, stepStatus') = "failed"
    BY <1>1, <1>3, <2>1, <2>3
       DEF Lifecycle!Next, Lifecycle!GiveUp, Lifecycle!Open, OpenOp, Succeeded
  <2>4. CASE Derived(o, stepStatus') \in {"queued", "running"}
    BY <1>1, <1>3, <2>1, <2>4
       DEF Lifecycle!Next, Lifecycle!Work, Lifecycle!Open, OpenOp, Succeeded
  <2> QED
    BY <1>4, <2>2, <2>3, <2>4
<1> QED
  BY <1>5, <1>6

LEMMA LifecycleNext == Leased /\ [Next]_vars => [Lifecycle!Next]_(Lifecycle!vars)
<1> SUFFICES ASSUME Leased, [Next]_vars PROVE [Lifecycle!Next]_(Lifecycle!vars)
  OBVIOUS
<1> USE OpOfAssumption DEF Leased, Followed, Typed, TypeOK
<1>1. ASSUME opStatus' = opStatus, Succeeded' = Succeeded
      PROVE  [Lifecycle!Next]_(Lifecycle!vars)
  BY <1>1 DEF Lifecycle!vars, Succeeded
<1>2. CASE \E o \in Ops : CreateOperation(o)
  <2>1. PICK o \in Ops : CreateOperation(o)
    BY <1>2
  <2>2. Succeeded' = Succeeded
    BY <2>1 DEF CreateOperation, Succeeded, Ordered, AbsentTogether
  <2>3. Lifecycle!Enqueue(o)
    BY <2>1, <2>2 DEF CreateOperation, Lifecycle!Enqueue, Succeeded
  <2> QED
    BY <2>3 DEF Lifecycle!Next
<1>3. CASE \E o \in Ops : CancelOperation(o)
  <2>1. PICK o \in Ops : CancelOperation(o)
    BY <1>3
  <2>2. Lifecycle!GiveUp(o)
    BY <2>1 DEF CancelOperation, Lifecycle!GiveUp, Lifecycle!Open, OpenOp
  <2> QED
    BY <2>2 DEF Lifecycle!Next
<1>4. CASE \E o \in Ops : RetryOperation(o)
  <2>1. PICK o \in Ops : RetryOperation(o)
    BY <1>4
  <2>2. Succeeded' = Succeeded
    BY <2>1 DEF RetryOperation, Succeeded
  <2>3. Lifecycle!Enqueue(o)
    BY <2>1, <2>2 DEF RetryOperation, Lifecycle!Enqueue, Succeeded
  <2> QED
    BY <2>3 DEF Lifecycle!Next
<1>5. CASE \E o \in Ops : ReconcileOperation(o)
  BY <1>1, <1>5, SweepIsIdle DEF ReconcileOperation, Succeeded
<1>6. CASE \E w \in Workers : StartWorker(w)
  BY <1>1, <1>6, SweepIsIdle DEF StartWorker, Succeeded
<1>7. CASE \E e \in Executors, s \in Steps : ClaimSnapshot(e, s)
  BY <1>1, <1>7 DEF ClaimSnapshot, ledgerVars, Succeeded
<1>8. CASE \E e \in Executors : ClaimStep(e)
  <2>1. PICK e \in Executors : ClaimStep(e)
    BY <1>8
  <2>2. mine[e] \in Steps /\ OpOf[mine[e]] \in Ops
    BY <2>1 DEF ClaimStep, BusyHasStep
  <2>3. Succeeded' = Succeeded
    BY <2>1, <2>2 DEF ClaimStep, StepClaimable, Succeeded
  <2>4. CASE opStatus[OpOf[mine[e]]] = "queued"
    BY <2>1, <2>2, <2>3, <2>4
       DEF ClaimStep, Lifecycle!Next, Lifecycle!Work, Lifecycle!Open, Succeeded
  <2>5. CASE opStatus[OpOf[mine[e]]] # "queued"
    BY <2>1, <2>2, <2>3, <2>5, <1>1 DEF ClaimStep
  <2> QED
    BY <2>4, <2>5
<1>9. CASE \E e \in Executors : Local(e)
  BY <1>1, <1>9, LocalEffect DEF ledgerVars, Succeeded
<1>10. CASE \E e \in Executors : Settles(e)
  BY <1>10, SettlesLifecycle
<1>11. CASE \E s \in Steps : Expire(s) \/ Stall(s)
  BY <1>1, <1>11 DEF Expire, Stall, Succeeded
<1>12. CASE UNCHANGED vars
  BY <1>1, <1>12 DEF vars, ledgerVars, Succeeded
<1> QED
  BY <1>2, <1>3, <1>4, <1>5, <1>6, <1>7, <1>8, <1>9, <1>10, <1>11, <1>12, NextCases

\* The ledger with its workers, callers, crashes and races implements the
\* lifecycle a client relies on.
THEOREM LifecycleImplemented == Spec => ImplementsLifecycle
<1>1. Init => Lifecycle!Init
  BY DEF Init, Lifecycle!Init
<1>2. Leased /\ [Next]_vars => [Lifecycle!Next]_(Lifecycle!vars)
  BY LifecycleNext
<1> QED
  BY <1>1, <1>2, LeasedInvariant, PTL DEF Spec, ImplementsLifecycle, Lifecycle!Spec

----------------------------------------------------------------------------
\* The keys whose success receipt names a step: one exactly when it succeeded.
Naming(s) == {k \in Keys : receipts[k] # NoReceipt /\ receipts[k].step = s}

Receipted ==
  \A s \in Steps :
    /\ stepStatus[s] = "succeeded" => \E k \in Keys : Naming(s) = {k}
    /\ stepStatus[s] # "succeeded" => Naming(s) = {}

LEMMA ReceiptedInit == Init => Receipted
  BY DEF Init, Receipted, Naming

\* What only the end of an attempt changes.
LEMMA ReceiptsEffect ==
  ASSUME Followed, [Next]_vars
  PROVE  \/ receipts' = receipts /\ Succeeded' = Succeeded
         \/ \E e \in Executors : Settles(e)
<1> USE OpOfAssumption DEF Followed, Typed, TypeOK, Succeeded
<1>1. CASE \E o \in Ops : CreateOperation(o)
  BY <1>1 DEF CreateOperation, Ordered, AbsentTogether
<1>2. CASE \E o \in Ops : CancelOperation(o) \/ ReconcileOperation(o)
  BY <1>2 DEF CancelOperation, ReconcileOperation
<1>3. CASE \E o \in Ops : RetryOperation(o)
  BY <1>3 DEF RetryOperation
<1>4. CASE \E w \in Workers : StartWorker(w)
  BY <1>4 DEF StartWorker
<1>5. CASE \E e \in Executors, s \in Steps : ClaimSnapshot(e, s)
  BY <1>5 DEF ClaimSnapshot, ledgerVars
<1>6. CASE \E e \in Executors : ClaimStep(e)
  BY <1>6 DEF ClaimStep, StepClaimable, BusyHasStep
<1>7. CASE \E e \in Executors : Local(e)
  BY <1>7, LocalEffect DEF ledgerVars
<1>8. CASE \E s \in Steps : Expire(s) \/ Stall(s)
  BY <1>8 DEF Expire, Stall
<1>9. CASE UNCHANGED vars
  BY <1>9 DEF vars, ledgerVars
<1> QED
  BY <1>1, <1>2, <1>3, <1>4, <1>5, <1>6, <1>7, <1>8, <1>9, NextCases

\* A success writes the step's first receipt under a free key; no other end of
\* an attempt writes a receipt.
LEMMA ReceiptWritten ==
  ASSUME Followed, NEW e \in Executors, Settles(e)
  PROVE  \/ /\ receipts' = receipts
            /\ \E status \in {"failed", "queued"} : Settle(mine[e], status)
         \/ \E k \in Keys, out \in Outputs :
              /\ receipts[k] = NoReceipt
              /\ receipts' = [receipts EXCEPT ![k] = [step |-> mine[e], output |-> out]]
              /\ Settle(mine[e], "succeeded")
<1>1. CASE \E out \in Outputs : CompleteStep(e, out)
  <2>1. PICK out \in Outputs : CompleteStep(e, out)
    BY <1>1
  <2>2. ReceiptKey[e][mine[e]] \in Keys
    BY SettlesEffect, KeyAssumption DEF Followed
  <2> QED
    BY <2>1, <2>2 DEF CompleteStep, PriorReceipt
<1>2. CASE \E out \in Outputs : CompleteConflict(e, out)
  BY <1>2 DEF CompleteConflict
<1>3. CASE \E retryable \in BOOLEAN : FailStep(e, retryable)
  BY <1>3 DEF FailStep, NextState
<1> QED
  BY <1>1, <1>2, <1>3 DEF Settles

LEMMA ReceiptedNext == Leased /\ Receipted /\ [Next]_vars => Receipted'
<1> SUFFICES ASSUME Leased, Receipted, [Next]_vars PROVE Receipted'
  OBVIOUS
<1> USE DEF Leased, Followed, Typed, TypeOK
<1>1. CASE receipts' = receipts /\ Succeeded' = Succeeded
  BY <1>1 DEF Receipted, Naming, Succeeded
<1>2. CASE \E e \in Executors : Settles(e)
  <2>1. PICK e \in Executors : Settles(e)
    BY <1>2
  <2>2. PICK t \in Steps : t = mine[e] /\ stepStatus[t] = "running"
    BY <2>1, SettlesOpen
  <2>3. Naming(t) = {}
    BY <2>2 DEF Receipted
  <2>4. CASE receipts' = receipts /\ \E status \in {"failed", "queued"} : Settle(mine[e], status)
    <3>1. Succeeded' = Succeeded
      BY <2>2, <2>4 DEF Settle, Succeeded
    <3> QED
      BY <1>1, <2>4, <3>1
  <2>5. CASE \E k \in Keys, out \in Outputs :
               /\ receipts[k] = NoReceipt
               /\ receipts' = [receipts EXCEPT ![k] = [step |-> mine[e], output |-> out]]
               /\ Settle(mine[e], "succeeded")
    <3>1. PICK k \in Keys, out \in Outputs :
               /\ receipts[k] = NoReceipt
               /\ receipts' = [receipts EXCEPT ![k] = [step |-> mine[e], output |-> out]]
               /\ Settle(mine[e], "succeeded")
      BY <2>5
    <3>2. [step |-> t, output |-> out] # NoReceipt
      BY NoReceiptAssumption
    <3>3. \A j \in Keys : j # k => receipts'[j] = receipts[j]
      BY <3>1
    <3>4. receipts'[k] # NoReceipt /\ receipts'[k].step = t
      BY <2>2, <3>1, <3>2
    <3>5. Naming(t)' = {k}
      BY <2>3, <3>3, <3>4 DEF Naming
    <3>6. ASSUME NEW s \in Steps, s # t PROVE Naming(s)' = Naming(s)
      BY <3>1, <3>3, <3>4, <3>6 DEF Naming
    <3>7. stepStatus' = [stepStatus EXCEPT ![t] = "succeeded"]
      BY <2>2, <3>1 DEF Settle
    <3>8. ASSUME NEW s \in Steps
          PROVE  /\ stepStatus'[s] = "succeeded" => \E j \in Keys : Naming(s)' = {j}
                 /\ stepStatus'[s] # "succeeded" => Naming(s)' = {}
      <4>1. CASE s = t
        BY <4>1, <2>2, <3>5, <3>7 DEF Naming
      <4>2. CASE s # t
        BY <4>2, <2>2, <3>6, <3>7 DEF Receipted
      <4> QED
        BY <4>1, <4>2
    <3> QED
      BY <3>8 DEF Receipted
  <2> QED
    BY <2>1, <2>4, <2>5, ReceiptWritten
<1> QED
  BY <1>1, <1>2, ReceiptsEffect

\* A step succeeds exactly once on record, for any keys the executors derive:
\* crashes after the commit, replays, operator retries and colliding keys leave
\* one receipt for a succeeded step and none for another.
THEOREM ReceiptsCorrect == Spec => []OneReceiptPerSuccess
<1>1. Receipted => OneReceiptPerSuccess
  <2> SUFFICES ASSUME Receipted, NEW s \in Steps
               PROVE  Cardinality(Naming(s)) = (IF stepStatus[s] = "succeeded" THEN 1 ELSE 0)
    BY DEF OneReceiptPerSuccess, Naming
  <2>1. CASE stepStatus[s] = "succeeded"
    <3>1. PICK k \in Keys : Naming(s) = {k}
      BY <2>1 DEF Receipted
    <3> QED
      BY <2>1, <3>1, FS_Singleton
  <2>2. CASE stepStatus[s] # "succeeded"
    BY <2>2, FS_EmptySet DEF Receipted
  <2> QED
    BY <2>1, <2>2
<1> QED
  BY <1>1, ReceiptedInit, ReceiptedNext, LeasedInvariant, PTL DEF Spec
=============================================================================
