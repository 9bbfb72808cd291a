--------------------------- MODULE InMemoryLedger ---------------------------
(***************************************************************************)
(* The memory profile: the ledger of packages/core/src/runtime/ledger.ts   *)
(* behind the service of packages/application/src/operations/surface.ts,   *)
(* driven by the workers of apps/worker/src/worker.ts and by the API.      *)
(*                                                                         *)
(* Everything runs in one event loop: a method of the service is one       *)
(* action, and a worker's runOnce is two, before and after the await of    *)
(* its activity.  The heartbeat of runOnce directly follows the claim in   *)
(* the same turn, so it is part of it.                                     *)
(***************************************************************************)
EXTENDS Naturals, FiniteSets

CONSTANTS
  Workers,
  MaxOps,        \* bound: operations created altogether
  NumSteps,      \* steps of an operation
  Evaluations,   \* operations of the API's exploratory evaluation route
  MaxAttempts,   \* bound: a step is not lost or retried beyond it
  MaxRetries,    \* bound: operator retries
  NoClaim        \* a worker between two runs

Ops == 1 .. MaxOps
Ordinals == 1 .. NumSteps

ASSUME CountsAssumption ==
  /\ MaxOps \in Nat
  /\ NumSteps \in Nat \ {0}
  /\ MaxAttempts \in Nat
  /\ MaxRetries \in Nat
ASSUME EvaluationsAssumption == Evaluations \subseteq Ops
ASSUME NoClaimAssumption == NoClaim \notin Ops \X Ordinals \X Nat

VARIABLES
  opState,    \* operation.state ("absent": not created)
  stepState,  \* step.state, by operation and ordinal
  attempts,   \* step.attempts, which also tells a step's lease tokens apart
  fresh,      \* leaseExpiresAt is in the future
  receipts,   \* steps with a receipt
  claim,      \* the claim each worker works on: operation, ordinal, token
  retries     \* operator retries so far

vars == <<opState, stepState, attempts, fresh, receipts, claim, retries>>

----------------------------------------------------------------------------
OpStates == {"absent", "queued", "running", "succeeded", "failed", "cancelled"}
StepStates == {"absent", "pending", "leased", "succeeded", "failed"}
StepIds == Ops \X Ordinals
StepsOf(o) == {o} \X Ordinals

\* reconcile: the state of an operation whose steps have the states st.
Desired(o, st) ==
  IF \E s \in StepsOf(o) : st[s] = "failed" THEN "failed"
  ELSE IF \A s \in StepsOf(o) : st[s] = "succeeded" THEN "succeeded"
  ELSE IF \E s \in StepsOf(o) : st[s] = "leased" THEN "running"
  ELSE "queued"

\* Mutant of Claimable: a lost worker's lease is never taken over.
ClaimablePending(o) == {n \in Ordinals : stepState[<<o, n>>] = "pending"}

\* Steps a claim may take: the operation's state plays no part, nor do the
\* steps before.
Claimable(o) ==
  {n \in Ordinals :
     \/ stepState[<<o, n>>] = "pending"
     \/ stepState[<<o, n>>] = "leased" /\ ~fresh[<<o, n>>]}

First(set) == CHOOSE n \in set : \A k \in set : n <= k

StepOf(w) == <<claim[w][1], claim[w][2]>>

\* Mutant of HoldsLease: the token is not compared.
HoldsAnyLease(w) == stepState[StepOf(w)] = "leased" /\ fresh[StepOf(w)]

\* #assertLease
HoldsLease(w) ==
  /\ stepState[StepOf(w)] = "leased"
  /\ attempts[StepOf(w)] = claim[w][3]
  /\ fresh[StepOf(w)]

\* Mutant of EndAttempt: the operation is not reconciled.
EndAttemptOnly(s, state) ==
  /\ stepState' = [stepState EXCEPT ![s] = state]
  /\ fresh' = [fresh EXCEPT ![s] = FALSE]
  /\ UNCHANGED <<opState, attempts>>

\* The lease is deleted and the operation reconciled, whatever its state.
EndAttempt(s, state) ==
  LET st == [stepState EXCEPT ![s] = state]
  IN /\ stepState' = st
     /\ fresh' = [fresh EXCEPT ![s] = FALSE]
     /\ opState' = [opState EXCEPT ![s[1]] = Desired(s[1], st)]
     /\ UNCHANGED attempts

----------------------------------------------------------------------------
(* The API *)

\* submit; operations are listed, and claimed, in the order of creation.
Create ==
  \E o \in Ops :
    /\ \A p \in Ops : opState[p] = "absent" <=> p >= o
    /\ opState' = [opState EXCEPT ![o] = "queued"]
    /\ stepState' = [s \in StepIds |-> IF s[1] = o THEN "pending" ELSE stepState[s]]
    /\ UNCHANGED <<attempts, fresh, receipts, claim, retries>>

\* Leases, and workers, go on.
Cancel(o) ==
  /\ opState[o] \in {"queued", "running"}
  /\ opState' = [opState EXCEPT ![o] = "cancelled"]
  /\ UNCHANGED <<stepState, attempts, fresh, receipts, claim, retries>>

\* Mutant of Retry: every step is run again.
RetryAll(o) ==
  /\ opState[o] = "failed"
  /\ retries < MaxRetries
  /\ retries' = retries + 1
  /\ opState' = [opState EXCEPT ![o] = "queued"]
  /\ stepState' = [s \in StepIds |-> IF s \in StepsOf(o) THEN "pending" ELSE stepState[s]]
  /\ UNCHANGED <<attempts, fresh, receipts, claim>>

Retry(o) ==
  /\ opState[o] = "failed"
  /\ retries < MaxRetries
  /\ retries' = retries + 1
  /\ opState' = [opState EXCEPT ![o] = "queued"]
  /\ stepState' = [s \in StepIds |->
                     IF s \in StepsOf(o) /\ stepState[s] = "failed"
                     THEN "pending" ELSE stepState[s]]
  /\ UNCHANGED <<attempts, fresh, receipts, claim>>

Reconcile(o) ==
  /\ opState[o] # "absent"
  /\ opState' = [opState EXCEPT ![o] = Desired(o, stepState)]
  /\ UNCHANGED <<stepState, attempts, fresh, receipts, claim, retries>>

\* The evaluation route claims and executes every step it can in one turn.
Evaluate(o) ==
  LET done == {o} \X Claimable(o)
      st == [s \in StepIds |-> IF s \in done THEN "succeeded" ELSE stepState[s]]
  IN /\ opState[o] # "absent"
     /\ done # {}
     /\ stepState' = st
     /\ attempts' = [s \in StepIds |-> IF s \in done THEN attempts[s] + 1 ELSE attempts[s]]
     /\ fresh' = [s \in StepIds |-> s \notin done /\ fresh[s]]
     /\ receipts' = receipts \cup done
     /\ opState' = [opState EXCEPT ![o] = Desired(o, st)]
     /\ UNCHANGED <<claim, retries>>

----------------------------------------------------------------------------
(* The workers *)

\* claimNext: the oldest operation that is neither succeeded nor cancelled.
Offers(o) ==
  /\ opState[o] \notin {"absent", "succeeded", "cancelled"}
  /\ Claimable(o) # {}

Claim(w) ==
  /\ claim[w] = NoClaim
  /\ \E o \in Ops :
       LET s == <<o, First(Claimable(o))>>
       IN /\ Offers(o)
          /\ \A p \in Ops : Offers(p) => o <= p
          /\ stepState' = [stepState EXCEPT ![s] = "leased"]
          /\ attempts' = [attempts EXCEPT ![s] = attempts[s] + 1]
          /\ fresh' = [fresh EXCEPT ![s] = TRUE]
          /\ opState' = [opState EXCEPT ![o] = "running"]
          /\ claim' = [claim EXCEPT ![w] = <<o, s[2], attempts[s] + 1>>]
  /\ UNCHANGED <<receipts, retries>>

\* The activity returned and the step is still the worker's.
Complete(w) ==
  /\ claim[w] # NoClaim
  /\ StepOf(w) \notin receipts
  /\ HoldsLease(w)
  /\ receipts' = receipts \cup {StepOf(w)}
  /\ EndAttempt(StepOf(w), "succeeded")
  /\ claim' = [claim EXCEPT ![w] = NoClaim]
  /\ UNCHANGED retries

\* Another attempt left the same receipt: it is returned, then runOnce reconciles.
Replay(w) ==
  /\ claim[w] # NoClaim
  /\ StepOf(w) \in receipts
  /\ LET o == claim[w][1] IN opState' = [opState EXCEPT ![o] = Desired(o, stepState)]
  /\ claim' = [claim EXCEPT ![w] = NoClaim]
  /\ UNCHANGED <<stepState, attempts, fresh, receipts, retries>>

\* The activity threw: retryable failures are not counted.
Fail(w, retryable) ==
  /\ claim[w] # NoClaim
  /\ HoldsLease(w)
  /\ retryable => attempts[StepOf(w)] < MaxAttempts
  /\ EndAttempt(StepOf(w), IF retryable THEN "pending" ELSE "failed")
  /\ claim' = [claim EXCEPT ![w] = NoClaim]
  /\ UNCHANGED <<receipts, retries>>

\* STALE_LEASE from complete or fail, or a receipt with another output.
Stale(w) ==
  /\ claim[w] # NoClaim
  /\ ~HoldsLease(w)
  /\ claim' = [claim EXCEPT ![w] = NoClaim]
  /\ UNCHANGED <<opState, stepState, attempts, fresh, receipts, retries>>

\* An activity outlasts its lease, which nothing renews meanwhile.
Expire(s) ==
  /\ stepState[s] = "leased"
  /\ fresh[s]
  /\ attempts[s] < MaxAttempts
  /\ fresh' = [fresh EXCEPT ![s] = FALSE]
  /\ UNCHANGED <<opState, stepState, attempts, receipts, claim, retries>>

----------------------------------------------------------------------------
Init ==
  /\ opState = [o \in Ops |-> "absent"]
  /\ stepState = [s \in StepIds |-> "absent"]
  /\ attempts = [s \in StepIds |-> 0]
  /\ fresh = [s \in StepIds |-> FALSE]
  /\ receipts = {}
  /\ claim = [w \in Workers |-> NoClaim]
  /\ retries = 0

Return(w) ==
  \/ Complete(w)
  \/ Replay(w)
  \/ \E retryable \in BOOLEAN : Fail(w, retryable)
  \/ Stale(w)

Next ==
  \/ Create
  \/ \E o \in Ops : Cancel(o) \/ Retry(o) \/ Reconcile(o)
  \/ \E o \in Evaluations : Evaluate(o)
  \/ \E w \in Workers : Claim(w) \/ Return(w)
  \/ \E s \in StepIds : Expire(s)

Spec == Init /\ [][Next]_vars

\* Workers poll, and an activity returns or throws in the end.
FairSpec == Spec /\ \A w \in Workers : WF_vars(Claim(w)) /\ WF_vars(Return(w))

----------------------------------------------------------------------------
TypeOK ==
  /\ opState \in [Ops -> OpStates]
  /\ stepState \in [StepIds -> StepStates]
  /\ attempts \in [StepIds -> Nat]
  /\ fresh \in [StepIds -> BOOLEAN]
  /\ receipts \subseteq StepIds
  /\ claim \in [Workers -> (Ops \X Ordinals \X Nat) \cup {NoClaim}]
  /\ retries \in 0 .. MaxRetries

\* At most one worker can end the current attempt of a step, however leases
\* expire, are taken over, or are swept up by the evaluation route.
SingleHolder ==
  \A v, w \in Workers :
    /\ claim[v] # NoClaim /\ HoldsLease(v)
    /\ claim[w] # NoClaim /\ HoldsLease(w)
    /\ StepOf(v) = StepOf(w)
    => v = w

\* Success is reported only with a receipt of every step, and what has them all
\* is finished: succeeded, or left cancelled.  It is silent on which of the two a
\* cancelled operation is, for that is CancelledStaysUnfinished.
SucceededIsReceipted ==
  \A o \in Ops :
    /\ opState[o] = "succeeded" => StepsOf(o) \subseteq receipts
    /\ StepsOf(o) \subseteq receipts => opState[o] \in {"succeeded", "cancelled"}

\* The transition table of core/src/domain/state-machines.ts: a cancelled
\* operation may be queued again or superseded; a worker that returns late
\* neither completes nor fails it.
CancelledStaysUnfinished ==
  [][\A o \in Ops :
       opState[o] = "cancelled" => opState'[o] \notin {"succeeded", "failed"}]_vars

\* A step with a receipt is never run again and never loses it, whatever retry,
\* expiry or late worker meets it.
DoneStaysDone ==
  [][\A s \in receipts :
       s \in receipts' /\ stepState'[s] = "succeeded" /\ attempts'[s] = attempts[s]]_vars

\* Every open operation ends, whatever leases are lost on the way.
OpenSettles ==
  \A o \in Ops :
    opState[o] \in {"queued", "running"} ~> opState[o] \in {"succeeded", "failed", "cancelled"}
=============================================================================
