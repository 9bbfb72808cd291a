-------------------------- MODULE DurableRecovery --------------------------
(***************************************************************************)
(* Durable verification recovery: the cases kept by                        *)
(* packages/persistence/src/verification-recovery-durable.ts, driven by    *)
(* the service of packages/application/src/verification/recovery.          *)
(*                                                                         *)
(* A case holds originals that failed verification.  It admits one plan at *)
(* a time, which repairs some of them under a reserved budget.  A client   *)
(* claims the plan's dependency keys, authorises each repair, registers    *)
(* its operation, and reconciles the results into a receipt.  Every store  *)
(* method is a transaction that locks its case, hence one action; any      *)
(* client may be anywhere between two of them, so a crash, a late call and *)
(* a second client are all interleavings.                                  *)
(*                                                                         *)
(* Usage is counted in provider calls.  The revision counter of a case is  *)
(* only ever compared for equality, so a change of it drops the receipt    *)
(* that was composed at the revision before.                               *)
(***************************************************************************)
EXTENDS Naturals, FiniteSets, Totals

CONSTANTS
  Cases,
  Originals,     \* members of the cases' initial batches
  CaseOf,        \* the case of each original
  Repairs,       \* new bindings that can be proposed
  OriginalOf,    \* the original of each repair
  Keys,          \* dependency keys
  KeysOf,        \* keys of each case's initial batch
  FoundKeys,     \* keys that verified candidates of a case may add
  Tokens,        \* claim tokens
  Budget,        \* initial limits.remainingCalls of a case
  MaxRounds,     \* limits.maxRoundsPerOriginal
  Amounts,       \* reservations a client may ask for an execution
  Deadlines,     \* the cases whose deadline may pass
  Checkpoints,   \* the host has configured checkpoints
  Nil

ASSUME CasesAssumption == CaseOf \in [Originals -> Cases]
ASSUME RepairsAssumption ==
  /\ IsFiniteSet(Repairs)
  /\ OriginalOf \in [Repairs -> Originals]
ASSUME KeysAssumption ==
  /\ KeysOf \in [Cases -> SUBSET Keys]
  /\ FoundKeys \in [Cases -> SUBSET Keys]
ASSUME LimitsAssumption ==
  /\ Budget \in Nat
  /\ MaxRounds \in Nat
  /\ Amounts \subseteq Nat
  /\ Deadlines \subseteq Cases
  /\ Checkpoints \in BOOLEAN
ASSUME NilAssumption == Nil \notin Cases /\ Nil \notin Tokens

VARIABLES
  state,      \* recovery_case.state ("absent": not opened)
  active,     \* active_plan_digest is set; it is then the latest plan's
  plan,       \* the latest plan
  receipt,    \* the latest receipt of the latest plan
  past,       \* usage of the earlier plans
  closed,     \* cases whose deadline has passed
  owing,      \* cases whose last receipt asks for a checkpoint
  standing,   \* classification of each original's current candidate
  exec,       \* recovery_execution of each repair (its token while not settled)
  row,        \* recovery_dependency_claim of each key (no token: released or expired)
  op,         \* the operation of each repair
  attempts,   \* provider attempts of each operation
  draft       \* a receipt composed at the current revision and not yet settled

caseVars == <<state, active, plan, receipt, past, closed, owing, standing>>
opVars == <<op, attempts>>
vars == <<caseVars, exec, row, opVars, draft>>

----------------------------------------------------------------------------
Verdicts == {"admitted", "failed", "held"}
Operations == {"none", "open", "broken"} \cup Verdicts
Outcomes == {"pending", "checkpoint", "clean"}

Plans == [repairs: SUBSET Repairs, reservation: Nat, keys: SUBSET Keys, hold: BOOLEAN]
NoPlan == [repairs |-> {}, reservation |-> 0, keys |-> {}, hold |-> FALSE]
Receipts == [done: SUBSET Repairs, usage: Nat, outcome: Outcomes]
Executions == [state: {"none", "authorized", "linked", "settled"}, token: Tokens \cup {Nil}, reservation: Nat]
Claims == [case: Cases \cup {Nil}, token: Tokens \cup {Nil}]
NoExec == [state |-> "none", token |-> Nil, reservation |-> 0]

CaseOfRepair(r) == CaseOf[OriginalOf[r]]
RepairsOf(c) == {r \in Repairs : CaseOfRepair(r) = c}
OriginalsOf(c) == {o \in Originals : CaseOf[o] = c}

Authorized(r) == exec[r].state # "none"
Unsettled(r) == exec[r].state \in {"authorized", "linked"}
Succeeded(r) == op[r] \in Verdicts

\* used_rounds of an original.
Rounds(o) == Cardinality({r \in Repairs : OriginalOf[r] = o /\ Authorized(r)})

\* What the executions of the plan of a case have reserved of it.
Reserved == [r \in Repairs |-> exec[r].reservation]
Allotted(c) == SumOf(Reserved, {r \in plan[c].repairs : Authorized(r)})

\* Mutant of Usage: a plan that ended is not charged.
UsageForgotten(c) == 0

Usage(c) == IF receipt[c] = Nil THEN 0 ELSE receipt[c].usage

\* spent + reserved of readInTransaction.
Committed(c) == past[c] + (IF active[c] THEN plan[c].reservation ELSE Usage(c))

\* Mutant of Revise: receipts composed at an older revision are accepted.
ReviseNothing(c) == draft

\* settle refuses a receipt composed before any change of the case's revision.
Revise(c) == [draft EXCEPT ![c] = Nil]

\* release
Release(c) == [k \in Keys |-> IF row[k].case = c THEN [row[k] EXCEPT !.token = Nil] ELSE row[k]]

----------------------------------------------------------------------------
(* Cases and plans *)

\* open, with the notification it ends with.
Open(c) ==
  /\ state[c] = "absent"
  /\ state' = [state EXCEPT ![c] = "ready"]
  /\ UNCHANGED <<active, plan, receipt, past, closed, owing, standing, exec, row, opVars, draft>>

\* ingestDrift: a notification changes nothing but the revision.
Notify(c) ==
  /\ state[c] # "absent"
  /\ draft' = Revise(c)
  /\ UNCHANGED <<caseVars, exec, row, opVars>>

\* route: a failed original can still be repaired.
Repairable(o) ==
  /\ standing[o] = "failed"
  /\ Rounds(o) < MaxRounds
  /\ CaseOf[o] \notin closed
  /\ Committed(CaseOf[o]) < Budget

\* The other routes, and "operator" where the client prefers it to a repair or
\* a gap, end in a receipt that asks for a checkpoint.
MustHold(c) ==
  \E o \in OriginalsOf(c) :
    \/ standing[o] = "held"
    \/ standing[o] = "failed" /\ ~Repairable(o)

MayHold(c, repairs) ==
  \E o \in OriginalsOf(c) : Repairable(o) /\ \A r \in repairs : OriginalOf[r] # o

Admissible(c, repairs) ==
  /\ \A r \in repairs : Repairable(OriginalOf[r]) /\ ~Authorized(r)
  /\ \A r, s \in repairs : OriginalOf[r] = OriginalOf[s] => r = s

\* plan: keys of candidates verified since join those of the initial batch.
PlanCase(c) ==
  /\ state[c] = "ready" /\ ~active[c]
  /\ \E repairs \in SUBSET RepairsOf(c), n \in 0 .. Budget, prefersOperator \in BOOLEAN,
       found \in SUBSET FoundKeys[c] :
       /\ Admissible(c, repairs)
       /\ Cardinality(repairs) <= n
       /\ Committed(c) + n <= Budget
       /\ prefersOperator => MayHold(c, repairs)
       /\ (\A r \in RepairsOf(c) : ~Authorized(r)) => found = {}
       /\ plan' = [plan EXCEPT ![c] = [repairs |-> repairs, reservation |-> n,
                     keys |-> KeysOf[c] \cup found, hold |-> prefersOperator \/ MustHold(c)]]
  /\ state' = [state EXCEPT ![c] = "active"]
  /\ active' = [active EXCEPT ![c] = TRUE]
  /\ past' = [past EXCEPT ![c] = Committed(c)]
  /\ receipt' = [receipt EXCEPT ![c] = Nil]
  /\ draft' = Revise(c)
  /\ UNCHANGED <<closed, owing, standing, exec, row, opVars>>

\* wait: allowed in every state of a case.
Wait(c) ==
  /\ Checkpoints
  /\ state[c] # "absent"
  /\ state' = [state EXCEPT ![c] = "waiting"]
  /\ row' = Release(c)
  /\ draft' = Revise(c)
  /\ UNCHANGED <<active, plan, receipt, past, closed, owing, standing, exec, opVars>>

\* Originals whose own result the next plan reads again.
Untouched(c) == {o \in OriginalsOf(c) : \A r \in RepairsOf(c) : OriginalOf[r] = o => ~Authorized(r)}

\* Mutant of ResumedState: always ready.
ResumedReady(c) == "ready"

ResumedState(c) == IF active[c] THEN "active" ELSE "ready"

\* resume: the new authority may have judged an original again, which the next
\* plan then finds.
Resume(c) ==
  /\ state[c] = "waiting"
  /\ state' = [state EXCEPT ![c] = ResumedState(c)]
  /\ owing' = owing \ {c}
  /\ \E judged \in [Untouched(c) -> Verdicts] :
       standing' = [o \in Originals |-> IF o \in Untouched(c) THEN judged[o] ELSE standing[o]]
  /\ draft' = Revise(c)
  /\ UNCHANGED <<active, plan, receipt, past, closed, exec, row, opVars>>

Deadline(c) ==
  /\ c \in Deadlines \ closed
  /\ closed' = closed \cup {c}
  /\ UNCHANGED <<state, active, plan, receipt, past, owing, standing, exec, row, opVars, draft>>

----------------------------------------------------------------------------
(* Claims and executions *)

Foreign(k, c) == row[k].case # c /\ \E r \in RepairsOf(row[k].case) : Unsettled(r)

\* Mutant of Claimable: whoever owned an expired key before is not asked about.
ClaimableExpired(c) == \A k \in plan[c].keys : row[k].token = Nil

\* claim: no key is live, nor left by another case with unsettled executions.
Claimable(c) == \A k \in plan[c].keys : row[k].token = Nil /\ ~Foreign(k, c)

\* Tokens are UUIDs; one that nothing in the database refers to stands for a
\* new one.
FreshToken(t) ==
  /\ \A k \in Keys : row[k].token # t
  /\ \A r \in Repairs : Unsettled(r) => exec[r].token # t

ClaimKeys(c) ==
  /\ state[c] = "active" /\ active[c]
  /\ plan[c].keys # {}
  /\ Claimable(c)
  /\ \E t \in {u \in Tokens : FreshToken(u)} :
       row' = [k \in Keys |-> IF k \in plan[c].keys THEN [case |-> c, token |-> t] ELSE row[k]]
  /\ UNCHANGED <<caseVars, exec, opVars, draft>>

Expire(k) ==
  /\ row[k].token # Nil
  /\ row' = [row EXCEPT ![k].token = Nil]
  /\ UNCHANGED <<caseVars, exec, opVars, draft>>

\* Mutant of HoldsClaim: the live rows of the claim are not counted.
HoldsClaimUncounted(c, t) == {k \in Keys : row[k] = [case |-> c, token |-> t]} \subseteq plan[c].keys

\* assertClaim, for the token t of a claim of the plan under way, which covers
\* the plan's keys.
HoldsClaim(c, t) == {k \in Keys : row[k] = [case |-> c, token |-> t]} = plan[c].keys

Fits(c, n) == Allotted(c) + n <= plan[c].reservation

\* reserve, called with a claim that may be stale.  A second call for a repair
\* returns the execution retained, whatever the claim.
Reserve(t, r, n) ==
  LET c == CaseOfRepair(r) IN
  /\ ~Authorized(r)
  /\ r \in plan[c].repairs
  /\ state[c] = "active" /\ active[c]
  /\ HoldsClaim(c, t)
  /\ \A s \in RepairsOf(c) : Unsettled(s) => exec[s].token = t
  /\ Rounds(OriginalOf[r]) < MaxRounds
  /\ c \notin closed
  /\ Fits(c, n)
  /\ exec' = [exec EXCEPT ![r] = [state |-> "authorized", token |-> t, reservation |-> n]]
  /\ draft' = Revise(c)
  /\ UNCHANGED <<caseVars, row, opVars>>

\* ensureOperation: submission under the planned operation id is idempotent.
EnsureOperation(r) ==
  /\ Unsettled(r)
  /\ op[r] = "none"
  /\ op' = [op EXCEPT ![r] = "open"]
  /\ UNCHANGED <<caseVars, exec, row, attempts, draft>>

Link(r) ==
  /\ exec[r].state = "authorized"
  /\ op[r] # "none"
  /\ exec' = [exec EXCEPT ![r].state = "linked"]
  /\ draft' = Revise(CaseOfRepair(r))
  /\ UNCHANGED <<caseVars, row, opVars>>

----------------------------------------------------------------------------
(* Operations, run by the workers of the operation ledger *)

\* Mutant of WithinReservation: off by one.
WithinReservationPlusOne(r) == attempts[r] <= exec[r].reservation

WithinReservation(r) == attempts[r] + 1 <= exec[r].reservation

\* assertRecoveryProviderBudget: a provider attempt of the operation.
Attempt(r) ==
  LET c == CaseOfRepair(r) IN
  /\ op[r] = "open"
  /\ Unsettled(r)
  /\ state[c] = "active" /\ c \notin closed
  /\ WithinReservation(r)
  /\ attempts' = [attempts EXCEPT ![r] = @ + 1]
  /\ UNCHANGED <<caseVars, exec, row, op, draft>>

Finish(r, verdict) ==
  /\ op[r] = "open"
  /\ op' = [op EXCEPT ![r] = verdict]
  /\ UNCHANGED <<caseVars, exec, row, attempts, draft>>

\* The operation fails or is cancelled; only an operator's retry reopens it.
Break(r) ==
  /\ op[r] = "open"
  /\ op' = [op EXCEPT ![r] = "broken"]
  /\ UNCHANGED <<caseVars, exec, row, attempts, draft>>

RetryOperation(r) ==
  /\ op[r] = "broken"
  /\ op' = [op EXCEPT ![r] = "open"]
  /\ UNCHANGED <<caseVars, exec, row, attempts, draft>>

----------------------------------------------------------------------------
(* Reconciliation *)

\* limitReached of reconcileVerificationRecoveryReceipt
LimitReached(c, r) == Rounds(OriginalOf[r]) >= MaxRounds \/ c \in closed

\* resultOutcome of one repair.
Demands(c, r) == op[r] = "held" \/ (op[r] = "failed" /\ LimitReached(c, r))

\* Mutant of OutcomeOf: a demand for a checkpoint hides an unfinished repair.
OutcomeOfDemandFirst(c, done) ==
  IF plan[c].hold \/ \E r \in done : Demands(c, r) THEN "checkpoint"
  ELSE IF done # plan[c].repairs THEN "pending" ELSE "clean"

\* pending and requiresCheckpoint of settle.
OutcomeOf(c, done) ==
  IF done # plan[c].repairs THEN "pending"
  ELSE IF plan[c].hold \/ \E r \in done : Demands(c, r) THEN "checkpoint"
  ELSE "clean"

ReceiptOf(c) ==
  LET done == {r \in plan[c].repairs : Succeeded(r)} IN
  [done |-> done, usage |-> SumOf(attempts, done), outcome |-> OutcomeOf(c, done)]

\* reconcile up to its call of settle.  Its loop has linked every unsettled
\* execution.  The results are read one by one; reading them together leaves out
\* only orders in which one of them finishes a little later.  settle answers a
\* receipt the case has already without effect; only the latest can be composed
\* again, since results and deadlines only accumulate.
Compose(c) ==
  LET rc == ReceiptOf(c) IN
  /\ plan[c] # NoPlan
  /\ \A r \in plan[c].repairs : exec[r].state \in {"linked", "settled"}
  /\ rc.usage \in 0 .. plan[c].reservation
  /\ rc # receipt[c]
  /\ draft' = [draft EXCEPT ![c] = rc]
  /\ UNCHANGED <<caseVars, exec, row, opVars>>

SettledState(c, outcome) ==
  IF state[c] = "waiting" THEN "waiting" ELSE IF outcome = "checkpoint" THEN "active" ELSE "ready"

Settled(r) == [state |-> "settled", token |-> Nil, reservation |-> exec[r].reservation]

\* settle
Settle(c) ==
  LET rc == draft[c] IN
  /\ rc # Nil
  /\ rc.usage >= Usage(c)
  /\ exec' = [r \in Repairs |-> IF r \in rc.done THEN Settled(r) ELSE exec[r]]
  /\ standing' = [o \in Originals |->
       IF \E r \in rc.done : OriginalOf[r] = o
       THEN op[CHOOSE r \in rc.done : OriginalOf[r] = o] ELSE standing[o]]
  /\ receipt' = [receipt EXCEPT ![c] = rc]
  /\ IF rc.outcome = "pending"
     THEN UNCHANGED <<state, active, row, owing>>
     ELSE /\ active' = [active EXCEPT ![c] = FALSE]
          /\ state' = [state EXCEPT ![c] = SettledState(c, rc.outcome)]
          /\ row' = IF rc.outcome = "clean" THEN Release(c) ELSE row
          /\ owing' = IF rc.outcome = "checkpoint" THEN owing \cup {c} ELSE owing \ {c}
  /\ draft' = Revise(c)
  /\ UNCHANGED <<plan, past, closed, opVars>>

----------------------------------------------------------------------------
Init ==
  /\ state = [c \in Cases |-> "absent"]
  /\ active = [c \in Cases |-> FALSE]
  /\ plan = [c \in Cases |-> NoPlan]
  /\ receipt = [c \in Cases |-> Nil]
  /\ past = [c \in Cases |-> 0]
  /\ closed = {}
  /\ owing = {}
  /\ standing = [o \in Originals |-> "failed"]
  /\ exec = [r \in Repairs |-> NoExec]
  /\ row = [k \in Keys |-> [case |-> Nil, token |-> Nil]]
  /\ op = [r \in Repairs |-> "none"]
  /\ attempts = [r \in Repairs |-> 0]
  /\ draft = [c \in Cases |-> Nil]

CaseStep(c) ==
  \/ Open(c) \/ Notify(c) \/ PlanCase(c) \/ Wait(c) \/ Resume(c) \/ Deadline(c)
  \/ ClaimKeys(c) \/ Compose(c) \/ Settle(c)

RepairStep(r) ==
  \/ \E t \in Tokens, n \in Amounts : Reserve(t, r, n)
  \/ EnsureOperation(r) \/ Link(r)
  \/ Attempt(r) \/ \E v \in Verdicts : Finish(r, v)
  \/ Break(r) \/ RetryOperation(r)

Next ==
  \/ \E c \in Cases : CaseStep(c)
  \/ \E r \in Repairs : RepairStep(r)
  \/ \E k \in Keys : Expire(k)

Spec == Init /\ [][Next]_vars

\* Clients keep reconciling the plans under way.  Other calls change the
\* revision in between, so a receipt that can be settled again and again is
\* settled in the end.  Nobody has to plan, to wait, to resume, to claim or to
\* retry a broken operation.
Fairness ==
  /\ \A c \in Cases : WF_vars(Compose(c)) /\ SF_vars(Settle(c))
  /\ \A r \in Repairs :
       WF_vars(EnsureOperation(r)) /\ WF_vars(Link(r)) /\ WF_vars(\E v \in Verdicts : Finish(r, v))

FairSpec == Spec /\ Fairness

\* Clients also keep claiming and authorising, through any number of expired
\* claims.
EagerSpec ==
  /\ FairSpec
  /\ \A c \in Cases : SF_vars(ClaimKeys(c))
  /\ \A r \in Repairs : SF_vars(\E t \in Tokens, n \in Amounts : Reserve(t, r, n))

----------------------------------------------------------------------------
TypeOK ==
  /\ state \in [Cases -> {"absent", "ready", "active", "waiting"}]
  /\ active \in [Cases -> BOOLEAN]
  /\ plan \in [Cases -> Plans]
  /\ receipt \in [Cases -> Receipts \cup {Nil}]
  /\ past \in [Cases -> Nat]
  /\ closed \subseteq Cases
  /\ owing \subseteq Cases
  /\ standing \in [Originals -> Verdicts]
  /\ exec \in [Repairs -> Executions]
  /\ row \in [Keys -> Claims]
  /\ op \in [Repairs -> Operations]
  /\ attempts \in [Repairs -> Nat]
  /\ \A r \in Repairs : attempts[r] <= exec[r].reservation
  /\ draft \in [Cases -> Receipts \cup {Nil}]

\* Two cases never have repairs under way that touch a common key, whatever
\* claims expired, waited or were taken over since; and the repairs under way
\* of one case were all authorised under one claim.  (claim,
\* verification-recovery-durable.ts:177-196; reserve, :248-251.)
RepairsExclusive ==
  \A r, s \in Repairs : Unsettled(r) /\ Unsettled(s) =>
    IF CaseOfRepair(r) = CaseOfRepair(s) THEN exec[r].token = exec[s].token
    ELSE plan[CaseOfRepair(r)].keys \cap plan[CaseOfRepair(s)].keys = {}

\* The calls a case has made, and those its executions under way may still make,
\* stay within the limit it was opened with: replanning, waiting and resuming
\* never replenish the budget.  (readInTransaction, :612-631; reserve, :260-291.)
BudgetKept ==
  LET exposure == [r \in Repairs |-> IF Unsettled(r) THEN exec[r].reservation ELSE attempts[r]] IN
  \A c \in Cases : SumOf(exposure, RepairsOf(c)) <= Budget

\* Every provider call made for a case is covered by what the case has committed,
\* and once no plan is under way the case has been charged exactly the calls
\* made.  (assertRecoveryProviderBudget and settle count them separately.)
CallsCovered ==
  \A c \in Cases :
    LET made == SumOf(attempts, RepairsOf(c)) IN
    IF active[c] THEN made <= Committed(c) ELSE made = Committed(c)

\* An execution that is not settled belongs to the plan under way: no receipt
\* ends a plan that still has a repair running, and no later plan starts beside
\* it.  (settle, :386-411; append, :119-122.)
OpenWorkHasPlan ==
  \A r \in Repairs : Unsettled(r) => active[CaseOfRepair(r)] /\ r \in plan[CaseOfRepair(r)].repairs

\* A case can be planned again only when its last receipt asked for no
\* checkpoint, or someone with a new authority resumed it since; never while a
\* plan is under way; and no claim of an earlier plan is live then, so that the
\* next plan can be claimed.  (docs/verification/RECOVERY-CASES.md:23.)
ReadyOwesNothing ==
  \A c \in Cases : state[c] = "ready" =>
    /\ c \notin owing
    /\ ~active[c]
    /\ \A k \in Keys : row[k].case = c => row[k].token = Nil

\* What RepairWork shows of a repair: an execution that is not settled is running
\* and touches the keys of its plan; the result counts once it is settled.
WorkState(r) == IF Unsettled(r) THEN "running" ELSE exec[r].state
TouchedKeys(r) == IF Unsettled(r) THEN plan[CaseOfRepair(r)].keys ELSE {}
ResultOf(r) == IF exec[r].state = "settled" THEN op[r] ELSE "none"

Work ==
  INSTANCE RepairWork
  WITH work <- [r \in Repairs |-> WorkState(r)], grant <- Reserved, calls <- attempts,
       touched <- [r \in Repairs |-> TouchedKeys(r)], result <- [r \in Repairs |-> ResultOf(r)]

\* Whatever claims expire, receipts come late and plans follow one another, a
\* repair is authorised once and only within what its case has left, beside no
\* other repair of its original or of its keys, calls no more once it is settled,
\* and keeps its result: every step is one of RepairWork or hidden from it.
ImplementsWork == Work!Spec

\* A plan all of whose repairs have been authorised ends, through expired
\* claims, waits, notifications, a deadline and a client lost between any two
\* calls, unless one of its operations broke.  (reconcile, application
\* verification-recovery-durable.ts:243-323.)
ReservedPlanSettles ==
  \A c \in Cases :
    (active[c] /\ \A r \in plan[c].repairs : Authorized(r))
      ~> (~active[c] \/ \E r \in plan[c].repairs : op[r] = "broken")

\* An authorised execution is reconciled in the end, unless an operation of its
\* case broke.  ("Reconciliation recovers an already authorized operation",
\* docs/verification/RECOVERY-CASES.md:19.)
AuthorizedSettles ==
  \A r \in Repairs :
    Unsettled(r) ~> (~Unsettled(r) \/ \E s \in Repairs : op[s] = "broken")
=============================================================================
