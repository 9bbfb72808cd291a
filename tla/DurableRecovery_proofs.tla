----------------------- MODULE DurableRecovery_proofs -----------------------
(***************************************************************************)
(* Safety of DurableRecovery for any cases, originals, keys and limits.    *)
(* RepairsExclusive is not inductive: Claimable looks at the keys of the   *)
(* claims, so the induction needs that a case with repairs under way still *)
(* owns the row of every key of its plan (KeysOwned), and that a plan ends *)
(* only when its repairs are settled (OpenWorkHasPlan, which in turn needs *)
(* what a composed receipt says about the plan: DraftFits).  The budget    *)
(* counts calls in three places: made (attempts), authorised (exec) and    *)
(* charged (receipts).  ChargedAsCalled and EndedDone tie them together.   *)
(***************************************************************************)
EXTENDS DurableRecovery, Totals_proofs

USE CasesAssumption, RepairsAssumption, KeysAssumption, LimitsAssumption, NilAssumption

\* Steps that touch neither cases, executions nor claims.
Quiet == UNCHANGED <<caseVars, exec, row>>

\* Steps of a case other than the composition of a receipt.
CaseMoves(c) ==
  Open(c) \/ PlanCase(c) \/ Wait(c) \/ Resume(c) \/ Deadline(c) \/ ClaimKeys(c) \/ Settle(c)

LEMMA NextCases ==
  ASSUME [Next]_vars
  PROVE  \/ Quiet
         \/ \E c \in Cases : CaseMoves(c)
         \/ \E r \in Repairs, t \in Tokens, n \in Amounts : Reserve(t, r, n)
         \/ \E r \in Repairs : Link(r)
         \/ \E k \in Keys : Expire(k)
<1>1. CASE \E c \in Cases : CaseStep(c)
  <2>1. PICK c \in Cases : CaseStep(c)
    BY <1>1
  <2>2. CASE Notify(c) \/ Compose(c)
    BY <2>2 DEF Notify, Compose, Quiet
  <2> QED
    BY <2>1, <2>2 DEF CaseStep, CaseMoves
<1>2. CASE \E r \in Repairs : RepairStep(r)
  <2>1. PICK r \in Repairs : RepairStep(r)
    BY <1>2
  <2>2. CASE EnsureOperation(r) \/ Attempt(r) \/ (\E v \in Verdicts : Finish(r, v)) \/ Break(r) \/ RetryOperation(r)
    BY <2>2 DEF EnsureOperation, Attempt, Finish, Break, RetryOperation, Quiet
  <2> QED
    BY <2>1, <2>2 DEF RepairStep
<1>3. CASE UNCHANGED vars
  BY <1>3 DEF vars, Quiet
<1> QED
  BY <1>1, <1>2, <1>3 DEF Next

----------------------------------------------------------------------------
(* Types *)

\* A repair that was never authorised left no trace.
Traceless == \A r \in Repairs : ~Authorized(r) => exec[r] = NoExec /\ op[r] = "none" /\ attempts[r] = 0

\* A plan repairs originals of its own case.
PlansOwn == \A c \in Cases : plan[c].repairs \subseteq RepairsOf(c)

\* What a composed receipt says holds until it is settled or dropped.
DraftFits ==
  \A c \in Cases : draft[c] # Nil =>
    /\ draft[c].done \subseteq plan[c].repairs
    /\ \A r \in draft[c].done : Succeeded(r)
    /\ draft[c].usage <= plan[c].reservation
    /\ draft[c].outcome # "pending" => draft[c].done = plan[c].repairs
    /\ \A r \in plan[c].repairs : exec[r].state \in {"linked", "settled"}

Typed == TypeOK /\ Traceless /\ PlansOwn /\ DraftFits

LEMMA TypedInit == Init => Typed
  BY DEF Init, Typed, TypeOK, Traceless, PlansOwn, DraftFits, NoPlan, NoExec, Plans, Authorized, Verdicts, Operations, Executions, Claims

LEMMA ReviseType ==
  ASSUME TypeOK, NEW c \in Cases
  PROVE  Revise(c) \in [Cases -> Receipts \cup {Nil}] /\ Revise(c)[c] = Nil
         /\ \A d \in Cases : d # c => Revise(c)[d] = draft[d]
  BY DEF TypeOK, Revise

LEMMA ClaimRow ==
  ASSUME NEW rw \in Claims
  PROVE  LET freed == [rw EXCEPT !.token = Nil] IN freed \in Claims /\ freed.case = rw.case /\ freed.token = Nil
  BY DEF Claims

LEMMA LinkedRow ==
  ASSUME NEW e \in Executions
  PROVE  LET linked == [e EXCEPT !.state = "linked"] IN
         linked \in Executions /\ linked.state = "linked" /\ linked.reservation = e.reservation /\ linked.token = e.token
  BY DEF Executions

LEMMA ReleaseType ==
  ASSUME TypeOK, NEW c \in Cases
  PROVE  /\ Release(c) \in [Keys -> Claims]
         /\ \A k \in Keys : Release(c)[k].case = row[k].case
         /\ \A k \in Keys : row[k].case = c => Release(c)[k].token = Nil
         /\ \A k \in Keys : row[k].case # c => Release(c)[k] = row[k]
<1>1. ASSUME NEW k \in Keys
      PROVE  /\ row[k] \in Claims
             /\ [row[k] EXCEPT !.token = Nil] \in Claims
             /\ [row[k] EXCEPT !.token = Nil].case = row[k].case
             /\ [row[k] EXCEPT !.token = Nil].token = Nil
  BY ClaimRow DEF TypeOK
<1> QED
  BY <1>1 DEF Release

\* Plans, claims and receipts keep their types.
LEMMA CaseMovesType ==
  ASSUME Typed, NEW c \in Cases, CaseMoves(c)
  PROVE  TypeOK'
<1> USE DEF Typed, TypeOK
<1>1. CASE Open(c)
  BY <1>1 DEF Open, opVars
<1>2. CASE PlanCase(c)
  <2>1. PICK n \in 0 .. Budget, repairs \in SUBSET RepairsOf(c), hold \in BOOLEAN, keys \in SUBSET Keys :
          plan' = [plan EXCEPT ![c] = [repairs |-> repairs, reservation |-> n, keys |-> keys, hold |-> hold]]
    <3>1. PICK repairs \in SUBSET RepairsOf(c), n \in 0 .. Budget, prefersOperator \in BOOLEAN,
               found \in SUBSET FoundKeys[c] :
            plan' = [plan EXCEPT ![c] = [repairs |-> repairs, reservation |-> n,
                       keys |-> KeysOf[c] \cup found, hold |-> prefersOperator \/ MustHold(c)]]
      BY <1>2 DEF PlanCase
    <3>2. (prefersOperator \/ MustHold(c)) \in BOOLEAN
      BY DEF MustHold
    <3>3. KeysOf[c] \cup found \in SUBSET Keys
      OBVIOUS
    <3> QED
      BY <3>1, <3>2, <3>3
  <2>2. plan' \in [Cases -> Plans]
    BY <2>1 DEF Plans, RepairsOf
  <2>3. Committed(c) \in Nat
    BY DEF Committed, Usage, Plans, Receipts
  <2> QED
    BY <1>2, <2>2, <2>3, ReviseType DEF PlanCase, opVars
<1>3. CASE Wait(c)
  BY <1>3, ReviseType, ReleaseType DEF Wait, opVars
<1>4. CASE Resume(c)
  <2>1. ResumedState(c) \in {"ready", "active"}
    BY DEF ResumedState
  <2>2. standing' \in [Originals -> Verdicts]
    BY <1>4 DEF Resume
  <2> QED
    BY <1>4, <2>1, <2>2, ReviseType DEF Resume, opVars
<1>5. CASE Deadline(c)
  BY <1>5 DEF Deadline, opVars
<1>6. CASE ClaimKeys(c)
  <2>1. \A t \in Tokens : [case |-> c, token |-> t] \in Claims
    BY DEF Claims
  <2>2. row' \in [Keys -> Claims]
    BY <1>6, <2>1 DEF ClaimKeys
  <2> QED
    BY <1>6, <2>2 DEF ClaimKeys, caseVars, opVars
<1>7. CASE Settle(c)
  <2> DEFINE rc == draft[c]
  <2>1. rc \in Receipts /\ rc # Nil
    BY <1>7 DEF Settle
  <2>2. \A r \in rc.done : op[r] \in Verdicts
    BY <2>1 DEF DraftFits, Succeeded
  <2>3. standing' \in [Originals -> Verdicts]
    BY <1>7, <2>2 DEF Settle
  <2>4. exec' \in [Repairs -> Executions]
        /\ \A r \in Repairs : exec'[r].reservation = exec[r].reservation
    <3>1. ASSUME NEW r \in Repairs
          PROVE  /\ exec'[r] \in Executions
                 /\ exec'[r].reservation = exec[r].reservation
      <4>1. exec'[r] = IF r \in rc.done THEN Settled(r) ELSE exec[r]
        BY <1>7 DEF Settle
      <4>2. exec[r] \in Executions
        OBVIOUS
      <4> QED
        BY <4>1, <4>2 DEF Settled, Executions
    <3>2. exec' = [r \in Repairs |-> exec'[r]]
      BY <1>7 DEF Settle
    <3> QED
      BY <3>1, <3>2
  <2>5. receipt' \in [Cases -> Receipts \cup {Nil}]
    BY <1>7, <2>1 DEF Settle
  <2>6. state' \in [Cases -> {"absent", "ready", "active", "waiting"}] /\ active' \in [Cases -> BOOLEAN]
    <3>1. SettledState(c, rc.outcome) \in {"ready", "active", "waiting"}
      BY DEF SettledState
    <3> QED
      BY <1>7, <3>1 DEF Settle
  <2>7. row' \in [Keys -> Claims] /\ owing' \subseteq Cases
    <3>1. row' = row \/ row' = Release(c)
      BY <1>7 DEF Settle
    <3>2. owing' \in {owing, owing \cup {c}, owing \ {c}}
      BY <1>7 DEF Settle
    <3> QED
      BY <3>1, <3>2, ReleaseType
  <2> QED
    BY <1>7, <2>3, <2>4, <2>5, <2>6, <2>7, ReviseType DEF Settle, opVars
<1> QED
  BY <1>1, <1>2, <1>3, <1>4, <1>5, <1>6, <1>7 DEF CaseMoves

LEMMA ReserveEffect ==
  ASSUME Typed, NEW r \in Repairs, NEW t \in Tokens, NEW n \in Amounts, Reserve(t, r, n)
  PROVE  /\ CaseOfRepair(r) \in Cases
         /\ exec[r] = NoExec /\ op[r] = "none" /\ attempts[r] = 0
         /\ exec' = [exec EXCEPT ![r] = [state |-> "authorized", token |-> t, reservation |-> n]]
         /\ draft' = Revise(CaseOfRepair(r))
         /\ UNCHANGED <<caseVars, row, opVars>>
  BY DEF Typed, Traceless, Reserve, CaseOfRepair

LEMMA TypeNext == Typed /\ [Next]_vars => TypeOK'
<1> SUFFICES ASSUME Typed, [Next]_vars PROVE TypeOK'
  OBVIOUS
<1> USE DEF Typed, TypeOK, caseVars, opVars
<1>1. CASE \E c \in Cases : CaseStep(c)
  <2>1. PICK c \in Cases : CaseStep(c)
    BY <1>1
  <2>2. CASE Notify(c)
    BY <2>2, ReviseType DEF Notify
  <2>3. CASE Compose(c)
    <3>1. ReceiptOf(c).done \in SUBSET Repairs /\ ReceiptOf(c).outcome \in Outcomes
      BY DEF ReceiptOf, OutcomeOf, Outcomes, Plans
    <3>2. ReceiptOf(c).usage \in Nat
      BY <2>3 DEF Compose, Plans
    <3>3. ReceiptOf(c) = [done |-> ReceiptOf(c).done, usage |-> ReceiptOf(c).usage, outcome |-> ReceiptOf(c).outcome]
      BY DEF ReceiptOf
    <3>4. ReceiptOf(c) \in Receipts
      BY <3>1, <3>2, <3>3 DEF Receipts
    <3> QED
      BY <2>3, <3>4 DEF Compose
  <2> QED
    BY <2>1, <2>2, <2>3, CaseMovesType DEF CaseStep, CaseMoves
<1>2. CASE \E r \in Repairs, t \in Tokens, n \in Amounts : Reserve(t, r, n)
  <2>1. PICK r \in Repairs, t \in Tokens, n \in Amounts : Reserve(t, r, n)
    BY <1>2
  <2>2. [state |-> "authorized", token |-> t, reservation |-> n]
          \in Executions
    BY DEF Executions
  <2>3. exec' \in [Repairs -> Executions]
    <3>1. exec' = [exec EXCEPT ![r] = [state |-> "authorized", token |-> t, reservation |-> n]]
      BY <2>1, ReserveEffect
    <3>2. exec \in [Repairs -> Executions]
      OBVIOUS
    <3> QED BY ONLY <2>2, <3>1, <3>2
  <2>4. ASSUME NEW q \in Repairs PROVE attempts'[q] <= exec'[q].reservation
    <3>1. CASE q = r
      BY <2>1, <3>1, ReserveEffect
    <3>2. CASE q # r
      BY <2>1, <3>2, ReserveEffect
    <3> QED
      BY <3>1, <3>2
  <2> QED
    BY <2>1, <2>3, <2>4, ReserveEffect, ReviseType
<1>3. CASE \E r \in Repairs : EnsureOperation(r) \/ Attempt(r) \/ (\E v \in Verdicts : Finish(r, v))
                              \/ Break(r) \/ RetryOperation(r)
  <2>1. PICK r \in Repairs : EnsureOperation(r) \/ Attempt(r) \/ (\E v \in Verdicts : Finish(r, v))
                             \/ Break(r) \/ RetryOperation(r)
    BY <1>3
  <2>2. CASE EnsureOperation(r)
    BY <2>2 DEF EnsureOperation, Operations
  <2>3. CASE Attempt(r)
    BY <2>3 DEF Attempt, WithinReservation
  <2>4. CASE \E v \in Verdicts : Finish(r, v)
    BY <2>4 DEF Finish, Operations
  <2>5. CASE Break(r) \/ RetryOperation(r)
    BY <2>5 DEF Break, RetryOperation, Operations
  <2> QED
    BY <2>1, <2>2, <2>3, <2>4, <2>5
<1>4. CASE \E r \in Repairs : Link(r)
  <2>1. PICK r \in Repairs : Link(r)
    BY <1>4
  <2>2. CaseOfRepair(r) \in Cases
    BY DEF CaseOfRepair
  <2>3. [exec[r] EXCEPT !.state = "linked"]
          \in Executions
        /\ [exec[r] EXCEPT !.state = "linked"].reservation = exec[r].reservation
    BY LinkedRow
  <2>4. exec' = [exec EXCEPT ![r] = [exec[r] EXCEPT !.state = "linked"]]
    BY <2>1 DEF Link
  <2>5. exec' \in [Repairs -> Executions]
        /\ \A q \in Repairs : exec'[q].reservation = exec[q].reservation
    BY <2>3, <2>4
  <2> QED
    BY <2>1, <2>2, <2>5, ReviseType DEF Link
<1>5. CASE \E k \in Keys : Expire(k)
  <2>1. PICK k \in Keys : Expire(k)
    BY <1>5
  <2>2. [row[k] EXCEPT !.token = Nil] \in Claims
    BY ClaimRow
  <2>3. row' = [row EXCEPT ![k] = [row[k] EXCEPT !.token = Nil]]
    BY <2>1 DEF Expire
  <2>4. row' \in [Keys -> Claims]
    BY <2>2, <2>3
  <2> QED
    BY <2>1, <2>4 DEF Expire
<1>6. CASE UNCHANGED vars
  BY <1>6 DEF vars
<1> QED
  BY <1>1, <1>2, <1>3, <1>4, <1>5, <1>6 DEF Next, RepairStep

\* Executions change when they are authorised, linked and settled only; nothing
\* but a plan touches the plan.
LEMMA PlanEffect ==
  ASSUME Typed, [Next]_vars
  PROVE  plan' = plan \/ \E c \in Cases : PlanCase(c)
<1>1. ASSUME NEW c \in Cases, CaseMoves(c) PROVE plan' = plan \/ PlanCase(c)
  BY <1>1 DEF CaseMoves, Open, Wait, Resume, Deadline, ClaimKeys, Settle, caseVars
<1> QED
  BY <1>1, NextCases DEF Quiet, Reserve, Link, Expire, caseVars

LEMMA PlanCaseEffect ==
  ASSUME Typed, NEW c \in Cases, PlanCase(c)
  PROVE  /\ plan'[c].repairs \subseteq RepairsOf(c)
         /\ plan'[c].reservation \in Nat
         /\ Committed(c) + plan'[c].reservation <= Budget
         /\ \A r \in plan'[c].repairs : ~Authorized(r)
         /\ \A d \in Cases : d # c => plan'[d] = plan[d]
<1>1. PICK repairs \in SUBSET RepairsOf(c), n \in 0 .. Budget :
        /\ \E hold, keys :
             plan' = [plan EXCEPT ![c] = [repairs |-> repairs, reservation |-> n, keys |-> keys, hold |-> hold]]
        /\ Committed(c) + n <= Budget
        /\ \A r \in repairs : ~Authorized(r)
  BY DEF PlanCase, Admissible
<1> QED
  BY <1>1 DEF Typed, TypeOK

LEMMA PlansOwnNext == Typed /\ [Next]_vars => PlansOwn'
  BY PlanEffect, PlanCaseEffect DEF Typed, PlansOwn, RepairsOf


LEMMA TracelessNext == Typed /\ [Next]_vars => Traceless'
<1> SUFFICES ASSUME Typed, [Next]_vars, NEW r \in Repairs, ~Authorized(r)'
             PROVE  exec'[r] = NoExec /\ op'[r] = "none" /\ attempts'[r] = 0
  BY DEF Traceless
<1> USE DEF Typed, TypeOK, Authorized, Traceless
<1>1. CASE UNCHANGED <<exec, opVars>>
  BY <1>1 DEF opVars
<1>2. CASE \E c \in Cases : CaseMoves(c)
  <2>1. PICK c \in Cases : CaseMoves(c)
    BY <1>2
  <2>2. CASE Settle(c)
    <3>1. exec'[r] = IF r \in draft[c].done THEN Settled(r) ELSE exec[r]
      BY <2>2 DEF Settle
    <3> QED
      BY <2>2, <3>1 DEF Settle, Settled, opVars
  <2>3. CASE ~Settle(c)
    BY <1>1, <2>1, <2>3 DEF CaseMoves, Open, PlanCase, Wait, Resume, Deadline, ClaimKeys
  <2> QED
    BY <2>2, <2>3
<1>3. CASE \E q \in Repairs, t \in Tokens, n \in Amounts : Reserve(t, q, n)
  <2>1. PICK q \in Repairs, t \in Tokens, n \in Amounts : Reserve(t, q, n)
    BY <1>3
  <2>2. q # r
    BY <2>1, ReserveEffect
  <2> QED
    BY <2>1, <2>2, ReserveEffect DEF opVars
<1>4. CASE \E q \in Repairs : Link(q)
  <2>1. PICK q \in Repairs : Link(q)
    BY <1>4
  <2>2. q # r
    BY <2>1 DEF Link
  <2> QED
    BY <2>1, <2>2 DEF Link, opVars
<1>5. CASE \E q \in Repairs : EnsureOperation(q) \/ Attempt(q) \/ (\E v \in Verdicts : Finish(q, v))
                              \/ Break(q) \/ RetryOperation(q)
  <2>1. PICK q \in Repairs : EnsureOperation(q) \/ Attempt(q) \/ (\E v \in Verdicts : Finish(q, v))
                             \/ Break(q) \/ RetryOperation(q)
    BY <1>5
  <2>2. exec' = exec /\ q # r
    BY <2>1 DEF EnsureOperation, Attempt, Finish, Break, RetryOperation, Unsettled
  <2> QED
    BY <2>1, <2>2 DEF EnsureOperation, Attempt, Finish, Break, RetryOperation
<1>6. CASE \E c \in Cases : Notify(c) \/ Compose(c)
  BY <1>1, <1>6 DEF Notify, Compose
<1>7. CASE \E k \in Keys : Expire(k)
  BY <1>1, <1>7 DEF Expire
<1>8. CASE UNCHANGED vars
  BY <1>1, <1>8 DEF vars, opVars
<1> QED
  BY <1>2, <1>3, <1>4, <1>5, <1>6, <1>7, <1>8 DEF Next, CaseStep, RepairStep, CaseMoves

\* An operation that ended with a result keeps it.
LEMMA SucceededStays ==
  ASSUME Typed, [Next]_vars, NEW r \in Repairs, Succeeded(r)
  PROVE  op'[r] = op[r]
<1> USE DEF Typed, TypeOK, Succeeded, Verdicts
<1>1. CASE op' = op
  BY <1>1
<1>2. CASE \E q \in Repairs : EnsureOperation(q) \/ (\E v \in Verdicts : Finish(q, v))
                              \/ Break(q) \/ RetryOperation(q)
  BY <1>2 DEF EnsureOperation, Finish, Break, RetryOperation
<1>3. ASSUME NEW c \in Cases, CaseStep(c) PROVE op' = op
  BY <1>3 DEF CaseStep, Open, Notify, PlanCase, Wait, Resume, Deadline, ClaimKeys, Compose, Settle, opVars
<1>4. ASSUME NEW q \in Repairs, (\E t \in Tokens, n \in Amounts : Reserve(t, q, n)) \/ Link(q) \/ Attempt(q)
      PROVE  op' = op
  BY <1>4 DEF Reserve, Link, Attempt, opVars
<1>5. ASSUME NEW k \in Keys, Expire(k) PROVE op' = op
  BY <1>5 DEF Expire, opVars
<1>6. CASE UNCHANGED vars
  BY <1>6 DEF vars, opVars
<1> QED
  BY <1>1, <1>2, <1>3, <1>4, <1>5, <1>6 DEF Next, RepairStep

LEMMA LinkedStays ==
  ASSUME Typed, [Next]_vars, NEW r \in Repairs, exec[r].state \in {"linked", "settled"}
  PROVE  exec'[r].state \in {"linked", "settled"}
<1> USE DEF Typed, TypeOK
<1>1. CASE exec' = exec
  BY <1>1
<1>2. CASE \E c \in Cases : CaseMoves(c)
  <2>1. PICK c \in Cases : CaseMoves(c)
    BY <1>2
  <2>2. CASE Settle(c)
    BY <2>2 DEF Settle, Settled
  <2>3. CASE ~Settle(c)
    BY <1>1, <2>1, <2>3 DEF CaseMoves, Open, PlanCase, Wait, Resume, Deadline, ClaimKeys
  <2> QED
    BY <2>2, <2>3
<1>3. CASE \E q \in Repairs, t \in Tokens, n \in Amounts : Reserve(t, q, n)
  <2>1. PICK q \in Repairs, t \in Tokens, n \in Amounts : Reserve(t, q, n)
    BY <1>3
  <2>2. q # r
    BY <2>1, ReserveEffect DEF NoExec
  <2> QED
    BY <2>1, <2>2, ReserveEffect
<1>4. CASE \E q \in Repairs : Link(q)
  <2>1. PICK q \in Repairs : Link(q)
    BY <1>4
  <2>2. q # r
    BY <2>1 DEF Link
  <2> QED
    BY <2>1, <2>2 DEF Link
<1> QED
  BY <1>1, <1>2, <1>3, <1>4, NextCases DEF Quiet, Expire

LEMMA DraftEffect ==
  ASSUME Typed, [Next]_vars, NEW c \in Cases
  PROVE  \/ draft'[c] = Nil
         \/ draft'[c] = draft[c] /\ plan'[c] = plan[c]
         \/ Compose(c)
<1> USE ReviseType DEF Typed
<1>1. ASSUME NEW d \in Cases, CaseStep(d), ~Compose(c)
      PROVE  draft'[c] = Nil \/ (draft'[c] = draft[c] /\ plan'[c] = plan[c])
  <2>1. CASE PlanCase(d)
    <3>1. draft' = Revise(d)
      BY <2>1 DEF PlanCase
    <3>2. c # d => plan'[c] = plan[c]
      BY <2>1, PlanCaseEffect
    <3>3. CASE c = d
      BY <3>1, <3>3
    <3>4. CASE c # d
      <4>1. Revise(d)[c] = draft[c]
        BY <3>4
      <4> QED
        BY <3>1, <3>2, <3>4, <4>1
    <3> QED
      BY <3>3, <3>4
  <2>2. CASE Compose(d)
    BY <1>1, <2>2 DEF Compose, caseVars, TypeOK
  <2>3. CASE ~PlanCase(d) /\ ~Compose(d)
    BY <1>1, <2>3 DEF CaseStep, Open, Notify, Wait, Resume, Deadline, ClaimKeys, Settle, caseVars
  <2> QED
    BY <2>1, <2>2, <2>3
<1>2. ASSUME NEW r \in Repairs, NEW t \in Tokens, NEW n \in Amounts, Reserve(t, r, n)
      PROVE  draft'[c] = Nil \/ (draft'[c] = draft[c] /\ plan'[c] = plan[c])
  BY <1>2, ReserveEffect DEF caseVars
<1>3. ASSUME NEW r \in Repairs, Link(r)
      PROVE  draft'[c] = Nil \/ (draft'[c] = draft[c] /\ plan'[c] = plan[c])
  <2>1. CaseOfRepair(r) \in Cases
    BY DEF CaseOfRepair
  <2> QED
    BY <1>3, <2>1 DEF Link, caseVars
<1>4. ASSUME NEW r \in Repairs, EnsureOperation(r) \/ Attempt(r) \/ (\E v \in Verdicts : Finish(r, v))
                                \/ Break(r) \/ RetryOperation(r)
      PROVE  draft'[c] = draft[c] /\ plan'[c] = plan[c]
  BY <1>4 DEF EnsureOperation, Attempt, Finish, Break, RetryOperation, caseVars
<1>5. ASSUME NEW k \in Keys, Expire(k) PROVE draft'[c] = draft[c] /\ plan'[c] = plan[c]
  BY <1>5 DEF Expire, caseVars
<1>6. CASE UNCHANGED vars
  BY <1>6 DEF vars, caseVars
<1> QED
  BY <1>1, <1>2, <1>3, <1>4, <1>5, <1>6 DEF Next, RepairStep

LEMMA DraftFitsNext == Typed /\ [Next]_vars => DraftFits'
<1> SUFFICES ASSUME Typed, [Next]_vars, NEW c \in Cases, draft'[c] # Nil
             PROVE  /\ draft'[c].done \subseteq plan'[c].repairs
                    /\ \A r \in draft'[c].done : Succeeded(r)'
                    /\ draft'[c].usage <= plan'[c].reservation
                    /\ draft'[c].outcome # "pending" => draft'[c].done = plan'[c].repairs
                    /\ \A r \in plan'[c].repairs : exec'[r].state \in {"linked", "settled"}
  BY DEF DraftFits
<1> USE DEF Typed, TypeOK, Plans
<1>1. CASE draft'[c] = draft[c] /\ plan'[c] = plan[c]
  <2>1. \A r \in plan[c].repairs : exec'[r].state \in {"linked", "settled"}
    BY <1>1, LinkedStays DEF DraftFits
  <2>2. \A r \in draft[c].done : Succeeded(r)'
    BY <1>1, SucceededStays DEF DraftFits, Succeeded
  <2> QED
    BY <1>1, <2>1, <2>2 DEF DraftFits
<1>2. CASE Compose(c)
  <2>1. /\ draft'[c] = ReceiptOf(c)
        /\ UNCHANGED <<plan, exec, op>>
        /\ ReceiptOf(c).usage <= plan[c].reservation
        /\ \A r \in plan[c].repairs : exec[r].state \in {"linked", "settled"}
    BY <1>2 DEF Compose, caseVars, opVars
  <2>2. /\ ReceiptOf(c).done = {r \in plan[c].repairs : Succeeded(r)}
        /\ ReceiptOf(c).outcome = OutcomeOf(c, {r \in plan[c].repairs : Succeeded(r)})
    BY DEF ReceiptOf
  <2> QED
    BY <2>1, <2>2 DEF OutcomeOf, Succeeded
<1> QED
  BY <1>1, <1>2, DraftEffect

LEMMA TypedNext == Typed /\ [Next]_vars => Typed'
  BY TypeNext, TracelessNext, PlansOwnNext, DraftFitsNext DEF Typed

\* Every variable keeps its range, and no operation makes more provider calls
\* than were reserved for its execution.
THEOREM TypeCorrect == Spec => []TypeOK
<1>1. Typed => TypeOK
  BY DEF Typed
<1> QED
  BY <1>1, TypedInit, TypedNext, PTL DEF Spec

----------------------------------------------------------------------------
(* Claims and plans *)

\* A case with a repair under way owns the row of every key of its plan.
KeysOwned ==
  \A r \in Repairs : Unsettled(r) =>
    \A k \in plan[CaseOfRepair(r)].keys : row[k].case = CaseOfRepair(r)

OneToken ==
  \A r, s \in Repairs :
    Unsettled(r) /\ Unsettled(s) /\ CaseOfRepair(r) = CaseOfRepair(s) => exec[r].token = exec[s].token

\* A case that was not opened has no history.
AbsentEmpty == \A c \in Cases : state[c] = "absent" => plan[c] = NoPlan /\ draft[c] = Nil /\ ~active[c] /\ c \notin owing

\* Only a case under recovery has live claims.
ClaimsActive == \A c \in Cases : state[c] # "active" => \A k \in Keys : row[k].case = c => row[k].token = Nil

Planned == OpenWorkHasPlan /\ AbsentEmpty

Recovering == Typed /\ Planned /\ KeysOwned /\ OneToken /\ ClaimsActive /\ ReadyOwesNothing

LEMMA RecoveringInit == Init => Recovering
  BY TypedInit DEF Init, Recovering, Planned, OpenWorkHasPlan, AbsentEmpty, KeysOwned, OneToken, ClaimsActive,
     ReadyOwesNothing, Unsettled, NoExec

\* The repairs under way after a step were so before, with the same token, or
\* the step authorised them.
LEMMA UnsettledEffect ==
  ASSUME Typed, [Next]_vars, NEW r \in Repairs, Unsettled(r)'
  PROVE  \/ Unsettled(r) /\ exec'[r].token = exec[r].token /\ ~\E c \in Cases : Settle(c) /\ r \in draft[c].done
         \/ \E t \in Tokens, n \in Amounts : Reserve(t, r, n)
<1> USE DEF Typed, TypeOK, Unsettled
<1>1. CASE exec' = exec /\ ~\E c \in Cases : Settle(c)
  BY <1>1
<1>2. CASE \E c \in Cases : Settle(c)
  <2>1. ASSUME NEW c \in Cases, Settle(c) PROVE r \notin draft[c].done /\ exec'[r] = exec[r]
    <3>1. exec'[r] = IF r \in draft[c].done THEN Settled(r) ELSE exec[r]
      BY <2>1 DEF Settle
    <3> QED
      BY <3>1 DEF Settled
  <2> QED
    BY <1>2, <2>1
<1>3. CASE \E q \in Repairs, t \in Tokens, n \in Amounts : Reserve(t, q, n)
  <2>1. PICK q \in Repairs, t \in Tokens, n \in Amounts : Reserve(t, q, n)
    BY <1>3
  <2>2. CASE q # r
    <3>1. exec'[r] = exec[r]
      BY <2>1, <2>2, ReserveEffect
    <3> QED
      BY <1>2, <3>1
  <2> QED
    BY <2>1, <2>2
<1>4. CASE \E q \in Repairs : Link(q)
  <2>1. PICK q \in Repairs : Link(q)
    BY <1>4
  <2>2. CASE q # r
    <3>1. exec'[r] = exec[r]
      BY <2>1, <2>2 DEF Link
    <3> QED
      BY <1>2, <3>1
  <2>3. CASE q = r
    <3>1. exec'[r].token = exec[r].token /\ exec[r].state = "authorized"
      BY <2>1, <2>3, LinkedRow DEF Link
    <3> QED
      BY <1>2, <3>1
  <2> QED
    BY <2>2, <2>3
<1>5. CASE \E c \in Cases : CaseMoves(c) /\ ~Settle(c)
  <2>1. exec' = exec
    BY <1>5 DEF CaseMoves, Open, PlanCase, Wait, Resume, Deadline, ClaimKeys
  <2> QED
    BY <1>1, <1>2, <2>1
<1> QED
  BY <1>1, <1>2, <1>3, <1>4, <1>5, NextCases DEF Quiet, Expire

LEMMA OpenWorkNext == Typed /\ Planned /\ [Next]_vars => OpenWorkHasPlan'
<1> SUFFICES ASSUME Typed, Planned, [Next]_vars, NEW r \in Repairs, Unsettled(r)'
             PROVE  active'[CaseOfRepair(r)] /\ r \in plan'[CaseOfRepair(r)].repairs
  BY DEF OpenWorkHasPlan
<1> DEFINE c == CaseOfRepair(r)
<1> USE DEF Typed, TypeOK
<1>1. c \in Cases
  BY DEF CaseOfRepair
<1>2. CASE \E t \in Tokens, n \in Amounts : Reserve(t, r, n)
  BY <1>2 DEF Reserve, caseVars
<1>3. CASE Unsettled(r) /\ ~\E d \in Cases : Settle(d) /\ r \in draft[d].done
  <2>1. active[c] /\ r \in plan[c].repairs
    BY <1>3 DEF Planned, OpenWorkHasPlan
  <2>2. CASE active'[c] = active[c] /\ plan'[c] = plan[c]
    BY <2>1, <2>2
  <2>3. ASSUME NEW d \in Cases, CaseMoves(d) PROVE active'[c] /\ r \in plan'[c].repairs
    <3>1. CASE PlanCase(d)
      <4>1. d # c
        BY <2>1, <3>1 DEF PlanCase
      <4>2. active'[c] = active[c]
        BY <1>1, <3>1, <4>1 DEF PlanCase
      <4> QED
        BY <1>1, <2>1, <3>1, <4>1, <4>2, PlanCaseEffect
    <3>2. CASE Settle(d)
      <4>1. CASE draft[d].outcome = "pending" \/ d # c
        BY <1>1, <2>1, <3>2, <4>1 DEF Settle
      <4>2. CASE draft[d].outcome # "pending" /\ d = c
        BY <1>3, <2>1, <3>2, <4>2 DEF Settle, DraftFits
      <4> QED
        BY <4>1, <4>2
    <3>3. CASE ~PlanCase(d) /\ ~Settle(d)
      BY <2>1, <2>3, <3>3 DEF CaseMoves, Open, Wait, Resume, Deadline, ClaimKeys, caseVars
    <3> QED
      BY <3>1, <3>2, <3>3
  <2> QED
    BY <2>1, <2>3, NextCases DEF Quiet, Reserve, Link, Expire, caseVars
<1> QED
  BY <1>2, <1>3, UnsettledEffect

LEMMA AbsentNext == Typed /\ Planned /\ [Next]_vars => AbsentEmpty'
<1> SUFFICES ASSUME Typed, Planned, [Next]_vars, NEW c \in Cases, state'[c] = "absent"
             PROVE  plan'[c] = NoPlan /\ draft'[c] = Nil /\ ~active'[c] /\ c \notin owing'
  BY DEF AbsentEmpty
<1> USE DEF Typed, TypeOK, Planned, AbsentEmpty
<1>1. ASSUME NEW d \in Cases, CaseMoves(d)
      PROVE  state[c] = "absent" /\ plan'[c] = plan[c] /\ active'[c] = active[c] /\ (c \in owing' => c \in owing)
  <2>1. CASE PlanCase(d)
    BY <2>1 DEF PlanCase
  <2>2. CASE Settle(d)
    BY <2>2 DEF Settle, SettledState
  <2>3. CASE Open(d) \/ Wait(d) \/ Resume(d) \/ Deadline(d) \/ ClaimKeys(d)
    BY <2>3 DEF Open, Wait, Resume, ResumedState, Deadline, ClaimKeys, caseVars
  <2> QED
    BY <1>1, <2>1, <2>2, <2>3 DEF CaseMoves
<1>2. state[c] = "absent" /\ plan'[c] = plan[c] /\ active'[c] = active[c] /\ (c \in owing' => c \in owing)
  BY <1>1, NextCases DEF Quiet, Reserve, Link, Expire, caseVars
<1>3. ~Compose(c)
  BY <1>2 DEF Compose
<1> QED
  BY <1>2, <1>3, DraftEffect

\* A row changes its case only when it is claimed.
LEMMA RowEffect ==
  ASSUME Typed, [Next]_vars, NEW k \in Keys
  PROVE  row'[k].case = row[k].case
         \/ \E c \in Cases : ClaimKeys(c) /\ k \in plan[c].keys /\ row'[k].case = c
<1> USE DEF Typed, TypeOK
<1>1. CASE row' = row
  BY <1>1
<1>2. ASSUME NEW c \in Cases, CaseMoves(c)
      PROVE  row'[k].case = row[k].case \/ (ClaimKeys(c) /\ k \in plan[c].keys /\ row'[k].case = c)
  <2>1. CASE ClaimKeys(c)
    <3>1. PICK t \in Tokens : row' = [j \in Keys |-> IF j \in plan[c].keys THEN [case |-> c, token |-> t] ELSE row[j]]
      BY <2>1 DEF ClaimKeys
    <3> QED
      BY <2>1, <3>1
  <2>2. CASE row' = Release(c)
    BY <2>2, ReleaseType
  <2>3. CASE Settle(c)
    BY <1>1, <2>2, <2>3 DEF Settle
  <2> QED
    BY <1>1, <1>2, <2>1, <2>2, <2>3 DEF CaseMoves, Open, PlanCase, Wait, Resume, Deadline
<1>3. ASSUME NEW j \in Keys, Expire(j) PROVE row'[k].case = row[k].case
  <2>1. row' = [row EXCEPT ![j] = [row[j] EXCEPT !.token = Nil]]
    BY <1>3 DEF Expire
  <2>2. [row[j] EXCEPT !.token = Nil].case = row[j].case
    BY ClaimRow
  <2> QED
    BY <2>1, <2>2
<1> QED
  BY <1>1, <1>2, <1>3, NextCases DEF Quiet, Reserve, Link

\* Claiming takes no key of a case whose repairs are under way.
LEMMA KeysOwnedNext == Typed /\ Planned /\ KeysOwned /\ [Next]_vars => KeysOwned'
<1> SUFFICES ASSUME Typed, Planned, KeysOwned, [Next]_vars
             PROVE  KeysOwned'
  OBVIOUS
<1>a. \A c \in Cases : plan'[c].keys \subseteq Keys
  BY TypeNext DEF TypeOK, Plans
<1>b. \A q \in Repairs : CaseOfRepair(q) \in Cases
  BY DEF CaseOfRepair
<1>c. SUFFICES ASSUME NEW r \in Repairs, Unsettled(r)', NEW k \in plan'[CaseOfRepair(r)].keys
               PROVE  row'[k].case = CaseOfRepair(r)
  BY DEF KeysOwned, CaseOfRepair
<1>d. k \in Keys
  BY <1>a, <1>b, <1>c
<1> DEFINE c == CaseOfRepair(r)
<1>1. c \in Cases
  BY DEF CaseOfRepair
<1>2. CASE \E t \in Tokens, n \in Amounts : Reserve(t, r, n)
  <2>1. PICK t \in Tokens, n \in Amounts : Reserve(t, r, n)
    BY <1>2
  <2>2. row' = row /\ plan' = plan
    BY <2>1 DEF Reserve, caseVars
  <2>3. row[k] = [case |-> c, token |-> t]
    BY <2>1, <2>2 DEF Reserve, HoldsClaim
  <2> QED
    BY <2>2, <2>3
<1>3. CASE Unsettled(r)
  <2>1. active[c] /\ r \in plan[c].repairs
    BY <1>3 DEF Planned, OpenWorkHasPlan
  <2>2. plan'[c] = plan[c]
    <3>1. ASSUME NEW d \in Cases, PlanCase(d) PROVE plan'[c] = plan[c]
      <4>1. d # c
        BY <2>1, <3>1 DEF PlanCase
      <4> QED
        BY <1>1, <3>1, <4>1, PlanCaseEffect
    <3> QED
      BY <3>1, PlanEffect
  <2>3. row[k].case = c
    BY <1>3, <2>2 DEF KeysOwned
  <2>4. ASSUME NEW d \in Cases, ClaimKeys(d), k \in plan[d].keys PROVE d = c
    <3>1. ~Foreign(k, d)
      BY <2>4 DEF ClaimKeys, Claimable
    <3>2. r \in RepairsOf(c)
      BY DEF RepairsOf
    <3> QED
      BY <1>3, <2>3, <3>1, <3>2 DEF Foreign
  <2> QED
    BY <1>c, <1>d, <2>3, <2>4, RowEffect
<1> QED
  BY <1>c, <1>2, <1>3, UnsettledEffect

LEMMA OneTokenNext == Typed /\ OneToken /\ [Next]_vars => OneToken'
<1> SUFFICES ASSUME Typed, OneToken, [Next]_vars, NEW r \in Repairs, NEW s \in Repairs,
                    Unsettled(r)', Unsettled(s)', CaseOfRepair(r) = CaseOfRepair(s)
             PROVE  exec'[r].token = exec'[s].token
  BY DEF OneToken, CaseOfRepair
<1>1. ASSUME NEW q \in Repairs, NEW u \in Repairs, CaseOfRepair(q) = CaseOfRepair(u), Unsettled(u)', u # q,
             \E t \in Tokens, n \in Amounts : Reserve(t, q, n)
      PROVE  exec'[q].token = exec'[u].token
  <2>1. PICK t \in Tokens, n \in Amounts : Reserve(t, q, n)
    BY <1>1
  <2>2. exec'[u] = exec[u] /\ exec'[q].token = t
    BY <1>1, <2>1, ReserveEffect DEF Typed, TypeOK
  <2>3. Unsettled(u) /\ u \in RepairsOf(CaseOfRepair(q))
    BY <1>1, <2>2 DEF Unsettled, RepairsOf
  <2>4. exec[u].token = t
    BY <2>1, <2>3 DEF Reserve
  <2> QED
    BY <2>2, <2>4
<1>2. CASE Unsettled(r) /\ exec'[r].token = exec[r].token /\ Unsettled(s) /\ exec'[s].token = exec[s].token
  BY <1>2 DEF OneToken
<1>3. CASE r = s
  BY <1>3
<1> QED
  BY <1>1, <1>2, <1>3, UnsettledEffect

LEMMA ClaimsActiveNext == Typed /\ AbsentEmpty /\ ClaimsActive /\ [Next]_vars => ClaimsActive'
<1> SUFFICES ASSUME Typed, AbsentEmpty, ClaimsActive, [Next]_vars, NEW c \in Cases, state'[c] # "active",
                    NEW k \in Keys, row'[k].case = c
             PROVE  row'[k].token = Nil
  BY DEF ClaimsActive
<1> USE DEF Typed, TypeOK
<1>1. CASE row' = row /\ state'[c] = state[c]
  BY <1>1 DEF ClaimsActive
<1>2. ASSUME NEW d \in Cases, CaseMoves(d) PROVE row'[k].token = Nil
  <2>1. CASE Open(d) \/ Deadline(d)
    <3>1. row' = row /\ state[c] # "active"
      BY <2>1 DEF Open, Deadline
    <3> QED
      BY <3>1 DEF ClaimsActive
  <2>2. CASE PlanCase(d) \/ Resume(d)
    <3>1. row' = row /\ (d = c => state[c] # "active") /\ (d # c => state'[c] = state[c])
      BY <2>2 DEF PlanCase, Resume
    <3> QED
      BY <3>1 DEF ClaimsActive
  <2>3. CASE row' = Release(d) /\ (d # c => state'[c] = state[c])
    <3>1. /\ row'[k].case = row[k].case
          /\ row[k].case = d => row'[k].token = Nil
          /\ row[k].case # d => row'[k] = row[k]
      BY <2>3, ReleaseType
    <3>2. row[k].case = c
      BY <3>1
    <3>3. CASE d # c
      BY <2>3, <3>1, <3>2, <3>3 DEF ClaimsActive
    <3> QED
      BY <3>1, <3>2, <3>3
  <2>4. CASE Wait(d)
    BY <2>3, <2>4 DEF Wait
  <2>5. CASE ClaimKeys(d)
    <3>1. PICK t \in Tokens : row' = [j \in Keys |-> IF j \in plan[d].keys THEN [case |-> d, token |-> t] ELSE row[j]]
      BY <2>5 DEF ClaimKeys
    <3>2. state' = state /\ d # c
      BY <2>5 DEF ClaimKeys, caseVars
    <3>3. row'[k] = row[k]
      BY <3>1, <3>2
    <3> QED
      BY <3>2, <3>3 DEF ClaimsActive
  <2>6. CASE Settle(d)
    <3>1. CASE draft[d].outcome = "pending"
      BY <1>1, <2>6, <3>1 DEF Settle
    <3>2. CASE draft[d].outcome = "clean"
      BY <2>3, <2>6, <3>2 DEF Settle
    <3>3. CASE draft[d].outcome = "checkpoint"
      <4>1. row' = row /\ state' = [state EXCEPT ![d] = SettledState(d, "checkpoint")]
        BY <2>6, <3>3 DEF Settle
      <4>2. state'[c] = state[c]
        BY <4>1 DEF SettledState
      <4> QED
        BY <1>1, <4>1, <4>2
    <3>4. draft[d].outcome \in Outcomes
      BY <2>6 DEF Settle, Receipts
    <3> QED
      BY <3>1, <3>2, <3>3, <3>4 DEF Outcomes
  <2> QED
    BY <1>2, <2>1, <2>2, <2>4, <2>5, <2>6 DEF CaseMoves
<1>3. ASSUME NEW j \in Keys, Expire(j) PROVE row'[k].token = Nil
  <2>1. row' = [row EXCEPT ![j] = [row[j] EXCEPT !.token = Nil]] /\ state' = state
    BY <1>3 DEF Expire, caseVars
  <2>2. CASE j = k
    BY <2>1, <2>2, ClaimRow
  <2>3. CASE j # k
    BY <2>1, <2>3 DEF ClaimsActive
  <2> QED
    BY <2>2, <2>3
<1> QED
  BY <1>1, <1>2, <1>3, NextCases DEF Quiet, Reserve, Link, caseVars

LEMMA ReadyNext ==
  Typed /\ Planned /\ ClaimsActive /\ ReadyOwesNothing /\ [Next]_vars => ReadyOwesNothing'
<1> SUFFICES ASSUME Typed, Planned, ClaimsActive, ReadyOwesNothing, [Next]_vars, NEW c \in Cases, state'[c] = "ready"
             PROVE  c \notin owing' /\ ~active'[c] /\ \A k \in Keys : row'[k].case = c => row'[k].token = Nil
  BY DEF ReadyOwesNothing
<1>0. \A k \in Keys : row'[k].case = c => row'[k].token = Nil
  BY ClaimsActiveNext DEF Planned, ClaimsActive
<1> SUFFICES c \notin owing' /\ ~active'[c]
  BY <1>0
<1> USE DEF Typed, TypeOK
<1>1. CASE state'[c] = state[c] /\ active'[c] = active[c] /\ (c \in owing' => c \in owing)
  BY <1>1 DEF ReadyOwesNothing
<1>2. ASSUME NEW d \in Cases, CaseMoves(d) PROVE c \notin owing' /\ ~active'[c]
  <2>1. CASE Open(d)
    BY <1>1, <2>1 DEF Open, Planned, AbsentEmpty
  <2>2. CASE PlanCase(d) \/ Wait(d) \/ Deadline(d) \/ ClaimKeys(d)
    BY <1>1, <2>2 DEF PlanCase, Wait, Deadline, ClaimKeys, caseVars
  <2>3. CASE Resume(d)
    BY <1>1, <2>3 DEF Resume, ResumedState
  <2>4. CASE Settle(d)
    <3>1. CASE d # c \/ draft[d].outcome = "pending"
      BY <1>1, <2>4, <3>1 DEF Settle
    <3>2. CASE d = c /\ draft[d].outcome # "pending"
      <4>1. SettledState(c, draft[c].outcome) = "ready" /\ active'[c] = FALSE
        BY <2>4, <3>2 DEF Settle
      <4>2. draft[c].outcome # "checkpoint"
        BY <4>1 DEF SettledState
      <4> QED
        BY <2>4, <3>2, <4>1, <4>2 DEF Settle
    <3> QED
      BY <3>1, <3>2
  <2> QED
    BY <1>2, <2>1, <2>2, <2>3, <2>4 DEF CaseMoves
<1> QED
  BY <1>1, <1>2, NextCases DEF Quiet, Reserve, Link, Expire, caseVars

LEMMA RecoveringNext == Recovering /\ [Next]_vars => Recovering'
  BY TypedNext, OpenWorkNext, AbsentNext, KeysOwnedNext, OneTokenNext, ClaimsActiveNext, ReadyNext
     DEF Recovering, Planned

LEMMA RecoveringInvariant == Spec => []Recovering
  BY RecoveringInit, RecoveringNext, PTL DEF Spec

\* Repairs under way of two cases touch no common key, and those of one case
\* were authorised under one claim, for any number of cases, clients, expired
\* claims and waits.
THEOREM RepairsExclude == Spec => []RepairsExclusive
<1>1. Recovering => RepairsExclusive
  <2> SUFFICES ASSUME Recovering, NEW r \in Repairs, NEW s \in Repairs, Unsettled(r), Unsettled(s),
                      CaseOfRepair(r) # CaseOfRepair(s)
               PROVE  plan[CaseOfRepair(r)].keys \cap plan[CaseOfRepair(s)].keys = {}
    BY DEF Recovering, OneToken, RepairsExclusive
  <2> QED
    BY DEF Recovering, KeysOwned
<1> QED
  BY <1>1, RecoveringInvariant, PTL

\* No receipt ends a plan with a repair under way, and no plan starts beside one.
THEOREM WorkHasPlan == Spec => []OpenWorkHasPlan
<1>1. Recovering => OpenWorkHasPlan
  BY DEF Recovering, Planned
<1> QED
  BY <1>1, RecoveringInvariant, PTL

\* A case is planned again only without a plan, a live claim or a checkpoint
\* asked for and not resumed.
THEOREM ReadyIsClear == Spec => []ReadyOwesNothing
<1>1. Recovering => ReadyOwesNothing
  BY DEF Recovering
<1> QED
  BY <1>1, RecoveringInvariant, PTL

----------------------------------------------------------------------------
(* The budget *)

\* The latest plan's reservation is covered, whether the plan is under way or
\* settled for less.
Covered ==
  \A c \in Cases :
    /\ past[c] + plan[c].reservation <= Budget
    /\ receipt[c] # Nil => receipt[c].usage <= plan[c].reservation

Within == \A c \in Cases : Committed(c) <= Budget

LEMMA CoveredWithin == Typed /\ Covered => Within
  BY DEF Typed, TypeOK, Covered, Within, Committed, Usage, Plans, Receipts

LEMMA CoveredInit == Init => Covered
  BY DEF Init, Covered, NoPlan

LEMMA CoveredNext == Typed /\ Covered /\ [Next]_vars => Covered'
<1> SUFFICES ASSUME Typed, Covered, [Next]_vars, NEW c \in Cases
             PROVE  /\ past'[c] + plan'[c].reservation <= Budget
                    /\ receipt'[c] # Nil => receipt'[c].usage <= plan'[c].reservation
  BY DEF Covered
<1> USE DEF Typed, TypeOK
<1>1. CASE UNCHANGED <<past, plan, receipt>>
  BY <1>1 DEF Covered
<1>2. ASSUME NEW d \in Cases, CaseMoves(d)
      PROVE  /\ past'[c] + plan'[c].reservation <= Budget
             /\ receipt'[c] # Nil => receipt'[c].usage <= plan'[c].reservation
  <2>1. CASE PlanCase(d)
    <3>1. past' = [past EXCEPT ![d] = Committed(d)] /\ receipt' = [receipt EXCEPT ![d] = Nil]
      BY <2>1 DEF PlanCase
    <3> QED
      BY <2>1, <3>1, PlanCaseEffect DEF Covered
  <2>2. CASE Settle(d)
    <3>1. past' = past /\ plan' = plan /\ receipt' = [receipt EXCEPT ![d] = draft[d]] /\ draft[d] # Nil
      BY <2>2 DEF Settle
    <3> QED
      BY <3>1 DEF Covered, DraftFits
  <2>3. CASE ~PlanCase(d) /\ ~Settle(d)
    BY <1>1, <1>2, <2>3 DEF CaseMoves, Open, Wait, Resume, Deadline, ClaimKeys, caseVars
  <2> QED
    BY <2>1, <2>2, <2>3
<1> QED
  BY <1>1, <1>2, NextCases DEF Quiet, Reserve, Link, Expire, caseVars

\* What a case has spent and reserved never exceeds the budget it was opened
\* with.
THEOREM BudgetNeverExceeded == Spec => []Within
<1>1. Typed /\ Covered /\ [Next]_vars => (Typed /\ Covered)'
  BY TypedNext, CoveredNext
<1>2. Init => Typed /\ Covered
  BY TypedInit, CoveredInit
<1> QED
  BY <1>1, <1>2, CoveredWithin, PTL DEF Spec

----------------------------------------------------------------------------
(* The calls made, and what they were charged as *)

\* Repairs of a case that a plan before the latest one authorised.
Earlier(c) == {r \in RepairsOf(c) \ plan[c].repairs : Authorized(r)}

\* Earlier plans were charged what their operations called, which have ended
\* and call no more; so was the latest by its receipt, and will be by a receipt
\* that is composed.  The executions of the latest share its reservation.
ChargedAsCalled ==
  \A c \in Cases :
    /\ past[c] = SumOf(attempts, Earlier(c))
    /\ \A r \in Earlier(c) : Succeeded(r)
    /\ receipt[c] # Nil =>
         /\ receipt[c].done \subseteq plan[c].repairs
         /\ \A r \in receipt[c].done : Succeeded(r)
         /\ receipt[c].usage = SumOf(attempts, receipt[c].done)
    /\ draft[c] # Nil => draft[c].usage = SumOf(attempts, draft[c].done)
    /\ Allotted(c) <= plan[c].reservation

\* A plan ends with all its repairs done, and its receipt says so.
EndedDone ==
  \A c \in Cases : ~active[c] =>
    /\ \A r \in plan[c].repairs : Succeeded(r)
    /\ IF receipt[c] = Nil THEN plan[c].repairs = {} ELSE receipt[c].done = plan[c].repairs
    /\ draft[c] # Nil => draft[c].done = plan[c].repairs

Charging == Typed /\ Planned /\ Covered /\ ChargedAsCalled /\ EndedDone

LEMMA ChargingInit == Init => Charging
<1> SUFFICES ASSUME Init PROVE Charging
  OBVIOUS
<1>1. ASSUME NEW c \in Cases
      PROVE  /\ Earlier(c) = {} /\ past[c] = 0 /\ Allotted(c) = 0
             /\ plan[c] = NoPlan /\ receipt[c] = Nil /\ draft[c] = Nil
  <2>1. \A r \in Repairs : ~Authorized(r)
    BY DEF Init, Authorized, NoExec
  <2>2. Earlier(c) = {} /\ {r \in plan[c].repairs : Authorized(r)} = {}
    BY <2>1 DEF Init, Earlier, RepairsOf, NoPlan
  <2> QED
    BY <2>2, SumEmpty DEF Init, Allotted
<1>2. SumOf(attempts, {}) = 0
  BY SumEmpty
<1>3. ASSUME NEW c \in Cases
      PROVE  /\ past[c] = SumOf(attempts, Earlier(c))
             /\ \A r \in Earlier(c) : Succeeded(r)
             /\ Allotted(c) <= plan[c].reservation
             /\ receipt[c] = Nil /\ draft[c] = Nil
  <2>1. past[c] = SumOf(attempts, Earlier(c))
    BY <1>1, <1>2
  <2>2. Allotted(c) = 0 /\ plan[c].reservation = 0
    BY <1>1 DEF NoPlan
  <2> QED
    BY <1>1, <2>1, <2>2
<1>4. EndedDone
  BY <1>1 DEF EndedDone, NoPlan
<1> QED
  BY <1>3, <1>4, RecoveringInit, CoveredInit DEF Recovering, Charging, ChargedAsCalled

\* Only an operation under way calls.
LEMMA CallsEffect ==
  ASSUME Typed, [Next]_vars
  PROVE  attempts' = attempts \/ \E r \in Repairs : Attempt(r)
<1>1. ASSUME NEW c \in Cases, CaseStep(c) PROVE attempts' = attempts
  BY <1>1 DEF CaseStep, Open, Notify, PlanCase, Wait, Resume, Deadline, ClaimKeys, Compose, Settle, opVars
<1>2. ASSUME NEW r \in Repairs, RepairStep(r) PROVE attempts' = attempts \/ Attempt(r)
  BY <1>2 DEF RepairStep, Reserve, EnsureOperation, Link, Finish, Break, RetryOperation, opVars
<1>3. ASSUME NEW k \in Keys, Expire(k) PROVE attempts' = attempts
  BY <1>3 DEF Expire, opVars
<1>4. CASE UNCHANGED vars
  BY <1>4 DEF vars, opVars
<1> QED
  BY <1>1, <1>2, <1>3, <1>4 DEF Next

\* The calls of operations that ended with a result are never more.
LEMMA CallsStay ==
  ASSUME Typed, [Next]_vars, NEW S \in SUBSET Repairs, \A r \in S : Succeeded(r)
  PROVE  /\ \A r \in S : Succeeded(r)'
         /\ SumOf(attempts, S)' = SumOf(attempts, S)
<1>1. ASSUME NEW r \in S PROVE attempts'[r] = attempts[r]
  <2>1. ~Attempt(r)
    BY DEF Attempt, Succeeded, Verdicts
  <2> QED
    BY <2>1, CallsEffect DEF Attempt, Typed, TypeOK
<1>2. SumOf(attempts', S) = SumOf(attempts, S)
  BY <1>1, SumSame
<1> QED
  BY <1>2, SucceededStays DEF Succeeded

\* A repair becomes authorised by its reservation only, which stays.
LEMMA AuthorizedEffect ==
  ASSUME Typed, [Next]_vars, NEW r \in Repairs
  PROVE  \/ /\ Authorized(r)' <=> Authorized(r)
            /\ Reserved'[r] = Reserved[r]
         \/ \E t \in Tokens, n \in Amounts : Reserve(t, r, n)
<1> USE DEF Typed, TypeOK, Authorized, Reserved
<1>1. CASE exec' = exec
  BY <1>1
<1>2. ASSUME NEW c \in Cases, CaseMoves(c)
      PROVE  (Authorized(r)' <=> Authorized(r)) /\ Reserved'[r] = Reserved[r]
  <2>1. CASE Settle(c)
    <3>1. exec'[r] = IF r \in draft[c].done THEN Settled(r) ELSE exec[r]
      BY <2>1 DEF Settle
    <3>2. r \in draft[c].done => Succeeded(r)
      BY <2>1 DEF Settle, DraftFits
    <3>3. Succeeded(r) => Authorized(r)
      BY DEF Traceless, Succeeded, Verdicts
    <3> QED
      BY <3>1, <3>2, <3>3 DEF Settled
  <2>2. CASE ~Settle(c)
    BY <1>1, <1>2, <2>2 DEF CaseMoves, Open, PlanCase, Wait, Resume, Deadline, ClaimKeys
  <2> QED
    BY <2>1, <2>2
<1>3. ASSUME NEW q \in Repairs, q # r, NEW t \in Tokens, NEW n \in Amounts, Reserve(t, q, n)
      PROVE  exec'[r] = exec[r]
  BY <1>3, ReserveEffect
<1>4. ASSUME NEW q \in Repairs, Link(q)
      PROVE  (Authorized(r)' <=> Authorized(r)) /\ Reserved'[r] = Reserved[r]
  <2>1. CASE q # r
    BY <1>4, <2>1 DEF Link
  <2>2. CASE q = r
    <3>1. exec'[r] = [exec[r] EXCEPT !.state = "linked"] /\ exec[r].state = "authorized"
      BY <1>4, <2>2 DEF Link
    <3> QED
      BY <3>1, LinkedRow
  <2> QED
    BY <2>1, <2>2
<1> QED
  BY <1>1, <1>2, <1>3, <1>4, NextCases DEF Quiet, Expire

\* A plan is replaced by PlanCase only, past and receipt with it.
LEMMA ChargeEffect ==
  ASSUME Typed, [Next]_vars, NEW c \in Cases
  PROVE  \/ UNCHANGED <<plan[c], past[c], receipt[c], active[c]>>
         \/ PlanCase(c)
         \/ Settle(c) /\ UNCHANGED <<plan[c], past[c]>> /\ receipt'[c] = draft[c]
<1> USE DEF Typed, TypeOK
<1>1. ASSUME NEW d \in Cases, CaseMoves(d)
      PROVE  \/ UNCHANGED <<plan[c], past[c], receipt[c], active[c]>>
             \/ PlanCase(c)
             \/ Settle(c) /\ UNCHANGED <<plan[c], past[c]>> /\ receipt'[c] = draft[c]
  <2>1. CASE PlanCase(d)
    <3>1. CASE d # c
      BY <2>1, <3>1, PlanCaseEffect DEF PlanCase
    <3> QED
      BY <2>1, <3>1
  <2>2. CASE Settle(d)
    <3>1. UNCHANGED <<plan, past>> /\ receipt' = [receipt EXCEPT ![d] = draft[d]]
      BY <2>2 DEF Settle
    <3>2. active' = active \/ active' = [active EXCEPT ![d] = FALSE]
      BY <2>2 DEF Settle
    <3>3. CASE d = c
      BY <2>2, <3>1, <3>3
    <3>4. CASE d # c
      BY <3>1, <3>2, <3>4
    <3> QED
      BY <3>3, <3>4
  <2>3. CASE ~PlanCase(d) /\ ~Settle(d)
    BY <1>1, <2>3 DEF CaseMoves, Open, Wait, Resume, Deadline, ClaimKeys, caseVars
  <2> QED
    BY <2>1, <2>2, <2>3
<1> QED
  BY <1>1, NextCases DEF Quiet, Reserve, Link, Expire, caseVars

\* Repairs are finitely many, and so are the calls and reservations of them.
LEMMA Countable ==
  ASSUME TypeOK, NEW S \in SUBSET Repairs
  PROVE  /\ IsFiniteSet(S)
         /\ \A r \in S : attempts[r] \in Nat /\ Reserved[r] \in Nat
         /\ SumOf(attempts, S) \in Nat /\ SumOf(Reserved, S) \in Nat
<1>1. IsFiniteSet(S)
  BY FS_Subset
<1>2. \A r \in S : attempts[r] \in Nat /\ Reserved[r] \in Nat
  BY DEF TypeOK, Reserved, Executions
<1> QED
  BY <1>1, <1>2, SumType

\* Without a plan under way, the latest was charged exactly its calls.
LEMMA EndedUsage ==
  ASSUME Charging, NEW c \in Cases, ~active[c]
  PROVE  /\ Usage(c) = SumOf(attempts, plan[c].repairs)
         /\ \A r \in plan[c].repairs : Authorized(r)
<1>1. Usage(c) = SumOf(attempts, plan[c].repairs)
  <2>1. CASE receipt[c] = Nil
    <3>1. plan[c].repairs = {} /\ Usage(c) = 0
      BY <2>1 DEF Charging, EndedDone, Usage
    <3> QED
      BY <3>1, SumEmpty
  <2>2. CASE receipt[c] # Nil
    BY <2>2 DEF Charging, EndedDone, ChargedAsCalled, Usage
  <2> QED
    BY <2>1, <2>2
<1>2. \A r \in plan[c].repairs : r \in Repairs /\ Succeeded(r)
  BY DEF Charging, EndedDone, Typed, PlansOwn, RepairsOf
<1>3. \A r \in Repairs : Succeeded(r) => Authorized(r)
  BY DEF Charging, Typed, Traceless, Succeeded, Verdicts
<1> QED
  BY <1>1, <1>2, <1>3

\* Replanning turns the repairs of the plan that ended into earlier ones.
LEMMA EarlierPlanned ==
  ASSUME Charging, [Next]_vars, NEW c \in Cases, PlanCase(c)
  PROVE  past'[c] = SumOf(attempts, Earlier(c))' /\ \A r \in Earlier(c)' : Succeeded(r)'
<1> DEFINE before == Earlier(c)
           ended == plan[c].repairs
<1> USE DEF Charging
<1>1. ~active[c] /\ exec' = exec /\ attempts' = attempts /\ past' = [past EXCEPT ![c] = Committed(c)]
  BY DEF PlanCase, opVars
<1>2. ended \subseteq RepairsOf(c) /\ RepairsOf(c) \subseteq Repairs
  BY DEF Typed, PlansOwn, RepairsOf
<1>3. before \in SUBSET Repairs /\ ended \in SUBSET Repairs /\ before \cap ended = {}
  BY <1>2 DEF Earlier
<1>4. Earlier(c)' = before \cup ended
  <2>1. plan'[c].repairs \subseteq RepairsOf(c) /\ \A r \in plan'[c].repairs : ~Authorized(r)
    BY PlanCaseEffect
  <2>2. \A r \in ended : Authorized(r)
    BY <1>1, EndedUsage
  <2>3. Earlier(c)' = {r \in RepairsOf(c) \ plan'[c].repairs : Authorized(r)}
    BY <1>1 DEF Earlier, RepairsOf, CaseOfRepair, Authorized
  <2> QED
    BY <1>2, <2>1, <2>2, <2>3 DEF Earlier
<1>5. past'[c] = past[c] + Usage(c)
  BY <1>1 DEF Typed, TypeOK, Committed
<1>6. past[c] = SumOf(attempts, before) /\ Usage(c) = SumOf(attempts, ended)
  BY <1>1, EndedUsage DEF ChargedAsCalled
<1>7. SumOf(attempts, before \cup ended) = SumOf(attempts, before) + SumOf(attempts, ended)
  BY <1>3, Countable, SumUnion DEF Typed, TypeOK
<1>8. \A r \in before \cup ended : Succeeded(r)
  BY <1>1 DEF ChargedAsCalled, EndedDone
<1>9. \A r \in before \cup ended : Succeeded(r)'
  BY <1>3, <1>8, CallsStay
<1> QED
  BY <1>1, <1>4, <1>5, <1>6, <1>7, <1>9

LEMMA EarlierNext ==
  ASSUME Charging, [Next]_vars, NEW c \in Cases
  PROVE  past'[c] = SumOf(attempts, Earlier(c))' /\ \A r \in Earlier(c)' : Succeeded(r)'
<1>1. CASE PlanCase(c)
  BY <1>1, EarlierPlanned
<1>2. CASE plan'[c] = plan[c] /\ past'[c] = past[c]
  <2>1. Earlier(c) \in SUBSET Repairs /\ \A r \in Earlier(c) : Succeeded(r)
    BY DEF Charging, ChargedAsCalled, Earlier, RepairsOf
  <2>2. Earlier(c)' = Earlier(c)
    <3>1. ASSUME NEW r \in RepairsOf(c), r \notin plan[c].repairs PROVE Authorized(r)' <=> Authorized(r)
      <4>1. r \in Repairs /\ CaseOfRepair(r) = c
        BY DEF RepairsOf
      <4>2. \A t \in Tokens, n \in Amounts : ~Reserve(t, r, n)
        BY <3>1, <4>1 DEF Reserve
      <4> QED
        BY <4>1, <4>2, AuthorizedEffect DEF Charging
    <3>2. Earlier(c)' = {r \in RepairsOf(c) \ plan[c].repairs : Authorized(r)'}
      BY <1>2 DEF Earlier, RepairsOf, CaseOfRepair
    <3> QED
      BY <3>1, <3>2 DEF Earlier
  <2>3. (\A r \in Earlier(c) : Succeeded(r)') /\ SumOf(attempts', Earlier(c)) = SumOf(attempts, Earlier(c))
    BY <2>1, <2>2, CallsStay DEF Charging
  <2> QED
    BY <1>2, <2>2, <2>3 DEF Charging, ChargedAsCalled
<1> QED
  BY <1>1, <1>2, ChargeEffect DEF Charging

LEMMA ReceiptNext ==
  ASSUME Charging, [Next]_vars, NEW c \in Cases, receipt'[c] # Nil
  PROVE  /\ receipt'[c].done \subseteq plan'[c].repairs
         /\ \A r \in receipt'[c].done : Succeeded(r)'
         /\ receipt'[c].usage = SumOf(attempts', receipt'[c].done)
<1> USE DEF Charging
<1>1. ASSUME NEW rc, receipt'[c] = rc, plan'[c] = plan[c],
             rc.done \subseteq plan[c].repairs, \A r \in rc.done : Succeeded(r), rc.usage = SumOf(attempts, rc.done)
      PROVE  /\ receipt'[c].done \subseteq plan'[c].repairs
             /\ \A r \in receipt'[c].done : Succeeded(r)'
             /\ receipt'[c].usage = SumOf(attempts', receipt'[c].done)
  <2>1. rc.done \in SUBSET Repairs
    BY <1>1 DEF Typed, PlansOwn, RepairsOf
  <2>2. (\A r \in rc.done : Succeeded(r)') /\ SumOf(attempts', rc.done) = SumOf(attempts, rc.done)
    BY <1>1, <2>1, CallsStay
  <2> QED
    BY <1>1, <2>2
<1>2. CASE receipt'[c] = receipt[c] /\ plan'[c] = plan[c]
  BY <1>1, <1>2 DEF ChargedAsCalled
<1>3. CASE Settle(c) /\ receipt'[c] = draft[c] /\ plan'[c] = plan[c]
  BY <1>1, <1>3 DEF ChargedAsCalled, Typed, DraftFits
<1>4. CASE PlanCase(c)
  BY <1>4 DEF PlanCase, Typed, TypeOK
<1> QED
  BY <1>2, <1>3, <1>4, ChargeEffect

LEMMA DraftNext ==
  ASSUME Charging, [Next]_vars, NEW c \in Cases, draft'[c] # Nil
  PROVE  draft'[c].usage = SumOf(attempts', draft'[c].done)
<1> USE DEF Charging
<1>1. CASE draft'[c] = draft[c]
  <2>1. draft[c].done \in SUBSET Repairs /\ \A r \in draft[c].done : Succeeded(r)
    BY <1>1 DEF Typed, DraftFits, PlansOwn, RepairsOf
  <2>2. SumOf(attempts', draft[c].done) = SumOf(attempts, draft[c].done)
    BY <2>1, CallsStay
  <2> QED
    BY <1>1, <2>2 DEF ChargedAsCalled
<1>2. CASE Compose(c)
  <2>1. draft'[c] = ReceiptOf(c) /\ attempts' = attempts
    BY <1>2 DEF Compose, opVars, Typed, TypeOK
  <2> QED
    BY <2>1 DEF ReceiptOf
<1> QED
  BY <1>1, <1>2, DraftEffect

\* Executions are authorised within what is left of the reservation.
LEMMA AllottedNext ==
  ASSUME Charging, [Next]_vars, NEW c \in Cases
  PROVE  Allotted(c)' <= plan'[c].reservation
<1> USE DEF Charging
<1> DEFINE share == {r \in plan[c].repairs : Authorized(r)}
<1>0. share \in SUBSET Repairs /\ plan[c].repairs \in SUBSET Repairs
  BY DEF Typed, PlansOwn, RepairsOf
<1>1. CASE PlanCase(c)
  <2>1. \A r \in plan'[c].repairs : ~Authorized(r)'
    BY <1>1, PlanCaseEffect DEF PlanCase, Authorized
  <2>2. {r \in plan'[c].repairs : Authorized(r)'} = {}
    BY <2>1
  <2>3. Allotted(c)' = 0
    BY <2>2, SumEmpty DEF Allotted
  <2> QED
    BY <1>1, <2>3, PlanCaseEffect DEF Typed
<1>2. CASE plan'[c] = plan[c] /\ \E r \in plan[c].repairs, t \in Tokens, n \in Amounts : Reserve(t, r, n)
  <2>1. PICK r \in plan[c].repairs, t \in Tokens, n \in Amounts : Reserve(t, r, n)
    BY <1>2
  <2>2. r \in Repairs /\ CaseOfRepair(r) = c
    BY DEF Typed, PlansOwn, RepairsOf
  <2>3. /\ exec' = [exec EXCEPT ![r] = [state |-> "authorized", token |-> t, reservation |-> n]]
        /\ Fits(c, n) /\ ~Authorized(r) /\ n \in Nat
    BY <2>1, <2>2 DEF Reserve
  <2>4. {q \in plan[c].repairs : Authorized(q)'} = share \cup {r} /\ r \notin share
    BY <1>0, <2>2, <2>3 DEF Authorized, Typed, TypeOK
  <2>5. Reserved'[r] = n /\ \A q \in share : Reserved'[q] = Reserved[q]
    BY <1>0, <2>2, <2>3, <2>4 DEF Reserved, Typed, TypeOK
  <2>6. SumOf(Reserved', share) = SumOf(Reserved, share)
    BY <2>5, SumSame
  <2>7. \A q \in share \cup {r} : Reserved'[q] \in Nat
    BY <1>0, <2>3, <2>5, Countable DEF Typed
  <2>8. SumOf(Reserved', share \cup {r}) = SumOf(Reserved', share) + n
    BY <1>0, <2>4, <2>5, <2>7, Countable, SumAdd DEF Typed
  <2>9. Allotted(c)' = SumOf(Reserved', share \cup {r})
    BY <1>2, <2>4 DEF Allotted
  <2> QED
    BY <1>2, <2>3, <2>6, <2>8, <2>9 DEF Fits, Allotted
<1>3. CASE plan'[c] = plan[c] /\ ~\E r \in plan[c].repairs, t \in Tokens, n \in Amounts : Reserve(t, r, n)
  <2>1. \A r \in plan[c].repairs : (Authorized(r)' <=> Authorized(r)) /\ Reserved'[r] = Reserved[r]
    BY <1>0, <1>3, AuthorizedEffect
  <2>2. {r \in plan[c].repairs : Authorized(r)'} = share
    BY <2>1
  <2>3. SumOf(Reserved', share) = SumOf(Reserved, share)
    BY <2>1, SumSame
  <2>4. Allotted(c)' = Allotted(c)
    BY <1>3, <2>2, <2>3 DEF Allotted
  <2> QED
    BY <1>3, <2>4 DEF ChargedAsCalled
<1> QED
  BY <1>1, <1>2, <1>3, ChargeEffect

LEMMA ChargedNext == Charging /\ [Next]_vars => ChargedAsCalled'
<1> SUFFICES ASSUME Charging, [Next]_vars, NEW c \in Cases
             PROVE  /\ past'[c] = SumOf(attempts, Earlier(c))'
                    /\ \A r \in Earlier(c)' : Succeeded(r)'
                    /\ receipt'[c] # Nil =>
                         /\ receipt'[c].done \subseteq plan'[c].repairs
                         /\ \A r \in receipt'[c].done : Succeeded(r)'
                         /\ receipt'[c].usage = SumOf(attempts', receipt'[c].done)
                    /\ draft'[c] # Nil => draft'[c].usage = SumOf(attempts', draft'[c].done)
                    /\ Allotted(c)' <= plan'[c].reservation
  BY DEF ChargedAsCalled
<1> QED
  BY EarlierNext, ReceiptNext, DraftNext, AllottedNext

LEMMA EndedNext == Charging /\ [Next]_vars => EndedDone'
<1> SUFFICES ASSUME Charging, [Next]_vars, NEW c \in Cases, ~active'[c]
             PROVE  /\ \A r \in plan'[c].repairs : Succeeded(r)'
                    /\ IF receipt'[c] = Nil THEN plan'[c].repairs = {} ELSE receipt'[c].done = plan'[c].repairs
                    /\ draft'[c] # Nil => draft'[c].done = plan'[c].repairs
  BY DEF EndedDone
<1> USE DEF Charging, Typed, TypeOK
<1>0. plan[c].repairs \in SUBSET Repairs
  BY DEF PlansOwn, RepairsOf
<1>1. CASE PlanCase(c)
  BY <1>1 DEF PlanCase
<1>2. CASE UNCHANGED <<plan[c], receipt[c], active[c]>>
  <2>1. /\ \A r \in plan[c].repairs : Succeeded(r)
        /\ IF receipt[c] = Nil THEN plan[c].repairs = {} ELSE receipt[c].done = plan[c].repairs
        /\ draft[c] # Nil => draft[c].done = plan[c].repairs
    BY <1>2 DEF EndedDone
  <2>2. \A r \in plan[c].repairs : Succeeded(r)'
    BY <1>0, <2>1, CallsStay
  <2>3. Compose(c) => draft'[c].done = plan[c].repairs
    <3>1. Compose(c) => draft'[c] = ReceiptOf(c)
      BY DEF Compose
    <3>2. ReceiptOf(c).done = {r \in plan[c].repairs : Succeeded(r)}
      BY DEF ReceiptOf
    <3> QED
      BY <2>1, <3>1, <3>2
  <2>4. draft'[c] # Nil => draft'[c].done = plan[c].repairs
    BY <2>1, <2>3, DraftEffect
  <2> QED
    BY <1>2, <2>1, <2>2, <2>4
<1>3. CASE Settle(c) /\ plan'[c] = plan[c] /\ receipt'[c] = draft[c]
  <2>1. draft[c] # Nil /\ draft'[c] = Nil
    BY <1>3, ReviseType DEF Settle
  <2>2. draft[c].done = plan[c].repairs
    <3>1. CASE draft[c].outcome = "pending"
      <4>1. ~active[c]
        BY <1>3, <3>1 DEF Settle
      <4> QED
        BY <2>1, <4>1 DEF EndedDone
    <3>2. CASE draft[c].outcome # "pending"
      BY <2>1, <3>2 DEF DraftFits
    <3> QED
      BY <3>1, <3>2
  <2>3. \A r \in plan[c].repairs : Succeeded(r)
    BY <2>1, <2>2 DEF DraftFits
  <2>4. \A r \in plan[c].repairs : Succeeded(r)'
    BY <1>0, <2>3, CallsStay
  <2> QED
    BY <1>3, <2>1, <2>2, <2>4
<1> QED
  BY <1>1, <1>2, <1>3, ChargeEffect

LEMMA ChargingNext == Charging /\ [Next]_vars => Charging'
  BY TypedNext, OpenWorkNext, AbsentNext, CoveredNext, ChargedNext, EndedNext DEF Charging, Planned

LEMMA ChargingInvariant == Spec => []Charging
  BY ChargingInit, ChargingNext, PTL DEF Spec

\* The amounts of a case's repairs are those of the earlier plans and those the
\* latest plan has authorised; the others are nothing.
LEMMA AmountsOfCase ==
  ASSUME Charging, NEW c \in Cases, NEW f, \A r \in Repairs : f[r] \in Nat,
         \A r \in Repairs : ~Authorized(r) => f[r] = 0
  PROVE  SumOf(f, RepairsOf(c)) = SumOf(f, Earlier(c)) + SumOf(f, {r \in plan[c].repairs : Authorized(r)})
<1> DEFINE share == {r \in plan[c].repairs : Authorized(r)}
           idle == {r \in RepairsOf(c) : ~Authorized(r)}
           live == Earlier(c) \cup share
<1>1. RepairsOf(c) \subseteq Repairs /\ plan[c].repairs \subseteq RepairsOf(c)
  BY DEF Charging, Typed, PlansOwn, RepairsOf
<1>2. Earlier(c) \in SUBSET Repairs /\ share \in SUBSET Repairs /\ idle \in SUBSET Repairs /\ live \in SUBSET Repairs
  BY <1>1 DEF Earlier
<1>3. RepairsOf(c) = live \cup idle /\ live \cap idle = {} /\ Earlier(c) \cap share = {}
  BY <1>1 DEF Earlier
<1>4. \A S \in SUBSET Repairs : IsFiniteSet(S) /\ SumOf(f, S) \in Nat
  BY FS_Subset, SumType
<1>5. SumOf(f, idle) = 0
  BY <1>2, SumZero
<1>6. SumOf(f, live \cup idle) = SumOf(f, live) + SumOf(f, idle)
  <2> HIDE DEF live, idle
  <2> QED
    BY <1>2, <1>3, <1>4, SumUnion
<1>7. SumOf(f, live) = SumOf(f, Earlier(c)) + SumOf(f, share)
  <2> HIDE DEF share
  <2> QED
    BY <1>2, <1>3, <1>4, SumUnion
<1> QED
  BY <1>2, <1>3, <1>4, <1>5, <1>6, <1>7

\* What the executions of a plan call, or may call, is what they were allotted.
LEMMA CallsAllotted ==
  ASSUME Charging, NEW c \in Cases, NEW f, \A r \in Repairs : f[r] \in Nat /\ f[r] <= Reserved[r]
  PROVE  SumOf(f, {r \in plan[c].repairs : Authorized(r)}) <= Allotted(c)
<1> DEFINE share == {r \in plan[c].repairs : Authorized(r)}
<1>1. share \in SUBSET Repairs
  BY DEF Charging, Typed, PlansOwn, RepairsOf
<1>2. IsFiniteSet(share) /\ \A r \in share : Reserved[r] \in Nat
  BY <1>1, Countable DEF Charging, Typed
<1> QED
  BY <1>1, <1>2, SumMonotone DEF Allotted

\* Every provider call of a case is covered by what the case has committed, and
\* without a plan under way it was charged exactly the calls made, for any
\* number of plans, receipts, waits and late calls.
THEOREM CallsAreCovered == Spec => []CallsCovered
<1>1. Charging => CallsCovered
  <2> SUFFICES ASSUME Charging, NEW c \in Cases
               PROVE  IF active[c] THEN SumOf(attempts, RepairsOf(c)) <= Committed(c)
                      ELSE SumOf(attempts, RepairsOf(c)) = Committed(c)
    BY DEF CallsCovered
  <2> DEFINE share == {r \in plan[c].repairs : Authorized(r)}
  <2>1. /\ \A r \in Repairs : attempts[r] \in Nat /\ attempts[r] <= Reserved[r]
        /\ \A r \in Repairs : ~Authorized(r) => attempts[r] = 0
    BY DEF Charging, Typed, TypeOK, Traceless, Reserved
  <2>2. SumOf(attempts, RepairsOf(c)) = past[c] + SumOf(attempts, share)
    BY <2>1, AmountsOfCase DEF Charging, ChargedAsCalled
  <2>3. share \in SUBSET Repairs
    BY DEF Charging, Typed, PlansOwn, RepairsOf
  <2>4. SumOf(attempts, share) \in Nat /\ Allotted(c) \in Nat
    BY <2>3, Countable DEF Charging, Typed, Allotted
  <2>5. past[c] \in Nat /\ plan[c].reservation \in Nat /\ Allotted(c) <= plan[c].reservation
    BY DEF Charging, Typed, TypeOK, Plans, ChargedAsCalled
  <2>6. CASE active[c]
    <3>1. SumOf(attempts, share) <= Allotted(c)
      BY <2>1, CallsAllotted
    <3>2. Committed(c) = past[c] + plan[c].reservation
      BY <2>6 DEF Committed
    <3>3. SumOf(attempts, RepairsOf(c)) <= Committed(c)
      BY <2>2, <2>4, <2>5, <3>1, <3>2
    <3> QED
      BY <2>6, <3>3
  <2>7. CASE ~active[c]
    <3>1. share = plan[c].repairs /\ Usage(c) = SumOf(attempts, plan[c].repairs)
      BY <2>7, EndedUsage
    <3>2. Committed(c) = past[c] + Usage(c)
      BY <2>7 DEF Committed
    <3> QED
      BY <2>2, <2>7, <3>1, <3>2
  <2> QED
    BY <2>6, <2>7
<1> QED
  BY <1>1, ChargingInvariant, PTL

\* What the repairs of a case have called or may still call.
Exposure == [r \in Repairs |-> IF Unsettled(r) THEN exec[r].reservation ELSE attempts[r]]

LEMMA ExposureCovered ==
  ASSUME Charging, NEW c \in Cases
  PROVE  /\ SumOf(Exposure, RepairsOf(c)) \in Nat
         /\ Allotted(c) \in Nat
         /\ SumOf(Exposure, RepairsOf(c)) <= past[c] + Allotted(c)
<1> DEFINE share == {r \in plan[c].repairs : Authorized(r)}
<1>1. \A r \in Repairs : Exposure[r] \in Nat /\ Exposure[r] <= Reserved[r]
  BY DEF Charging, Typed, TypeOK, Executions, Reserved, Exposure
<1>2. \A r \in Repairs : ~Authorized(r) => Exposure[r] = 0
  BY DEF Charging, Typed, Traceless, Authorized, Unsettled, Exposure
<1>3. \A r \in Earlier(c) : Exposure[r] = attempts[r]
  BY DEF Charging, Planned, OpenWorkHasPlan, Earlier, RepairsOf, Exposure
<1>4. SumOf(Exposure, RepairsOf(c)) = SumOf(Exposure, Earlier(c)) + SumOf(Exposure, share)
  BY <1>1, <1>2, AmountsOfCase
<1>5. SumOf(Exposure, Earlier(c)) = past[c]
  BY <1>3, SumSame DEF Charging, ChargedAsCalled
<1>6. SumOf(Exposure, share) <= Allotted(c)
  BY <1>1, CallsAllotted
<1>7. share \in SUBSET Repairs
  BY DEF Charging, Typed, PlansOwn, RepairsOf
<1>8. SumOf(Exposure, share) \in Nat /\ Allotted(c) \in Nat
  <2>1. IsFiniteSet(share)
    BY <1>7, Countable DEF Charging, Typed
  <2>2. SumOf(Exposure, share) \in Nat
    BY <1>1, <1>7, <2>1, SumType
  <2> QED
    BY <1>7, <2>2, Countable DEF Charging, Typed, Allotted
<1>9. past[c] \in Nat
  BY DEF Charging, Typed, TypeOK
<1> HIDE DEF share
<1> QED
  BY <1>4, <1>5, <1>6, <1>8, <1>9

\* The calls a case has made, and those its executions under way may still
\* make, stay within the budget it was opened with.
THEOREM BudgetIsKept == Spec => []BudgetKept
<1>1. Charging => BudgetKept
  <2> SUFFICES ASSUME Charging, NEW c \in Cases PROVE SumOf(Exposure, RepairsOf(c)) <= Budget
    BY DEF BudgetKept, Exposure
  <2>1. /\ past[c] \in Nat /\ plan[c].reservation \in Nat
        /\ Allotted(c) <= plan[c].reservation
        /\ past[c] + plan[c].reservation <= Budget
    BY DEF Charging, Typed, TypeOK, Plans, ChargedAsCalled, Covered
  <2> QED
    BY <2>1, ExposureCovered
<1> QED
  BY <1>1, ChargingInvariant, PTL

----------------------------------------------------------------------------
(* RepairWork *)

\* A plan repairs an original once at most.
PlansDistinct ==
  \A c \in Cases : \A r, s \in plan[c].repairs : OriginalOf[r] = OriginalOf[s] => r = s

\* A repair was settled with its result.
SettledDone == \A r \in Repairs : exec[r].state = "settled" => Succeeded(r)

Working == Recovering /\ Charging /\ PlansDistinct /\ SettledDone

LEMMA WorkingInit == Init => Working
  BY RecoveringInit, ChargingInit DEF Working, Init, PlansDistinct, SettledDone, NoPlan, NoExec

LEMMA DistinctNext == Typed /\ PlansDistinct /\ [Next]_vars => PlansDistinct'
<1> SUFFICES ASSUME Typed, PlansDistinct, [Next]_vars, NEW c \in Cases,
                    NEW r \in plan'[c].repairs, NEW s \in plan'[c].repairs, OriginalOf[r] = OriginalOf[s]
             PROVE  r = s
  BY DEF PlansDistinct
<1>1. CASE plan'[c] = plan[c]
  BY <1>1 DEF PlansDistinct
<1>2. CASE PlanCase(c)
  <2>1. PICK repairs \in SUBSET RepairsOf(c) :
          /\ Admissible(c, repairs)
          /\ \E n, hold, keys :
               plan' = [plan EXCEPT ![c] = [repairs |-> repairs, reservation |-> n, keys |-> keys, hold |-> hold]]
    BY <1>2 DEF PlanCase
  <2>2. plan'[c].repairs = repairs
    BY <2>1 DEF Typed, TypeOK
  <2> QED
    BY <2>1, <2>2 DEF Admissible
<1> QED
  BY <1>1, <1>2, PlanEffect, PlanCaseEffect

\* How a step may change one execution.
LEMMA ExecEffect ==
  ASSUME Typed, [Next]_vars, NEW r \in Repairs
  PROVE  \/ exec'[r] = exec[r]
         \/ \E t \in Tokens, n \in Amounts : Reserve(t, r, n)
         \/ Link(r)
         \/ \E c \in Cases : Settle(c) /\ r \in draft[c].done /\ exec'[r] = Settled(r)
<1> USE DEF Typed, TypeOK
<1>1. CASE exec' = exec
  BY <1>1
<1>2. ASSUME NEW c \in Cases, CaseMoves(c), ~Settle(c) PROVE exec' = exec
  BY <1>2 DEF CaseMoves, Open, PlanCase, Wait, Resume, Deadline, ClaimKeys
<1>3. ASSUME NEW c \in Cases, Settle(c)
      PROVE  exec'[r] = exec[r] \/ (r \in draft[c].done /\ exec'[r] = Settled(r))
  <2>1. exec'[r] = IF r \in draft[c].done THEN Settled(r) ELSE exec[r]
    BY <1>3 DEF Settle
  <2> QED
    BY <2>1
<1>4. ASSUME NEW q \in Repairs, q # r, Link(q) \/ \E t \in Tokens, n \in Amounts : Reserve(t, q, n)
      PROVE  exec'[r] = exec[r]
  BY <1>4, ReserveEffect DEF Link
<1> QED
  BY <1>1, <1>2, <1>3, <1>4, NextCases DEF Quiet, Expire

LEMMA SettledDoneNext == Typed /\ SettledDone /\ [Next]_vars => SettledDone'
<1> SUFFICES ASSUME Typed, SettledDone, [Next]_vars, NEW r \in Repairs, exec'[r].state = "settled"
             PROVE  Succeeded(r)'
  BY DEF SettledDone
<1>1. CASE exec'[r] = exec[r]
  BY <1>1, SucceededStays DEF SettledDone, Succeeded
<1>2. CASE \E t \in Tokens, n \in Amounts : Reserve(t, r, n)
  BY <1>2, ReserveEffect DEF Typed, TypeOK
<1>3. CASE Link(r)
  <2>1. exec'[r] = [exec[r] EXCEPT !.state = "linked"] /\ exec[r] \in Executions
    BY <1>3 DEF Link, Typed, TypeOK
  <2> QED
    BY <2>1, LinkedRow
<1>4. CASE \E c \in Cases : Settle(c) /\ r \in draft[c].done
  <2>1. Succeeded(r)
    BY <1>4 DEF Settle, Typed, DraftFits
  <2> QED
    BY <2>1, SucceededStays DEF Succeeded
<1> QED
  BY <1>1, <1>2, <1>3, <1>4, ExecEffect

LEMMA WorkingNext == Working /\ [Next]_vars => Working'
  BY RecoveringNext, ChargingNext, DistinctNext, SettledDoneNext DEF Working, Recovering

\* Steps that change what is seen of no repair: the mapped variables stay.
LEMMA WorkStays ==
  ASSUME \A r \in Repairs : /\ WorkState(r)' = WorkState(r)
                            /\ TouchedKeys(r)' = TouchedKeys(r)
                            /\ ResultOf(r)' = ResultOf(r),
         Reserved' = Reserved, attempts' = attempts
  PROVE  UNCHANGED Work!vars
  BY DEF Work!vars

LEMMA InitIsWork == Init => Work!Init
  BY DEF Init, Work!Init, NoExec, Reserved, WorkState, TouchedKeys, ResultOf, Unsettled

\* Whoever is authorised by a claim that covers the keys of its plan runs beside
\* repairs of the same plan, and of other cases that own none of these keys.
LEMMA ReserveCompatible ==
  ASSUME Working, NEW r \in Repairs, NEW s \in Repairs, NEW t \in Tokens, NEW n \in Amounts,
         Reserve(t, r, n), Unsettled(s)
  PROVE  Work!Compatible(r, plan[CaseOfRepair(r)].keys, s)
<1> DEFINE c == CaseOfRepair(r)
           d == CaseOfRepair(s)
<1>0. c \in Cases /\ d \in Cases
  BY DEF CaseOfRepair
<1>1. TouchedKeys(s) = plan[d].keys
  BY DEF TouchedKeys
<1>2. CASE c = d
  <2>1. s \in plan[c].repairs /\ r \in plan[c].repairs /\ s # r
    BY <1>2 DEF Working, Recovering, Planned, OpenWorkHasPlan, Reserve, Authorized, Unsettled
  <2>2. OriginalOf[s] # OriginalOf[r]
    BY <1>0, <2>1 DEF Working, PlansDistinct
  <2> QED
    BY <1>1, <1>2, <2>2 DEF Work!Compatible, Work!CaseOfRepair, CaseOfRepair
<1>3. CASE c # d
  <2>1. \A k \in plan[d].keys : row[k].case = d
    BY DEF Working, Recovering, KeysOwned
  <2>2. \A k \in plan[c].keys : row[k] = [case |-> c, token |-> t]
    BY DEF Reserve, HoldsClaim
  <2>3. plan[d].keys \cap plan[c].keys = {}
    BY <1>3, <2>1, <2>2
  <2> QED
    BY <1>1, <1>3, <2>3 DEF Work!Compatible, Work!CaseOfRepair, CaseOfRepair
<1> QED
  BY <1>2, <1>3

\* RepairWork counts and sums like this module.
LEMMA SameSum ==
  ASSUME NEW f, NEW S
  PROVE  Work!SumOf(f, S) = SumOf(f, S)
  BY Zenon DEF Work!SumOf, SumOf, Work!Units, Units, Work!Cardinality, Cardinality

\* RepairWork sees the same repairs running, the same calls and the same rounds.
LEMMA SeenAlike ==
  ASSUME TypeOK
  PROVE  /\ Work!Running = {q \in Repairs : Unsettled(q)}
         /\ \A c \in Cases : Work!Exposed(c) = SumOf(Exposure, RepairsOf(c))
         /\ \A o \in Originals : Work!Rounds(o) = Rounds(o)
<1>1. \A q \in Repairs : /\ WorkState(q) = "running" <=> Unsettled(q)
                         /\ WorkState(q) # "none" <=> Authorized(q)
  BY DEF TypeOK, Executions, WorkState, Unsettled, Authorized
<1>2. Work!Running = {q \in Repairs : Unsettled(q)}
  BY <1>1 DEF Work!Running
<1>3. ASSUME NEW c \in Cases PROVE Work!Exposed(c) = SumOf(Exposure, RepairsOf(c))
  <2>1. Work!RepairsOf(c) = RepairsOf(c)
    BY DEF Work!RepairsOf, RepairsOf, Work!CaseOfRepair, CaseOfRepair
  <2>2. [q \in Repairs |-> IF q \in Work!Running THEN Reserved[q] ELSE attempts[q]] = Exposure
    BY <1>2 DEF Exposure, Reserved
  <2> QED
    BY <2>1, <2>2, SameSum, Zenon DEF Work!Exposed
<1>4. ASSUME NEW o \in Originals PROVE Work!Rounds(o) = Rounds(o)
  <2>1. {q \in Repairs : OriginalOf[q] = o /\ [p \in Repairs |-> WorkState(p)][q] # "none"}
          = {q \in Repairs : OriginalOf[q] = o /\ Authorized(q)}
    BY <1>1
  <2> QED
    BY <2>1, Zenon DEF Work!Rounds, Rounds, Work!Cardinality, Cardinality
<1> QED
  BY <1>2, <1>3, <1>4

LEMMA ReserveIsWork ==
  ASSUME Working, NEW r \in Repairs, NEW t \in Tokens, NEW n \in Amounts, Reserve(t, r, n)
  PROVE  \E m \in 0 .. Budget, keys \in SUBSET Keys : Work!Authorise(r, m, keys)
<1> DEFINE c == CaseOfRepair(r)
           keys == plan[c].keys
<1>a. /\ Work!Running = {q \in Repairs : Unsettled(q)}
      /\ \A d \in Cases : Work!Exposed(d) = SumOf(Exposure, RepairsOf(d))
      /\ \A o \in Originals : Work!Rounds(o) = Rounds(o)
  BY SeenAlike DEF Working, Charging, Typed
<1> USE DEF Working, Charging, Typed, TypeOK
<1>0. c \in Cases /\ r \in plan[c].repairs /\ Fits(c, n) /\ ~Authorized(r)
  BY DEF CaseOfRepair, Reserve
<1>1. keys \in SUBSET Keys /\ n \in Nat /\ plan[c].reservation \in Nat /\ past[c] \in Nat
  BY <1>0 DEF Plans
<1>2. /\ exec' = [exec EXCEPT ![r] = [state |-> "authorized", token |-> t, reservation |-> n]]
      /\ exec[r] = NoExec /\ op[r] = "none"
      /\ plan' = plan /\ op' = op /\ attempts' = attempts
  BY ReserveEffect DEF caseVars, opVars
<1>3. WorkState(r) = "none"
  BY <1>2 DEF WorkState, Unsettled, NoExec
<1>4. n + SumOf(Exposure, RepairsOf(c)) <= Budget
  <2>1. SumOf(Exposure, RepairsOf(c)) \in Nat /\ SumOf(Exposure, RepairsOf(c)) <= past[c] + Allotted(c)
        /\ Allotted(c) \in Nat
    BY <1>0, ExposureCovered
  <2>2. past[c] + plan[c].reservation <= Budget
    BY <1>0 DEF Covered
  <2>3. Allotted(c) + n <= plan[c].reservation
    BY <1>0 DEF Fits
  <2> HIDE DEF c
  <2> QED
    BY <1>1, <2>1, <2>2, <2>3
<1>5. Work!Exposed(c) + n <= Budget
  <2>1. Work!Exposed(c) = SumOf(Exposure, RepairsOf(c))
    BY <1>0, <1>a
  <2>2. SumOf(Exposure, RepairsOf(c)) \in Nat
    BY <1>0, ExposureCovered
  <2> QED
    BY <1>1, <1>4, <2>1, <2>2
<1>6. Work!Rounds(OriginalOf[r]) < MaxRounds
  <2>1. Work!Rounds(OriginalOf[r]) = Rounds(OriginalOf[r])
    BY <1>a
  <2> QED
    BY <2>1 DEF Reserve
<1>7. \A s \in Work!Running : Work!Compatible(r, keys, s)
  BY <1>a, ReserveCompatible
<1>8. ASSUME NEW q \in Repairs
      PROVE  /\ WorkState(q)' = IF q = r THEN "running" ELSE WorkState(q)
             /\ Reserved'[q] = IF q = r THEN n ELSE Reserved[q]
             /\ TouchedKeys(q)' = IF q = r THEN keys ELSE TouchedKeys(q)
             /\ ResultOf(q)' = ResultOf(q)
  <2>1. exec'[q] = IF q = r THEN [state |-> "authorized", token |-> t, reservation |-> n] ELSE exec[q]
    BY <1>2
  <2>2. CASE q = r
    BY <1>2, <2>1, <2>2 DEF WorkState, Reserved, TouchedKeys, ResultOf, Unsettled, NoExec, CaseOfRepair
  <2>3. CASE q # r
    BY <1>2, <2>1, <2>3 DEF WorkState, Reserved, TouchedKeys, ResultOf, Unsettled
  <2> QED
    BY <2>2, <2>3
<1>9. /\ [q \in Repairs |-> WorkState(q)]' = [[q \in Repairs |-> WorkState(q)] EXCEPT ![r] = "running"]
      /\ Reserved' = [Reserved EXCEPT ![r] = n]
      /\ [q \in Repairs |-> TouchedKeys(q)]' = [[q \in Repairs |-> TouchedKeys(q)] EXCEPT ![r] = keys]
      /\ [q \in Repairs |-> ResultOf(q)]' = [q \in Repairs |-> ResultOf(q)]
  <2>1. Reserved' = [q \in Repairs |-> Reserved'[q]] /\ Reserved = [q \in Repairs |-> Reserved[q]]
    BY DEF Reserved
  <2> QED
    BY <1>8, <2>1
<1>10. n \in 0 .. Budget
  <2>1. SumOf(Exposure, RepairsOf(c)) \in Nat
    BY <1>0, ExposureCovered
  <2> QED
    BY <1>1, <1>4, <2>1
<1>11. Work!CaseOfRepair(r) = c
  BY DEF Work!CaseOfRepair, CaseOfRepair
<1>12. Work!Authorise(r, n, keys)
  BY <1>2, <1>3, <1>5, <1>6, <1>7, <1>9, <1>11 DEF Work!Authorise
<1> QED
  BY <1>1, <1>10, <1>12

LEMMA AttemptIsWork ==
  ASSUME Working, NEW r \in Repairs, Attempt(r)
  PROVE  Work!Call(r)
<1> USE DEF Working, Recovering, Typed, TypeOK
<1>1. r \in Work!Running
  BY DEF Attempt, Work!Running, WorkState
<1>2. attempts[r] \in Nat /\ exec[r].reservation \in Nat
  BY DEF Executions
<1>3. attempts[r] < Reserved[r]
  BY <1>2 DEF Attempt, WithinReservation, Reserved
<1>4. Reserved' = Reserved /\ \A q \in Repairs : /\ WorkState(q)' = WorkState(q)
                                                 /\ TouchedKeys(q)' = TouchedKeys(q)
                                                 /\ ResultOf(q)' = ResultOf(q)
  BY DEF Attempt, caseVars, Reserved, WorkState, TouchedKeys, ResultOf, Unsettled
<1>5. attempts' = [attempts EXCEPT ![r] = @ + 1]
  BY DEF Attempt
<1> QED
  BY <1>1, <1>3, <1>4, <1>5 DEF Work!Call

LEMMA SettleIsWork ==
  ASSUME Working, NEW c \in Cases, Settle(c)
  PROVE  \E done \in SUBSET Repairs : Work!Settle(c, done)
<1> DEFINE done == {r \in draft[c].done : Unsettled(r)}
<1> USE DEF Working, Recovering, Typed, TypeOK
<1>1. /\ draft[c].done \subseteq RepairsOf(c) /\ RepairsOf(c) \subseteq Repairs
      /\ \A r \in draft[c].done : Succeeded(r) /\ exec[r].state \in {"linked", "settled"}
  BY DEF Settle, DraftFits, PlansOwn, RepairsOf
<1>2. done \subseteq Work!Running \cap Work!RepairsOf(c)
  BY <1>1 DEF Work!Running, WorkState, Work!RepairsOf, RepairsOf, Work!CaseOfRepair, CaseOfRepair
<1>3. plan' = plan /\ op' = op /\ attempts' = attempts
  BY DEF Settle, opVars
<1>4. ASSUME NEW r \in Repairs
      PROVE  /\ WorkState(r)' = IF r \in done THEN "settled" ELSE WorkState(r)
             /\ TouchedKeys(r)' = IF r \in done THEN {} ELSE TouchedKeys(r)
             /\ ResultOf(r)' = IF r \in done THEN op[r] ELSE ResultOf(r)
             /\ Reserved'[r] = Reserved[r]
  <2>1. exec'[r] = IF r \in draft[c].done THEN Settled(r) ELSE exec[r]
    BY DEF Settle
  <2>2. CASE r \in draft[c].done
    BY <1>1, <1>3, <2>1, <2>2 DEF Settled, WorkState, TouchedKeys, ResultOf, Unsettled, Reserved
  <2>3. CASE r \notin draft[c].done
    BY <1>3, <2>1, <2>3 DEF WorkState, TouchedKeys, ResultOf, Unsettled, Reserved
  <2> QED
    BY <2>2, <2>3
<1>5. [r \in done |-> op[r]] \in [done -> Work!Verdicts]
  BY <1>1 DEF Succeeded, Verdicts, Work!Verdicts
<1>6. Reserved' = Reserved
  BY <1>4 DEF Reserved
<1>7. done \in SUBSET Repairs
  BY <1>1
<1>8. [r \in Repairs |-> ResultOf(r)]' = [r \in Repairs |-> IF r \in done THEN [q \in done |-> op[q]][r]
                                                             ELSE [q \in Repairs |-> ResultOf(q)][r]]
  BY <1>4
<1> HIDE DEF done
<1>9. Work!Settle(c, done)
  BY <1>2, <1>3, <1>4, <1>5, <1>6, <1>8 DEF Work!Settle
<1> QED
  BY <1>7, <1>9

\* The operation of a settled repair has ended.
LEMMA ResultStays ==
  ASSUME Working, [Next]_vars, NEW r \in Repairs, exec'[r] = exec[r]
  PROVE  ResultOf(r)' = ResultOf(r)
  BY SucceededStays DEF Working, Recovering, SettledDone, ResultOf, Succeeded

LEMMA OthersHidden ==
  ASSUME Working, [Next]_vars, attempts' = attempts,
         ~\E r \in Repairs, t \in Tokens, n \in Amounts : Reserve(t, r, n),
         ~\E c \in Cases : Settle(c)
  PROVE  UNCHANGED Work!vars
<1> USE DEF Working, Recovering, Typed, TypeOK
<1>1. ASSUME NEW r \in Repairs
      PROVE  /\ Unsettled(r)' <=> Unsettled(r)
             /\ WorkState(r)' = WorkState(r)
             /\ ResultOf(r)' = ResultOf(r)
             /\ Reserved'[r] = Reserved[r]
  <2>1. CASE exec'[r] = exec[r]
    BY <2>1, ResultStays DEF Unsettled, WorkState, Reserved
  <2>2. CASE Link(r)
    <3>1. exec'[r] = [exec[r] EXCEPT !.state = "linked"] /\ exec[r].state = "authorized"
      BY <2>2 DEF Link
    <3>2. exec'[r].state = "linked" /\ exec'[r].reservation = exec[r].reservation
      BY <3>1, LinkedRow
    <3> QED
      BY <3>1, <3>2 DEF Unsettled, WorkState, ResultOf, Reserved
  <2> QED
    BY <2>1, <2>2, ExecEffect
<1>2. ASSUME NEW r \in Repairs PROVE TouchedKeys(r)' = TouchedKeys(r)
  <2>1. CASE Unsettled(r)
    <3>1. CaseOfRepair(r) \in Cases /\ active[CaseOfRepair(r)]
      BY <2>1 DEF CaseOfRepair, Planned, OpenWorkHasPlan
    <3>2. ~PlanCase(CaseOfRepair(r))
      BY <3>1 DEF PlanCase
    <3>3. plan'[CaseOfRepair(r)] = plan[CaseOfRepair(r)]
      BY <3>1, <3>2, PlanEffect, PlanCaseEffect
    <3> QED
      BY <1>1, <2>1, <3>3 DEF TouchedKeys, CaseOfRepair
  <2>2. CASE ~Unsettled(r)
    BY <1>1, <2>2 DEF TouchedKeys
  <2> QED
    BY <2>1, <2>2
<1>3. Reserved' = Reserved
  BY <1>1 DEF Reserved
<1> QED
  BY <1>1, <1>2, <1>3, WorkStays

LEMMA NextIsWork == Working /\ [Next]_vars => [Work!Next]_(Work!vars)
<1> SUFFICES ASSUME Working, [Next]_vars PROVE Work!Next
  OBVIOUS
<1>1. CASE \E r \in Repairs, t \in Tokens, n \in Amounts : Reserve(t, r, n)
  BY <1>1, ReserveIsWork DEF Work!Next
<1>2. CASE \E r \in Repairs : Attempt(r)
  BY <1>2, AttemptIsWork DEF Work!Next
<1>3. CASE \E c \in Cases : Settle(c)
  BY <1>3, SettleIsWork DEF Work!Next
<1>4. CASE /\ attempts' = attempts
           /\ ~\E r \in Repairs, t \in Tokens, n \in Amounts : Reserve(t, r, n)
           /\ ~\E c \in Cases : Settle(c)
  <2>1. UNCHANGED Work!vars
    BY <1>4, OthersHidden
  <2> QED
    BY <2>1 DEF Work!Next, Work!Hidden
<1> QED
  BY <1>1, <1>2, <1>3, <1>4, CallsEffect DEF Working, Recovering

\* For any cases that share any keys, over expired claims, late receipts and any
\* number of plans: a repair is authorised once, within what the budget of its
\* case has left and its original has rounds for, beside no repair of the same
\* original or of its keys; it calls within its grant and no more once it is
\* settled; its result stays.
THEOREM WorkImplemented == Spec => ImplementsWork
<1>1. Spec => []Working
  BY WorkingInit, WorkingNext, PTL DEF Spec
<1> QED
  BY <1>1, InitIsWork, NextIsWork, PTL DEF Spec, ImplementsWork, Work!Spec
=============================================================================
