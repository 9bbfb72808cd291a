-------------------- MODULE StructuredExtraction_proofs --------------------
(***************************************************************************)
(* Provider calls of structured extractions, for any operations, workers,  *)
(* costs and attempts: a call is made once, an answer is never lost to a   *)
(* refusal, and what is published is what the accounts say.                *)
(***************************************************************************)
EXTENDS StructuredExtraction, Totals_proofs

Answered == {"settle", "retain", "account", "snapshot", "prepare", "complete", "publish"}
Unanswered == {"reserve", "dispatch", "send", "answer", "mark", "refuse"}
Started == Places \ {"idle", "recover", "bind", "initialize", "return"}
Keeping == {"account", "snapshot", "prepare", "complete", "publish"}
Kept == {"retaining", "preparing", "retained"}

\* A worker that is past the answer works on a captured one.
Placed ==
  \A w \in Workers :
    /\ pc[w] = "idle" <=> job[w] = None
    /\ pc[w] \in Answered => capture[job[w]] # None

Typed == TypeOK /\ Placed

----------------------------------------------------------------------------
(* Types *)

LEMMA NoneAnswer == \A answer \in Answers : answer # None
BY NoneAssumption

LEMMA InitTyped == Init => Typed
BY NoneAssumption, OpsAssumption, TriesAssumption
   DEF Init, Typed, TypeOK, Placed, NoAttempt, Attempts, Stages, Places, Throwing, Answered

\* Booking an answer keeps the accounts' types and says what is due of it.
LEMMA Booking ==
  ASSUME TypeOK, NEW o \in Ops, capture[o] # None, Book(o)
  PROVE  /\ attempt' = [attempt EXCEPT ![o] = Due(capture[o])]
         /\ Due(capture[o]) \in Attempts
         /\ Due(capture[o]).state \in {"uncertain", "settled"}
         /\ budget' \in [reserved: Int, settled: Int]
<1>1. capture[o] \in Answers /\ capture[o].cost \in Costs \cup {None}
  BY DEF TypeOK, Answers
<1>2. CASE capture[o].cost # None
  <2>1. capture[o].cost \in Nat
    BY <1>1, <1>2, BudgetAssumption
  <2> QED
    BY <1>2, <2>1, BudgetAssumption DEF Book, Charge, Due, Attempts, TypeOK
<1>3. CASE capture[o].cost = None
  BY <1>3 DEF Book, Mark, Due, Attempts, TypeOK
<1> QED BY <1>2, <1>3

\* A worker that is somewhere has an operation.
LEMMA Busy ==
  ASSUME Typed, NEW w \in Workers, pc[w] # "idle"
  PROVE  job[w] \in Ops
BY DEF Typed, TypeOK, Placed

LEMMA ClaimTyped ==
  ASSUME Typed, NEW w \in Workers, NEW o \in Ops, Claim(w, o)
  PROVE  Typed'
<1>1. TypeOK'
  BY DEF Typed, TypeOK, Claim, At, Goto, Places, Throwing, accountVars, custodyVars
<1>2. Placed'
  BY OpsAssumption DEF Typed, TypeOK, Placed, Claim, At, Goto, Answered, accountVars, custodyVars
<1> QED BY <1>1, <1>2 DEF Typed

LEMMA RestTyped ==
  ASSUME Typed, NEW w \in Workers, Rest(w), UNCHANGED <<accountVars, custodyVars, sent, tries, limit>>,
         receipt' \in [Ops -> Workers \cup {None}],
         status' \in [Ops -> {"running", "succeeded", "failed", "refused", "cancelled"}],
         lease' \in [Ops -> Workers \cup {None}]
  PROVE  Typed'
<1>1. TypeOK'
  BY DEF Typed, TypeOK, Rest, Goto, Places, NoAttempt, Attempts, accountVars, custodyVars
<1>2. Placed'
  BY OpsAssumption DEF Typed, TypeOK, Placed, Rest, Goto, Answered, accountVars, custodyVars
<1> QED BY <1>1, <1>2 DEF Typed

LEMMA ReportTyped ==
  ASSUME Typed, NEW w \in Workers, NEW s \in {"running", "succeeded", "failed", "refused", "cancelled"},
         Report(w, s), receipt' \in [Ops -> Workers \cup {None}]
  PROVE  Typed'
BY RestTyped DEF Report, Typed, TypeOK

LEMMA AdvanceTyped ==
  ASSUME Typed, NEW w \in Workers, NEW place, NEW next \in Places \ {"idle"}, NEW s \in Stages, NEW t \in Stages,
         Advance(w, place, next, s, t),
         next \in Answered => place \in Answered, place # "idle"
  PROVE  Typed'
<1>1. job[w] \in Ops
  BY Busy DEF Advance, Works, At
<1>2. TypeOK'
  BY <1>1 DEF Typed, TypeOK, Advance, Goto, ledgerVars, accountVars
<1>3. Placed'
  BY <1>1 DEF Typed, TypeOK, Placed, Advance, Works, At, Goto, ledgerVars, accountVars
<1> QED BY <1>2, <1>3 DEF Typed

LEMMA BeforeTyped ==
  ASSUME Typed, NEW w \in Workers, Before(w)
  PROVE  Typed'
<1> USE DEF Works, At
<1>1. CASE Recover(w)
  <2>1. TypeOK'
    BY <1>1 DEF Typed, TypeOK, Recover, Goto, Places, Throwing, ledgerVars, accountVars, custodyVars
  <2>2. Placed'
    BY <1>1 DEF Typed, TypeOK, Placed, Recover, Goto, Answered, ledgerVars, accountVars, custodyVars
  <2> QED BY <2>1, <2>2 DEF Typed
<1>2. CASE Bind(w)
  BY <1>2, AdvanceTyped DEF Bind, Places, Throwing, Stages, Answered
<1>3. CASE Initialize(w)
  BY <1>3, AdvanceTyped DEF Initialize, Places, Throwing, Stages, Answered
<1>4. CASE Look(w)
  <2>1. job[w] \in Ops
    BY <1>4, Busy DEF Look
  <2>2. Found(job[w]) \in {"retain", "reserve", "mark"} /\ (Found(job[w]) = "retain" => capture[job[w]] # None)
    BY DEF Found
  <2>3. TypeOK'
    BY <1>4, <2>2 DEF Typed, TypeOK, Look, Goto, Places, Throwing, ledgerVars, accountVars, custodyVars
  <2>4. Placed'
    BY <1>4, <2>2 DEF Typed, TypeOK, Placed, Look, Goto, Answered, ledgerVars, accountVars, custodyVars
  <2> QED BY <2>3, <2>4 DEF Typed
<1>5. CASE MarkLost(w)
  <2>1. job[w] \in Ops
    BY <1>5, Busy DEF MarkLost
  <2>2. TypeOK'
    BY <1>5, <2>1 DEF Typed, TypeOK, MarkLost, Mark, Goto, Places, Throwing, Attempts, ledgerVars, custodyVars
  <2>3. Placed'
    BY <1>5 DEF Typed, TypeOK, Placed, MarkLost, Goto, Answered, ledgerVars, custodyVars
  <2> QED BY <2>2, <2>3 DEF Typed
<1>6. CASE Refuse(w)
  BY <1>6, ReportTyped DEF Refuse, Typed, TypeOK
<1>7. CASE Reserve(w)
  <2>1. job[w] \in Ops
    BY <1>7, Busy DEF Reserve
  <2>2. attempt' \in [Ops -> Attempts] /\ budget' \in [reserved: Int, settled: Int]
    BY <1>7, <2>1, BudgetAssumption DEF Typed, TypeOK, Reserve, Mark, Attempts, accountVars
  <2>3. TypeOK'
    BY <1>7, <2>2 DEF Typed, TypeOK, Reserve, Goto, Places, Throwing, ledgerVars, custodyVars
  <2>4. Placed'
    BY <1>7 DEF Typed, TypeOK, Placed, Reserve, Goto, Answered, ledgerVars, custodyVars
  <2> QED BY <2>3, <2>4 DEF Typed
<1>8. CASE Dispatch(w)
  <2>1. job[w] \in Ops
    BY <1>8, Busy DEF Dispatch
  <2>2. TypeOK'
    BY <1>8, <2>1 DEF Typed, TypeOK, Dispatch, Mark, Goto, Places, Throwing, Attempts, ledgerVars, custodyVars
  <2>3. Placed'
    BY <1>8 DEF Typed, TypeOK, Placed, Dispatch, Goto, Answered, ledgerVars, custodyVars
  <2> QED BY <2>2, <2>3 DEF Typed
<1>9. CASE Send(w)
  <2>1. job[w] \in Ops
    BY <1>9, Busy DEF Send
  <2>2. TypeOK'
    BY <1>9, <2>1 DEF Typed, TypeOK, Send, Goto, Places, Throwing, ledgerVars, accountVars, custodyVars
  <2>3. Placed'
    BY <1>9 DEF Typed, TypeOK, Placed, Send, Goto, Answered, ledgerVars, accountVars, custodyVars
  <2> QED BY <2>2, <2>3 DEF Typed
<1> QED BY <1>1, <1>2, <1>3, <1>4, <1>5, <1>6, <1>7, <1>8, <1>9 DEF Before

LEMMA AfterTyped ==
  ASSUME Typed, NEW w \in Workers, After(w)
  PROVE  Typed'
<1> USE DEF Works, At
<1>1. CASE Capture(w)
  <2>1. job[w] \in Ops
    BY <1>1, Busy DEF Capture
  <2>2. PICK answer \in Answers :
          /\ capture' = [capture EXCEPT ![job[w]] = answer]
          /\ Goto(w, IF answer.kind = "accepted" THEN "settle" ELSE "doubt")
    BY <1>1 DEF Capture
  <2>3. answer # None
    BY NoneAnswer
  <2>4. TypeOK'
    BY <1>1, <2>1, <2>2 DEF Typed, TypeOK, Capture, Goto, Places, Throwing, ledgerVars, accountVars
  <2>5. Placed'
    BY <1>1, <2>1, <2>2, <2>3 DEF Typed, TypeOK, Placed, Capture, Goto, Answered, ledgerVars, accountVars
  <2> QED BY <2>4, <2>5 DEF Typed
<1>2. CASE Stumble(w)
  <2>1. job[w] \in Ops
    BY <1>2, Busy DEF Stumble
  <2>2. TypeOK'
    BY <1>2, <2>1 DEF Typed, TypeOK, Stumble, Goto, Places, Throwing, ledgerVars, accountVars, custodyVars
  <2>3. Placed'
    BY <1>2, <2>1 DEF Typed, TypeOK, Placed, Stumble, Goto, Answered, ledgerVars, accountVars, custodyVars
  <2> QED BY <2>2, <2>3 DEF Typed
<1>3. CASE Settle(w)
  <2>1. job[w] \in Ops /\ capture[job[w]] # None
    BY <1>3, Busy DEF Settle, Typed, Placed, Answered
  <2>2. attempt' \in [Ops -> Attempts] /\ budget' \in [reserved: Int, settled: Int]
    BY <1>3, <2>1, Booking DEF Settle, Typed, TypeOK
  <2>3. TypeOK'
    BY <1>3, <2>2 DEF Typed, TypeOK, Settle, Goto, Places, Throwing, ledgerVars, custodyVars
  <2>4. Placed'
    BY <1>3, <2>1 DEF Typed, TypeOK, Placed, Settle, Goto, Answered, ledgerVars, custodyVars
  <2> QED BY <2>3, <2>4 DEF Typed
<1>4. CASE Doubt(w)
  <2>1. job[w] \in Ops
    BY <1>4, Busy DEF Doubt
  <2>2. TypeOK'
    BY <1>4, <2>1 DEF Typed, TypeOK, Doubt, Goto, Places, Throwing, Mark, Attempts, ledgerVars, custodyVars
  <2>3. Placed'
    BY <1>4, <2>1 DEF Typed, TypeOK, Placed, Doubt, Goto, Answered, ledgerVars, custodyVars
  <2> QED BY <2>2, <2>3 DEF Typed
<1>5. CASE Reread(w)
  <2>1. job[w] \in Ops
    BY <1>5, Busy DEF Reread
  <2>2. TypeOK'
    BY <1>5, <2>1 DEF Typed, TypeOK, Reread, Goto, Places, Throwing, ledgerVars, accountVars, custodyVars
  <2>3. Placed'
    BY <1>5, <2>1 DEF Typed, TypeOK, Placed, Reread, Goto, Answered, ledgerVars, accountVars, custodyVars
  <2> QED BY <2>2, <2>3 DEF Typed
<1>6. CASE Retain(w)
  BY <1>6, AdvanceTyped DEF Retain, Places, Throwing, Stages, Answered
<1>7. CASE Account(w)
  <2>1. job[w] \in Ops /\ capture[job[w]] # None
    BY <1>7, Busy DEF Account, Typed, Placed, Answered
  <2>2. attempt' \in [Ops -> Attempts] /\ budget' \in [reserved: Int, settled: Int]
    BY <1>7, <2>1, Booking DEF Account, Typed, TypeOK, accountVars
  <2>3. TypeOK'
    BY <1>7, <2>2 DEF Typed, TypeOK, Account, Goto, Places, Throwing, ledgerVars, custodyVars
  <2>4. Placed'
    BY <1>7, <2>1 DEF Typed, TypeOK, Placed, Account, Goto, Answered, ledgerVars, custodyVars
  <2> QED BY <2>3, <2>4 DEF Typed
<1>8. CASE Snapshot(w)
  <2>1. job[w] \in Ops
    BY <1>8, Busy DEF Snapshot
  <2>2. TypeOK'
    BY <1>8, <2>1 DEF Typed, TypeOK, Snapshot, Goto, Places, Throwing, ledgerVars, accountVars, custodyVars
  <2>3. Placed'
    BY <1>8, <2>1 DEF Typed, TypeOK, Placed, Snapshot, Goto, Answered, ledgerVars, accountVars, custodyVars
  <2> QED BY <2>2, <2>3 DEF Typed
<1>9. CASE Prepare(w)
  BY <1>9, AdvanceTyped DEF Prepare, Places, Throwing, Stages, Answered
<1>10. CASE Complete(w)
  BY <1>10, AdvanceTyped DEF Complete, Places, Throwing, Stages, Answered
<1>11. CASE Publish(w)
  <2>1. job[w] \in Ops /\ capture[job[w]] # None
    BY <1>11, Busy DEF Publish, Typed, Placed, Answered
  <2>2. capture[job[w]].kind \in {"accepted", "failed"} /\ call[w] \in Attempts
    BY <2>1 DEF Typed, TypeOK, Answers
  <2>3. Outcome(w) \in Results
    BY <2>2 DEF Outcome, Results
  <2>4. result' \in [Ops -> Results \cup {None}]
    BY <1>11, <2>1, <2>3 DEF Typed, TypeOK, Publish
  <2>5. TypeOK'
    BY <1>11, <2>4 DEF Typed, TypeOK, Publish, Goto, Places, Throwing, ledgerVars, accountVars
  <2>6. Placed'
    BY <1>11 DEF Typed, TypeOK, Placed, Publish, Goto, Answered, ledgerVars, accountVars
  <2> QED BY <2>5, <2>6 DEF Typed
<1> QED BY <1>1, <1>2, <1>3, <1>4, <1>5, <1>6, <1>7, <1>8, <1>9, <1>10, <1>11 DEF After

LEMMA WorkTyped ==
  ASSUME Typed, NEW w \in Workers, Work(w) \/ Crash(w)
  PROVE  Typed'
<1>1. CASE Return(w) \/ ReturnFailure(w)
  <2>1. receipt' \in [Ops -> Workers \cup {None}]
    BY <1>1 DEF Return, ReturnFailure, Typed, TypeOK
  <2> QED BY <1>1, <2>1, ReportTyped DEF Return, ReturnFailure
<1>2. CASE Fail(w)
  <2>1. PICK s \in {"running", "failed"} : Report(w, s)
    BY <1>2 DEF Fail
  <2> QED BY <1>2, <2>1, ReportTyped DEF Fail, Typed, TypeOK
<1>3. CASE ReturnAgain(w) \/ FailRefused(w) \/ GiveUp(w) \/ Crash(w)
  BY <1>3, RestTyped DEF ReturnAgain, FailRefused, GiveUp, Crash, ledgerVars, Typed, TypeOK
<1> QED BY <1>1, <1>2, <1>3, BeforeTyped, AfterTyped DEF Work

LEMMA OutsideTyped ==
  ASSUME Typed, NEW o \in Ops, Expire(o) \/ Cancel(o) \/ Retry(o) \/ \E cost \in Costs : Reconcile(o, cost)
  PROVE  Typed'
<1>1. TypeOK'
  <2>1. CASE Expire(o) \/ Cancel(o) \/ Retry(o)
    BY <2>1 DEF Typed, TypeOK, Expire, Cancel, Retry, accountVars, custodyVars, workerVars
  <2>2. CASE \E cost \in Costs : Reconcile(o, cost)
    <3>1. PICK cost \in Costs : Reconcile(o, cost)
      BY <2>2
    <3>2. attempt' \in [Ops -> Attempts] /\ budget' \in [reserved: Int, settled: Int]
      BY <3>1, BudgetAssumption DEF Reconcile, Charge, Typed, TypeOK, Attempts
    <3> QED BY <3>1, <3>2 DEF Typed, TypeOK, Reconcile, ledgerVars, custodyVars, workerVars
  <2> QED BY <2>1, <2>2
<1>2. Placed'
  BY DEF Typed, Placed, Expire, Cancel, Retry, Reconcile, custodyVars, workerVars
<1> QED BY <1>1, <1>2 DEF Typed

LEMMA StutterTyped == Typed /\ UNCHANGED vars => Typed'
BY DEF Typed, TypeOK, Placed, vars, ledgerVars, accountVars, custodyVars, workerVars

LEMMA NextTyped == Typed /\ [Next]_vars => Typed'
BY ClaimTyped, WorkTyped, OutsideTyped, StutterTyped DEF Next

LEMMA AlwaysTyped == Spec => []Typed
BY InitTyped, NextTyped, PTL DEF Spec

\* Every variable keeps its type, whatever workers, operators and clocks do.
THEOREM TypeCorrect == Spec => []TypeOK
<1>1. Typed => TypeOK
  BY DEF Typed
<1> QED BY <1>1, AlwaysTyped, PTL

----------------------------------------------------------------------------
(* A call is made once *)

\* A call that was not recorded was not made, and one about to be made was
\* recorded by the worker that is about to make it.
Counted ==
  /\ \A o \in Ops : sent[o] <= 1 /\ (Unsent(attempt[o]) => sent[o] = 0 /\ capture[o] = None)
  /\ \A w \in Workers : At(w, "send") => ~Unsent(attempt[job[w]]) /\ sent[job[w]] = 0
  /\ \A v, w \in Workers : At(v, "send") /\ At(w, "send") /\ job[v] = job[w] => v = w

\* A step that neither records a call nor makes one.
Quiet ==
  /\ UNCHANGED sent
  /\ \A o \in Ops : Unsent(attempt'[o]) => Unsent(attempt[o]) /\ capture'[o] = capture[o]
  /\ \A w \in Workers : pc'[w] = "send" => pc[w] = "send" /\ job'[w] = job[w]

LEMMA InitCounted == Init => Counted
BY DEF Init, Counted, At

LEMMA QuietCounted ==
  ASSUME Typed, Counted, Quiet
  PROVE  Counted'
<1> USE DEF Quiet, At
<1>1. \A o \in Ops : sent'[o] <= 1 /\ (Unsent(attempt'[o]) => sent'[o] = 0 /\ capture'[o] = None)
  BY DEF Counted
<1>2. \A w \in Workers : pc'[w] = "send" => ~Unsent(attempt'[job'[w]]) /\ sent'[job'[w]] = 0
  BY Busy DEF Counted
<1>3. \A v, w \in Workers : pc'[v] = "send" /\ pc'[w] = "send" /\ job'[v] = job'[w] => v = w
  BY DEF Counted
<1> QED BY <1>1, <1>2, <1>3 DEF Counted, Unsent

LEMMA BookingMade ==
  ASSUME Typed, NEW o \in Ops, capture[o] # None, Book(o)
  PROVE  \A p \in Ops : Unsent(attempt'[p]) => Unsent(attempt[p])
BY Booking DEF Typed, TypeOK, Unsent

LEMMA RestQuiet ==
  ASSUME Typed, NEW w \in Workers, Rest(w), UNCHANGED <<accountVars, custodyVars, sent>>
  PROVE  Quiet
BY DEF Typed, TypeOK, Rest, Goto, Quiet, accountVars, custodyVars

LEMMA WorkQuiet ==
  ASSUME Typed, NEW w \in Workers, Work(w) \/ Crash(w), ~Dispatch(w), ~Send(w)
  PROVE  Quiet
<1> USE DEF Works, At, Goto, Typed, TypeOK
<1>1. CASE Recover(w) \/ Look(w) \/ Stumble(w) \/ Reread(w) \/ Snapshot(w)
  BY <1>1 DEF Recover, Look, Found, Stumble, Reread, Snapshot, Quiet, accountVars, custodyVars
<1>2. CASE Bind(w) \/ Initialize(w) \/ Retain(w) \/ Prepare(w) \/ Complete(w)
  BY <1>2 DEF Bind, Initialize, Retain, Prepare, Complete, Advance, Quiet, accountVars
<1>3. CASE MarkLost(w) \/ Reserve(w) \/ Doubt(w)
  <2>1. job[w] \in Ops
    BY <1>3, Busy DEF MarkLost, Reserve, Doubt
  <2> QED BY <1>3, <2>1 DEF MarkLost, Reserve, Doubt, Mark, Unsent, Quiet, accountVars, custodyVars
<1>4. CASE Capture(w)
  <2>1. job[w] \in Ops
    BY <1>4, Busy DEF Capture
  <2>2. UNCHANGED <<attempt, job, sent>> /\ ~Unsent(attempt[job[w]])
    BY <1>4 DEF Capture, Made, Unsent, accountVars
  <2>3. \A o \in Ops : o # job[w] => capture'[o] = capture[o]
    BY <1>4 DEF Capture
  <2>4. \A v \in Workers : pc'[v] = "send" => pc[v] = "send"
    BY <1>4 DEF Capture
  <2> QED BY <2>1, <2>2, <2>3, <2>4 DEF Quiet, Unsent
<1>5. CASE Settle(w) \/ Account(w)
  <2>1. job[w] \in Ops /\ capture[job[w]] # None
    BY <1>5, Busy DEF Settle, Account, Placed, Answered
  <2>2. \A o \in Ops : Unsent(attempt'[o]) => Unsent(attempt[o])
    BY <1>5, <2>1, BookingMade DEF Settle, Account, accountVars, Unsent
  <2> QED BY <1>5, <2>2 DEF Settle, Account, Quiet, custodyVars
<1>6. CASE Publish(w)
  BY <1>6 DEF Publish, Quiet, accountVars
<1>7. CASE Refuse(w) \/ Return(w) \/ ReturnFailure(w) \/ ReturnAgain(w) \/ Fail(w) \/ FailRefused(w) \/ GiveUp(w) \/ Crash(w)
  BY <1>7, RestQuiet DEF Refuse, Return, ReturnFailure, ReturnAgain, Fail, FailRefused, Report, GiveUp, Crash
<1> QED BY <1>1, <1>2, <1>3, <1>4, <1>5, <1>6, <1>7 DEF Work, Before, After

\* The attempt is reserved: nobody is about to make the call.
LEMMA DispatchCounted ==
  ASSUME Typed, Counted, NEW w \in Workers, Dispatch(w)
  PROVE  Counted'
<1> USE DEF Works, At, Goto, Typed, TypeOK
<1> DEFINE o == job[w]
<1>1. o \in Ops
  BY Busy DEF Dispatch
<1>2. /\ attempt' = [attempt EXCEPT ![o] = [state |-> "dispatched", cost |-> None]]
      /\ Unsent(attempt[o]) /\ ~Unsent(attempt'[o])
      /\ UNCHANGED <<capture, sent, job>>
  BY <1>1 DEF Dispatch, Mark, Unsent, custodyVars
<1>3. sent[o] = 0 /\ \A v \in Workers : pc[v] = "send" => job[v] # o
  BY <1>1, <1>2 DEF Counted
<1>4. \A v \in Workers : pc'[v] = "send" => v = w \/ pc[v] = "send"
  BY DEF Dispatch
<1>5. \A p \in Ops : sent'[p] <= 1 /\ (Unsent(attempt'[p]) => sent'[p] = 0 /\ capture'[p] = None)
  BY <1>2 DEF Counted, Unsent
<1>6. \A v \in Workers : pc'[v] = "send" => ~Unsent(attempt'[job'[v]]) /\ sent'[job'[v]] = 0
  BY <1>1, <1>2, <1>3, <1>4, Busy DEF Counted, Unsent
<1>7. \A u, v \in Workers : pc'[u] = "send" /\ pc'[v] = "send" /\ job'[u] = job'[v] => u = v
  BY <1>2, <1>3, <1>4 DEF Counted
<1> QED BY <1>5, <1>6, <1>7 DEF Counted, Unsent

LEMMA SendCounted ==
  ASSUME Typed, Counted, NEW w \in Workers, Send(w)
  PROVE  Counted'
<1> USE DEF At, Goto, Typed, TypeOK
<1> DEFINE o == job[w]
<1>1. o \in Ops /\ sent[o] = 0 /\ ~Unsent(attempt[o])
  BY Busy DEF Send, Counted
<1>2. sent' = [sent EXCEPT ![o] = 1] /\ UNCHANGED <<attempt, capture, job>>
  BY <1>1 DEF Send, accountVars, custodyVars
<1>3. \A v \in Workers : pc'[v] = "send" => pc[v] = "send" /\ v # w
  BY DEF Send
<1>4. \A v \in Workers : pc'[v] = "send" => job[v] # o
  BY <1>3 DEF Send, Counted
<1>5. \A p \in Ops : sent'[p] <= 1 /\ (Unsent(attempt'[p]) => sent'[p] = 0 /\ capture'[p] = None)
  BY <1>1, <1>2 DEF Counted
<1>6. \A v \in Workers : pc'[v] = "send" => ~Unsent(attempt'[job'[v]]) /\ sent'[job'[v]] = 0
  BY <1>2, <1>3, <1>4, Busy DEF Counted
<1>7. \A u, v \in Workers : pc'[u] = "send" /\ pc'[v] = "send" /\ job'[u] = job'[v] => u = v
  BY <1>2, <1>3 DEF Counted
<1> QED BY <1>5, <1>6, <1>7 DEF Counted, Unsent

LEMMA OutsideQuiet ==
  ASSUME Typed, NEW o \in Ops, Expire(o) \/ Cancel(o) \/ Retry(o) \/ \E cost \in Costs : Reconcile(o, cost)
  PROVE  Quiet
<1>1. CASE Expire(o) \/ Cancel(o) \/ Retry(o)
  BY <1>1 DEF Expire, Cancel, Retry, Quiet, accountVars, custodyVars, workerVars
<1>2. CASE \E cost \in Costs : Reconcile(o, cost)
  BY <1>2 DEF Typed, TypeOK, Reconcile, Charge, Unsent, Quiet, custodyVars, workerVars
<1> QED BY <1>1, <1>2

LEMMA ClaimQuiet ==
  ASSUME Typed, NEW w \in Workers, NEW o \in Ops, Claim(w, o)
  PROVE  Quiet
BY DEF Typed, TypeOK, Claim, At, Goto, Quiet, accountVars, custodyVars

LEMMA NextCounted == Typed /\ Counted /\ [Next]_vars => Counted'
<1> SUFFICES ASSUME Typed, Counted, [Next]_vars PROVE Counted'
  OBVIOUS
<1>1. CASE UNCHANGED vars
  BY <1>1, QuietCounted DEF Quiet, vars, accountVars, custodyVars, workerVars
<1>2. CASE \E w \in Workers : Work(w) \/ Crash(w)
  BY <1>2, WorkQuiet, QuietCounted, DispatchCounted, SendCounted
<1>3. CASE \E w \in Workers, o \in Ops : Claim(w, o)
  BY <1>3, ClaimQuiet, QuietCounted
<1>4. CASE \E o \in Ops : Expire(o) \/ Cancel(o) \/ Retry(o) \/ \E cost \in Costs : Reconcile(o, cost)
  BY <1>4, OutsideQuiet, QuietCounted
<1> QED BY <1>1, <1>2, <1>3, <1>4 DEF Next

LEMMA AlwaysCounted == Spec => []Counted
BY InitCounted, NextCounted, AlwaysTyped, PTL DEF Spec

\* The provider is asked at most once for an operation, however many workers
\* take it over, and wherever they crash, stall or lose a reply.
THEOREM CalledOnce == Spec => []SentOnce
<1>1. Counted => SentOnce
  BY DEF Counted, SentOnce
<1> QED BY <1>1, AlwaysCounted, PTL

----------------------------------------------------------------------------
(* Stages *)

\* An operation ends its stages on the branch of its answer.
Branched ==
  \A o \in Ops :
    /\ stage[o] = "preparing" => capture[o] # None /\ capture[o].kind = "failed"
    /\ stage[o] = "retained" => capture[o] # None /\ capture[o].kind = "accepted"

\* A worker is not ahead of its operation's stage.
StagedBy(w) ==
  /\ At(w, "initialize") => stage[job[w]] # "none"
  /\ pc[w] \in Started => stage[job[w]] \notin {"none", "bound"}
  /\ pc[w] \in Keeping => stage[job[w]] \in Kept
  /\ At(w, "prepare") => capture[job[w]].kind = "failed"
  /\ At(w, "complete") => capture[job[w]].kind = "accepted"
  /\ At(w, "publish") => Publishable(job[w])

Staged == Branched /\ \A w \in Workers : StagedBy(w)

\* An answer stays, and stages only go forward.
Forward ==
  \A o \in Ops :
    /\ capture[o] # None => capture'[o] = capture[o]
    /\ \/ stage'[o] = stage[o]
       \/ stage[o] = "none" /\ stage'[o] = "bound"
       \/ stage[o] = "bound" /\ stage'[o] = "running"
       \/ stage[o] = "running" /\ stage'[o] = "retaining"
       \/ stage[o] = "retaining" /\ stage'[o] \in {"preparing", "retained"}

LEMMA InitStaged == Init => Staged
BY DEF Init, Staged, Branched, StagedBy, At, Started, Keeping

LEMMA StagedElsewhere ==
  ASSUME Typed, NEW v \in Workers, StagedBy(v), Forward, pc'[v] = pc[v], job'[v] = job[v]
  PROVE  StagedBy(v)'
<1>1. CASE pc[v] = "idle"
  BY <1>1 DEF StagedBy, At, Started, Keeping
<1>2. CASE pc[v] # "idle"
  <2>1. job[v] \in Ops
    BY <1>2, Busy
  <2>2. pc[v] \in Answered => capture'[job[v]] = capture[job[v]]
    BY <2>1 DEF Forward, Typed, Placed
  <2> QED BY <2>1, <2>2 DEF StagedBy, Forward, At, Started, Keeping, Kept, Answered, Publishable
<1> QED BY <1>1, <1>2

\* Where the step of a worker leads it, and what it does to the stage.
StepStages(w) ==
  /\ Forward
  /\ Branched'
  /\ \A v \in Workers \ {w} : pc'[v] = pc[v] /\ job'[v] = job[v]
  /\ StagedBy(w)'

LEMMA StillStaged ==
  ASSUME Typed, Staged, NEW w \in Workers, UNCHANGED <<stage, capture, job>>, NEW place, Goto(w, place),
         place \in Started => pc[w] \in Started,
         place \in Keeping => pc[w] \in Keeping,
         place = "initialize" => pc[w] = "initialize",
         place = "prepare" => capture[job[w]].kind = "failed",
         place = "complete" => capture[job[w]].kind = "accepted",
         place # "publish"
  PROVE  StepStages(w)
<1>1. pc'[w] = place /\ \A v \in Workers \ {w} : pc'[v] = pc[v]
  BY DEF Goto, Typed, TypeOK
<1> QED BY <1>1 DEF StepStages, Forward, Staged, Branched, StagedBy, At

LEMMA RestStaged ==
  ASSUME Typed, Staged, NEW w \in Workers, Rest(w), UNCHANGED custodyVars
  PROVE  StepStages(w)
<1>1. pc'[w] = "idle" /\ \A v \in Workers \ {w} : pc'[v] = pc[v] /\ job'[v] = job[v]
  BY DEF Rest, Goto, Typed, TypeOK
<1> QED BY <1>1 DEF StepStages, Forward, Staged, Branched, StagedBy, At, Started, Keeping, custodyVars

LEMMA AdvanceStages ==
  ASSUME Typed, NEW w \in Workers, NEW place, NEW next, NEW s \in Stages, NEW t \in Stages,
         place # "idle", Advance(w, place, next, s, t)
  PROVE  /\ job[w] \in Ops /\ pc[w] = place /\ pc'[w] = next
         /\ stage'[job[w]] = IF stage[job[w]] = s THEN t ELSE stage[job[w]]
         /\ \A o \in Ops \ {job[w]} : stage'[o] = stage[o]
         /\ \A v \in Workers \ {w} : pc'[v] = pc[v]
         /\ UNCHANGED <<job, capture>>
<1>1. job[w] \in Ops
  BY Busy DEF Advance, Works, At
<1> QED BY <1>1 DEF Advance, Works, At, Goto, Typed, TypeOK

LEMMA AdvanceStaged ==
  ASSUME Typed, Staged, NEW w \in Workers,
         Bind(w) \/ Initialize(w) \/ Retain(w) \/ Prepare(w) \/ Complete(w)
  PROVE  StepStages(w)
<1> USE DEF StepStages, Forward, Staged, Branched, StagedBy, At, Started, Keeping, Kept, Stages, Places, Throwing
<1>1. CASE Bind(w)
  BY <1>1, AdvanceStages DEF Bind
<1>2. CASE Initialize(w)
  BY <1>2, AdvanceStages DEF Initialize
<1>3. stage \in [Ops -> Stages]
  BY DEF Typed, TypeOK
<1>4. CASE Retain(w)
  BY <1>3, <1>4, AdvanceStages DEF Retain
<1>5. CASE Prepare(w)
  <2>1. capture[job[w]] # None
    BY <1>5 DEF Prepare, Advance, Works, Typed, Placed, Answered
  <2> QED BY <1>3, <1>5, <2>1, AdvanceStages DEF Prepare, Publishable
<1>6. CASE Complete(w)
  <2>1. capture[job[w]] # None
    BY <1>6 DEF Complete, Advance, Works, Typed, Placed, Answered
  <2> QED BY <1>3, <1>6, <2>1, AdvanceStages DEF Complete, Publishable
<1> QED BY <1>1, <1>2, <1>4, <1>5, <1>6

LEMMA CaptureStaged ==
  ASSUME Typed, Staged, NEW w \in Workers, Capture(w)
  PROVE  StepStages(w)
<1> USE DEF Capture, Works, At, Goto, Typed, TypeOK
<1>1. job[w] \in Ops
  BY Busy
<1>2. /\ capture[job[w]] = None
      /\ \A o \in Ops \ {job[w]} : capture'[o] = capture[o]
      /\ UNCHANGED <<stage, job>>
      /\ pc[w] = "answer" /\ pc'[w] \in {"settle", "doubt"}
      /\ \A v \in Workers \ {w} : pc'[v] = pc[v]
  BY <1>1
<1> QED BY <1>1, <1>2 DEF StepStages, Forward, Staged, Branched, StagedBy, Started, Keeping, Places, Throwing

LEMMA WorkStaged ==
  ASSUME Typed, Staged, NEW w \in Workers, Work(w) \/ Crash(w)
  PROVE  StepStages(w)
<1> USE DEF Works, At, Started, Keeping, Places, Throwing
<1>1. CASE Recover(w)
  BY <1>1, StillStaged DEF Recover, custodyVars
<1>2. CASE Look(w)
  BY <1>2, StillStaged DEF Look, Found, custodyVars
<1>3. CASE MarkLost(w) \/ Reserve(w) \/ Dispatch(w) \/ Send(w)
  BY <1>3, StillStaged DEF MarkLost, Reserve, Dispatch, Send, custodyVars
<1>4. CASE Stumble(w) \/ Settle(w) \/ Doubt(w) \/ Reread(w)
  BY <1>4, StillStaged DEF Stumble, Settle, Doubt, Reread, custodyVars
<1>5. CASE Account(w)
  BY <1>5, StillStaged DEF Account, custodyVars
<1>6. CASE Snapshot(w)
  <2>1. job[w] \in Ops /\ capture[job[w]] # None
    BY <1>6, Busy DEF Snapshot, Typed, Placed, Answered
  <2>2. capture[job[w]].kind \in {"accepted", "failed"}
    BY <2>1 DEF Typed, TypeOK, Answers
  <2> QED BY <1>6, <2>2, StillStaged DEF Snapshot, custodyVars
<1>7. CASE Publish(w)
  BY <1>7, StillStaged DEF Publish
<1>8. CASE Refuse(w) \/ Return(w) \/ ReturnFailure(w) \/ ReturnAgain(w) \/ Fail(w) \/ FailRefused(w) \/ GiveUp(w) \/ Crash(w)
  BY <1>8, RestStaged DEF Refuse, Return, ReturnFailure, ReturnAgain, Fail, FailRefused, Report, GiveUp, Crash
<1> QED BY <1>1, <1>2, <1>3, <1>4, <1>5, <1>6, <1>7, <1>8, AdvanceStaged, CaptureStaged DEF Work, Before, After

LEMMA NextStaged == Typed /\ Staged /\ [Next]_vars => Staged'
<1> SUFFICES ASSUME Typed, Staged, [Next]_vars PROVE Staged'
  OBVIOUS
<1>1. CASE \E w \in Workers : Work(w) \/ Crash(w)
  <2>1. PICK w \in Workers : StepStages(w)
    BY <1>1, WorkStaged
  <2>2. \A v \in Workers : StagedBy(v)'
    BY <2>1, StagedElsewhere DEF StepStages, Staged
  <2> QED BY <2>1, <2>2 DEF StepStages, Staged
<1>2. CASE \E w \in Workers, o \in Ops : Claim(w, o)
  BY <1>2 DEF Claim, Goto, Typed, TypeOK, Staged, Branched, StagedBy, Publishable, At, Started, Keeping, custodyVars
<1>3. CASE UNCHANGED <<custodyVars, workerVars>>
  BY <1>3 DEF Staged, Branched, StagedBy, Publishable, At, custodyVars, workerVars
<1> QED
  BY <1>1, <1>2, <1>3 DEF Next, Expire, Cancel, Retry, Reconcile, vars

LEMMA AlwaysStaged == Spec => []Staged
BY InitStaged, NextStaged, AlwaysTyped, PTL DEF Spec

----------------------------------------------------------------------------
(* The rows of an operation, and what its holder knows of them *)

Row(o) ==
  /\ status[o] # "running" => lease[o] = None
  /\ status[o] = "refused" => capture[o] = None /\ attempt[o].state \in {"uncertain", "settled"}
  /\ result[o] # None =>
       /\ capture[o] # None /\ result[o].kind = capture[o].kind
       /\ \/ result[o].call.state = "settled" /\ attempt[o] = result[o].call
          \/ /\ result[o].call = Due(capture[o]) /\ capture[o].cost = None
             /\ attempt[o] = result[o].call \/ attempt[o].state = "settled"

\* What the accounts say of an answer that was booked.
Accounted(o) ==
  \/ attempt[o].state = "settled"
  \/ attempt[o] = Due(capture[o]) /\ capture[o].cost = None

\* What a worker may conclude from its place, as long as it has the lease.
HeldBy(w) ==
  LET o == job[w] IN
  Holds(w) =>
    /\ pc[w] \in Unanswered => capture[o] = None
    /\ pc[w] \in {"mark", "refuse"} => ~Unsent(attempt[o])
    /\ At(w, "refuse") => attempt[o].state \in {"uncertain", "settled"}
    /\ pc[w] \notin {"recover", "return"} => result[o] = None
    /\ pc[w] \in {"snapshot", "prepare", "complete", "publish"} => Accounted(o)
    /\ pc[w] \in {"prepare", "complete", "publish"} => call[w] = attempt[o]

Rows == \A o \in Ops : Row(o)
Held == \A w \in Workers : HeldBy(w)

SameRow(o) ==
  /\ status'[o] = status[o] /\ lease'[o] = lease[o]
  /\ attempt'[o] = attempt[o] /\ capture'[o] = capture[o] /\ result'[o] = result[o]

\* A worker changes the rows of its own operation only, and those with the lease.
Local(w) ==
  /\ \A o \in Ops : (Holds(w) => o # job[w]) => SameRow(o)
  /\ Holds(w) => lease'[job[w]] \in {w, None}
  /\ \A v \in Workers \ {w} : pc'[v] = pc[v] /\ job'[v] = job[v] /\ call'[v] = call[v]

\* The rows of its own operation stay as they should be.
OwnRow(w) == \A o \in Ops : Holds(w) /\ o = job[w] => Row(o)'

LEMMA InitRows == Init => Rows /\ Held
BY DEF Init, Rows, Row, Held, HeldBy, Holds, NoAttempt

LEMMA LocalRows ==
  ASSUME Typed, Rows, NEW w \in Workers, Local(w), OwnRow(w)
  PROVE  Rows'
<1> SUFFICES ASSUME NEW o \in Ops PROVE Row(o)'
  BY DEF Rows
<1>1. CASE SameRow(o)
  BY <1>1 DEF SameRow, Rows, Row, Due
<1>2. CASE Holds(w) /\ o = job[w]
  BY <1>2 DEF OwnRow
<1> QED BY <1>1, <1>2 DEF Local

LEMMA LocalHeld ==
  ASSUME Typed, Held, NEW w \in Workers, Local(w), HeldBy(w)'
  PROVE  Held'
<1> SUFFICES ASSUME NEW v \in Workers, v # w, Holds(v)' PROVE HeldBy(v)'
  BY DEF Held, HeldBy
<1>1. job'[v] = job[v] /\ pc'[v] = pc[v] /\ call'[v] = call[v] /\ job[v] \in Ops
  BY DEF Local, Holds, Typed, TypeOK
<1>2. SameRow(job[v])
  <2>1. CASE Holds(w) /\ job[v] = job[w]
    BY <1>1, <2>1, NoneAssumption DEF Local, Holds
  <2>2. CASE Holds(w) => job[v] # job[w]
    BY <1>1, <2>2 DEF Local
  <2> QED BY <2>1, <2>2
<1>3. Holds(v)
  BY <1>1, <1>2 DEF Holds, SameRow
<1> QED BY <1>1, <1>2, <1>3 DEF Held, HeldBy, Accounted, Holds, SameRow, At, Unsent, Due

\* The steps that read, or only move on.
LEMMA Unchanging ==
  ASSUME Typed, Rows, NEW w \in Workers, UNCHANGED <<ledgerVars, attempt, capture, result, job>>, NEW place,
         Goto(w, place), \A v \in Workers \ {w} : call'[v] = call[v]
  PROVE  /\ Local(w)
         /\ OwnRow(w)
         /\ pc'[w] = place
         /\ Holds(w)' => Holds(w) /\ job[w] \in Ops
<1>1. Local(w) /\ pc'[w] = place /\ (Holds(w)' => Holds(w)) /\ (Holds(w) => job[w] \in Ops)
  BY DEF Local, SameRow, Goto, Holds, Typed, TypeOK, ledgerVars
<1>2. OwnRow(w)
  BY DEF OwnRow, Rows, Row, Due, ledgerVars
<1> QED BY <1>1, <1>2

\* What is to be shown of each step.
Fine(w) == Local(w) /\ OwnRow(w) /\ HeldBy(w)'

LEMMA ReadingFine ==
  ASSUME Typed, Rows, Held, NEW w \in Workers,
         Recover(w) \/ Look(w) \/ Send(w) \/ Stumble(w) \/ Reread(w) \/ Snapshot(w)
  PROVE  Fine(w)
<1> USE Unchanging DEF Fine, HeldBy, Accounted, Held, Works, At, Unanswered, accountVars, custodyVars, ledgerVars
<1>1. CASE Recover(w)
  BY <1>1 DEF Recover
<1>2. CASE Look(w)
  BY <1>2 DEF Look, Found
<1>3. CASE Send(w)
  BY <1>3 DEF Send
<1>4. CASE Stumble(w)
  BY <1>4 DEF Stumble
<1>5. CASE Reread(w)
  BY <1>5 DEF Reread
<1>6. CASE Snapshot(w)
  <2>1. call'[w] = attempt[job[w]] /\ \A v \in Workers \ {w} : call'[v] = call[v]
    BY <1>6 DEF Snapshot, Typed, TypeOK
  <2> QED BY <1>6, <2>1 DEF Snapshot
<1> QED BY <1>1, <1>2, <1>3, <1>4, <1>5, <1>6

LEMMA AdvanceFine ==
  ASSUME Typed, Rows, Held, NEW w \in Workers,
         Bind(w) \/ Initialize(w) \/ Retain(w) \/ Prepare(w) \/ Complete(w)
  PROVE  Fine(w)
<1> USE Unchanging DEF Advance, Fine, HeldBy, Accounted, Held, Works, At, Unanswered, accountVars, ledgerVars
<1>1. CASE Bind(w)
  BY <1>1 DEF Bind
<1>2. CASE Initialize(w)
  BY <1>2 DEF Initialize
<1>3. CASE Retain(w)
  BY <1>3 DEF Retain
<1>4. CASE Prepare(w)
  BY <1>4 DEF Prepare
<1>5. CASE Complete(w)
  BY <1>5 DEF Complete
<1> QED BY <1>1, <1>2, <1>3, <1>4, <1>5

\* The steps that write the attempt, or the answer, or the result.
LEMMA Writing ==
  ASSUME Typed, NEW w \in Workers, Holds(w), UNCHANGED <<ledgerVars, job, call>>, NEW place, Goto(w, place),
         \A o \in Ops \ {job[w]} : attempt'[o] = attempt[o] /\ capture'[o] = capture[o] /\ result'[o] = result[o]
  PROVE  /\ Local(w)
         /\ pc'[w] = place
         /\ Holds(w)'
         /\ job[w] \in Ops
BY DEF Local, SameRow, Goto, Holds, Typed, TypeOK, ledgerVars

LEMMA MarkFine ==
  ASSUME Typed, Counted, Rows, Held, NEW w \in Workers,
         MarkLost(w) \/ Reserve(w) \/ Dispatch(w) \/ Doubt(w)
  PROVE  Fine(w)
<1> DEFINE o == job[w]
<1>1. Holds(w) /\ o \in Ops /\ status[o] = "running"
  BY Busy DEF MarkLost, Reserve, Dispatch, Doubt, Works, At, Holds
<1>2. Row(o) /\ HeldBy(w) /\ attempt \in [Ops -> Attempts]
  BY <1>1 DEF Rows, Held, Typed, TypeOK
<1>3. UNCHANGED <<ledgerVars, job, call>> /\ UNCHANGED custodyVars
  BY DEF MarkLost, Reserve, Dispatch, Doubt
<1>4. \A p \in Ops \ {o} : attempt'[p] = attempt[p]
  BY <1>2 DEF MarkLost, Reserve, Dispatch, Doubt, Mark, accountVars
<1>5. \A place : Goto(w, place) => Local(w) /\ pc'[w] = place /\ Holds(w)'
  BY <1>1, <1>3, <1>4, Writing DEF custodyVars
<1>6. result[o] = None /\ result'[o] = None /\ capture'[o] = capture[o] /\ status'[o] = "running"
  BY <1>1, <1>2, <1>3 DEF MarkLost, Reserve, Dispatch, Doubt, HeldBy, Works, At, custodyVars, ledgerVars
<1>7. CASE MarkLost(w)
  <2>1. capture[o] = None /\ ~Unsent(attempt[o])
    BY <1>1, <1>2, <1>7 DEF MarkLost, Works, At, HeldBy, Unanswered
  <2>2. attempt[o].state \in {"dispatched", "uncertain", "settled"}
    BY <1>1, <1>2, <2>1 DEF Unsent, Attempts
  <2>3. attempt'[o].state \in {"uncertain", "settled"}
    BY <1>1, <1>2, <1>7, <2>2 DEF MarkLost, Mark
  <2>4. pc'[w] = "refuse" /\ Local(w)
    BY <1>5, <1>7 DEF MarkLost
  <2> QED BY <1>1, <1>3, <1>6, <2>1, <2>3, <2>4
          DEF Fine, OwnRow, Row, HeldBy, Holds, At, Unsent, Unanswered, custodyVars, ledgerVars
<1>8. CASE Reserve(w)
  <2>1. attempt'[o] = attempt[o] \/ attempt'[o].state = "reserved"
    BY <1>1, <1>2, <1>8 DEF Reserve, Mark, accountVars
  <2>2. pc'[w] = "dispatch" /\ Local(w) /\ capture[o] = None
    BY <1>1, <1>2, <1>5, <1>8 DEF Reserve, Works, At, HeldBy, Unanswered
  <2> QED BY <1>1, <1>2, <1>3, <1>6, <2>1, <2>2
          DEF Fine, OwnRow, Row, HeldBy, Holds, At, Unanswered, custodyVars, ledgerVars
<1>9. CASE Dispatch(w)
  <2>1. attempt'[o].state = "dispatched"
    BY <1>1, <1>2, <1>9 DEF Dispatch, Mark
  <2>2. pc'[w] = "send" /\ Local(w) /\ capture[o] = None
    BY <1>1, <1>2, <1>5, <1>9 DEF Dispatch, Works, At, HeldBy, Unanswered
  <2> QED BY <1>1, <1>3, <1>6, <2>1, <2>2
          DEF Fine, OwnRow, Row, HeldBy, Holds, At, Unanswered, custodyVars, ledgerVars
<1>10. CASE Doubt(w)
  <2>1. attempt'[o].state = "uncertain"
    BY <1>1, <1>2, <1>10 DEF Doubt, Mark
  <2>2. pc'[w] = "reread" /\ Local(w)
    BY <1>5, <1>10 DEF Doubt
  <2> QED BY <1>1, <1>3, <1>6, <2>1, <2>2
          DEF Fine, OwnRow, Row, HeldBy, Holds, At, Unanswered, custodyVars, ledgerVars
<1> QED BY <1>7, <1>8, <1>9, <1>10

LEMMA CaptureFine ==
  ASSUME Typed, Rows, Held, NEW w \in Workers, Capture(w)
  PROVE  Fine(w)
<1> DEFINE o == job[w]
<1>1. Holds(w) /\ o \in Ops /\ status[o] = "running" /\ pc[w] = "answer" /\ capture[o] = None
  BY Busy DEF Capture, Works, At, Holds
<1>2. Row(o) /\ HeldBy(w)
  BY <1>1 DEF Rows, Held
<1>3. result[o] = None
  BY <1>1, <1>2 DEF HeldBy
<1>4. UNCHANGED <<ledgerVars, job, call, attempt, result>> /\ \A p \in Ops \ {o} : capture'[p] = capture[p]
  BY DEF Capture, Typed, TypeOK, accountVars
<1>5. Local(w) /\ pc'[w] \in {"settle", "doubt"}
  BY <1>1, <1>4, Writing DEF Capture
<1> QED BY <1>1, <1>3, <1>4, <1>5 DEF Fine, OwnRow, Row, HeldBy, Holds, At, Unanswered, ledgerVars

LEMMA BookFine ==
  ASSUME Typed, Rows, Held, NEW w \in Workers, Settle(w) \/ Account(w)
  PROVE  Fine(w)
<1> DEFINE o == job[w]
<1>1. Holds(w) /\ o \in Ops /\ status[o] = "running" /\ capture[o] # None /\ pc[w] \in {"settle", "account"}
  BY Busy DEF Settle, Account, Works, At, Holds, Typed, Placed, Answered
<1>2. Row(o) /\ HeldBy(w) /\ attempt \in [Ops -> Attempts]
  BY <1>1 DEF Rows, Held, Typed, TypeOK
<1>3. /\ \/ attempt'[o].state = "settled"
         \/ attempt'[o] = Due(capture[o]) /\ capture[o].cost = None
      /\ \A p \in Ops \ {o} : attempt'[p] = attempt[p]
  <2>1. CASE Book(o)
    <3>1. attempt' = [attempt EXCEPT ![o] = Due(capture[o])]
      BY <1>1, <2>1, Booking DEF Typed
    <3> QED BY <1>1, <1>2, <3>1 DEF Due
  <2>2. CASE UNCHANGED attempt /\ attempt[o].state = "settled"
    BY <1>1, <1>2, <2>2
  <2> QED BY <2>1, <2>2 DEF Settle, Account, accountVars
<1>4. UNCHANGED <<ledgerVars, job, call, capture, result>>
  BY DEF Settle, Account, custodyVars
<1>5. Local(w) /\ pc'[w] \in {"retain", "doubt", "snapshot"} /\ result[o] = None
  BY <1>1, <1>2, <1>3, <1>4, Writing DEF Settle, Account, HeldBy
<1> QED BY <1>1, <1>3, <1>4, <1>5 DEF Fine, OwnRow, Row, HeldBy, Accounted, Holds, At, Unanswered, Due, ledgerVars

LEMMA PublishFine ==
  ASSUME Typed, Rows, Held, NEW w \in Workers, Publish(w)
  PROVE  Fine(w)
<1> DEFINE o == job[w]
<1>1. Holds(w) /\ o \in Ops /\ status[o] = "running" /\ capture[o] # None /\ pc[w] = "publish"
  BY Busy DEF Publish, Works, At, Holds, Typed, Placed, Answered
<1>2. Row(o) /\ call[w] = attempt[o] /\ Accounted(o)
  BY <1>1 DEF Rows, Held, HeldBy
<1>3. result'[o] = Outcome(w) /\ \A p \in Ops \ {o} : result'[p] = result[p]
  BY <1>1 DEF Publish, Typed, TypeOK
<1>4. UNCHANGED <<ledgerVars, job, call, capture, attempt>>
  BY DEF Publish, accountVars
<1>5. Local(w) /\ pc'[w] = "return"
  BY <1>1, <1>3, <1>4, Writing DEF Publish
<1> QED BY <1>1, <1>2, <1>3, <1>4, <1>5 DEF Fine, OwnRow, Row, HeldBy, Holds, Outcome, Accounted, At, Unanswered, Due, ledgerVars

LEMMA ReportFine ==
  ASSUME Typed, Rows, Held, NEW w \in Workers, NEW s, Holds(w), Report(w, s), s # "refused" \/ pc[w] = "refuse"
  PROVE  Fine(w)
<1> DEFINE o == job[w]
<1>1. o \in Ops /\ status[o] = "running" /\ Row(o) /\ HeldBy(w)
  BY DEF Holds, Typed, TypeOK, Rows, Held
<1>2. UNCHANGED <<attempt, capture, result>> /\ status'[o] = s /\ lease'[o] = None /\ job'[w] = None
  BY <1>1 DEF Report, Rest, Typed, TypeOK, accountVars, custodyVars
<1>3. /\ \A p \in Ops \ {o} : status'[p] = status[p] /\ lease'[p] = lease[p]
      /\ \A v \in Workers \ {w} : pc'[v] = pc[v] /\ job'[v] = job[v] /\ call'[v] = call[v]
  BY DEF Report, Rest, Goto, Typed, TypeOK
<1>4. Local(w)
  BY <1>2, <1>3 DEF Local, SameRow
<1>5. HeldBy(w)'
  BY <1>2 DEF HeldBy, Holds
<1>6. s = "refused" => capture[o] = None /\ attempt[o].state \in {"uncertain", "settled"}
  BY <1>1 DEF HeldBy, At, Unanswered
<1>7. ASSUME NEW p \in Ops, p = o PROVE Row(p)'
  BY <1>1, <1>2, <1>6, <1>7 DEF Row, Due
<1> QED BY <1>4, <1>5, <1>7 DEF Fine, OwnRow

LEMMA RestFine ==
  ASSUME Typed, Rows, NEW w \in Workers, Rest(w), UNCHANGED <<ledgerVars, accountVars, custodyVars>>
  PROVE  Fine(w)
<1>1. job'[w] = None /\ Local(w)
  BY DEF Rest, Goto, Typed, TypeOK, Local, SameRow, Holds, ledgerVars, accountVars, custodyVars
<1>2. HeldBy(w)'
  BY <1>1 DEF HeldBy, Holds
<1>3. OwnRow(w)
  BY DEF OwnRow, Rows, Row, Due, ledgerVars, accountVars, custodyVars
<1> QED BY <1>1, <1>2, <1>3 DEF Fine

LEMMA WorkFine ==
  ASSUME Typed, Counted, Rows, Held, NEW w \in Workers, Work(w) \/ Crash(w)
  PROVE  Fine(w)
<1>1. CASE Refuse(w) \/ Return(w) \/ ReturnFailure(w)
  BY <1>1, ReportFine DEF Refuse, Return, ReturnFailure, Works, At
<1>2. CASE Fail(w)
  BY <1>2, ReportFine DEF Fail
<1>3. CASE ReturnAgain(w) \/ FailRefused(w) \/ GiveUp(w) \/ Crash(w)
  BY <1>3, RestFine DEF ReturnAgain, FailRefused, GiveUp, Crash
<1> QED
  BY <1>1, <1>2, <1>3, ReadingFine, AdvanceFine, MarkFine, CaptureFine, BookFine, PublishFine DEF Work, Before, After

LEMMA ClaimHeld ==
  ASSUME Typed, Rows, Held, NEW w \in Workers, NEW o \in Ops, Claim(w, o)
  PROVE  Rows' /\ Held'
<1>1. Rows'
  BY DEF Claim, Rows, Row, Due, Typed, TypeOK, accountVars, custodyVars
<1>2. ASSUME NEW v \in Workers, Holds(v)' PROVE HeldBy(v)'
  <2>1. UNCHANGED <<status, attempt, capture, result, call>>
    BY DEF Claim, accountVars, custodyVars
  <2>2. CASE v = w
    <3>1. pc'[w] = "recover"
      BY DEF Claim, Goto, Typed, TypeOK
    <3> QED BY <2>2, <3>1 DEF HeldBy, At, Unanswered
  <2>3. CASE v # w
    <3>1. pc'[v] = pc[v] /\ job'[v] = job[v] /\ job[v] \in Ops /\ lease'[job[v]] = v
      BY <1>2, <2>3 DEF Claim, Goto, Holds, Typed, TypeOK
    <3>2. job[v] # o /\ Holds(v)
      BY <1>2, <2>1, <2>3, <3>1 DEF Claim, Holds, Typed, TypeOK
    <3> QED BY <2>1, <3>1, <3>2 DEF Held, HeldBy, Accounted, At, Unsent, Due
  <2> QED BY <2>2, <2>3
<1> QED BY <1>1, <1>2 DEF Held, HeldBy

LEMMA OutsideHeld ==
  ASSUME Typed, Rows, Held, NEW o \in Ops, Expire(o) \/ Cancel(o) \/ Retry(o) \/ \E cost \in Costs : Reconcile(o, cost)
  PROVE  Rows' /\ Held'
<1>1. CASE Expire(o) \/ Cancel(o)
  <2>1. UNCHANGED <<attempt, capture, result, pc, job, call>>
    BY <1>1 DEF Expire, Cancel, accountVars, custodyVars, workerVars
  <2>2. \A p \in Ops : status'[p] = status[p] \/ status'[p] = "cancelled"
    BY <1>1 DEF Expire, Cancel, Typed, TypeOK
  <2>3. \A v \in Workers : Holds(v)' => Holds(v)
    BY <1>1, <2>1, NoneAssumption DEF Expire, Cancel, Holds, Typed, TypeOK
  <2>4. \A p \in Ops : status'[p] # "running" => lease'[p] = None
    BY <1>1 DEF Rows, Row, Expire, Cancel, Typed, TypeOK
  <2>5. Rows'
    BY <2>1, <2>2, <2>4 DEF Rows, Row, Due
  <2>6. Held'
    BY <2>1, <2>3 DEF Held, HeldBy, Accounted, At, Unsent, Due
  <2> QED BY <2>5, <2>6
<1>2. CASE \E cost \in Costs : Reconcile(o, cost)
  <2>1. UNCHANGED <<status, lease, capture, result, pc, job, call>> /\ status[o] # "running"
    BY <1>2 DEF Reconcile, ledgerVars, custodyVars, workerVars
  <2>2. /\ attempt[o].state \in {"dispatched", "uncertain"}
        /\ attempt'[o].state = "settled"
        /\ \A p \in Ops \ {o} : attempt'[p] = attempt[p]
    BY <1>2 DEF Reconcile, Charge, Typed, TypeOK
  <2>3. ASSUME NEW p \in Ops PROVE Row(p)'
    <3>1. CASE p # o
      BY <2>1, <2>2, <3>1 DEF Rows, Row, Due
    <3>2. CASE p = o
      BY <2>1, <2>2, <3>2 DEF Rows, Row, Due
    <3> QED BY <3>1, <3>2
  <2>4. ASSUME NEW v \in Workers, Holds(v)' PROVE HeldBy(v)'
    <3>1. Holds(v) /\ job[v] \in Ops /\ job[v] # o
      BY <2>1, <2>4 DEF Holds, Typed, TypeOK
    <3> QED BY <2>1, <2>2, <3>1 DEF Held, HeldBy, Accounted, At, Unsent, Due
  <2> QED BY <2>3, <2>4 DEF Rows, Held, HeldBy, Accounted
<1>3. CASE Retry(o)
  <2>1. UNCHANGED <<lease, attempt, capture, result, pc, job, call>> /\ lease[o] = None
    BY <1>3 DEF Retry, Rows, Row, accountVars, custodyVars, workerVars
  <2>2. \A p \in Ops : status'[p] = status[p] \/ (p = o /\ status'[p] = "running")
    BY <1>3 DEF Retry, Typed, TypeOK
  <2>3. \A v \in Workers : Holds(v)' => Holds(v)
    BY <2>1, <2>2, NoneAssumption DEF Holds, Typed, TypeOK
  <2>4. Rows'
    BY <2>1, <2>2 DEF Rows, Row, Due
  <2>5. Held'
    BY <2>1, <2>3 DEF Held, HeldBy, Accounted, At, Unsent, Due
  <2> QED BY <2>4, <2>5
<1> QED BY <1>1, <1>2, <1>3

LEMMA NextHeld == Typed /\ Counted /\ Rows /\ Held /\ [Next]_vars => Rows' /\ Held'
<1> SUFFICES ASSUME Typed, Counted, Rows, Held, [Next]_vars PROVE Rows' /\ Held'
  OBVIOUS
<1>1. CASE UNCHANGED vars
  BY <1>1 DEF Rows, Row, Held, HeldBy, Accounted, Holds, At, Unsent, Due, vars, ledgerVars, accountVars, custodyVars, workerVars
<1>2. CASE \E w \in Workers : Work(w) \/ Crash(w)
  BY <1>2, WorkFine, LocalRows, LocalHeld DEF Fine
<1>3. CASE \E w \in Workers, o \in Ops : Claim(w, o)
  BY <1>3, ClaimHeld
<1>4. CASE \E o \in Ops : Expire(o) \/ Cancel(o) \/ Retry(o) \/ \E cost \in Costs : Reconcile(o, cost)
  BY <1>4, OutsideHeld
<1> QED BY <1>1, <1>2, <1>3, <1>4 DEF Next

LEMMA AlwaysHeld == Spec => [](Rows /\ Held)
BY InitRows, NextHeld, AlwaysTyped, AlwaysCounted, PTL DEF Spec

\* What was refused for want of an answer never gets one: the worker that made
\* the call and lost its lease cannot file what it hears.
THEOREM RefusedStaysUnanswered == Spec => []RefusedIsUnanswered
<1>1. Rows => RefusedIsUnanswered
  BY DEF Rows, Row, RefusedIsUnanswered
<1> QED BY <1>1, AlwaysHeld, PTL

\* The accounts, the captured answer and the published result agree, whichever
\* worker booked the call and whichever published.
THEOREM PublicationsAgree == Spec => []PublishedMatchesLedger
<1>1. Rows => PublishedMatchesLedger
  BY DEF Rows, Row, PublishedMatchesLedger
<1> QED BY <1>1, AlwaysHeld, PTL

\* An answer that was captured is never asked for again nor refused, and the
\* worker that carries it on can publish it.
THEOREM AnswersTakenUp == Spec => []AnswerIsTakenUp
<1>1. Typed /\ Staged /\ Held => AnswerIsTakenUp
  BY DEF Typed, Staged, StagedBy, Held, HeldBy, AnswerIsTakenUp, Unanswered, At
<1> QED BY <1>1, AlwaysTyped, AlwaysStaged, AlwaysHeld, PTL

----------------------------------------------------------------------------
(* The calls of the operations, seen from outside *)

\* An answer that is kept or awaited was asked for, and a worker that reports has
\* a published result.
Asked ==
  /\ \A o \in Ops : capture[o] # None => sent[o] = 1
  /\ \A w \in Workers : At(w, "answer") => sent[job[w]] = 1
  /\ \A w \in Workers : At(w, "return") => result[job[w]] # None

\* Requests and results stay, and a worker gets to either place by having one.
Onward ==
  /\ \A o \in Ops :
       /\ sent[o] = 1 => sent'[o] = 1
       /\ result[o] # None => result'[o] # None
       /\ capture'[o] # None => capture[o] # None \/ sent[o] = 1
  /\ \A w \in Workers :
       /\ pc'[w] = "answer" => job'[w] = job[w] /\ (pc[w] = "answer" \/ sent'[job[w]] = 1)
       /\ pc'[w] = "return" => job'[w] = job[w] /\ (pc[w] = "return" \/ result'[job[w]] # None)

LEMMA InitAsked == Init => Asked
BY DEF Init, Asked, At

LEMMA OnwardAsked ==
  ASSUME Typed, Asked, Onward
  PROVE  Asked'
<1>1. \A o \in Ops : capture'[o] # None => sent'[o] = 1
  BY DEF Asked, Onward
<1>2. ASSUME NEW w \in Workers, pc'[w] = "answer" PROVE sent'[job'[w]] = 1
  BY <1>2, Busy DEF Asked, Onward, At
<1>3. ASSUME NEW w \in Workers, pc'[w] = "return" PROVE result'[job'[w]] # None
  BY <1>3, Busy DEF Asked, Onward, At
<1> QED BY <1>1, <1>2, <1>3 DEF Asked, At

LEMMA OutcomeType ==
  ASSUME Typed, NEW w \in Workers, At(w, "publish")
  PROVE  Outcome(w) \in Results /\ Outcome(w) # None
<1>1. job[w] \in Ops /\ capture[job[w]] # None
  BY Busy DEF At, Typed, Placed, Answered
<1>2. capture[job[w]].kind \in {"accepted", "failed"} /\ call[w] \in Attempts
  BY <1>1 DEF Typed, TypeOK, Answers
<1> QED BY <1>2, NoneAssumption DEF Outcome, Results

LEMMA WorkOnward ==
  ASSUME Typed, Counted, Asked, NEW w \in Workers, Work(w) \/ Crash(w)
  PROVE  Onward
<1> USE DEF Works, At, Goto, Typed, TypeOK, Onward
<1>1. CASE Recover(w)
  BY <1>1, Busy DEF Recover, custodyVars
<1>2. CASE Bind(w) \/ Initialize(w) \/ Retain(w) \/ Prepare(w) \/ Complete(w)
  BY <1>2 DEF Bind, Initialize, Retain, Prepare, Complete, Advance
<1>3. CASE Look(w) \/ Stumble(w) \/ Reread(w) \/ Snapshot(w)
  BY <1>3 DEF Look, Found, Stumble, Reread, Snapshot, custodyVars
<1>4. CASE MarkLost(w) \/ Reserve(w) \/ Dispatch(w) \/ Settle(w) \/ Doubt(w) \/ Account(w)
  BY <1>4 DEF MarkLost, Reserve, Dispatch, Settle, Doubt, Account, custodyVars
<1>5. CASE Send(w)
  <2>1. job[w] \in Ops /\ sent[job[w]] = 0
    BY <1>5, Busy DEF Send, Counted
  <2> QED BY <1>5, <2>1 DEF Send, custodyVars
<1>6. CASE Capture(w)
  <2>1. job[w] \in Ops /\ sent[job[w]] = 1
    BY <1>6, Busy DEF Capture, Asked
  <2>2. UNCHANGED <<sent, result, job>> /\ \A o \in Ops \ {job[w]} : capture'[o] = capture[o]
    BY <1>6 DEF Capture
  <2>3. pc'[w] \in {"settle", "doubt"} /\ \A v \in Workers \ {w} : pc'[v] = pc[v]
    BY <1>6 DEF Capture
  <2> QED BY <2>1, <2>2, <2>3
<1>7. CASE Publish(w)
  <2>1. job[w] \in Ops /\ Outcome(w) # None
    BY <1>7, Busy, OutcomeType DEF Publish
  <2> QED BY <1>7, <2>1 DEF Publish
<1>8. CASE Refuse(w) \/ Return(w) \/ ReturnFailure(w) \/ ReturnAgain(w) \/ Fail(w) \/ FailRefused(w) \/ GiveUp(w) \/ Crash(w)
  <2>1. Rest(w) /\ UNCHANGED <<custodyVars, sent>>
    BY <1>8 DEF Refuse, Return, ReturnFailure, ReturnAgain, Fail, FailRefused, Report, GiveUp, Crash
  <2> QED BY <2>1 DEF Rest, custodyVars
<1> QED BY <1>1, <1>2, <1>3, <1>4, <1>5, <1>6, <1>7, <1>8 DEF Work, Before, After

LEMMA NextAsked == Typed /\ Counted /\ Asked /\ [Next]_vars => Asked'
<1> SUFFICES ASSUME Typed, Counted, Asked, [Next]_vars PROVE Asked'
  OBVIOUS
<1>1. CASE \E w \in Workers : Work(w) \/ Crash(w)
  BY <1>1, WorkOnward, OnwardAsked
<1>2. CASE \E w \in Workers, o \in Ops : Claim(w, o)
  <2>1. Onward
    BY <1>2 DEF Claim, At, Goto, Typed, TypeOK, Onward, custodyVars
  <2> QED BY <2>1, OnwardAsked
<1>3. CASE UNCHANGED <<custodyVars, sent, workerVars>>
  BY <1>3 DEF Asked, At, custodyVars, workerVars
<1> QED BY <1>1, <1>2, <1>3 DEF Next, Expire, Cancel, Retry, Reconcile, vars

LEMMA AlwaysAsked == Spec => []Asked
BY InitAsked, NextAsked, AlwaysTyped, AlwaysCounted, PTL DEF Spec

LEMMA StatedType ==
  ASSUME Typed, NEW o \in Ops, result[o] # None
  PROVE  Stated[o] \in Statements /\ Stated[o] # None
<1>1. result[o].kind \in {"accepted", "failed"} /\ result[o].call.cost \in Nat \cup {None}
  BY DEF Typed, TypeOK, Results, Attempts
<1>2. Stated[o] = [kind |-> result[o].kind, cost |-> result[o].call.cost]
  BY DEF Stated
<1>3. Stated[o] \in Statements
  BY <1>1, <1>2 DEF Statements
<1> QED BY <1>3, NoneAssumption

\* A step that leaves the charges alone too is not seen.
LEMMA StepHidden ==
  ASSUME UNCHANGED <<status, sent, capture, result>>, \A o \in Ops : attempt'[o].cost = attempt[o].cost
  PROVE  Calls!Next
BY DEF Calls!Next, Calls!Hidden, Calls!vars, Charges, Stated

\* An open attempt has no charge yet, and gets the one booked.
LEMMA StepCharges ==
  ASSUME Typed, NEW o \in Ops, NEW cost \in Costs, Charge(o, cost), UNCHANGED <<status, sent, capture, result>>,
         attempt[o].state \in {"dispatched", "uncertain"},
         \/ status[o] = "running" /\ capture[o] # None /\ capture[o].cost = cost
         \/ status[o] # "running"
  PROVE  Calls!Next
<1>1. attempt[o].cost = None /\ attempt' = [attempt EXCEPT ![o] = [state |-> "settled", cost |-> cost]]
  BY DEF Charge, Typed, TypeOK, Attempts
<1>2. Charges[o] = None /\ Charges' = [Charges EXCEPT ![o] = cost]
  BY <1>1 DEF Charges, Typed, TypeOK
<1>3. Stated' = Stated
  BY DEF Stated
<1> QED BY <1>2, <1>3 DEF Calls!Next, Calls!Charge

LEMMA StepReports ==
  ASSUME Typed, NEW o \in Ops, NEW end, status[o] = "running", status' = [status EXCEPT ![o] = end],
         UNCHANGED <<accountVars, custodyVars, sent>>,
         \/ end \in {"running", "failed", "cancelled"}
         \/ end = "succeeded" /\ result[o] # None /\ result[o].kind = "accepted"
         \/ end = "refused" /\ capture[o] = None
  PROVE  Calls!Next
<1>1. Charges' = Charges /\ Stated' = Stated
  BY DEF Charges, Stated, accountVars, custodyVars
<1>2. CASE end = "running"
  <2>1. status' = status
    BY <1>2 DEF Typed, TypeOK
  <2> QED BY <2>1, StepHidden DEF accountVars, custodyVars
<1>3. CASE end # "running"
  <2>1. end \in {"succeeded", "failed", "refused", "cancelled"}
    BY <1>3
  <2>2. result[o] # None => Stated[o].kind = result[o].kind /\ Stated[o] # None
    BY StatedType DEF Stated
  <2>3. Calls!MayEnd(o, end)
    BY <1>3, <2>2 DEF Calls!MayEnd
  <2> QED BY <1>1, <2>1, <2>3 DEF Calls!Next, Calls!End, custodyVars
<1> QED BY <1>2, <1>3

LEMMA BeforeIsCall ==
  ASSUME Typed, Counted, Held, NEW w \in Workers, Before(w)
  PROVE  Calls!Next
<1> DEFINE o == job[w]
<1> USE DEF Works, At
<1>1. o \in Ops
  BY Busy DEF Before, Recover, Bind, Initialize, Advance, Look, MarkLost, Refuse, Reserve, Dispatch, Send
<1>2. CASE Recover(w) \/ Bind(w) \/ Initialize(w) \/ Look(w)
  BY <1>2, StepHidden DEF Recover, Bind, Initialize, Advance, Look, ledgerVars, accountVars, custodyVars
<1>3. CASE MarkLost(w) \/ Reserve(w) \/ Dispatch(w)
  <2>1. \A p \in Ops : attempt'[p].cost = attempt[p].cost
    BY <1>1, <1>3 DEF MarkLost, Reserve, Dispatch, Mark, Typed, TypeOK, Attempts, accountVars
  <2> QED BY <1>3, <2>1, StepHidden DEF MarkLost, Reserve, Dispatch, ledgerVars, custodyVars
<1>4. CASE Refuse(w)
  <2>1. status[o] = "running" /\ capture[o] = None
    BY <1>4 DEF Refuse, Held, HeldBy, Holds, Unanswered
  <2> QED BY <1>1, <1>4, <2>1, StepReports DEF Refuse, Report
<1>5. CASE Send(w)
  <2>1. sent[o] = 0
    BY <1>5 DEF Send, Counted
  <2>2. sent' = [sent EXCEPT ![o] = 1]
    BY <1>5, <2>1 DEF Send
  <2>3. UNCHANGED <<status, capture>> /\ Charges' = Charges /\ Stated' = Stated
    BY <1>5 DEF Send, Charges, Stated, ledgerVars, accountVars, custodyVars
  <2> QED BY <1>1, <2>1, <2>2, <2>3 DEF Calls!Next, Calls!Ask
<1> QED BY <1>2, <1>3, <1>4, <1>5 DEF Before

LEMMA BookIsCall ==
  ASSUME Typed, NEW w \in Workers, Settle(w) \/ Account(w)
  PROVE  Calls!Next
<1> DEFINE o == job[w]
<1>1. o \in Ops /\ status[o] = "running" /\ capture[o] # None
  BY Busy DEF Settle, Account, Works, At, Holds, Typed, Placed, Answered
<1>2. UNCHANGED <<status, sent, capture, result>>
  BY DEF Settle, Account, ledgerVars, custodyVars
<1>3. CASE UNCHANGED attempt
  BY <1>2, <1>3, StepHidden
<1>4. CASE Book(o) /\ attempt[o].state \in {"dispatched", "uncertain"}
  <2>1. capture[o].cost \in Costs \cup {None}
    BY <1>1 DEF Typed, TypeOK, Answers
  <2>2. CASE capture[o].cost # None
    BY <1>1, <1>2, <1>4, <2>1, <2>2, StepCharges DEF Book
  <2>3. CASE capture[o].cost = None
    <3>1. \A p \in Ops : attempt'[p].cost = attempt[p].cost
      BY <1>1, <1>4, <2>3 DEF Book, Mark, Typed, TypeOK, Attempts
    <3> QED BY <1>2, <3>1, StepHidden
  <2> QED BY <2>2, <2>3
<1> QED BY <1>3, <1>4 DEF Settle, Account, Made, accountVars

LEMMA CaptureIsCall ==
  ASSUME Typed, Asked, NEW w \in Workers, Capture(w)
  PROVE  Calls!Next
<1> DEFINE o == job[w]
<1>1. o \in Ops /\ status[o] = "running" /\ sent[o] = 1 /\ capture[o] = None
  BY Busy DEF Capture, Works, At, Holds, Asked
<1>2. \E answer \in Answers : capture' = [capture EXCEPT ![o] = answer]
  BY DEF Capture
<1>3. UNCHANGED <<status, sent>> /\ Charges' = Charges /\ Stated' = Stated
  BY DEF Capture, Charges, Stated, ledgerVars, accountVars
<1> QED BY <1>1, <1>2, <1>3 DEF Calls!Next, Calls!Receive

\* What a worker read of the attempt still is the charge when it publishes.
LEMMA PublishIsCall ==
  ASSUME Typed, Held, NEW w \in Workers, Publish(w)
  PROVE  Calls!Next
<1> DEFINE o == job[w]
<1>1. o \in Ops /\ status[o] = "running" /\ capture[o] # None /\ result[o] = None
  BY Busy DEF Publish, Works, At, Holds, Held, HeldBy, Typed, Placed, Answered
<1>2. call[w] = attempt[o] /\ Accounted(o)
  BY DEF Publish, Works, At, Held, HeldBy
<1>3. attempt[o].cost = None => capture[o].cost = None
  <2>1. attempt[o].state = "settled" => attempt[o].cost \in Nat
    BY <1>1 DEF Typed, TypeOK, Attempts
  <2> QED BY <1>2, <2>1, NoneAssumption DEF Accounted
<1>4. Outcome(w) # None /\ Outcome(w) = [kind |-> capture[o].kind, call |-> attempt[o]]
  BY <1>2, OutcomeType DEF Publish, Works, Outcome
<1>5. result' = [result EXCEPT ![o] = Outcome(w)] /\ result \in [Ops -> Results \cup {None}]
  BY DEF Publish, Typed, TypeOK
<1>6. /\ Stated[o] = None
      /\ Stated' = [Stated EXCEPT ![o] = [kind |-> capture[o].kind, cost |-> Charges[o]]]
  BY <1>1, <1>4, <1>5 DEF Stated, Charges
<1>7. UNCHANGED <<status, sent, capture>> /\ Charges' = Charges
  BY DEF Publish, Charges, ledgerVars, accountVars
<1> QED BY <1>1, <1>3, <1>6, <1>7 DEF Calls!Next, Calls!Publish, Charges

LEMMA AfterIsCall ==
  ASSUME Typed, Asked, Held, NEW w \in Workers, After(w)
  PROVE  Calls!Next
<1>1. CASE Stumble(w) \/ Reread(w) \/ Retain(w) \/ Snapshot(w) \/ Prepare(w) \/ Complete(w)
  BY <1>1, StepHidden
     DEF Stumble, Reread, Retain, Snapshot, Prepare, Complete, Advance, ledgerVars, accountVars, custodyVars
<1>2. CASE Doubt(w)
  <2>1. job[w] \in Ops
    BY <1>2, Busy DEF Doubt, Works, At
  <2>2. \A p \in Ops : attempt'[p].cost = attempt[p].cost
    BY <1>2, <2>1 DEF Doubt, Mark, Typed, TypeOK, Attempts
  <2> QED BY <1>2, <2>2, StepHidden DEF Doubt, ledgerVars, custodyVars
<1> QED BY <1>1, <1>2, BookIsCall, CaptureIsCall, PublishIsCall DEF After

LEMMA ReportIsCall ==
  ASSUME Typed, Asked, NEW w \in Workers, Return(w) \/ ReturnFailure(w) \/ Fail(w)
  PROVE  Calls!Next
<1> DEFINE o == job[w]
<1>1. o \in Ops /\ status[o] = "running"
  BY DEF Return, ReturnFailure, Fail, Works, Holds, Typed, TypeOK
<1>2. CASE Return(w)
  <2>1. result[o] # None /\ result[o].kind = "accepted"
    BY <1>2 DEF Return, Works, Asked
  <2> QED BY <1>1, <1>2, <2>1, StepReports DEF Return, Report
<1>3. CASE ReturnFailure(w) \/ Fail(w)
  <2>1. PICK end \in {"running", "failed"} : Report(w, end)
    BY <1>3 DEF ReturnFailure, Fail
  <2> QED BY <1>1, <2>1, StepReports DEF Report
<1> QED BY <1>2, <1>3

LEMMA OutsideIsCall ==
  ASSUME Typed, NEW o \in Ops, Expire(o) \/ Cancel(o) \/ Retry(o) \/ \E cost \in Costs : Reconcile(o, cost)
  PROVE  Calls!Next
<1>1. CASE Expire(o)
  BY <1>1, StepHidden DEF Expire, accountVars, custodyVars
<1>2. CASE Cancel(o)
  BY <1>2, StepReports DEF Cancel
<1>3. CASE Retry(o)
  <2>1. Charges' = Charges /\ Stated' = Stated
    BY <1>3 DEF Retry, Charges, Stated, accountVars, custodyVars
  <2> QED BY <1>3, <2>1 DEF Retry, Calls!Next, Calls!Retry, custodyVars
<1>4. CASE \E cost \in Costs : Reconcile(o, cost)
  BY <1>4, StepCharges DEF Reconcile, ledgerVars, custodyVars
<1> QED BY <1>1, <1>2, <1>3, <1>4

LEMMA NextIsCall ==
  ASSUME Typed, Counted, Asked, Held, [Next]_vars
  PROVE  Calls!Next
<1>1. CASE UNCHANGED vars
  BY <1>1, StepHidden DEF vars, ledgerVars, accountVars, custodyVars
<1>2. ASSUME NEW w \in Workers, ReturnAgain(w) \/ FailRefused(w) \/ GiveUp(w) \/ Crash(w) \/ \E o \in Ops : Claim(w, o)
      PROVE  Calls!Next
  BY <1>2, StepHidden DEF ReturnAgain, FailRefused, GiveUp, Crash, Claim, ledgerVars, accountVars, custodyVars
<1> QED
  BY <1>1, <1>2, BeforeIsCall, AfterIsCall, ReportIsCall, OutsideIsCall DEF Next, Work

LEMMA InitIsCall == Init => Calls!Init
BY DEF Init, Calls!Init, Charges, Stated, NoAttempt

\* Whatever workers, leases, replies and operators do, an operation is seen to ask
\* once, to keep one answer, to be charged once and to publish that answer with
\* its charge, once: the stages and accounts refine ProviderCall.
THEOREM CallsImplemented == Spec => ImplementsCalls
<1>1. Typed /\ Counted /\ Asked /\ Held /\ [Next]_vars => [Calls!Next]_(Calls!vars)
  BY NextIsCall
<1> QED
  BY <1>1, InitIsCall, AlwaysTyped, AlwaysCounted, AlwaysAsked, AlwaysHeld, PTL DEF Spec, ImplementsCalls, Calls!Spec

----------------------------------------------------------------------------
(* The budget *)

OpenOps == {o \in Ops : Open(o)}

\* What a step may do with the accounts: a call is reserved ...
Take(o) ==
  /\ attempt[o].state = "none"
  /\ budget.reserved + budget.settled + Reservation <= Ceiling
  /\ budget' = [budget EXCEPT !.reserved = @ + Reservation]
  /\ Mark(o, "reserved")

\* ... goes on with its reservation ...
Move(o) ==
  /\ Open(o)
  /\ \E state \in {"dispatched", "uncertain"} : Mark(o, state)
  /\ UNCHANGED budget

\* ... or is charged, once.
Bill(o) ==
  /\ Open(o)
  /\ \E cost \in Costs : Charge(o, cost)

LEMMA BookSettles ==
  ASSUME Typed, NEW o \in Ops, capture[o] # None, Open(o), Book(o)
  PROVE  Move(o) \/ Bill(o)
<1>1. capture[o] \in Answers /\ capture[o].cost \in Costs \cup {None}
  BY DEF Typed, TypeOK, Answers
<1> QED BY <1>1 DEF Book, Move, Bill

LEMMA AccountSteps ==
  ASSUME Typed, [Next]_vars
  PROVE  UNCHANGED accountVars \/ \E o \in Ops : Take(o) \/ Move(o) \/ Bill(o)
<1>1. ASSUME NEW w \in Workers, Before(w)
      PROVE  UNCHANGED accountVars \/ \E o \in Ops : Take(o) \/ Move(o) \/ Bill(o)
  <2>1. CASE MarkLost(w) \/ Reserve(w) \/ Dispatch(w)
    <3>1. job[w] \in Ops
      BY <2>1, Busy DEF MarkLost, Reserve, Dispatch, Works, At
    <3> QED BY <2>1, <3>1 DEF MarkLost, Reserve, Dispatch, Take, Move, Open, accountVars
  <2>2. CASE Recover(w) \/ Bind(w) \/ Initialize(w) \/ Look(w) \/ Refuse(w) \/ Send(w)
    BY <2>2 DEF Recover, Bind, Initialize, Advance, Look, Refuse, Report, Send
  <2> QED BY <1>1, <2>1, <2>2 DEF Before
<1>2. ASSUME NEW w \in Workers, After(w)
      PROVE  UNCHANGED accountVars \/ \E o \in Ops : Take(o) \/ Move(o) \/ Bill(o)
  <2>1. CASE Settle(w) \/ Account(w)
    <3>1. job[w] \in Ops /\ capture[job[w]] # None
      BY <2>1, Busy DEF Settle, Account, Works, At, Typed, Placed, Answered
    <3>2. UNCHANGED accountVars \/ (Open(job[w]) /\ Book(job[w]))
      BY <2>1 DEF Settle, Account, Made, Open
    <3> QED BY <3>1, <3>2, BookSettles
  <2>2. CASE Doubt(w)
    <3>1. job[w] \in Ops
      BY <2>2, Busy DEF Doubt, Works, At
    <3> QED BY <2>2, <3>1 DEF Doubt, Move, Open
  <2>3. CASE Capture(w) \/ Stumble(w) \/ Reread(w) \/ Retain(w) \/ Snapshot(w) \/ Prepare(w) \/ Complete(w) \/ Publish(w)
    BY <2>3 DEF Capture, Stumble, Reread, Retain, Snapshot, Prepare, Complete, Advance, Publish
  <2> QED BY <1>2, <2>1, <2>2, <2>3 DEF After
<1>3. ASSUME NEW w \in Workers, Return(w) \/ ReturnFailure(w) \/ ReturnAgain(w) \/ Fail(w) \/ FailRefused(w) \/ GiveUp(w) \/ Crash(w)
      PROVE  UNCHANGED accountVars
  BY <1>3 DEF Return, ReturnFailure, ReturnAgain, Fail, FailRefused, Report, GiveUp, Crash
<1>4. ASSUME NEW o \in Ops, (\E w \in Workers : Claim(w, o)) \/ Expire(o) \/ Cancel(o) \/ Retry(o)
      PROVE  UNCHANGED accountVars
  BY <1>4 DEF Claim, Expire, Cancel, Retry
<1>5. ASSUME NEW o \in Ops, NEW cost \in Costs, Reconcile(o, cost)
      PROVE  Bill(o)
  BY <1>5 DEF Reconcile, Bill, Open
<1>6. CASE UNCHANGED vars
  BY <1>6 DEF vars
<1> QED BY <1>1, <1>2, <1>3, <1>4, <1>5, <1>6 DEF Next, Work

\* The operations of the accounts are finitely many, and their amounts natural.
LEMMA Accounts ==
  ASSUME Typed
  PROVE  /\ IsFiniteSet(OpenOps) /\ Cardinality(OpenOps) \in Nat
         /\ IsFiniteSet(Settled)
         /\ \A o \in Settled : Charges[o] \in Nat
         /\ SumOf(Charges, Settled) \in Nat
<1>1. OpenOps \in SUBSET Ops /\ Settled \in SUBSET Ops
  BY DEF OpenOps, Settled
<1>2. IsFiniteSet(OpenOps) /\ IsFiniteSet(Settled)
  BY <1>1, OpsAssumption, FS_Subset
<1>3. \A o \in Settled : Charges[o] \in Nat
  BY DEF Settled, Charges, Typed, TypeOK, Attempts
<1> QED BY <1>2, <1>3, FS_CardinalityType, SumType

Balanced == BudgetHolds /\ OverrunOnly

LEMMA TakeKeepsBudget ==
  ASSUME Typed, Balanced, NEW o \in Ops, Take(o)
  PROVE  Balanced'
<1> DEFINE n == Cardinality(OpenOps)
<1>1. attempt' = [attempt EXCEPT ![o] = [state |-> "reserved", cost |-> None]] /\ attempt \in [Ops -> Attempts]
  BY DEF Take, Mark, Typed, TypeOK
<1>2. OpenOps' = OpenOps \cup {o} /\ o \notin OpenOps /\ Settled' = Settled
  BY <1>1 DEF Take, OpenOps, Open, Settled
<1>3. n \in Nat /\ Cardinality(OpenOps') = n + 1
  BY <1>2, Accounts, FS_AddElement
<1>4. SumOf(Charges, Settled)' = SumOf(Charges, Settled)
  <2>1. \A p \in Settled : Charges'[p] = Charges[p]
    BY <1>1 DEF Take, Charges, Settled
  <2> QED BY <1>2, <2>1, SumSame
<1>5. budget'.reserved = budget.reserved + Reservation /\ budget'.settled = budget.settled
  BY DEF Take, Typed, TypeOK
<1>6. Reservation * (n + 1) = Reservation * n + Reservation
  BY <1>3, BudgetAssumption
<1>7. budget.reserved = Reservation * n /\ budget.settled = SumOf(Charges, Settled)
  BY DEF Balanced, BudgetHolds, OverrunOnly, OpenOps, Charges
<1>8. budget'.reserved = Reservation * Cardinality(OpenOps')
  BY <1>3, <1>5, <1>6, <1>7
<1>9. budget'.settled = SumOf(Charges, Settled)'
  BY <1>4, <1>5, <1>7
<1>10. ~(budget'.reserved + budget'.settled > Ceiling)
  <2>1. budget.reserved \in Int /\ budget.settled \in Int
    BY DEF Typed, TypeOK
  <2> QED BY <1>5, <2>1, BudgetAssumption DEF Take
<1> QED BY <1>8, <1>9, <1>10 DEF Balanced, BudgetHolds, OverrunOnly, OpenOps, Charges

LEMMA MoveKeepsBudget ==
  ASSUME Typed, Balanced, NEW o \in Ops, Move(o)
  PROVE  Balanced'
<1>1. PICK state \in {"dispatched", "uncertain"} : attempt' = [attempt EXCEPT ![o] = [state |-> state, cost |-> None]]
  BY DEF Move, Mark
<1>2. attempt \in [Ops -> Attempts] /\ budget' = budget /\ Open(o)
  BY DEF Move, Typed, TypeOK
<1>3. OpenOps' = OpenOps /\ Settled' = Settled
  BY <1>1, <1>2 DEF OpenOps, Open, Settled
<1>4. \A p \in Settled : attempt'[p] = attempt[p] /\ Charges'[p] = Charges[p]
  BY <1>1, <1>2 DEF Charges, Settled, Open
<1>5. SumOf(Charges, Settled)' = SumOf(Charges, Settled)
  BY <1>3, <1>4, SumSame
<1>6. (\E p \in Ops : Overrun(p)) => (\E p \in Ops : Overrun(p)')
  BY <1>3, <1>4 DEF Overrun
<1> QED BY <1>2, <1>3, <1>5, <1>6 DEF Balanced, BudgetHolds, OverrunOnly, OpenOps, Charges

LEMMA BillKeepsBudget ==
  ASSUME Typed, Balanced, NEW o \in Ops, Bill(o)
  PROVE  Balanced'
<1> DEFINE n == Cardinality(OpenOps)
<1>1. PICK cost \in Costs : Charge(o, cost)
  BY DEF Bill
<1>2. /\ attempt' = [attempt EXCEPT ![o] = [state |-> "settled", cost |-> cost]]
      /\ budget'.reserved = budget.reserved - Reservation
      /\ budget'.settled = budget.settled + cost
      /\ attempt \in [Ops -> Attempts] /\ Open(o) /\ cost \in Nat
  BY <1>1, BudgetAssumption DEF Charge, Bill, Typed, TypeOK
<1>3. OpenOps' = OpenOps \ {o} /\ o \in OpenOps /\ Settled' = Settled \cup {o} /\ o \notin Settled
  BY <1>2 DEF OpenOps, Open, Settled
<1>4. n \in Nat /\ Cardinality(OpenOps') = n - 1
  BY <1>3, Accounts, FS_RemoveElement
<1>5. /\ \A p \in Settled : attempt'[p] = attempt[p] /\ Charges'[p] = Charges[p]
      /\ Charges'[o] = cost
  BY <1>2, <1>3 DEF Charges, Settled
<1>6. SumOf(Charges, Settled)' = SumOf(Charges, Settled) + cost
  <2>1. \A p \in Settled \cup {o} : Charges'[p] \in Nat
    BY <1>2, <1>5, Accounts
  <2>2. SumOf(Charges', Settled \cup {o}) = SumOf(Charges', Settled) + Charges'[o]
    BY <1>3, <2>1, Accounts, SumAdd
  <2>3. SumOf(Charges', Settled) = SumOf(Charges, Settled)
    BY <1>5, SumSame
  <2> QED BY <1>3, <1>5, <2>2, <2>3
<1>7. Reservation * (n - 1) = Reservation * n - Reservation
  BY <1>4, BudgetAssumption
<1>8. budget.reserved = Reservation * n /\ budget.settled = SumOf(Charges, Settled)
  BY DEF Balanced, BudgetHolds, OverrunOnly, OpenOps, Charges
<1>9. budget'.reserved = Reservation * Cardinality(OpenOps')
  BY <1>2, <1>4, <1>7, <1>8
<1>10. budget'.settled = SumOf(Charges, Settled)'
  BY <1>2, <1>6, <1>8
<1>11. budget'.reserved + budget'.settled > Ceiling => \E p \in Ops : Overrun(p)'
  <2>1. SUFFICES ASSUME budget'.reserved + budget'.settled > Ceiling PROVE \E p \in Ops : Overrun(p)'
    OBVIOUS
  <2>2. CASE cost > Reservation
    BY <1>2, <1>3, <2>2 DEF Overrun
  <2>3. CASE ~(cost > Reservation)
    <3>1. budget.reserved \in Int /\ budget.settled \in Int
      BY DEF Typed, TypeOK
    <3>2. budget.reserved + budget.settled > Ceiling
      BY <1>2, <2>1, <2>3, <3>1, BudgetAssumption
    <3>3. PICK p \in Ops : Overrun(p)
      BY <3>2 DEF Balanced, BudgetHolds, OverrunOnly
    <3> QED BY <1>3, <1>5, <3>3 DEF Overrun
  <2> QED BY <2>2, <2>3
<1> QED BY <1>9, <1>10, <1>11 DEF Balanced, BudgetHolds, OverrunOnly, OpenOps, Charges

LEMMA InitBudget == Init => Balanced
<1> SUFFICES ASSUME Init PROVE Balanced
  OBVIOUS
<1>1. {o \in Ops : Open(o)} = {} /\ Settled = {} /\ budget.reserved = 0 /\ budget.settled = 0
  BY DEF Init, NoAttempt, Open, Settled
<1>2. Cardinality({}) = 0 /\ SumOf(Charges, {}) = 0 /\ Reservation * 0 = 0
  BY FS_EmptySet, SumEmpty, BudgetAssumption
<1> QED BY <1>1, <1>2, BudgetAssumption DEF Balanced, BudgetHolds, OverrunOnly, Charges

LEMMA NextBudget == Typed /\ Balanced /\ [Next]_vars => Balanced'
<1> SUFFICES ASSUME Typed, Balanced, [Next]_vars PROVE Balanced'
  OBVIOUS
<1>1. CASE UNCHANGED accountVars
  BY <1>1 DEF Balanced, BudgetHolds, OverrunOnly, Charges, Open, Settled, Overrun, accountVars
<1> QED BY <1>1, AccountSteps, TakeKeepsBudget, MoveKeepsBudget, BillKeepsBudget

\* The budget is the sum of what its calls reserve and cost, through every
\* crash, retry and double booking, and only a charge beyond a reservation
\* exceeds it.
THEOREM BudgetIsSum == Spec => [](BudgetHolds /\ OverrunOnly)
<1>1. Spec => []Balanced
  BY InitBudget, NextBudget, AlwaysTyped, PTL DEF Spec
<1>2. Balanced => BudgetHolds /\ OverrunOnly
  BY DEF Balanced
<1> QED BY <1>1, <1>2, PTL
=============================================================================
