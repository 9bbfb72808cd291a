------------------------ MODULE StructuredExtraction ------------------------
(***************************************************************************)
(* Structured extraction operations and the accounting of their provider   *)
(* calls: apps/worker/src/verification-structured-extraction-runtime.ts,   *)
(* the accounted sink of packages/application and, of packages/persistence,*)
(* verification-provider-accounting.ts and the stores of an extraction.    *)
(*                                                                         *)
(* A provider call costs money and cannot be taken back, so it is made     *)
(* once per operation, whatever becomes of the workers that made it.  A    *)
(* worker goes through the stages of its operation; every one is a         *)
(* transaction that begins by checking the worker's lease, but the request *)
(* itself.  A worker that takes the operation over starts from what the    *)
(* rows say.  All operations draw on one budget.                           *)
(***************************************************************************)
EXTENDS Integers, FiniteSets, Totals

CONSTANTS
  Ops, Workers,
  Reservation,   \* what a call reserves of the budget
  Ceiling,       \* the budget
  Costs,         \* what a provider may charge for a call
  MaxTries,      \* attempts allowed to the step of each operation
  MaxLimit,      \* bound on what the retries of operators make of that
  None

\* What the bytes of an answer are read as, now and at every replay.
Answers == [kind: {"failed"}, cost: {None}] \cup [kind: {"accepted"}, cost: Costs \cup {None}]

NoAttempt == [state |-> "none", cost |-> None]
Attempts == [state: {"none", "reserved", "dispatched", "uncertain"}, cost: {None}]
            \cup [state: {"settled"}, cost: Nat]

\* A published result, with the provider call it states.
Results == [kind: {"accepted", "failed"}, call: Attempts]

\* What it comes to for a reader: the kind of the answer and the charge.
Statements == [kind: {"accepted", "failed"}, cost: Nat \cup {None}]

ASSUME BudgetAssumption == Reservation \in Nat /\ Ceiling \in Nat /\ Costs \subseteq Nat
ASSUME OpsAssumption == IsFiniteSet(Ops) /\ None \notin Ops
ASSUME NoneAssumption == None \notin Workers \cup Nat \cup Answers \cup Results \cup Statements
ASSUME TriesAssumption == MaxTries \in [Ops -> Nat \ {0}]

VARIABLES
  status,     \* of the operation; "refused" is a failure that names the lost call
  lease,      \* the worker that holds its step
  tries,      \* attempts of the step so far
  limit,      \* how many it may have
  receipt,    \* the worker that reported the published failure
  budget,     \* what is reserved and what is settled of it
  attempt,    \* the provider attempt of the operation
  stage,      \* its execution binding, lifecycle and failure checkpoint
  capture,    \* the captured answer
  result,     \* the published result
  sent,       \* requests that left for the provider
  pc, job,    \* where a worker is, with which operation
  call        \* the provider call it is about to publish

ledgerVars == <<status, lease, tries, limit, receipt>>
accountVars == <<budget, attempt>>
custodyVars == <<stage, capture, result>>
workerVars == <<pc, job, call>>
vars == <<ledgerVars, accountVars, custodyVars, sent, workerVars>>

Holds(w) == job[w] # None /\ status[job[w]] = "running" /\ lease[job[w]] = w

At(w, place) == pc[w] = place

\* At a place, still with the lease.
Works(w, place) == At(w, place) /\ Holds(w)

Goto(w, place) == pc' = [pc EXCEPT ![w] = place]

Rest(w) ==
  /\ Goto(w, "idle")
  /\ job' = [job EXCEPT ![w] = None]
  /\ call' = [call EXCEPT ![w] = NoAttempt]

----------------------------------------------------------------------------
(* The accounts *)

Mark(o, state) == attempt' = [attempt EXCEPT ![o] = [state |-> state, cost |-> None]]

\* Mutant of Charge: the reservation is kept beside the cost.
ChargeOnTop(o, cost) ==
  /\ attempt' = [attempt EXCEPT ![o] = [state |-> "settled", cost |-> cost]]
  /\ budget' = [budget EXCEPT !.settled = budget.settled + cost]

\* The reservation is released for what the call did cost, more or less.
Charge(o, cost) ==
  /\ attempt' = [attempt EXCEPT ![o] = [state |-> "settled", cost |-> cost]]
  /\ budget' = [reserved |-> budget.reserved - Reservation, settled |-> budget.settled + cost]

\* What the accounts have to say of an answer.
Due(answer) ==
  IF answer.cost = None THEN [state |-> "uncertain", cost |-> None] ELSE [state |-> "settled", cost |-> answer.cost]

Book(o) ==
  IF capture[o].cost # None THEN Charge(o, capture[o].cost) ELSE Mark(o, "uncertain") /\ UNCHANGED budget

----------------------------------------------------------------------------
(* The ledger *)

Claim(w, o) ==
  /\ At(w, "idle")
  /\ status[o] = "running" /\ lease[o] = None /\ tries[o] < limit[o]
  /\ lease' = [lease EXCEPT ![o] = w]
  /\ tries' = [tries EXCEPT ![o] = @ + 1]
  /\ job' = [job EXCEPT ![w] = o]
  /\ Goto(w, "recover")
  /\ UNCHANGED <<status, limit, receipt, accountVars, custodyVars, sent, call>>

\* The lease runs out, also under a worker that is only slow.
Expire(o) ==
  /\ status[o] = "running" /\ lease[o] # None
  /\ lease' = [lease EXCEPT ![o] = None]
  /\ UNCHANGED <<status, tries, limit, receipt, accountVars, custodyVars, sent, workerVars>>

Cancel(o) ==
  /\ status[o] = "running"
  /\ status' = [status EXCEPT ![o] = "cancelled"]
  /\ lease' = [lease EXCEPT ![o] = None]
  /\ UNCHANGED <<tries, limit, receipt, accountVars, custodyVars, sent, workerVars>>

\* An operator retries a failed operation: its step may be tried as often again.
Retry(o) ==
  /\ status[o] \in {"failed", "refused"} /\ 2 * limit[o] <= MaxLimit
  /\ status' = [status EXCEPT ![o] = "running"]
  /\ limit' = [limit EXCEPT ![o] = 2 * @]
  /\ UNCHANGED <<lease, tries, receipt, accountVars, custodyVars, sent, workerVars>>

\* The worker's report ends its attempt, and the operation with it where s says so.
Report(w, s) ==
  /\ status' = [status EXCEPT ![job[w]] = s]
  /\ lease' = [lease EXCEPT ![job[w]] = None]
  /\ Rest(w)
  /\ UNCHANGED <<tries, limit, accountVars, custodyVars, sent>>

Return(w) ==
  /\ Works(w, "return")
  /\ result[job[w]].kind = "accepted"
  /\ Report(w, "succeeded")
  /\ UNCHANGED receipt

\* failStructuredExtractionStep: the failure has one receipt.
ReturnFailure(w) ==
  /\ Works(w, "return")
  /\ result[job[w]].kind = "failed" /\ receipt[job[w]] = None
  /\ Report(w, "failed")
  /\ receipt' = [receipt EXCEPT ![job[w]] = w]

\* After a retry, the worker that has it already gets it again and leaves the
\* step running; for another worker it is a conflict (FailRefused).
ReturnAgain(w) ==
  /\ Works(w, "return")
  /\ result[job[w]].kind = "failed" /\ receipt[job[w]] = w
  /\ Rest(w)
  /\ UNCHANGED <<ledgerVars, accountVars, custodyVars, sent>>

\* Where an error leaves the runtime: everywhere but between the request and
\* what becomes of it.  At "send" the reply to the dispatch was lost.
Throwing == {"recover", "bind", "initialize", "look", "mark", "reserve", "dispatch", "send", "doubt", "reread",
             "retain", "account", "snapshot", "prepare", "complete", "publish", "return"}

\* An error ends the attempt, and the operation with it when the attempts are
\* used up or the handler's error is of a kind that is never retried.
Fail(w) ==
  /\ pc[w] \in Throwing /\ Holds(w)
  /\ stage[job[w]] # "preparing"
  /\ \E retryable \in BOOLEAN :
       /\ retryable \/ ~At(w, "return")
       /\ Report(w, IF retryable /\ tries[job[w]] < limit[job[w]] THEN "running" ELSE "failed")
  /\ UNCHANGED receipt

\* Once a failure has its checkpoint, failStep itself throws, which the worker
\* swallows: the step stays running, under a lease nobody extends.
FailRefused(w) ==
  /\ pc[w] \in Throwing /\ Holds(w)
  /\ stage[job[w]] = "preparing"
  /\ Rest(w)
  /\ UNCHANGED <<ledgerVars, accountVars, custodyVars, sent>>

\* A worker learns that it has lost its lease, or that the operation has ended.
GiveUp(w) ==
  /\ job[w] # None /\ ~Holds(w)
  /\ Rest(w)
  /\ UNCHANGED <<ledgerVars, accountVars, custodyVars, sent>>

\* The process of a worker ends and starts again; its lease stays.
Crash(w) ==
  /\ job[w] # None
  /\ Rest(w)
  /\ UNCHANGED <<ledgerVars, accountVars, custodyVars, sent>>

----------------------------------------------------------------------------
(* Up to the request *)

\* readPublished
Recover(w) ==
  /\ Works(w, "recover")
  /\ Goto(w, IF result[job[w]] # None THEN "return" ELSE "bind")
  /\ UNCHANGED <<ledgerVars, accountVars, custodyVars, sent, job, call>>

\* Go on from place to next, with the operation's stage moved from s to t.
Advance(w, place, next, s, t) ==
  LET o == job[w] IN
  /\ Works(w, place)
  /\ stage' = [stage EXCEPT ![o] = IF stage[o] = s THEN t ELSE @]
  /\ Goto(w, next)
  /\ UNCHANGED <<ledgerVars, accountVars, capture, result, sent, job, call>>

Bind(w) == Advance(w, "bind", "initialize", "none", "bound")

Initialize(w) == Advance(w, "initialize", "look", "bound", "running")

Made == {"dispatched", "uncertain", "settled"}

Unsent(a) == a.state \in {"none", "reserved"}

\* Mutant of Found: the state of the attempt is asked before its capture.
FoundByState(o) ==
  IF Unsent(attempt[o]) THEN "reserve" ELSE IF attempt[o].state = "settled" THEN "retain" ELSE "mark"

\* A captured answer is taken up.  A call that may have been made is not made again.
Found(o) ==
  IF capture[o] # None THEN "retain" ELSE IF Unsent(attempt[o]) THEN "reserve" ELSE "mark"

Look(w) ==
  /\ Works(w, "look")
  /\ Goto(w, Found(job[w]))
  /\ UNCHANGED <<ledgerVars, accountVars, custodyVars, sent, job, call>>

\* The unanswered call becomes uncertain ...
MarkLost(w) ==
  /\ Works(w, "mark")
  /\ IF attempt[job[w]].state = "dispatched" THEN Mark(job[w], "uncertain") ELSE UNCHANGED attempt
  /\ Goto(w, "refuse")
  /\ UNCHANGED <<ledgerVars, budget, custodyVars, sent, job, call>>

\* ... and the operation fails for good.
Refuse(w) == Works(w, "refuse") /\ Report(w, "refused") /\ UNCHANGED receipt

\* reserve finds the attempt of an earlier worker, or reserves if the budget has room.
Reserve(w) ==
  LET o == job[w] IN
  /\ Works(w, "reserve")
  /\ IF attempt[o].state = "none"
     THEN /\ budget.reserved + budget.settled + Reservation <= Ceiling
          /\ budget' = [budget EXCEPT !.reserved = @ + Reservation]
          /\ Mark(o, "reserved")
     ELSE UNCHANGED accountVars
  /\ Goto(w, "dispatch")
  /\ UNCHANGED <<ledgerVars, custodyVars, sent, job, call>>

\* Mutant of Dispatch: the dispatch is recorded when the answer is booked.
DispatchLater(w) ==
  /\ Works(w, "dispatch")
  /\ attempt[job[w]].state = "reserved"
  /\ budget.reserved + budget.settled <= Ceiling
  /\ Goto(w, "send")
  /\ UNCHANGED <<ledgerVars, accountVars, custodyVars, sent, job, call>>

\* claimDispatch: calls that cost more than they reserved stop those that wait.
Dispatch(w) ==
  /\ Works(w, "dispatch")
  /\ attempt[job[w]].state = "reserved"
  /\ budget.reserved + budget.settled <= Ceiling
  /\ Mark(job[w], "dispatched")
  /\ Goto(w, "send")
  /\ UNCHANGED <<ledgerVars, budget, custodyVars, sent, job, call>>

\* The request itself: no lease is asked for.
Send(w) ==
  /\ At(w, "send")
  /\ sent' = [sent EXCEPT ![job[w]] = @ + 1]
  /\ Goto(w, "answer")
  /\ UNCHANGED <<ledgerVars, accountVars, custodyVars, job, call>>

----------------------------------------------------------------------------
(* From the answer *)

\* Mutant of Capture: the answer is kept whoever holds the lease by now.
CaptureLate(w) ==
  LET o == job[w] IN
  /\ At(w, "answer")
  /\ attempt[o].state \in Made /\ capture[o] = None
  /\ \E answer \in Answers :
       /\ capture' = [capture EXCEPT ![o] = answer]
       /\ Goto(w, IF answer.kind = "accepted" THEN "settle" ELSE "doubt")
  /\ UNCHANGED <<ledgerVars, accountVars, stage, result, sent, job, call>>

\* The answer's bytes are kept before they are read.  A failed answer throws.
Capture(w) ==
  LET o == job[w] IN
  /\ Works(w, "answer")
  /\ attempt[o].state \in Made /\ capture[o] = None
  /\ \E answer \in Answers :
       /\ capture' = [capture EXCEPT ![o] = answer]
       /\ Goto(w, IF answer.kind = "accepted" THEN "settle" ELSE "doubt")
  /\ UNCHANGED <<ledgerVars, accountVars, stage, result, sent, job, call>>

\* The request fails or times out, the answer is not kept, or a reply is lost.
Stumble(w) ==
  /\ pc[w] \in {"send", "answer", "settle"}
  /\ Goto(w, "doubt")
  /\ UNCHANGED <<ledgerVars, accountVars, custodyVars, sent, job, call>>

\* settleOrRetain, of an accepted answer.  Its reply may be lost.
Settle(w) ==
  /\ Works(w, "settle")
  /\ attempt[job[w]].state \in {"dispatched", "uncertain"}
  /\ Book(job[w])
  /\ \E place \in {"retain", "doubt"} : Goto(w, place)
  /\ UNCHANGED <<ledgerVars, custodyVars, sent, job, call>>

\* settleOrRetain in the catch, which throws itself if the call is settled.
Doubt(w) ==
  /\ Works(w, "doubt")
  /\ attempt[job[w]].state \in {"dispatched", "uncertain"}
  /\ Mark(job[w], "uncertain")
  /\ Goto(w, "reread")
  /\ UNCHANGED <<ledgerVars, budget, custodyVars, sent, job, call>>

\* Go on if the answer was kept; if not, the error is thrown on (Fail).
Reread(w) ==
  /\ Works(w, "reread")
  /\ capture[job[w]] # None
  /\ Goto(w, "retain")
  /\ UNCHANGED <<ledgerVars, accountVars, custodyVars, sent, job, call>>

\* beginRetention
Retain(w) == Advance(w, "retain", "account", "running", "retaining")

\* Mutant of Account: a call that was marked uncertain stays so.
AccountUndoubted(w) ==
  /\ Works(w, "account")
  /\ attempt[job[w]].state \in Made
  /\ IF attempt[job[w]].state \notin {"settled", "uncertain"} THEN Book(job[w]) ELSE UNCHANGED accountVars
  /\ Goto(w, "snapshot")
  /\ UNCHANGED <<ledgerVars, custodyVars, sent, job, call>>

\* The replay of the answer is booked, unless the call is settled.
Account(w) ==
  /\ Works(w, "account")
  /\ attempt[job[w]].state \in Made
  /\ IF attempt[job[w]].state # "settled" THEN Book(job[w]) ELSE UNCHANGED accountVars
  /\ Goto(w, "snapshot")
  /\ UNCHANGED <<ledgerVars, custodyVars, sent, job, call>>

\* The attempt is read again for what the result will state of it.
Snapshot(w) ==
  /\ Works(w, "snapshot")
  /\ call' = [call EXCEPT ![w] = attempt[job[w]]]
  /\ Goto(w, IF capture[job[w]].kind = "failed" THEN "prepare" ELSE "complete")
  /\ UNCHANGED <<ledgerVars, accountVars, custodyVars, sent, job>>

\* The failure's checkpoint
Prepare(w) == Advance(w, "prepare", "publish", "retaining", "preparing")

\* completeRetention
Complete(w) == Advance(w, "complete", "publish", "retaining", "retained")

Publishable(o) == stage[o] = IF capture[o].kind = "failed" THEN "preparing" ELSE "retained"

Outcome(w) == [kind |-> capture[job[w]].kind, call |-> call[w]]

\* Both publications refuse another result than the published one.
Publish(w) ==
  LET o == job[w] IN
  /\ Works(w, "publish")
  /\ Publishable(o)
  /\ result[o] \in {None, Outcome(w)}
  /\ result' = [result EXCEPT ![o] = Outcome(w)]
  /\ Goto(w, "return")
  /\ UNCHANGED <<ledgerVars, accountVars, stage, capture, sent, job, call>>

\* An operator settles the call of an ended operation.
Reconcile(o, cost) ==
  /\ status[o] # "running"
  /\ attempt[o].state \in {"dispatched", "uncertain"}
  /\ Charge(o, cost)
  /\ UNCHANGED <<ledgerVars, custodyVars, sent, workerVars>>

----------------------------------------------------------------------------
Init ==
  /\ status = [o \in Ops |-> "running"]
  /\ lease = [o \in Ops |-> None]
  /\ tries = [o \in Ops |-> 0]
  /\ limit = MaxTries
  /\ receipt = [o \in Ops |-> None]
  /\ budget = [reserved |-> 0, settled |-> 0]
  /\ attempt = [o \in Ops |-> NoAttempt]
  /\ stage = [o \in Ops |-> "none"]
  /\ capture = [o \in Ops |-> None]
  /\ result = [o \in Ops |-> None]
  /\ sent = [o \in Ops |-> 0]
  /\ pc = [w \in Workers |-> "idle"]
  /\ job = [w \in Workers |-> None]
  /\ call = [w \in Workers |-> NoAttempt]

Before(w) ==
  \/ Recover(w) \/ Bind(w) \/ Initialize(w) \/ Look(w) \/ MarkLost(w) \/ Refuse(w)
  \/ Reserve(w) \/ Dispatch(w) \/ Send(w)

After(w) ==
  \/ Capture(w) \/ Stumble(w) \/ Settle(w) \/ Doubt(w) \/ Reread(w)
  \/ Retain(w) \/ Account(w) \/ Snapshot(w) \/ Prepare(w) \/ Complete(w) \/ Publish(w)

Work(w) ==
  \/ Before(w) \/ After(w)
  \/ Return(w) \/ ReturnFailure(w) \/ ReturnAgain(w) \/ Fail(w) \/ FailRefused(w) \/ GiveUp(w)

Next ==
  \/ \E w \in Workers : Work(w) \/ Crash(w) \/ \E o \in Ops : Claim(w, o)
  \/ \E o \in Ops : Expire(o) \/ Cancel(o) \/ Retry(o) \/ \E cost \in Costs : Reconcile(o, cost)

Spec == Init /\ [][Next]_vars

----------------------------------------------------------------------------
Places == Throwing \cup {"idle", "refuse", "answer", "settle"}
Stages == {"none", "bound", "running", "retaining", "preparing", "retained"}

\* Every variable has its type.
TypeOK ==
  /\ status \in [Ops -> {"running", "succeeded", "failed", "refused", "cancelled"}]
  /\ lease \in [Ops -> Workers \cup {None}]
  /\ tries \in [Ops -> Nat]
  /\ limit \in [Ops -> Nat]
  /\ receipt \in [Ops -> Workers \cup {None}]
  /\ budget \in [reserved: Int, settled: Int]
  /\ attempt \in [Ops -> Attempts]
  /\ stage \in [Ops -> Stages]
  /\ capture \in [Ops -> Answers \cup {None}]
  /\ result \in [Ops -> Results \cup {None}]
  /\ sent \in [Ops -> Nat]
  /\ pc \in [Workers -> Places]
  /\ job \in [Workers -> Ops \cup {None}]
  /\ call \in [Workers -> Attempts]

\* The provider is asked at most once for an operation: not again by the
\* worker that takes over after a crash, a lost lease, a lost reply or a retry.
SentOnce == \A o \in Ops : sent[o] <= 1

Charges == [o \in Ops |-> attempt[o].cost]

\* What the published results state.
Stated == [o \in Ops |-> IF result[o] = None THEN None ELSE [kind |-> result[o].kind, cost |-> result[o].call.cost]]

Calls == INSTANCE ProviderCall WITH requests <- sent, answer <- capture, charge <- Charges, result <- Stated

\* Workers that take over from one another, lose leases and replies, and book
\* and publish from what they read before, ask once, keep one answer, charge
\* once and publish once: every step is one of ProviderCall or hidden from it.
ImplementsCalls == Calls!Spec

Open(o) == attempt[o].state \in {"reserved", "dispatched", "uncertain"}
Settled == {o \in Ops : attempt[o].state = "settled"}
Overrun(o) == o \in Settled /\ attempt[o].cost > Reservation

\* The budget's row is the sum of its calls: what open attempts reserved and
\* what settled ones were charged, whoever booked them and in whatever order.
BudgetHolds ==
  /\ budget.reserved = Reservation * Cardinality({o \in Ops : Open(o)})
  /\ budget.settled = SumOf(Charges, Settled)

\* The budget is exceeded only by what providers charged beyond a reservation.
OverrunOnly ==
  budget.reserved + budget.settled > Ceiling => \E o \in Ops : Overrun(o)

\* An operation that was refused for a call without an answer never has one:
\* the worker that made the call can no longer file it.
RefusedIsUnanswered ==
  \A o \in Ops : status[o] = "refused" => capture[o] = None /\ attempt[o].state \in {"uncertain", "settled"}

\* A published result is of the answer that was captured and states the charge
\* that answer made due, or the one an operator supplied before; the accounts
\* say the same, but for an uncertain charge that an operator settled since.
PublishedMatchesLedger ==
  \A o \in Ops : result[o] # None =>
    /\ capture[o] # None /\ result[o].kind = capture[o].kind
    /\ \/ result[o].call.state = "settled" /\ attempt[o] = result[o].call
       \/ /\ result[o].call = Due(capture[o]) /\ capture[o].cost = None
          /\ attempt[o] = result[o].call \/ attempt[o].state = "settled"

\* Whoever holds an operation whose call was answered carries the answer on:
\* it neither refuses the operation nor asks again, and when it publishes, the
\* stage is the right one and what was published before the same.
AnswerIsTakenUp ==
  \A w \in Workers : Holds(w) /\ capture[job[w]] # None =>
    /\ pc[w] \notin {"reserve", "dispatch", "send", "answer", "mark", "refuse"}
    /\ At(w, "publish") => Publishable(job[w]) /\ result[job[w]] \in {None, Outcome(w)}
=============================================================================
