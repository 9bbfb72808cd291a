-------------------------- MODULE VerificationRun --------------------------
(***************************************************************************)
(* One claims verification run of the executor:                            *)
(* apps/verification-executor/src/executor.ts (its steps), store.ts (the   *)
(* run's files), checkpoint-state-fence.ts and checkpoint-state.ts (the    *)
(* export of a checkpoint).                                                *)
(*                                                                         *)
(* A step reads the run's state file, works on its own copy while it       *)
(* awaits hosts and providers, writes the copy back and files a receipt.   *)
(* Nothing keeps two steps of a run apart; the fence only tells exports    *)
(* that steps are under way.  Every read and write of a file is a step of  *)
(* the model, and writing a file first empties it.                         *)
(*                                                                         *)
(* An artifact is named by the step that put it and carries the artifacts  *)
(* it was made from.  Captures, extraction results and report checks,      *)
(* which a step adds to a list, are the run's items.                       *)
(***************************************************************************)
EXTENDS Naturals, Sequences, FiniteSets

CONSTANTS
  Steps,        \* calls of the executor for the run
  Routed,       \* the host routes recoveries, and requires them
  MaxTogether,  \* bound: steps under way at a time
  MaxDisturbed, \* bound: beginnings and ends beside an export after which no step begins
  MaxFaults,    \* bound: ends of the process, and steps whose receipts cannot be written
  NoFile, Torn, \* a state file that is missing, or no JSON
  None

Operations == {"note", "verify", "judge", "policy", "seal"}

ASSUME BoundsAssumption == MaxTogether \in Nat /\ MaxDisturbed \in Nat /\ MaxFaults \in Nat
ASSUME StepsAssumption == IsFiniteSet(Steps) /\ None \notin Steps
ASSUME RoutedAssumption == Routed \in BOOLEAN

VARIABLES
  state,       \* runs/<runId>/state.json
  files,       \* names of the files in steps/
  lines,       \* steps.jsonl
  notices,     \* decisions the recovery host was notified of
  fence,       \* active and revision of the run in this process
  pc,          \* where each step is
  op,          \* its operation
  draft,       \* its copy of the state
  then,        \* where it goes once the copy is written
  number,      \* the sequence of its receipt
  broken,      \* steps for which writing a receipt failed
  export,      \* what an export in progress has read
  crashes      \* ends of the process so far

runVars == <<state, notices>>
receiptVars == <<files, lines, number, broken>>
stepVars == <<pc, op, draft, then>>
vars == <<runVars, receiptVars, fence, stepVars, export, crashes>>

----------------------------------------------------------------------------
(* The state of a run *)

Semantics == [by: Steps, result: Steps]
Decisions == [by: Steps, result: Steps, semantic: Semantics \cup {None}]
Audits == [by: Steps, result: Steps, semantic: Semantics \cup {None}, decision: Decisions]
Runs == [result: Steps \cup {None}, semantic: Semantics \cup {None}, decision: Decisions \cup {None},
         audit: Audits \cup {None}, items: SUBSET Steps, authority: BOOLEAN,
         notified: Decisions \cup {None}]

ASSUME FilesAssumption == NoFile \notin Runs /\ Torn \notin Runs \cup {NoFile}
ASSUME NoneAssumption == None \notin Semantics \cup Decisions \cup Audits \cup {"count"}

NewRun == [result |-> None, semantic |-> None, decision |-> None, audit |-> None,
           items |-> {}, authority |-> FALSE, notified |-> None]

\* readRun
Content(file) == IF file = NoFile THEN NewRun ELSE file

Noted(r, n) == [r EXCEPT !.items = r.items \cup {n}]

Authorized(r) == [r EXCEPT !.authority = TRUE]

\* Mutant of Verified: what was concluded from the last result is kept.
VerifiedOnly(r, n) == [r EXCEPT !.result = n, !.items = r.items \cup {n}]

\* A new result ends everything that was concluded from the last one.
Verified(r, n) == [r EXCEPT !.result = n, !.semantic = None, !.decision = None, !.audit = None,
                            !.items = r.items \cup {n}]

Judged(r, n) == [r EXCEPT !.semantic = [by |-> n, result |-> r.result], !.decision = None, !.audit = None]

Decided(r, n) == [r EXCEPT !.decision = [by |-> n, result |-> r.result, semantic |-> r.semantic],
                           !.audit = None]

Notified(r) == [r EXCEPT !.notified = r.decision]

\* The seal is compared with the one the run has, which then stays.
Resealable(r) ==
  r.audit # None => /\ r.audit.result = r.result
                    /\ r.audit.semantic = r.semantic
                    /\ r.audit.decision = r.decision

Sealed(r, n) ==
  IF r.audit # None THEN r
  ELSE [r EXCEPT !.audit = [by |-> n, result |-> r.result, semantic |-> r.semantic, decision |-> r.decision]]

----------------------------------------------------------------------------
(* Steps *)

UnderWay == {n \in Steps : pc[n] \notin {"new", "done", "lost"}}

Goto(n, place) == pc' = [pc EXCEPT ![n] = place]

\* Go on with copy r, write it, and go to place next.
Save(n, r, place) ==
  /\ draft' = [draft EXCEPT ![n] = r]
  /\ then' = [then EXCEPT ![n] = place]
  /\ Goto(n, "truncate")

\* No export is in progress.
NoExport == [revision |-> None, lines |-> None, state |-> None]

Begin(n, o) ==
  /\ pc[n] = "new"
  /\ Cardinality(UnderWay) < MaxTogether
  /\ export # NoExport => fence.revision < export.revision + MaxDisturbed
  /\ Goto(n, "read")
  /\ op' = [op EXCEPT ![n] = o]
  /\ fence' = [active |-> fence.active + 1, revision |-> fence.revision + 1]
  /\ UNCHANGED <<runVars, receiptVars, draft, then, export, crashes>>

\* The end of a step: its releaseState, once.
Return(n) ==
  /\ Goto(n, "done")
  /\ op' = [op EXCEPT ![n] = None]
  /\ draft' = [draft EXCEPT ![n] = NewRun]
  /\ then' = [then EXCEPT ![n] = None]
  /\ number' = [number EXCEPT ![n] = 0]
  /\ fence' = [active |-> fence.active - 1, revision |-> fence.revision + 1]

\* Mutant of Throw: after a success whose receipt failed, success is recorded again.
ThrowAsIs(n) ==
  /\ Goto(n, "count")
  /\ UNCHANGED <<draft, then>>

\* The step threw: the copy is gone, and a failed receipt is due.
Throw(n) ==
  /\ Goto(n, "count")
  /\ draft' = [draft EXCEPT ![n] = NewRun]
  /\ then' = [then EXCEPT ![n] = None]

\* Inputs, the state file, a host or a provider fail.
Fail(n) ==
  /\ pc[n] \in {"read", "again", "notify", "seal"}
  /\ Throw(n)
  /\ UNCHANGED <<runVars, receiptVars, fence, op, export, crashes>>

\* recordCapture, verifyExtraction, checkReport
ReadNote(n) ==
  /\ pc[n] = "read" /\ op[n] = "note"
  /\ state # Torn
  /\ Save(n, Noted(Content(state), n), "count")
  /\ UNCHANGED <<runVars, receiptVars, fence, op, export, crashes>>

\* verifyClaims, first read: a routed run is authorized before its first result.
ReadVerify(n) ==
  LET r == Content(state) IN
  /\ pc[n] = "read" /\ op[n] = "verify"
  /\ state # Torn
  /\ IF Routed
     THEN (r.result # None => r.authority) /\ Save(n, Authorized(r), "again")
     ELSE Goto(n, "again") /\ UNCHANGED <<draft, then>>
  /\ UNCHANGED <<runVars, receiptVars, fence, op, export, crashes>>

\* verifyClaims, second read, when the result is known.
ReadAgain(n) ==
  /\ pc[n] = "again"
  /\ state # Torn
  /\ Save(n, Verified(Content(state), n), "count")
  /\ UNCHANGED <<runVars, receiptVars, fence, op, export, crashes>>

ReadJudge(n) ==
  LET r == Content(state) IN
  /\ pc[n] = "read" /\ op[n] = "judge"
  /\ state # Torn
  /\ r.result # None
  /\ Save(n, Judged(r, n), "count")
  /\ UNCHANGED <<runVars, receiptVars, fence, op, export, crashes>>

\* evaluatePolicy writes its decision before it routes it.
ReadPolicy(n) ==
  LET r == Content(state) IN
  /\ pc[n] = "read" /\ op[n] = "policy"
  /\ state # Torn
  /\ r.result # None
  /\ Save(n, Decided(r, n), IF Routed \/ r.authority THEN "notify" ELSE "count")
  /\ UNCHANGED <<runVars, receiptVars, fence, op, export, crashes>>

\* Mutant of SealRoutes: the decision was routed when it was made.
SealRoutesNever(r) == "seal"

SealRoutes(r) == IF Routed \/ r.authority THEN "notify" ELSE "seal"

\* sealRun routes the decision first.
ReadSeal(n) ==
  LET r == Content(state) IN
  /\ pc[n] = "read" /\ op[n] = "seal"
  /\ state # Torn
  /\ r.decision # None
  /\ Goto(n, SealRoutes(r))
  /\ draft' = [draft EXCEPT ![n] = r]
  /\ UNCHANGED <<runVars, receiptVars, fence, op, then, export, crashes>>

\* routeRecovery, which throws for a run without authority.
Notify(n) ==
  /\ pc[n] = "notify"
  /\ draft[n].authority
  /\ notices' = notices \cup {draft[n].decision}
  /\ Save(n, Notified(draft[n]), IF op[n] = "seal" THEN "seal" ELSE "count")
  /\ UNCHANGED <<state, receiptVars, fence, op, export, crashes>>

Seal(n) ==
  /\ pc[n] = "seal"
  /\ Resealable(draft[n])
  /\ Save(n, Sealed(draft[n], n), "count")
  /\ UNCHANGED <<runVars, receiptVars, fence, op, export, crashes>>

\* writeRun: writeFile empties the file when it opens it ...
Truncate(n) ==
  /\ pc[n] = "truncate"
  /\ state' = Torn
  /\ Goto(n, "write")
  /\ UNCHANGED <<notices, receiptVars, fence, op, draft, then, export, crashes>>

\* ... and writes from its beginning: over what another writeFile wrote
\* meanwhile, of which an end may be left.
Write(n) ==
  /\ pc[n] = "write"
  /\ \/ state' = draft[n]
     \/ state # Torn /\ state' = Torn
  /\ Goto(n, then[n])
  /\ UNCHANGED <<notices, receiptVars, fence, op, draft, then, export, crashes>>

----------------------------------------------------------------------------
(* Receipts *)

Succeeded(n) == then[n] = "count"

Receipt(n) == [sequence |-> number[n], step |-> n, failed |-> ~Succeeded(n)]

\* appendStep: the files of other receipts are counted ...
Count(n) ==
  /\ pc[n] = "count"
  /\ number' = [number EXCEPT ![n] = Cardinality(files) + 1]
  /\ Goto(n, "file")
  /\ UNCHANGED <<runVars, files, lines, broken, fence, op, draft, then, export, crashes>>

\* ... the receipt's own file is written ...
File(n) ==
  /\ pc[n] = "file"
  /\ files' = files \cup {<<number[n], op[n]>>}
  /\ Goto(n, "line")
  /\ UNCHANGED <<runVars, lines, number, broken, fence, op, draft, then, export, crashes>>

\* ... and its line, after which the step returns.
Line(n) ==
  /\ pc[n] = "line"
  /\ lines' = Append(lines, Receipt(n))
  /\ Return(n)
  /\ UNCHANGED <<runVars, files, broken, export, crashes>>

\* appendStep throws, with or without the effect of the write it was at.  A
\* success is caught like any other error and recorded as a failure; the second
\* time the step returns.
AppendFails(n) ==
  /\ pc[n] \in {"count", "file", "line"}
  /\ crashes + Cardinality(broken \cup {n}) <= MaxFaults
  /\ broken' = broken \cup {n}
  /\ \/ UNCHANGED <<files, lines>>
     \/ pc[n] = "file" /\ files' = files \cup {<<number[n], op[n]>>} /\ UNCHANGED lines
     \/ pc[n] = "line" /\ lines' = Append(lines, Receipt(n)) /\ UNCHANGED files
  /\ \/ Succeeded(n) /\ Throw(n) /\ UNCHANGED <<number, op, fence>>
     \/ ~Succeeded(n) /\ Return(n)
  /\ UNCHANGED <<runVars, export, crashes>>

----------------------------------------------------------------------------
(* Exports *)

\* executorStateRevision refuses a run with steps under way.
StartExport ==
  /\ export = NoExport
  /\ fence.active = 0
  /\ export' = [NoExport EXCEPT !.revision = fence.revision]
  /\ UNCHANGED <<runVars, receiptVars, fence, stepVars, crashes>>

InOrder(receipts) == \A i \in 1 .. Len(receipts) : receipts[i].sequence = i

\* snapshotState: the receipts ...
ReadReceipts ==
  /\ export # NoExport
  /\ export.lines = None
  /\ export' = [export EXCEPT !.lines = lines]
  /\ UNCHANGED <<runVars, receiptVars, fence, stepVars, crashes>>

\* ... then the state, which a run that has receipts only gets from them.
ReadState ==
  /\ export.lines # None /\ export.state = None
  /\ state # Torn
  /\ state = NoFile => export.lines # <<>>
  /\ InOrder(export.lines)
  /\ export' = [export EXCEPT !.state = Content(state)]
  /\ UNCHANGED <<runVars, receiptVars, fence, stepVars, crashes>>

\* Mutant of Undisturbed: the revision is not compared.
UndisturbedNow == fence.active = 0

Undisturbed == fence.active = 0 /\ fence.revision = export.revision

\* Files that are read a second time must not have changed either, which keeps
\* less than this.
Keep ==
  /\ export.state # None
  /\ Undisturbed
  /\ export' = NoExport
  /\ UNCHANGED <<runVars, receiptVars, fence, stepVars, crashes>>

\* An error, or another attempt.
Abandon ==
  /\ export # NoExport
  /\ export' = NoExport
  /\ UNCHANGED <<runVars, receiptVars, fence, stepVars, crashes>>

----------------------------------------------------------------------------
\* The process ends: its files stay as they are.
Crash ==
  /\ crashes + Cardinality(broken) < MaxFaults
  /\ crashes' = crashes + 1
  /\ pc' = [n \in Steps |-> IF n \in UnderWay THEN "lost" ELSE pc[n]]
  /\ fence' = [active |-> 0, revision |-> 0]
  /\ op' = [n \in Steps |-> None]
  /\ draft' = [n \in Steps |-> NewRun]
  /\ then' = [n \in Steps |-> None]
  /\ number' = [n \in Steps |-> 0]
  /\ export' = NoExport
  /\ UNCHANGED <<runVars, files, lines, broken>>

Init ==
  /\ state = NoFile
  /\ files = {}
  /\ lines = <<>>
  /\ notices = {}
  /\ fence = [active |-> 0, revision |-> 0]
  /\ pc = [n \in Steps |-> "new"]
  /\ op = [n \in Steps |-> None]
  /\ draft = [n \in Steps |-> NewRun]
  /\ then = [n \in Steps |-> None]
  /\ number = [n \in Steps |-> 0]
  /\ broken = {}
  /\ export = NoExport
  /\ crashes = 0

Reads(n) == ReadNote(n) \/ ReadVerify(n) \/ ReadAgain(n) \/ ReadJudge(n) \/ ReadPolicy(n) \/ ReadSeal(n)

Step(n) ==
  \/ \E o \in Operations : Begin(n, o)
  \/ Fail(n) \/ Reads(n) \/ Notify(n) \/ Seal(n)
  \/ Truncate(n) \/ Write(n)
  \/ Count(n) \/ File(n) \/ Line(n) \/ AppendFails(n)

Next ==
  \/ \E n \in Steps : Step(n)
  \/ StartExport \/ ReadReceipts \/ ReadState \/ Keep \/ Abandon
  \/ Crash

Spec == Init /\ [][Next]_vars

----------------------------------------------------------------------------
Places == {"new", "read", "again", "notify", "seal", "truncate", "write", "count", "file", "line", "done", "lost"}
Afters == {"again", "notify", "seal", "count"}
Receipts == Seq([sequence: Nat, step: Steps, failed: BOOLEAN])

\* Every variable has its type; the fence never counts below zero.
TypeOK ==
  /\ state \in Runs \cup {NoFile, Torn}
  /\ files \subseteq Nat \X Operations
  /\ lines \in Receipts
  /\ notices \subseteq Decisions
  /\ fence \in [active: Nat, revision: Nat]
  /\ pc \in [Steps -> Places]
  /\ op \in [Steps -> Operations \cup {None}]
  /\ draft \in [Steps -> Runs]
  /\ then \in [Steps -> Afters \cup {None}]
  /\ number \in [Steps -> Nat]
  /\ broken \subseteq Steps
  /\ export \in [revision: Nat \cup {None}, lines: Receipts \cup {None}, state: Runs \cup {None}]
  /\ crashes \in Nat

\* What a run claims hangs together: its semantic assessment is of its result,
\* its decision of both, its seal of all three.
Coherent(r) ==
  /\ r.semantic # None => r.semantic.result = r.result
  /\ r.decision # None => r.decision.result = r.result /\ r.decision.semantic = r.semantic
  /\ r.audit # None => r.audit.decision = r.decision /\ r.audit.result = r.result /\ r.audit.semantic = r.semantic
  /\ r.result = None => r.semantic = None /\ r.decision = None
  /\ r.decision = None => r.audit = None

\* Steps that race lose each other's writes, but no reader ever meets a state
\* whose conclusions are of different results.
ChainCoherent == state \in {NoFile, Torn} \/ Coherent(state)

\* A sealed run of a host that routes recoveries has had its decision routed,
\* also when the policy step that decided it was lost before its notification.
SealedIsRouted ==
  Routed /\ state \notin {NoFile, Torn} /\ state.audit # None => state.audit.decision \in notices

\* A step that returned has one line among the receipts, whether it succeeded or
\* failed and whatever ran beside it.  Where writing a receipt of it failed it may
\* have none, or two of which one says that it succeeded and one that it failed.
ReceiptPerStep ==
  /\ \A n \in Steps : pc[n] = "done" => n \in broken \/ \E i \in 1 .. Len(lines) : lines[i].step = n
  /\ \A i \in 1 .. Len(lines) : pc[lines[i].step] = "done" \/ lines[i].step \in broken
  /\ \A i, j \in 1 .. Len(lines) :
       lines[i].step = lines[j].step =>
         i = j \/ (lines[i].failed # lines[j].failed /\ lines[i].step \in broken)

\* An export keeps what the files hold while no step is under way: nothing that
\* began or ended during its readings.
CheckpointQuiescent ==
  [][Keep => UnderWay = {} /\ export.lines = lines /\ export.state = Content(state)]_vars

Makers(r) ==
  r.items \cup {a.by : a \in {r.semantic, r.decision, r.audit} \ {None}} \cup ({r.result} \ {None})

\* The step that put an artifact of a kept checkpoint has its receipt in the
\* checkpoint too, unless the process ended in between or could not write it.
CheckpointReceipted ==
  [][Keep => \A n \in Makers(export.state) :
               pc[n] = "lost" \/ n \in broken \/ \E i \in 1 .. Len(export.lines) : export.lines[i].step = n]_vars

\* The receipts of a run are in order, as an export requires of them.
ReceiptsOrdered == InOrder(lines)
=============================================================================
