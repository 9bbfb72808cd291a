----------------------- MODULE VerificationRun_proofs -----------------------
(***************************************************************************)
(* A claims verification run, for any number of steps, side by side as     *)
(* they may be, and any number of crashes: its conclusions hang together,  *)
(* its seal was routed, its receipts are complete, and an export that is   *)
(* kept was read from a run at rest.                                       *)
(***************************************************************************)
EXTENDS VerificationRun, TLAPS, FiniteSetTheorems, SequenceTheorems

----------------------------------------------------------------------------
(* Copies of the state *)

Begun == {n \in Steps : pc[n] # "new"}

\* A copy that may be written: its conclusions hang together, its seal's
\* decision is in N, and it was made by steps of B.
Fit(r, N, B) ==
  /\ Coherent(r)
  /\ Routed /\ r.audit # None => r.audit.decision \in N
  /\ Makers(r) \subseteq B

LEMMA NewRunFit == \A N, B : NewRun \in Runs /\ Fit(NewRun, N, B)
BY DEF NewRun, Runs, Fit, Coherent, Makers

LEMMA FitGrows ==
  ASSUME NEW r, NEW N, NEW B, Fit(r, N, B), NEW N2, NEW B2, N \subseteq N2, B \subseteq B2
  PROVE  Fit(r, N2, B2)
BY DEF Fit

\* What a step adds to a copy leaves it fit to be written.
LEMMA Edits ==
  ASSUME NEW r \in Runs, NEW N, NEW B, Fit(r, N, B), NEW n \in Steps, n \in B
  PROVE  /\ Noted(r, n) \in Runs /\ Fit(Noted(r, n), N, B)
         /\ Authorized(r) \in Runs /\ Fit(Authorized(r), N, B)
         /\ Verified(r, n) \in Runs /\ Fit(Verified(r, n), N, B)
<1>1. Noted(r, n) \in Runs /\ Authorized(r) \in Runs /\ Verified(r, n) \in Runs
  BY DEF Runs, Noted, Authorized, Verified
<1>2. Coherent(Noted(r, n)) /\ Coherent(Authorized(r)) /\ Coherent(Verified(r, n))
  BY NoneAssumption, StepsAssumption DEF Runs, Noted, Authorized, Verified, Fit, Coherent
<1>3. Noted(r, n).audit = r.audit /\ Authorized(r).audit = r.audit /\ Verified(r, n).audit = None
  BY DEF Runs, Noted, Authorized, Verified
<1>4. Makers(Noted(r, n)) \subseteq Makers(r) \cup {n} /\ Makers(Authorized(r)) = Makers(r)
  BY DEF Runs, Noted, Authorized, Makers
<1>5. Makers(Verified(r, n)) \subseteq Makers(r) \cup {n}
  BY DEF Runs, Verified, Makers
<1> QED
  BY <1>1, <1>2, <1>3, <1>4, <1>5 DEF Fit

\* A conclusion of what the copy holds leaves it fit to be written.
LEMMA Conclusions ==
  ASSUME NEW r \in Runs, NEW N, NEW B, Fit(r, N, B), NEW n \in Steps, n \in B, r.result # None
  PROVE  /\ Judged(r, n) \in Runs /\ Fit(Judged(r, n), N, B)
         /\ Decided(r, n) \in Runs /\ Fit(Decided(r, n), N, B) /\ Decided(r, n).decision # None
<1>1. r.result \in Steps
  BY DEF Runs
<1>2. PICK s \in Semantics : s = [by |-> n, result |-> r.result]
  BY <1>1 DEF Semantics
<1>3. PICK d \in Decisions : d = [by |-> n, result |-> r.result, semantic |-> r.semantic]
  BY <1>1 DEF Decisions, Runs
<1>4. s # None /\ d # None
  BY NoneAssumption
<1>5. Judged(r, n) \in Runs /\ Decided(r, n) \in Runs /\ Decided(r, n).decision = d
  BY <1>2, <1>3 DEF Runs, Judged, Decided
<1>6. Coherent(Judged(r, n)) /\ Coherent(Decided(r, n))
  BY <1>2, <1>3, <1>4 DEF Runs, Judged, Decided, Fit, Coherent
<1>7. Judged(r, n).audit = None /\ Decided(r, n).audit = None
  BY DEF Runs, Judged, Decided
<1>8. Makers(Judged(r, n)) \subseteq Makers(r) \cup {n}
  BY <1>2 DEF Runs, Judged, Makers
<1>9. Makers(Decided(r, n)) \subseteq Makers(r) \cup {n}
  BY <1>3 DEF Runs, Decided, Makers
<1> QED
  BY <1>4, <1>5, <1>6, <1>7, <1>8, <1>9 DEF Fit

\* Routing and sealing a copy that has a decision leave it fit to be written.
LEMMA Routings ==
  ASSUME NEW r \in Runs, NEW N, NEW B, Fit(r, N, B), NEW n \in Steps, n \in B, r.decision # None
  PROVE  /\ r.decision \in Decisions
         /\ Notified(r) \in Runs /\ Fit(Notified(r), N, B) /\ Notified(r).decision = r.decision
         /\ (Routed => r.decision \in N) => Sealed(r, n) \in Runs /\ Fit(Sealed(r, n), N, B)
<1>1. r.decision \in Decisions
  BY DEF Runs
<1>2. r.result \in Steps
  BY <1>1 DEF Fit, Coherent, Decisions
<1>3. Notified(r) \in Runs /\ Notified(r).decision = r.decision
  BY <1>1 DEF Runs, Notified
<1>4. Coherent(Notified(r)) /\ Makers(Notified(r)) = Makers(r) /\ Notified(r).audit = r.audit
  BY DEF Runs, Notified, Fit, Coherent, Makers
<1>5. ASSUME Routed => r.decision \in N, r.audit = None
      PROVE  Sealed(r, n) \in Runs /\ Fit(Sealed(r, n), N, B)
  <2>1. PICK a \in Audits : a = [by |-> n, result |-> r.result, semantic |-> r.semantic, decision |-> r.decision]
    BY <1>1, <1>2 DEF Audits, Runs
  <2>2. Sealed(r, n) = [r EXCEPT !.audit = a]
    BY <1>5, <2>1 DEF Sealed
  <2>3. Sealed(r, n) \in Runs
    BY <2>2 DEF Runs
  <2>4. Coherent(Sealed(r, n)) /\ Sealed(r, n).audit.decision = r.decision
    BY <2>1, <2>2 DEF Runs, Fit, Coherent
  <2>5. Makers(Sealed(r, n)) \subseteq Makers(r) \cup {n}
    BY <2>1, <2>2 DEF Runs, Makers
  <2> QED
    BY <1>5, <2>3, <2>4, <2>5 DEF Fit
<1>6. r.audit # None => Sealed(r, n) = r
  BY DEF Sealed
<1> QED
  BY <1>1, <1>3, <1>4, <1>5, <1>6 DEF Fit

----------------------------------------------------------------------------
(* The invariant *)

\* Every copy, written or not, may be written.
Works ==
  /\ state \notin {NoFile, Torn} => Fit(state, notices, Begun)
  /\ \A n \in Steps : Fit(draft[n], notices, Begun)

\* Where a step is, or goes once its copy is written.
Heading(n) == IF pc[n] \in {"truncate", "write"} THEN then[n] ELSE pc[n]

\* A step has what it needs where it is going.
Equipped(n) ==
  /\ pc[n] \in {"truncate", "write"} => then[n] \in Afters
  /\ n \in UnderWay => op[n] \in Operations
  /\ Heading(n) \in {"notify", "seal"} => draft[n].decision # None
  /\ Heading(n) = "seal" /\ Routed => draft[n].decision \in notices

\* A step that already has a line is writing its second, which says it failed.
Due(n) ==
  /\ n \in broken => n \in Begun
  /\ \A i \in 1 .. Len(lines) :
       lines[i].step = n /\ n \in UnderWay =>
         ~lines[i].failed /\ ~Succeeded(n) /\ pc[n] \in {"count", "file", "line"}

\* The fence counts the steps that are under way.
Fenced == fence.active = Cardinality(UnderWay)

\* As long as the revision is the one it noted, an export has read a run at rest.
Rested ==
  export # NoExport =>
    /\ export.revision \in Nat /\ export.revision <= fence.revision
    /\ export.revision = fence.revision =>
         /\ UnderWay = {}
         /\ export.lines \in {None, lines}
         /\ export.state # None => export.lines # None /\ export.state = Content(state)

IInv ==
  /\ TypeOK /\ IsFiniteSet(files) /\ Works /\ \A n \in Steps : Equipped(n) /\ Due(n)
  /\ Fenced /\ ReceiptPerStep /\ Rested

\* Lines are receipts of steps.
LEMMA LinesTyped ==
  ASSUME TypeOK
  PROVE  Len(lines) \in Nat /\ \A i \in 1 .. Len(lines) : lines[i].step \in Steps /\ lines[i].failed \in BOOLEAN
<1>1. lines \in Seq([sequence: Nat, step: Steps, failed: BOOLEAN])
  BY DEF TypeOK, Receipts
<1>2. \A i \in 1 .. Len(lines) : lines[i] \in [sequence: Nat, step: Steps, failed: BOOLEAN]
  BY <1>1, ElementOfSeq
<1>3. Len(lines) \in Nat
  BY <1>1, LenProperties
<1> QED
  BY <1>2, <1>3

LEMMA InitIInv == Init => IInv
<1> SUFFICES ASSUME Init PROVE IInv
  OBVIOUS
<1>1. UnderWay = {}
  BY DEF Init, UnderWay
<1>2. TypeOK
  BY NewRunFit DEF Init, TypeOK, Places, Receipts, NoExport
<1>3. Works /\ \A n \in Steps : Equipped(n) /\ Due(n)
  BY <1>1, NewRunFit DEF Init, Works, Equipped, Heading, Due
<1>4. IsFiniteSet(files) /\ Fenced /\ ReceiptPerStep /\ Rested
  BY <1>1, FS_EmptySet DEF Init, Fenced, ReceiptPerStep, Rested
<1> QED
  BY <1>2, <1>3, <1>4 DEF IInv

----------------------------------------------------------------------------
(* Steps that are under way before and after *)

\* A step goes on: it stays under way.
Moves(n) ==
  /\ n \in UnderWay
  /\ \E place \in Places \ {"new", "done", "lost"} : Goto(n, place)

LEMMA MovesKeep ==
  ASSUME TypeOK, NEW n \in Steps, Moves(n)
  PROVE  UnderWay' = UnderWay /\ Begun' = Begun /\ n \in Begun /\ pc' \in [Steps -> Places]
BY DEF TypeOK, Moves, Goto, UnderWay, Begun, Places

\* What a step under way does, the beginning and the end of it apart.
Inner(n) ==
  Fail(n) \/ Reads(n) \/ Notify(n) \/ Seal(n) \/ Truncate(n) \/ Write(n) \/ Count(n) \/ File(n)

LEMMA InnerMoves ==
  ASSUME IInv, NEW n \in Steps, Inner(n)
  PROVE  Moves(n) /\ UNCHANGED <<lines, broken, fence, export, crashes, op>>
<1>1. then[n] \in Afters \cup {None} /\ Equipped(n)
  BY DEF IInv, TypeOK
<1>2. CASE Fail(n) \/ Truncate(n) \/ Count(n) \/ File(n)
  BY <1>2 DEF runVars, receiptVars, Fail, Throw, Truncate, Count, File, Moves, UnderWay, Places, Goto
<1>3. CASE Write(n)
  BY <1>1, <1>3 DEF runVars, receiptVars, Write, Equipped, Heading, Afters, Moves, UnderWay, Places, Goto
<1>4. CASE Reads(n)
  BY <1>4 DEF runVars, receiptVars, Reads, ReadNote, ReadVerify, ReadAgain, ReadJudge, ReadPolicy, ReadSeal, SealRoutes,
              Save, Moves, UnderWay, Places, Goto
<1>5. CASE Notify(n) \/ Seal(n)
  BY <1>5 DEF runVars, receiptVars, Notify, Seal, Save, Moves, UnderWay, Places, Goto
<1> QED
  BY <1>2, <1>3, <1>4, <1>5 DEF Inner

\* Nothing but the copies is at stake in such a step.
LEMMA InnerKeeps ==
  ASSUME IInv, NEW n \in Steps, Inner(n)
  PROVE  Fenced' /\ ReceiptPerStep' /\ Rested' /\ \A k \in Steps : Due(k)'
<1>1. Moves(n) /\ UNCHANGED <<lines, broken, fence, export, crashes, op>>
  BY InnerMoves
<1>2. UnderWay' = UnderWay /\ Begun' = Begun /\ n \in UnderWay
  BY <1>1, MovesKeep DEF IInv, Moves
<1>3. Fenced' /\ Rested'
  BY <1>1, <1>2 DEF IInv, Fenced, Rested, NoExport
<1>4. \A k \in Steps : pc'[k] = "done" <=> pc[k] = "done"
  BY <1>1 DEF Moves, Goto, IInv, TypeOK, UnderWay, Places
<1>5. ReceiptPerStep'
  BY <1>1, <1>4, LinesTyped DEF IInv, ReceiptPerStep
<1>6. ASSUME NEW k \in Steps PROVE Due(k)'
  <2>1. CASE k # n
    <3>1. pc'[k] = pc[k] /\ then'[k] = then[k]
      <4>1. pc'[k] = pc[k]
        BY <1>1, <2>1 DEF Moves, Goto, IInv, TypeOK
      <4>2. then'[k] = then[k]
        BY <2>1 DEF IInv, TypeOK, Inner, Fail, Throw, Reads, ReadNote, ReadVerify, ReadAgain, ReadJudge,
                    ReadPolicy, ReadSeal, Notify, Seal, Truncate, Write, Count, File, Save
      <4> QED
        BY <4>1, <4>2
    <3> QED
      BY <1>1, <1>2, <3>1 DEF IInv, Due, Succeeded
  <2>2. CASE k = n /\ pc[n] \in {"count", "file", "line"}
    <3>1. then' = then /\ pc'[n] \in {"file", "line"}
      BY <2>2 DEF IInv, TypeOK, Goto, Inner, Fail, Reads, ReadNote, ReadVerify, ReadAgain, ReadJudge,
                  ReadPolicy, ReadSeal, Notify, Seal, Truncate, Write, Count, File
    <3> QED
      BY <1>1, <1>2, <2>2, <3>1 DEF IInv, Due, Succeeded
  <2>3. CASE k = n /\ pc[n] \notin {"count", "file", "line"}
    BY <1>1, <1>2, <2>3 DEF IInv, Due
  <2> QED
    BY <2>1, <2>2, <2>3
<1> QED
  BY <1>3, <1>5, <1>6

----------------------------------------------------------------------------
(* Copies in a step *)

\* Copies, the decisions routed so far, and where steps are going.
Copied == Works /\ (\A n \in Steps : Equipped(n)) /\ draft \in [Steps -> Runs] /\ then \in [Steps -> Afters \cup {None}]

\* A step that saves a fit copy that has what the next place needs.
LEMMA SaveKeeps ==
  ASSUME IInv, NEW n \in Steps, n \in UnderWay, NEW r \in Runs, NEW place \in Afters,
         Save(n, r, place), UNCHANGED <<state, op>>, notices \subseteq notices', Fit(r, notices', Begun),
         place \in {"notify", "seal"} => r.decision # None,
         place = "seal" /\ Routed => r.decision \in notices'
  PROVE  Copied'
<1>1. Moves(n)
  BY DEF Save, Moves, Places
<1>2. UnderWay' = UnderWay /\ Begun' = Begun
  BY <1>1, MovesKeep DEF IInv
<1>3. /\ draft' \in [Steps -> Runs] /\ draft'[n] = r
      /\ \A k \in Steps \ {n} : draft'[k] = draft[k] /\ then'[k] = then[k] /\ pc'[k] = pc[k]
      /\ then' \in [Steps -> Afters \cup {None}] /\ then'[n] = place /\ pc'[n] = "truncate"
  BY DEF IInv, TypeOK, Save, Goto
<1>4. Works'
  <2>1. state \notin {NoFile, Torn} => Fit(state, notices', Begun)
    BY FitGrows DEF IInv, Works
  <2>2. \A k \in Steps : Fit(draft'[k], notices', Begun)
    BY <1>3, FitGrows DEF IInv, Works
  <2> QED
    BY <1>2, <2>1, <2>2 DEF Works
<1>5. ASSUME NEW k \in Steps PROVE Equipped(k)'
  <2>1. CASE k = n
    BY <1>2, <1>3, <2>1 DEF IInv, Equipped, Heading
  <2>2. CASE k # n
    BY <1>2, <1>3, <2>2 DEF IInv, Equipped, Heading
  <2> QED
    BY <2>1, <2>2
<1> QED
  BY <1>3, <1>4, <1>5 DEF Copied

\* A step that leaves the copies as they are and goes where nothing is needed.
LEMMA LeaveKeeps ==
  ASSUME IInv, NEW n \in Steps, Moves(n), pc'[n] \notin {"truncate", "write", "notify", "seal"},
         UNCHANGED <<state, notices, op, draft, then>>
  PROVE  Copied'
<1>1. UnderWay' = UnderWay /\ Begun' = Begun
  BY MovesKeep DEF IInv
<1>2. \A k \in Steps \ {n} : pc'[k] = pc[k]
  BY DEF IInv, TypeOK, Moves, Goto
<1>3. Works'
  BY <1>1 DEF IInv, Works
<1>4. ASSUME NEW k \in Steps PROVE Equipped(k)'
  <2>1. CASE k = n
    BY <1>1, <2>1 DEF IInv, Equipped, Heading
  <2>2. CASE k # n
    BY <1>1, <1>2, <2>2 DEF IInv, Equipped, Heading
  <2> QED
    BY <2>1, <2>2
<1> QED
  BY <1>3, <1>4 DEF Copied, IInv, TypeOK

\* A step that throws goes on with its receipt, without its copy.
LEMMA ThrowKeeps ==
  ASSUME IInv, NEW n \in Steps, n \in UnderWay, Throw(n), UNCHANGED <<state, notices, op>>
  PROVE  Moves(n) /\ UnderWay' = UnderWay /\ Copied'
<1>1. Moves(n)
  BY DEF Throw, Moves, Places
<1>2. UnderWay' = UnderWay /\ Begun' = Begun
  BY <1>1, MovesKeep DEF IInv
<1>3. /\ draft' = [draft EXCEPT ![n] = NewRun] /\ then' = [then EXCEPT ![n] = None]
      /\ pc' = [pc EXCEPT ![n] = "count"]
  BY DEF Throw, Goto
<1>4. draft' \in [Steps -> Runs] /\ then' \in [Steps -> Afters \cup {None}]
  BY <1>3, NewRunFit DEF IInv, TypeOK
<1>5. Works'
  BY <1>2, <1>3, NewRunFit DEF IInv, TypeOK, Works
<1>6. ASSUME NEW k \in Steps PROVE Equipped(k)'
  <2>1. CASE k = n
    BY <1>2, <1>3, <2>1 DEF IInv, TypeOK, Equipped, Heading
  <2>2. CASE k # n
    BY <1>2, <1>3, <2>2 DEF IInv, TypeOK, Equipped, Heading
  <2> QED
    BY <2>1, <2>2
<1> QED
  BY <1>1, <1>2, <1>4, <1>5, <1>6 DEF Copied

\* What a step reads is a run, and its own copy is one.
LEMMA ReadsRun ==
  ASSUME IInv, NEW n \in Steps, n \in UnderWay
  PROVE  /\ n \in Begun
         /\ draft[n] \in Runs /\ Fit(draft[n], notices, Begun)
         /\ state # Torn => Content(state) \in Runs /\ Fit(Content(state), notices, Begun)
<1>1. n \in Begun
  BY DEF UnderWay, Begun
<1>2. draft[n] \in Runs /\ Fit(draft[n], notices, Begun)
  BY DEF IInv, TypeOK, Works
<1>3. state # Torn => Content(state) \in Runs /\ Fit(Content(state), notices, Begun)
  BY NewRunFit DEF IInv, TypeOK, Works, Content
<1> QED
  BY <1>1, <1>2, <1>3

LEMMA ReadsKeep ==
  ASSUME IInv, NEW n \in Steps, Reads(n)
  PROVE  Copied'
<1> DEFINE r == Content(state)
<1>1. Moves(n) /\ n \in UnderWay
  BY InnerMoves DEF Inner, Moves
<1>2. n \in Begun /\ (state # Torn => r \in Runs /\ Fit(r, notices, Begun))
  BY <1>1, ReadsRun
<1>3. UNCHANGED <<state, notices, op>>
  BY DEF runVars, Reads, ReadNote, ReadVerify, ReadAgain, ReadJudge, ReadPolicy, ReadSeal
<1>4. "count" \in Afters /\ "again" \in Afters /\ "notify" \in Afters
  BY DEF Afters
<1>5. CASE ReadNote(n)
  <2>1. state # Torn /\ Save(n, Noted(r, n), "count")
    BY <1>5 DEF ReadNote
  <2>2. Noted(r, n) \in Runs /\ Fit(Noted(r, n), notices, Begun)
    BY <1>2, <2>1, Edits
  <2> QED
    BY <1>1, <1>3, <1>4, <2>1, <2>2, SaveKeeps
<1>6. CASE ReadVerify(n) /\ Routed
  <2>1. state # Torn /\ Save(n, Authorized(r), "again")
    BY <1>6 DEF ReadVerify
  <2>2. Authorized(r) \in Runs /\ Fit(Authorized(r), notices, Begun)
    BY <1>2, <2>1, Edits
  <2> QED
    BY <1>1, <1>3, <1>4, <2>1, <2>2, SaveKeeps
<1>7. CASE ReadVerify(n) /\ ~Routed
  <2>1. Goto(n, "again") /\ UNCHANGED <<draft, then>>
    BY <1>7 DEF ReadVerify
  <2> QED
    BY <1>1, <1>3, <2>1, LeaveKeeps DEF Goto, IInv, TypeOK
<1>8. CASE ReadAgain(n)
  <2>1. state # Torn /\ Save(n, Verified(r, n), "count")
    BY <1>8 DEF ReadAgain
  <2>2. Verified(r, n) \in Runs /\ Fit(Verified(r, n), notices, Begun)
    BY <1>2, <2>1, Edits
  <2> QED
    BY <1>1, <1>3, <1>4, <2>1, <2>2, SaveKeeps
<1>9. CASE ReadJudge(n)
  <2>1. state # Torn /\ r.result # None /\ Save(n, Judged(r, n), "count")
    BY <1>9 DEF ReadJudge
  <2>2. Judged(r, n) \in Runs /\ Fit(Judged(r, n), notices, Begun)
    BY <1>2, <2>1, Conclusions
  <2> QED
    BY <1>1, <1>3, <1>4, <2>1, <2>2, SaveKeeps
<1>10. CASE ReadPolicy(n)
  <2> DEFINE place == IF Routed \/ r.authority THEN "notify" ELSE "count"
  <2>1. state # Torn /\ r.result # None /\ Save(n, Decided(r, n), place)
    BY <1>10 DEF ReadPolicy
  <2>2. Decided(r, n) \in Runs /\ Fit(Decided(r, n), notices, Begun) /\ Decided(r, n).decision # None
    BY <1>2, <2>1, Conclusions
  <2>3. place \in Afters /\ place # "seal"
    BY <1>4
  <2> HIDE DEF place
  <2> QED
    BY <1>1, <1>3, <2>1, <2>2, <2>3, SaveKeeps
<1>11. CASE ReadSeal(n)
  <2>1. /\ state # Torn /\ r.decision # None /\ then' = then
        /\ pc' = [pc EXCEPT ![n] = SealRoutes(r)]
        /\ draft' = [draft EXCEPT ![n] = r]
    BY <1>11 DEF ReadSeal, Goto
  <2>2. UnderWay' = UnderWay /\ Begun' = Begun
    BY <1>1, MovesKeep DEF IInv
  <2>3. /\ r \in Runs /\ Fit(r, notices, Begun)
        /\ SealRoutes(r) \in {"notify", "seal"} /\ (Routed => SealRoutes(r) = "notify")
    BY <1>2, <2>1 DEF SealRoutes
  <2>4. draft' \in [Steps -> Runs] /\ Works'
    BY <1>3, <2>1, <2>2, <2>3 DEF IInv, TypeOK, Works
  <2>5. ASSUME NEW k \in Steps PROVE Equipped(k)'
    <3>1. CASE k = n
      <4>1. pc'[k] = SealRoutes(r) /\ draft'[k] = r
        BY <2>1, <3>1 DEF IInv, TypeOK
      <4> QED
        BY <1>1, <1>3, <2>1, <2>2, <2>3, <3>1, <4>1 DEF IInv, Equipped, Heading
    <3>2. CASE k # n
      <4>1. pc'[k] = pc[k] /\ draft'[k] = draft[k]
        BY <2>1, <3>2 DEF IInv, TypeOK
      <4> QED
        BY <1>3, <2>1, <2>2, <4>1 DEF IInv, Equipped, Heading
    <3> QED
      BY <3>1, <3>2
  <2> QED
    BY <2>1, <2>4, <2>5 DEF Copied, IInv, TypeOK
<1> QED
  BY <1>5, <1>6, <1>7, <1>8, <1>9, <1>10, <1>11 DEF Reads

\* A copy that is routed or sealed, and a copy that is written.
LEMMA RestKeeps ==
  ASSUME IInv, NEW n \in Steps, Fail(n) \/ Notify(n) \/ Seal(n) \/ Truncate(n) \/ Write(n) \/ Count(n) \/ File(n)
  PROVE  Copied' /\ state' \in Runs \cup {NoFile, Torn} /\ notices' \subseteq Decisions
<1> DEFINE r == draft[n]
<1>1. Moves(n) /\ n \in UnderWay /\ op' = op
  BY InnerMoves DEF Inner, Moves
<1>2. n \in Begun /\ r \in Runs /\ Fit(r, notices, Begun)
  BY <1>1, ReadsRun
<1>3. UnderWay' = UnderWay /\ Begun' = Begun
  BY <1>1, MovesKeep DEF IInv
<1>4. state \in Runs \cup {NoFile, Torn} /\ notices \subseteq Decisions /\ Equipped(n)
  BY DEF IInv, TypeOK
<1>5. CASE Count(n) \/ File(n)
  <2>1. UNCHANGED <<state, notices, draft, then>> /\ pc'[n] \in {"count", "file", "line"}
    BY <1>5 DEF runVars, Count, File, Goto, IInv, TypeOK
  <2> QED
    BY <1>1, <1>4, <2>1, LeaveKeeps
<1>6. CASE Notify(n)
  <2> DEFINE place == IF op[n] = "seal" THEN "seal" ELSE "count"
  <2>1. notices' = notices \cup {r.decision} /\ state' = state /\ Save(n, Notified(r), place)
    BY <1>6 DEF Notify
  <2>2. r.decision # None
    BY <1>4, <1>6 DEF Notify, Equipped, Heading
  <2>3. r.decision \in Decisions /\ Notified(r) \in Runs /\ Fit(Notified(r), notices, Begun)
        /\ Notified(r).decision = r.decision
    BY <1>2, <2>2, Routings
  <2>4. Fit(Notified(r), notices', Begun)
    BY <2>1, <2>3, FitGrows
  <2>5. place \in Afters
    BY DEF Afters
  <2> HIDE DEF place
  <2> QED
    BY <1>1, <1>4, <2>1, <2>2, <2>3, <2>4, <2>5, SaveKeeps
<1>7. CASE Seal(n)
  <2>1. notices' = notices /\ state' = state /\ Save(n, Sealed(r, n), "count")
    BY <1>7 DEF Seal, runVars
  <2>2. r.decision # None /\ (Routed => r.decision \in notices)
    BY <1>4, <1>7 DEF Seal, Equipped, Heading
  <2>3. Sealed(r, n) \in Runs /\ Fit(Sealed(r, n), notices, Begun)
    BY <1>2, <2>2, Routings
  <2> QED
    BY <1>1, <1>4, <2>1, <2>3, SaveKeeps DEF Afters
<1>8. CASE Fail(n)
  <2>1. UNCHANGED <<state, notices>> /\ Throw(n)
    BY <1>8 DEF Fail, runVars
  <2> QED
    BY <1>1, <1>4, <2>1, ThrowKeeps
<1>9. CASE Truncate(n) \/ Write(n)
  <2>1. UNCHANGED <<notices, draft, then>> /\ state' \in {draft[n], Torn}
    BY <1>9 DEF Truncate, Write
  <2>2. Works'
    BY <1>2, <1>3, <2>1 DEF IInv, Works
  <2>3. Heading(n)' = Heading(n) /\ (pc'[n] \in {"truncate", "write"} => then'[n] \in Afters)
    BY <1>4, <1>9, <2>1 DEF Truncate, Write, Equipped, Heading, Goto, IInv, TypeOK, Afters
  <2>4. Equipped(n)'
    BY <1>1, <1>3, <1>4, <2>1, <2>3 DEF Equipped
  <2>5. ASSUME NEW k \in Steps, k # n PROVE Equipped(k)'
    <3>1. pc'[k] = pc[k]
      BY <1>1, <2>5 DEF Moves, Goto, IInv, TypeOK
    <3> QED
      BY <1>1, <1>3, <2>1, <3>1 DEF IInv, Equipped, Heading
  <2> QED
    BY <1>2, <1>4, <2>1, <2>2, <2>4, <2>5 DEF Copied, IInv, TypeOK
<1> QED
  BY <1>5, <1>6, <1>7, <1>8, <1>9

----------------------------------------------------------------------------
(* Every step keeps the invariant *)

LEMMA InnerIInv ==
  ASSUME IInv, NEW n \in Steps, Inner(n)
  PROVE  IInv'
<1>1. Fenced' /\ ReceiptPerStep' /\ Rested' /\ \A k \in Steps : Due(k)'
  BY InnerKeeps
<1>2. Moves(n) /\ UNCHANGED <<lines, broken, fence, export, crashes, op>> /\ n \in UnderWay
  BY InnerMoves DEF Moves
<1>3. Copied' /\ state' \in Runs \cup {NoFile, Torn} /\ notices' \subseteq Decisions
  <2>1. CASE Reads(n)
    <3>1. UNCHANGED <<state, notices>>
      BY <2>1 DEF runVars, Reads, ReadNote, ReadVerify, ReadAgain, ReadJudge, ReadPolicy, ReadSeal
    <3> QED
      BY <2>1, <3>1, ReadsKeep DEF IInv, TypeOK
  <2>2. CASE ~Reads(n)
    BY <2>2, RestKeeps DEF Inner
  <2> QED
    BY <2>1, <2>2
<1>4. pc' \in [Steps -> Places]
  BY <1>2, MovesKeep DEF IInv
<1>5. files' \subseteq Nat \X Operations /\ IsFiniteSet(files') /\ number' \in [Steps -> Nat]
  <2>1. CASE Count(n)
    <3>1. number' = [number EXCEPT ![n] = Cardinality(files) + 1] /\ files' = files
      BY <2>1 DEF Count
    <3>2. Cardinality(files) \in Nat
      BY FS_CardinalityType DEF IInv
    <3> QED
      BY <3>1, <3>2 DEF IInv, TypeOK
  <2>2. CASE File(n)
    <3>1. files' = files \cup {<<number[n], op[n]>>} /\ number' = number
      BY <2>2 DEF File
    <3>2. op[n] \in Operations /\ number[n] \in Nat
      BY <1>2 DEF IInv, TypeOK, Equipped
    <3>3. IsFiniteSet(files')
      BY <3>1, FS_AddElement DEF IInv
    <3> QED
      BY <3>1, <3>2, <3>3 DEF IInv, TypeOK
  <2>3. CASE ~Count(n) /\ ~File(n)
    <3>1. UNCHANGED <<files, number>>
      BY <2>3 DEF receiptVars, Inner, Fail, Reads, ReadNote, ReadVerify, ReadAgain, ReadJudge, ReadPolicy,
                  ReadSeal, Notify, Seal, Truncate, Write
    <3> QED
      BY <3>1 DEF IInv, TypeOK
  <2> QED
    BY <2>1, <2>2, <2>3
<1>6. TypeOK'
  BY <1>2, <1>3, <1>4, <1>5 DEF IInv, TypeOK, Copied
<1> QED
  BY <1>1, <1>3, <1>5, <1>6 DEF IInv, Copied

\* The steps under way are finitely many, one more when a step begins, one
\* less when it returns.
LEMMA UnderWayFinite == IsFiniteSet(UnderWay)
BY StepsAssumption, FS_Subset DEF UnderWay

LEMMA BeginIInv ==
  ASSUME IInv, NEW n \in Steps, NEW o \in Operations, Begin(n, o)
  PROVE  IInv'
<1>1. /\ pc[n] = "new" /\ pc' = [pc EXCEPT ![n] = "read"] /\ op' = [op EXCEPT ![n] = o]
      /\ fence' = [active |-> fence.active + 1, revision |-> fence.revision + 1]
      /\ UNCHANGED <<state, notices, files, lines, number, broken, draft, then, export, crashes>>
  BY DEF Begin, runVars, receiptVars, Goto
<1>2. UnderWay' = UnderWay \cup {n} /\ n \notin UnderWay /\ Begun \subseteq Begun'
  BY <1>1 DEF IInv, TypeOK, UnderWay, Begun
<1>3. TypeOK'
  BY <1>1 DEF IInv, TypeOK, Places
<1>4. Fenced'
  BY <1>1, <1>2, UnderWayFinite, FS_AddElement DEF IInv, Fenced
<1>5. Works'
  BY <1>1, <1>2, FitGrows DEF IInv, Works
<1>6. \A k \in Steps : Equipped(k)'
  BY <1>1, <1>2 DEF IInv, TypeOK, Equipped, Heading
<1>7. ReceiptPerStep'
  BY <1>1, LinesTyped DEF IInv, TypeOK, ReceiptPerStep
<1>8. Rested'
  BY <1>1 DEF IInv, TypeOK, Rested, NoExport
<1>9. ASSUME NEW k \in Steps PROVE Due(k)'
  <2>1. CASE k = n
    <3>1. n \notin broken
      BY <1>1 DEF IInv, Due, Begun
    <3>2. \A i \in 1 .. Len(lines) : lines[i].step # n
      BY <1>1, <3>1 DEF IInv, ReceiptPerStep
    <3> QED
      BY <1>1, <2>1, <3>1, <3>2 DEF Due
  <2>2. CASE k # n
    BY <1>1, <1>2, <2>2 DEF IInv, TypeOK, Due, Succeeded
  <2> QED
    BY <2>1, <2>2
<1> QED
  BY <1>1, <1>3, <1>4, <1>5, <1>6, <1>7, <1>8, <1>9 DEF IInv

\* What a step leaves when it returns, its receipts apart.
LEMMA ReturnKeeps ==
  ASSUME IInv, NEW n \in Steps, n \in UnderWay, Return(n), UNCHANGED <<state, notices, export>>
  PROVE  /\ UnderWay' = UnderWay \ {n} /\ Begun' = Begun
         /\ pc' = [pc EXCEPT ![n] = "done"] /\ then' = [then EXCEPT ![n] = None]
         /\ pc' \in [Steps -> Places] /\ op' \in [Steps -> Operations \cup {None}]
         /\ draft' \in [Steps -> Runs] /\ then' \in [Steps -> Afters \cup {None}]
         /\ number' \in [Steps -> Nat] /\ fence' \in [active: Nat, revision: Nat]
         /\ Fenced' /\ Works' /\ (\A k \in Steps : Equipped(k)') /\ Rested'
<1>1. /\ pc' = [pc EXCEPT ![n] = "done"] /\ op' = [op EXCEPT ![n] = None]
      /\ draft' = [draft EXCEPT ![n] = NewRun] /\ then' = [then EXCEPT ![n] = None]
      /\ number' = [number EXCEPT ![n] = 0]
      /\ fence' = [active |-> fence.active - 1, revision |-> fence.revision + 1]
  BY DEF Return, Goto
<1>2. UnderWay' = UnderWay \ {n} /\ Begun' = Begun
  BY <1>1 DEF IInv, TypeOK, UnderWay, Begun
<1>3. Cardinality(UnderWay') = Cardinality(UnderWay) - 1 /\ Cardinality(UnderWay') \in Nat
  BY <1>2, UnderWayFinite, FS_RemoveElement, FS_CardinalityType
<1>4. Fenced' /\ fence' \in [active: Nat, revision: Nat]
  BY <1>1, <1>3 DEF IInv, TypeOK, Fenced
<1>5. /\ pc' \in [Steps -> Places] /\ op' \in [Steps -> Operations \cup {None}]
      /\ draft' \in [Steps -> Runs] /\ then' \in [Steps -> Afters \cup {None}]
      /\ number' \in [Steps -> Nat]
  BY <1>1, NewRunFit DEF IInv, TypeOK, Places
<1>6. Works'
  BY <1>1, <1>2, NewRunFit DEF IInv, TypeOK, Works
<1>7. \A k \in Steps : Equipped(k)'
  BY <1>1, <1>2 DEF IInv, TypeOK, Equipped, Heading
<1>8. Rested'
  BY <1>1 DEF IInv, TypeOK, Rested, NoExport
<1> QED
  BY <1>1, <1>2, <1>4, <1>5, <1>6, <1>7, <1>8

\* A step that may have put its line has its one receipt when it returns; where
\* the line failed it goes on with a failed one, or returns without.
LEMMA ReceiptsKeep ==
  ASSUME IInv, NEW n \in Steps, pc[n] \in {"count", "file", "line"},
         lines' = lines \/ lines' = Append(lines, Receipt(n)),
         broken' = broken \/ broken' = broken \cup {n},
         NEW place, pc' = [pc EXCEPT ![n] = place], then' = [then EXCEPT ![n] = None],
         \/ place = "done" /\ (n \in broken' \/ lines' = Append(lines, Receipt(n)))
         \/ place = "count" /\ Succeeded(n) /\ n \in broken'
  PROVE  lines' \in Receipts /\ ReceiptPerStep' /\ \A k \in Steps : Due(k)'
<1>1. /\ pc'[n] = place /\ then'[n] = None /\ n \in Begun /\ n \in UnderWay /\ pc[n] # "done"
      /\ \A k \in Steps \ {n} : pc'[k] = pc[k] /\ then'[k] = then[k]
  BY DEF IInv, TypeOK, Begun, UnderWay
<1>2. lines \in Receipts /\ number[n] \in Nat /\ Receipt(n) \in [sequence: Nat, step: Steps, failed: BOOLEAN]
      /\ Receipt(n).step = n /\ (Receipt(n).failed <=> ~Succeeded(n))
  BY DEF IInv, TypeOK, Receipt, Succeeded
<1>3. Len(lines) \in Nat /\ \A i \in 1 .. Len(lines) : lines[i].step \in Steps /\ lines[i].failed \in BOOLEAN
  BY LinesTyped DEF IInv
<1>4. lines' = Append(lines, Receipt(n)) =>
        /\ lines' \in Receipts /\ Len(lines') = Len(lines) + 1 /\ lines'[Len(lines) + 1] = Receipt(n)
        /\ \A i \in 1 .. Len(lines) : lines'[i] = lines[i]
  BY <1>2, AppendProperties DEF Receipts
<1>5. lines' \in Receipts /\ Len(lines') \in Nat /\ Len(lines') >= Len(lines)
      /\ \A i \in 1 .. Len(lines) : lines'[i] = lines[i]
  BY <1>2, <1>3, <1>4 DEF Receipts
<1>6. \A i \in 1 .. Len(lines') :
         \/ i \in 1 .. Len(lines)
         \/ i = Len(lines) + 1 /\ lines'[i] = Receipt(n) /\ lines' = Append(lines, Receipt(n))
  BY <1>3, <1>4
<1>7. \A i \in 1 .. Len(lines) : lines[i].step = n => ~lines[i].failed /\ ~Succeeded(n) /\ n \in broken
  BY <1>1 DEF IInv, Due, ReceiptPerStep
<1>8. broken \subseteq broken' /\ \A k \in Steps \ {n} : k \in broken' <=> k \in broken
  OBVIOUS
<1>9. ASSUME NEW k \in Steps, pc'[k] = "done"
      PROVE  k \in broken' \/ \E i \in 1 .. Len(lines') : lines'[i].step = k
  <2>1. CASE k = n
    BY <1>1, <1>2, <1>3, <1>4, <1>9, <2>1
  <2>2. CASE k # n
    <3>1. k \in broken \/ \E i \in 1 .. Len(lines) : lines[i].step = k
      BY <1>1, <1>9, <2>2 DEF IInv, ReceiptPerStep
    <3> QED
      BY <1>3, <1>5, <1>8, <3>1
  <2> QED
    BY <2>1, <2>2
<1>10. ASSUME NEW i \in 1 .. Len(lines')
       PROVE  pc'[lines'[i].step] = "done" \/ lines'[i].step \in broken'
  <2>1. CASE i \in 1 .. Len(lines)
    <3>1. pc[lines[i].step] = "done" \/ lines[i].step \in broken
      BY <2>1 DEF IInv, ReceiptPerStep
    <3> QED
      BY <1>1, <1>3, <1>5, <1>8, <2>1, <3>1
  <2>2. CASE i = Len(lines) + 1 /\ lines'[i] = Receipt(n)
    BY <1>1, <1>2, <2>2
  <2> QED
    BY <1>6, <2>1, <2>2
<1>11. ASSUME NEW i \in 1 .. Len(lines'), NEW j \in 1 .. Len(lines'), lines'[i].step = lines'[j].step, i # j
       PROVE  lines'[i].failed # lines'[j].failed /\ lines'[i].step \in broken'
  <2>1. CASE i \in 1 .. Len(lines) /\ j \in 1 .. Len(lines)
    BY <1>5, <1>8, <1>11, <2>1 DEF IInv, ReceiptPerStep
  <2>2. CASE i \in 1 .. Len(lines) /\ lines'[j] = Receipt(n)
    BY <1>2, <1>3, <1>5, <1>7, <1>8, <1>11, <2>2
  <2>3. CASE j \in 1 .. Len(lines) /\ lines'[i] = Receipt(n)
    BY <1>2, <1>3, <1>5, <1>7, <1>8, <1>11, <2>3
  <2> QED
    BY <1>6, <1>11, <2>1, <2>2, <2>3
<1>12. ReceiptPerStep'
  BY <1>9, <1>10, <1>11 DEF ReceiptPerStep
<1>13. ASSUME NEW k \in Steps PROVE Due(k)'
  <2>1. k \in broken' => k \in Begun'
    BY <1>1, <1>8 DEF IInv, Due, Begun
  <2>2. ASSUME NEW i \in 1 .. Len(lines'), lines'[i].step = k, k \in UnderWay'
        PROVE  ~lines'[i].failed /\ ~(then'[k] = "count") /\ pc'[k] \in {"count", "file", "line"}
    <3>1. CASE k = n
      <4>1. place = "count" /\ Succeeded(n)
        BY <1>1, <2>2, <3>1 DEF UnderWay
      <4>2. \A j \in 1 .. Len(lines) : lines[j].step # n
        BY <1>7, <4>1
      <4>3. lines'[i] = Receipt(n)
        BY <1>5, <1>6, <2>2, <3>1, <4>2
      <4>4. None # "count"
        BY NoneAssumption
      <4> QED
        BY <1>1, <1>2, <3>1, <4>1, <4>3, <4>4
    <3>2. CASE k # n
      <4>1. i \in 1 .. Len(lines) /\ lines[i].step = k /\ k \in UnderWay
        BY <1>1, <1>2, <1>5, <1>6, <2>2, <3>2 DEF UnderWay
      <4> QED
        BY <1>1, <1>5, <3>2, <4>1 DEF IInv, Due, Succeeded
    <3> QED
      BY <3>1, <3>2
  <2> QED
    BY <2>1, <2>2 DEF Due, Succeeded
<1> QED
  BY <1>5, <1>12, <1>13

LEMMA LineIInv ==
  ASSUME IInv, NEW n \in Steps, Line(n)
  PROVE  IInv'
<1>1. /\ pc[n] = "line" /\ Return(n) /\ lines' = Append(lines, Receipt(n)) /\ n \in UnderWay
      /\ UNCHANGED <<state, notices, files, broken, export, crashes>>
  BY DEF Line, runVars, UnderWay
<1>2. /\ pc' = [pc EXCEPT ![n] = "done"] /\ then' = [then EXCEPT ![n] = None]
      /\ pc' \in [Steps -> Places] /\ op' \in [Steps -> Operations \cup {None}]
      /\ draft' \in [Steps -> Runs] /\ then' \in [Steps -> Afters \cup {None}]
      /\ number' \in [Steps -> Nat] /\ fence' \in [active: Nat, revision: Nat]
      /\ Fenced' /\ Works' /\ (\A k \in Steps : Equipped(k)') /\ Rested'
  BY <1>1, ReturnKeeps
<1>3. lines' \in Receipts /\ ReceiptPerStep' /\ \A k \in Steps : Due(k)'
  BY <1>1, <1>2, ReceiptsKeep
<1>4. TypeOK'
  BY <1>1, <1>2, <1>3 DEF IInv, TypeOK
<1> QED
  BY <1>1, <1>2, <1>3, <1>4 DEF IInv

LEMMA AppendFailsIInv ==
  ASSUME IInv, NEW n \in Steps, AppendFails(n)
  PROVE  IInv'
<1>1. /\ pc[n] \in {"count", "file", "line"} /\ n \in UnderWay
      /\ broken' = broken \cup {n}
      /\ lines' = lines \/ lines' = Append(lines, Receipt(n))
      /\ files' = files \/ files' = files \cup {<<number[n], op[n]>>}
      /\ UNCHANGED <<state, notices, export, crashes>>
  BY DEF AppendFails, runVars, UnderWay
<1>2. files' \subseteq Nat \X Operations /\ IsFiniteSet(files') /\ broken' \subseteq Steps
  <2>1. op[n] \in Operations /\ number[n] \in Nat
    BY <1>1 DEF IInv, TypeOK, Equipped
  <2>2. IsFiniteSet(files')
    BY <1>1, FS_AddElement DEF IInv
  <2> QED
    BY <1>1, <2>1, <2>2 DEF IInv, TypeOK
<1>3. CASE Succeeded(n) /\ Throw(n) /\ UNCHANGED <<number, op, fence>>
  <2>1. Moves(n) /\ UnderWay' = UnderWay /\ Copied'
    BY <1>1, <1>3, ThrowKeeps
  <2>2. pc' = [pc EXCEPT ![n] = "count"] /\ then' = [then EXCEPT ![n] = None]
    BY <1>3 DEF Throw, Goto
  <2>3. lines' \in Receipts /\ ReceiptPerStep' /\ \A k \in Steps : Due(k)'
    BY <1>1, <1>3, <2>2, ReceiptsKeep
  <2>4. pc' \in [Steps -> Places]
    BY <2>1, MovesKeep DEF IInv
  <2>5. TypeOK'
    BY <1>1, <1>2, <1>3, <2>1, <2>3, <2>4 DEF IInv, TypeOK, Copied
  <2>6. Fenced' /\ Rested'
    BY <1>1, <1>3, <2>1 DEF IInv, Fenced, Rested, NoExport
  <2> QED
    BY <1>2, <2>1, <2>3, <2>5, <2>6 DEF IInv, Copied
<1>4. CASE Return(n)
  <2>1. /\ pc' = [pc EXCEPT ![n] = "done"] /\ then' = [then EXCEPT ![n] = None]
        /\ pc' \in [Steps -> Places] /\ op' \in [Steps -> Operations \cup {None}]
        /\ draft' \in [Steps -> Runs] /\ then' \in [Steps -> Afters \cup {None}]
        /\ number' \in [Steps -> Nat] /\ fence' \in [active: Nat, revision: Nat]
        /\ Fenced' /\ Works' /\ (\A k \in Steps : Equipped(k)') /\ Rested'
    BY <1>1, <1>4, ReturnKeeps
  <2>2. lines' \in Receipts /\ ReceiptPerStep' /\ \A k \in Steps : Due(k)'
    BY <1>1, <2>1, ReceiptsKeep
  <2>3. TypeOK'
    BY <1>1, <1>2, <2>1, <2>2 DEF IInv, TypeOK
  <2> QED
    BY <1>2, <2>1, <2>2, <2>3 DEF IInv
<1> QED
  BY <1>3, <1>4 DEF AppendFails

LEMMA ExportIInv ==
  ASSUME IInv, StartExport \/ ReadReceipts \/ ReadState \/ Keep \/ Abandon
  PROVE  IInv'
<1>1. UNCHANGED <<state, notices, files, lines, number, broken, fence, pc, op, draft, then, crashes>>
  BY DEF StartExport, ReadReceipts, ReadState, Keep, Abandon, runVars, receiptVars, stepVars
<1>2. UnderWay' = UnderWay /\ Begun' = Begun
  BY <1>1 DEF UnderWay, Begun
<1>3. IsFiniteSet(files') /\ Works' /\ (\A k \in Steps : Equipped(k)' /\ Due(k)') /\ Fenced' /\ ReceiptPerStep'
  BY <1>1, <1>2 DEF IInv, Works, Equipped, Heading, Due, Succeeded, Fenced, ReceiptPerStep
<1>4. CASE StartExport
  <2>1. export' = [revision |-> fence.revision, lines |-> None, state |-> None] /\ fence.active = 0
    BY <1>4 DEF StartExport, NoExport
  <2>2. UnderWay = {}
    BY <2>1, UnderWayFinite, FS_EmptySet DEF IInv, Fenced
  <2>3. Rested'
    BY <1>1, <1>2, <2>1, <2>2 DEF IInv, TypeOK, Rested
  <2>4. TypeOK'
    BY <1>1, <2>1 DEF IInv, TypeOK
  <2> QED
    BY <1>3, <2>3, <2>4 DEF IInv
<1>5. CASE ReadReceipts
  <2>1. export' = [export EXCEPT !.lines = lines] /\ export # NoExport /\ export.lines = None
    BY <1>5 DEF ReadReceipts
  <2>2. Rested'
    BY <1>1, <1>2, <2>1 DEF IInv, TypeOK, Rested
  <2>3. TypeOK'
    BY <1>1, <2>1 DEF IInv, TypeOK
  <2> QED
    BY <1>3, <2>2, <2>3 DEF IInv
<1>6. CASE ReadState
  <2>1. export' = [export EXCEPT !.state = Content(state)] /\ export.lines # None /\ state # Torn
    BY <1>6 DEF ReadState
  <2>2. export # NoExport /\ Content(state) \in Runs /\ Content(state)' = Content(state)
    BY <1>1, <2>1, NewRunFit DEF IInv, TypeOK, Content, NoExport
  <2>3. Rested'
    BY <1>1, <1>2, <2>1, <2>2 DEF IInv, TypeOK, Rested
  <2>4. TypeOK'
    BY <1>1, <2>1, <2>2 DEF IInv, TypeOK
  <2> QED
    BY <1>3, <2>3, <2>4 DEF IInv
<1>7. CASE Keep \/ Abandon
  <2>1. export' = NoExport
    BY <1>7 DEF Keep, Abandon
  <2>2. TypeOK' /\ Rested'
    BY <1>1, <2>1 DEF IInv, TypeOK, Rested, NoExport
  <2> QED
    BY <1>3, <2>2 DEF IInv
<1> QED
  BY <1>4, <1>5, <1>6, <1>7

LEMMA CrashIInv ==
  ASSUME IInv, Crash
  PROVE  IInv'
<1>1. /\ pc' = [n \in Steps |-> IF n \in UnderWay THEN "lost" ELSE pc[n]]
      /\ fence' = [active |-> 0, revision |-> 0] /\ crashes' = crashes + 1
      /\ op' = [n \in Steps |-> None] /\ draft' = [n \in Steps |-> NewRun]
      /\ then' = [n \in Steps |-> None] /\ number' = [n \in Steps |-> 0]
      /\ export' = NoExport /\ UNCHANGED <<state, notices, files, lines, broken>>
  BY DEF Crash, runVars
<1>2. UnderWay' = {} /\ Begun' = Begun
  BY <1>1 DEF UnderWay, Begun
<1>3. TypeOK'
  BY <1>1, NewRunFit DEF IInv, TypeOK, Places, NoExport
<1>4. Fenced' /\ Rested'
  BY <1>1, <1>2, FS_EmptySet DEF Fenced, Rested
<1>5. Works'
  BY <1>1, <1>2, NewRunFit DEF IInv, Works
<1>6. \A k \in Steps : Equipped(k)' /\ Due(k)'
  <2>1. ASSUME NEW k \in Steps PROVE pc'[k] \in {"new", "done", "lost"}
    BY <1>1 DEF UnderWay
  <2> QED
    BY <1>1, <1>2, <2>1 DEF Equipped, Heading, IInv, Due
<1>7. ReceiptPerStep'
  <2>1. \A k \in Steps : pc'[k] = "done" <=> pc[k] = "done"
    BY <1>1 DEF UnderWay
  <2> QED
    BY <1>1, <2>1, LinesTyped DEF IInv, ReceiptPerStep
<1> QED
  BY <1>1, <1>3, <1>4, <1>5, <1>6, <1>7 DEF IInv

LEMMA StepIInv == IInv /\ [Next]_vars => IInv'
<1> SUFFICES ASSUME IInv, [Next]_vars PROVE IInv'
  OBVIOUS
<1>1. ASSUME NEW n \in Steps, Step(n) PROVE IInv'
  BY <1>1, BeginIInv, InnerIInv, LineIInv, AppendFailsIInv DEF Step, Inner
<1>2. CASE StartExport \/ ReadReceipts \/ ReadState \/ Keep \/ Abandon
  BY <1>2, ExportIInv
<1>3. CASE Crash
  BY <1>3, CrashIInv
<1>4. CASE UNCHANGED vars
  BY <1>4 DEF vars, runVars, receiptVars, stepVars, IInv, TypeOK, Works, Fit, Begun, Equipped, Heading,
              Due, Succeeded, UnderWay, Fenced, ReceiptPerStep, Rested, Content
<1> QED
  BY <1>1, <1>2, <1>3, <1>4 DEF Next

THEOREM Invariance == Spec => []IInv
<1> QED
  BY InitIInv, StepIInv, PTL DEF Spec

----------------------------------------------------------------------------
(* What follows *)

\* The files, the fence and every step's copy have their types, for any number
\* of steps: a fence released once per step never counts below zero.
THEOREM TypeCorrect == Spec => []TypeOK
<1>1. IInv => TypeOK
  BY DEF IInv
<1> QED
  BY <1>1, Invariance, PTL

\* Whatever steps write their stale copies over one another's (writeRun), the
\* conclusions of a readable state are of one result.
THEOREM Chained == Spec => []ChainCoherent
<1>1. IInv => ChainCoherent
  BY DEF IInv, Works, Fit, ChainCoherent
<1> QED
  BY <1>1, Invariance, PTL

\* A sealed decision was routed to the recovery host, wherever a process ended
\* between a decision and its notification (sealRun routes it first).
THEOREM Routing == Spec => []SealedIsRouted
<1>1. IInv => SealedIsRouted
  BY DEF IInv, Works, Fit, SealedIsRouted
<1> QED
  BY <1>1, Invariance, PTL

\* A step that returned has its receipt, also when it failed; only where writing
\* one failed it has none, or a success and a failure (step, appendStep).
THEOREM Receipted == Spec => []ReceiptPerStep
<1>1. IInv => ReceiptPerStep
  BY DEF IInv
<1> QED
  BY <1>1, Invariance, PTL

\* A kept export was read from a run at rest.
LEMMA KeptRested ==
  ASSUME IInv, Keep
  PROVE  UnderWay = {} /\ export.lines = lines /\ export.state = Content(state)
<1>1. export.state # None /\ export # NoExport /\ fence.revision = export.revision
  BY DEF Keep, Undisturbed, NoExport
<1> QED
  BY <1>1 DEF IInv, Rested

\* An export is only kept when no step began or ended during its readings
\* (the fence's revision in exportExecutorCheckpointState).
THEOREM Quiescence == Spec => CheckpointQuiescent
<1>1. IInv => (Keep => UnderWay = {} /\ export.lines = lines /\ export.state = Content(state))
  BY KeptRested
<1>2. IInv /\ [Next]_vars => [Keep => UnderWay = {} /\ export.lines = lines /\ export.state = Content(state)]_vars
  BY <1>1
<1> QED
  BY <1>2, Invariance, PTL DEF Spec, CheckpointQuiescent

\* Every artifact of a kept export was put by a step whose receipt the export
\* has, unless the process ended in that step or could not write it.
THEOREM Receipting == Spec => CheckpointReceipted
<1>1. ASSUME IInv, Keep, NEW n \in Makers(export.state)
      PROVE  pc[n] = "lost" \/ n \in broken \/ \E i \in 1 .. Len(export.lines) : export.lines[i].step = n
  <2>1. UnderWay = {} /\ export.lines = lines /\ export.state = Content(state)
    BY <1>1, KeptRested
  <2>2. state # Torn
    BY <1>1, <2>1, FilesAssumption DEF Keep, Content, IInv, TypeOK
  <2>3. n \in Begun
    BY <1>1, <2>1, <2>2, NewRunFit DEF IInv, TypeOK, Works, Fit, Content
  <2>4. pc[n] \in {"done", "lost"}
    BY <2>1, <2>3 DEF Begun, UnderWay
  <2>5. pc[n] = "done" => n \in broken \/ \E i \in 1 .. Len(lines) : lines[i].step = n
    BY <1>1, <2>3 DEF IInv, ReceiptPerStep, Begun
  <2> QED
    BY <2>1, <2>4, <2>5
<1>2. IInv /\ [Next]_vars =>
        [Keep => \A n \in Makers(export.state) :
                   pc[n] = "lost" \/ n \in broken \/ \E i \in 1 .. Len(export.lines) : export.lines[i].step = n]_vars
  BY <1>1
<1> QED
  BY <1>2, Invariance, PTL DEF Spec, CheckpointReceipted
=============================================================================
