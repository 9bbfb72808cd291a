------------------------ MODULE InMemoryLedger_proofs ------------------------
(***************************************************************************)
(* The memory profile, for any number of workers, operations and steps: a  *)
(* step has one holder, success is receipted, and what is done stays done. *)
(***************************************************************************)
EXTENDS InMemoryLedger, TLAPS, WellFoundedInduction

----------------------------------------------------------------------------
(* The invariant *)

\* An operation without a row has no steps, one that a worker works on has one.
RowsExist ==
  /\ \A o \in Ops, n \in Ordinals : opState[o] = "absent" <=> stepState[<<o, n>>] = "absent"
  /\ \A w \in Workers : claim[w] # NoClaim => opState[claim[w][1]] # "absent"

\* Tokens are attempts that were begun, and no two workers have the same.
TokensApart ==
  \A v \in Workers : claim[v] # NoClaim =>
    /\ claim[v][3] <= attempts[StepOf(v)]
    /\ \A w \in Workers : claim[w] = claim[v] => w = v

\* Receipts and succeeded steps, succeeded steps and succeeded operations.
ReceiptsMatch ==
  /\ \A s \in StepIds : s \in receipts <=> stepState[s] = "succeeded"
  /\ \A o \in Ops : opState[o] = "succeeded" <=> \A s \in StepsOf(o) : stepState[s] = "succeeded"

IInv == TypeOK /\ RowsExist /\ TokensApart /\ ReceiptsMatch

Done ==
  \A s \in receipts :
    s \in receipts' /\ stepState'[s] = "succeeded" /\ attempts'[s] = attempts[s]

----------------------------------------------------------------------------
(* Steps, ordinals and the state of an operation *)

LEMMA Steps ==
  /\ \A s \in StepIds : s[1] \in Ops /\ s[2] \in Ordinals /\ s = <<s[1], s[2]>> /\ s \in StepsOf(s[1])
  /\ \A o \in Ops : StepsOf(o) \subseteq StepIds /\ \A s \in StepsOf(o) : s[1] = o
  /\ \A o \in Ops, n \in Ordinals : <<o, n>> \in StepIds /\ <<o, n>> \in StepsOf(o)
  /\ \E n \in Ordinals : TRUE
BY CountsAssumption DEF StepIds, StepsOf, Ordinals

\* A claim takes a claimable step.
LEMMA FirstIsMember ==
  ASSUME NEW set, set \subseteq Ordinals, set # {}
  PROVE  First(set) \in set
<1> DEFINE R == {ss \in Nat \X Nat : ss[1] < ss[2]}
<1>1. IsWellFoundedOn(R, Nat)
  BY NatLessThanWellFounded DEF OpToRel
<1>2. set \subseteq Nat
  BY CountsAssumption DEF Ordinals
<1> HIDE DEF R
<1>3. PICK n \in set : \A k \in set : ~(<<k, n>> \in R)
  BY <1>1, <1>2, WFMin
<1>4. ASSUME NEW k \in set PROVE n <= k
  <2>1. n \in Nat /\ k \in Nat /\ ~(k < n)
    BY <1>2, <1>3 DEF R
  <2> QED
    BY <2>1
<1> QED
  BY <1>4 DEF First

\* reconcile calls an operation succeeded exactly when its steps are.
LEMMA DesiredIs ==
  ASSUME NEW o \in Ops, NEW st
  PROVE  /\ Desired(o, st) \in OpStates \ {"absent", "cancelled"}
         /\ Desired(o, st) = "succeeded" <=> \A s \in StepsOf(o) : st[s] = "succeeded"
<1>1. \E s \in StepsOf(o) : TRUE
  BY Steps
<1> QED
  BY <1>1 DEF Desired, OpStates

LEMMA ClaimOf ==
  ASSUME IInv, NEW w \in Workers, claim[w] # NoClaim
  PROVE  /\ claim[w][1] \in Ops /\ claim[w][2] \in Ordinals /\ claim[w][3] \in Nat
         /\ claim[w] = <<claim[w][1], claim[w][2], claim[w][3]>>
         /\ StepOf(w) \in StepIds /\ StepOf(w)[1] = claim[w][1]
<1>1. claim[w] \in Ops \X Ordinals \X Nat
  BY DEF IInv, TypeOK
<1> QED
  BY <1>1 DEF StepOf, StepIds

----------------------------------------------------------------------------
(* What the steps have in common *)

\* A worker that returns gives its claim up; the tokens of the others stay apart.
LEMMA ReturnKeepsTokens ==
  ASSUME IInv, NEW w \in Workers, claim' = [claim EXCEPT ![w] = NoClaim], UNCHANGED attempts
  PROVE  TokensApart'
BY DEF IInv, TypeOK, TokensApart, StepOf

\* The attempt of a leased step ends.
LEMMA EndAttemptKeeps ==
  ASSUME IInv, NEW s \in StepIds, stepState[s] = "leased",
         NEW state \in {"pending", "succeeded", "failed"}, EndAttempt(s, state),
         receipts' = IF state = "succeeded" THEN receipts \cup {s} ELSE receipts,
         NEW w \in Workers, claim' = [claim EXCEPT ![w] = NoClaim], UNCHANGED retries
  PROVE  IInv' /\ Done
<1> DEFINE st == [stepState EXCEPT ![s] = state]
<1>1. /\ stepState' = st /\ fresh' = [fresh EXCEPT ![s] = FALSE]
      /\ opState' = [opState EXCEPT ![s[1]] = Desired(s[1], st)]
      /\ attempts' = attempts
  BY DEF EndAttempt
<1>2. s[1] \in Ops /\ s[2] \in Ordinals /\ s = <<s[1], s[2]>> /\ s \in StepsOf(s[1])
  BY Steps
<1>3. \A r \in StepIds : st[r] = IF r = s THEN state ELSE stepState[r]
  BY DEF IInv, TypeOK
<1> HIDE DEF st
<1>4. /\ Desired(s[1], st) \in OpStates \ {"absent", "cancelled"}
      /\ Desired(s[1], st) = "succeeded" <=> \A r \in StepsOf(s[1]) : st[r] = "succeeded"
  BY <1>2, DesiredIs
<1>5. \A o \in Ops : opState'[o] = IF o = s[1] THEN Desired(s[1], st) ELSE opState[o]
  BY <1>1, <1>2 DEF IInv, TypeOK
<1>6. TypeOK'
  <2>1. stepState' \in [StepIds -> StepStates]
    BY DEF EndAttempt, IInv, TypeOK, StepStates
  <2>2. opState' \in [Ops -> OpStates]
    BY <1>1, <1>4 DEF IInv, TypeOK
  <2>3. fresh' \in [StepIds -> BOOLEAN] /\ claim' \in [Workers -> (Ops \X Ordinals \X Nat) \cup {NoClaim}]
    BY <1>1 DEF IInv, TypeOK
  <2> QED
    BY <1>1, <2>1, <2>2, <2>3 DEF IInv, TypeOK
<1>7. RowsExist'
  <2>1. opState[s[1]] # "absent"
    BY <1>2 DEF IInv, RowsExist
  <2>2. ASSUME NEW o \in Ops, NEW n \in Ordinals
        PROVE  opState'[o] = "absent" <=> stepState'[<<o, n>>] = "absent"
    BY <1>1, <1>2, <1>3, <1>4, <1>5, <2>1, Steps DEF IInv, RowsExist
  <2>3. ASSUME NEW v \in Workers, claim'[v] # NoClaim
        PROVE  opState'[claim'[v][1]] # "absent"
    <3>1. claim'[v] = claim[v] /\ claim[v] # NoClaim
      BY <2>3 DEF IInv, TypeOK
    <3> QED
      BY <1>4, <1>5, <3>1, ClaimOf DEF IInv, RowsExist
  <2> QED
    BY <2>2, <2>3 DEF RowsExist
<1>8. TokensApart'
  BY <1>1, ReturnKeepsTokens
<1>9. ReceiptsMatch'
  <2>1. \A r \in StepIds : r \in receipts' <=> stepState'[r] = "succeeded"
    BY <1>1, <1>3 DEF IInv, ReceiptsMatch
  <2>2. ASSUME NEW o \in Ops
        PROVE  opState'[o] = "succeeded" <=> \A r \in StepsOf(o) : stepState'[r] = "succeeded"
    <3>1. CASE o = s[1]
      BY <1>1, <1>4, <1>5, <3>1
    <3>2. CASE o # s[1]
      <4>1. \A r \in StepsOf(o) : r \in StepIds /\ r # s
        BY <3>2, Steps
      <4> QED
        BY <1>1, <1>3, <1>5, <3>2, <4>1 DEF IInv, ReceiptsMatch
    <3> QED
      BY <3>1, <3>2
  <2> QED
    BY <2>1, <2>2 DEF ReceiptsMatch
<1>10. Done
  BY <1>1, <1>3 DEF Done, IInv, TypeOK, ReceiptsMatch
<1> QED
  BY <1>6, <1>7, <1>8, <1>9, <1>10 DEF IInv

\* An operation is reconciled and no step changes.
LEMMA ReconcileKeeps ==
  ASSUME IInv, NEW o \in Ops, opState[o] # "absent",
         opState' = [opState EXCEPT ![o] = Desired(o, stepState)],
         UNCHANGED <<stepState, attempts, fresh, receipts, retries>>,
         claim' \in [Workers -> (Ops \X Ordinals \X Nat) \cup {NoClaim}],
         \A w \in Workers : claim'[w] \in {claim[w], NoClaim}
  PROVE  IInv' /\ Done
<1>1. /\ Desired(o, stepState) \in OpStates \ {"absent", "cancelled"}
      /\ Desired(o, stepState) = "succeeded" <=> \A r \in StepsOf(o) : stepState[r] = "succeeded"
  BY DesiredIs
<1>2. \A p \in Ops : opState'[p] = IF p = o THEN Desired(o, stepState) ELSE opState[p]
  BY DEF IInv, TypeOK
<1>3. TypeOK'
  BY <1>1 DEF IInv, TypeOK
<1>4. RowsExist'
  <2>1. \A p \in Ops : opState'[p] = "absent" <=> opState[p] = "absent"
    BY <1>1, <1>2
  <2>2. \A w \in Workers : claim'[w] # NoClaim => claim'[w] = claim[w] /\ claim[w][1] \in Ops
    BY ClaimOf
  <2> QED
    BY <2>1, <2>2 DEF IInv, RowsExist
<1>5. TokensApart'
  BY DEF IInv, TokensApart, StepOf
<1>6. ReceiptsMatch'
  BY <1>1, <1>2 DEF IInv, ReceiptsMatch
<1>7. Done
  BY DEF IInv, Done, TypeOK, ReceiptsMatch
<1> QED
  BY <1>3, <1>4, <1>5, <1>6, <1>7 DEF IInv

\* Clients and clocks: steps without receipts may get another state that is not
\* success, and an operation with such a step one that is not success either.
LEMMA OpenWorkKeeps ==
  ASSUME IInv, UNCHANGED <<attempts, receipts, claim>>,
         opState' \in [Ops -> OpStates], stepState' \in [StepIds -> StepStates],
         fresh' \in [StepIds -> BOOLEAN], retries' \in 0 .. MaxRetries,
         RowsExist',
         \A s \in StepIds : stepState'[s] = "succeeded" <=> stepState[s] = "succeeded",
         \A o \in Ops : opState'[o] = "succeeded" <=> opState[o] = "succeeded"
  PROVE  IInv' /\ Done
<1>1. TypeOK'
  BY DEF IInv, TypeOK
<1>2. TokensApart'
  BY DEF IInv, TokensApart, StepOf
<1>3. ReceiptsMatch'
  <2>1. \A o \in Ops : (\A s \in StepsOf(o) : stepState'[s] = "succeeded")
                      <=> (\A s \in StepsOf(o) : stepState[s] = "succeeded")
    BY Steps
  <2> QED
    BY <2>1 DEF IInv, ReceiptsMatch
<1>4. Done
  BY DEF IInv, Done, TypeOK, ReceiptsMatch
<1> QED
  BY <1>1, <1>2, <1>3, <1>4 DEF IInv

----------------------------------------------------------------------------
(* The actions *)

LEMMA CreateKeeps ==
  ASSUME IInv, Create
  PROVE  IInv' /\ Done
<1>1. PICK o \in Ops :
        /\ \A p \in Ops : opState[p] = "absent" <=> p >= o
        /\ opState' = [opState EXCEPT ![o] = "queued"]
        /\ stepState' = [s \in StepIds |-> IF s[1] = o THEN "pending" ELSE stepState[s]]
        /\ UNCHANGED <<attempts, fresh, receipts, claim, retries>>
  BY DEF Create
<1>2. opState[o] = "absent"
  BY <1>1, CountsAssumption DEF Ops
<1>3. \A s \in StepIds : s[1] = o => stepState[s] = "absent"
  BY <1>2, Steps DEF IInv, RowsExist
<1>4. /\ opState' \in [Ops -> OpStates] /\ stepState' \in [StepIds -> StepStates]
      /\ fresh' \in [StepIds -> BOOLEAN] /\ retries' \in 0 .. MaxRetries
  BY <1>1 DEF IInv, TypeOK, OpStates, StepStates
<1>5. RowsExist'
  <2>1. \A p \in Ops, n \in Ordinals : opState'[p] = "absent" <=> stepState'[<<p, n>>] = "absent"
    BY <1>1, Steps DEF IInv, TypeOK, RowsExist
  <2>2. \A w \in Workers : claim'[w] # NoClaim => opState'[claim'[w][1]] # "absent"
    BY <1>1, <1>2, ClaimOf DEF IInv, TypeOK, RowsExist
  <2> QED
    BY <2>1, <2>2 DEF RowsExist
<1>6. \A s \in StepIds : stepState'[s] = "succeeded" <=> stepState[s] = "succeeded"
  BY <1>1, <1>3
<1>7. \A p \in Ops : opState'[p] = "succeeded" <=> opState[p] = "succeeded"
  BY <1>1, <1>2 DEF IInv, TypeOK
<1> QED
  BY <1>1, <1>4, <1>5, <1>6, <1>7, OpenWorkKeeps

LEMMA CancelKeeps ==
  ASSUME IInv, NEW o \in Ops, Cancel(o)
  PROVE  IInv' /\ Done
<1>1. /\ opState[o] \in {"queued", "running"} /\ opState' = [opState EXCEPT ![o] = "cancelled"]
      /\ UNCHANGED <<stepState, attempts, fresh, receipts, claim, retries>>
  BY DEF Cancel
<1>2. \A p \in Ops : opState'[p] = IF p = o THEN "cancelled" ELSE opState[p]
  BY <1>1 DEF IInv, TypeOK
<1>3. /\ opState' \in [Ops -> OpStates] /\ stepState' \in [StepIds -> StepStates]
      /\ fresh' \in [StepIds -> BOOLEAN] /\ retries' \in 0 .. MaxRetries
  BY <1>1 DEF IInv, TypeOK, OpStates
<1>4. RowsExist'
  BY <1>1, <1>2, ClaimOf DEF IInv, RowsExist
<1> QED
  BY <1>1, <1>2, <1>3, <1>4, OpenWorkKeeps

LEMMA RetryKeeps ==
  ASSUME IInv, NEW o \in Ops, Retry(o)
  PROVE  IInv' /\ Done
<1>1. /\ opState[o] = "failed" /\ retries < MaxRetries /\ retries' = retries + 1
      /\ opState' = [opState EXCEPT ![o] = "queued"]
      /\ stepState' = [s \in StepIds |-> IF s \in StepsOf(o) /\ stepState[s] = "failed"
                                       THEN "pending" ELSE stepState[s]]
      /\ UNCHANGED <<attempts, fresh, receipts, claim>>
  BY DEF Retry
<1>2. \A p \in Ops : opState'[p] = IF p = o THEN "queued" ELSE opState[p]
  BY <1>1 DEF IInv, TypeOK
<1>3. /\ opState' \in [Ops -> OpStates] /\ stepState' \in [StepIds -> StepStates]
      /\ fresh' \in [StepIds -> BOOLEAN]
  BY <1>1 DEF IInv, TypeOK, OpStates, StepStates
<1>4. retries' \in 0 .. MaxRetries
  BY <1>1, CountsAssumption DEF IInv, TypeOK
<1>5. RowsExist'
  <2>1. ASSUME NEW p \in Ops, NEW n \in Ordinals
        PROVE  opState'[p] = "absent" <=> stepState'[<<p, n>>] = "absent"
    <3>1. <<p, n>> \in StepIds
      BY Steps
    <3>2. stepState'[<<p, n>>] = "absent" <=> stepState[<<p, n>>] = "absent"
      BY <1>1, <3>1
    <3> QED
      BY <1>1, <1>2, <3>2 DEF IInv, RowsExist
  <2>2. \A w \in Workers : claim'[w] # NoClaim => opState'[claim'[w][1]] # "absent"
    BY <1>1, <1>2, ClaimOf DEF IInv, RowsExist
  <2> QED
    BY <2>1, <2>2 DEF RowsExist
<1>6. \A s \in StepIds : stepState'[s] = "succeeded" <=> stepState[s] = "succeeded"
  BY <1>1
<1> QED
  BY <1>1, <1>2, <1>3, <1>4, <1>5, <1>6, OpenWorkKeeps

LEMMA EvaluateKeeps ==
  ASSUME IInv, NEW o \in Ops, Evaluate(o)
  PROVE  IInv' /\ Done
<1> DEFINE done == {o} \X Claimable(o)
           st == [s \in StepIds |-> IF s \in done THEN "succeeded" ELSE stepState[s]]
<1>1. /\ opState[o] # "absent"
      /\ stepState' = st
      /\ attempts' = [s \in StepIds |-> IF s \in done THEN attempts[s] + 1 ELSE attempts[s]]
      /\ fresh' = [s \in StepIds |-> s \notin done /\ fresh[s]]
      /\ receipts' = receipts \cup done
      /\ opState' = [opState EXCEPT ![o] = Desired(o, st)]
      /\ UNCHANGED <<claim, retries>>
  BY DEF Evaluate
<1>2. \A s \in done :
        s \in StepIds /\ s \in StepsOf(o) /\ stepState[s] \in {"pending", "leased"}
  BY DEF Claimable, StepIds, StepsOf
<1>3. \A s \in StepIds : st[s] = IF s \in done THEN "succeeded" ELSE stepState[s]
  OBVIOUS
<1> HIDE DEF st, done
<1>4. /\ Desired(o, st) \in OpStates \ {"absent", "cancelled"}
      /\ Desired(o, st) = "succeeded" <=> \A r \in StepsOf(o) : st[r] = "succeeded"
  BY DesiredIs
<1>5. \A p \in Ops : opState'[p] = IF p = o THEN Desired(o, st) ELSE opState[p]
  BY <1>1 DEF IInv, TypeOK
<1>6. TypeOK'
  <2>1. /\ \A s \in StepIds : st[s] \in StepStates
        /\ \A s \in StepIds : attempts[s] \in Nat
    BY <1>3 DEF IInv, TypeOK, StepStates
  <2>2. stepState' \in [StepIds -> StepStates]
    BY <1>1, <2>1 DEF st
  <2>3. attempts' \in [StepIds -> Nat] /\ fresh' \in [StepIds -> BOOLEAN]
    BY <1>1, <2>1
  <2>4. opState' \in [Ops -> OpStates]
    BY <1>1, <1>4 DEF IInv, TypeOK
  <2> QED
    BY <1>1, <1>2, <2>2, <2>3, <2>4 DEF IInv, TypeOK
<1>7. RowsExist'
  <2>1. ASSUME NEW p \in Ops, NEW n \in Ordinals
        PROVE  opState'[p] = "absent" <=> stepState'[<<p, n>>] = "absent"
    <3>1. <<p, n>> \in StepIds /\ <<p, n>> \in StepsOf(p) /\ (<<p, n>> \in done => p = o)
      BY <1>2, Steps
    <3> QED
      BY <1>1, <1>3, <1>4, <1>5, <3>1 DEF IInv, RowsExist
  <2>2. \A w \in Workers : claim'[w] # NoClaim => opState'[claim'[w][1]] # "absent"
    BY <1>1, <1>4, <1>5, ClaimOf DEF IInv, RowsExist
  <2> QED
    BY <2>1, <2>2 DEF RowsExist
<1>8. TokensApart'
  <2> SUFFICES ASSUME NEW v \in Workers, claim[v] # NoClaim
               PROVE  claim[v][3] <= attempts'[StepOf(v)]
    BY <1>1 DEF IInv, TokensApart, StepOf
  <2>1. StepOf(v) \in StepIds /\ claim[v][3] \in Nat
    BY ClaimOf
  <2>2. attempts[StepOf(v)] \in Nat /\ claim[v][3] <= attempts[StepOf(v)]
    BY <2>1 DEF IInv, TypeOK, TokensApart
  <2>3. attempts'[StepOf(v)] \in {attempts[StepOf(v)], attempts[StepOf(v)] + 1}
    BY <1>1, <2>1
  <2> QED
    BY <2>1, <2>2, <2>3
<1>9. ReceiptsMatch'
  <2>1. \A r \in StepIds : r \in receipts' <=> stepState'[r] = "succeeded"
    BY <1>1, <1>2, <1>3 DEF IInv, ReceiptsMatch
  <2>2. ASSUME NEW p \in Ops
        PROVE  opState'[p] = "succeeded" <=> \A r \in StepsOf(p) : stepState'[r] = "succeeded"
    <3>1. CASE p = o
      BY <1>1, <1>4, <1>5, <3>1
    <3>2. CASE p # o
      <4>1. \A r \in StepsOf(p) : r \in StepIds /\ r \notin done
        BY <1>2, <3>2, Steps
      <4> QED
        BY <1>1, <1>3, <1>5, <3>2, <4>1 DEF IInv, ReceiptsMatch
    <3> QED
      BY <3>1, <3>2
  <2> QED
    BY <2>1, <2>2 DEF ReceiptsMatch
<1>10. Done
  BY <1>1, <1>2, <1>3 DEF Done, IInv, TypeOK, ReceiptsMatch
<1> QED
  BY <1>6, <1>7, <1>8, <1>9, <1>10 DEF IInv

LEMMA ClaimKeeps ==
  ASSUME IInv, NEW w \in Workers, Claim(w)
  PROVE  IInv' /\ Done
<1>1. PICK o \in Ops :
        LET s == <<o, First(Claimable(o))>>
        IN /\ Offers(o)
           /\ stepState' = [stepState EXCEPT ![s] = "leased"]
           /\ attempts' = [attempts EXCEPT ![s] = attempts[s] + 1]
           /\ fresh' = [fresh EXCEPT ![s] = TRUE]
           /\ opState' = [opState EXCEPT ![o] = "running"]
           /\ claim' = [claim EXCEPT ![w] = <<o, s[2], attempts[s] + 1>>]
           /\ UNCHANGED <<receipts, retries>>
  BY DEF Claim
<1> DEFINE n == First(Claimable(o))
           s == <<o, n>>
<1>2. n \in Claimable(o)
  BY <1>1, FirstIsMember DEF Offers, Claimable
<1>3. n \in Ordinals /\ s \in StepIds /\ s \in StepsOf(o) /\ stepState[s] \in {"pending", "leased"}
  BY <1>2 DEF Claimable, StepIds, StepsOf
<1>4. /\ stepState' = [stepState EXCEPT ![s] = "leased"]
      /\ attempts' = [attempts EXCEPT ![s] = attempts[s] + 1]
      /\ fresh' = [fresh EXCEPT ![s] = TRUE]
      /\ opState' = [opState EXCEPT ![o] = "running"]
      /\ claim' = [claim EXCEPT ![w] = <<o, n, attempts[s] + 1>>]
      /\ UNCHANGED <<receipts, retries>>
      /\ opState[o] \notin {"absent", "succeeded"}
  BY <1>1 DEF Offers
<1> HIDE DEF n
<1>5. attempts[s] \in Nat
  BY <1>3 DEF IInv, TypeOK
<1>6. TypeOK'
  BY <1>3, <1>4, <1>5 DEF IInv, TypeOK, OpStates, StepStates
<1>7. /\ \A r \in StepIds : stepState'[r] = IF r = s THEN "leased" ELSE stepState[r]
      /\ \A r \in StepIds : attempts'[r] = IF r = s THEN attempts[s] + 1 ELSE attempts[r]
      /\ \A p \in Ops : opState'[p] = IF p = o THEN "running" ELSE opState[p]
      /\ \A v \in Workers : claim'[v] = IF v = w THEN <<o, n, attempts[s] + 1>> ELSE claim[v]
  BY <1>3, <1>4 DEF IInv, TypeOK
<1>8. RowsExist'
  <2>1. ASSUME NEW p \in Ops, NEW m \in Ordinals
        PROVE  opState'[p] = "absent" <=> stepState'[<<p, m>>] = "absent"
    BY <1>3, <1>4, <1>7, Steps DEF IInv, RowsExist
  <2>2. \A v \in Workers : claim'[v] # NoClaim => opState'[claim'[v][1]] # "absent"
    BY <1>7, ClaimOf DEF IInv, RowsExist
  <2> QED
    BY <2>1, <2>2 DEF RowsExist
<1>9. TokensApart'
  <2>1. ASSUME NEW v \in Workers, claim[v] # NoClaim
        PROVE  /\ claim[v][3] <= attempts[StepOf(v)] /\ claim[v][3] \in Nat
               /\ StepOf(v) \in StepIds /\ attempts[StepOf(v)] \in Nat
               /\ claim[v] # <<o, n, attempts[s] + 1>>
    <3>1. /\ claim[v][3] <= attempts[StepOf(v)] /\ claim[v][3] \in Nat
          /\ StepOf(v) \in StepIds /\ attempts[StepOf(v)] \in Nat
      BY <2>1, ClaimOf DEF IInv, TypeOK, TokensApart
    <3>2. claim[v] = <<o, n, attempts[s] + 1>> => StepOf(v) = s /\ claim[v][3] = attempts[s] + 1
      BY DEF StepOf
    <3> QED
      BY <1>5, <3>1, <3>2
  <2>2. ASSUME NEW v \in Workers, v # w, claim[v] # NoClaim
        PROVE  claim'[v][3] <= attempts'[StepOf(v)]
    BY <1>5, <1>7, <2>1, <2>2
  <2>3. claim'[w][3] <= attempts'[<<claim'[w][1], claim'[w][2]>>]
    BY <1>3, <1>5, <1>7
  <2>4. ASSUME NEW v \in Workers, claim'[v] # NoClaim
        PROVE  claim'[v][3] <= attempts'[<<claim'[v][1], claim'[v][2]>>]
    BY <1>7, <2>2, <2>3, <2>4 DEF StepOf
  <2>5. ASSUME NEW v \in Workers, claim'[v] # NoClaim, NEW u \in Workers, claim'[u] = claim'[v]
        PROVE  u = v
    <3>1. CASE v = w
      BY <1>7, <2>1, <2>5, <3>1
    <3>2. CASE u = w
      BY <1>7, <2>1, <2>5, <3>2
    <3>3. CASE v # w /\ u # w
      BY <1>7, <2>5, <3>3 DEF IInv, TokensApart
    <3> QED
      BY <3>1, <3>2, <3>3
  <2> QED
    BY <2>4, <2>5 DEF TokensApart, StepOf
<1>10. ReceiptsMatch'
  <2>1. \A r \in StepIds : r \in receipts' <=> stepState'[r] = "succeeded"
    BY <1>3, <1>4, <1>7 DEF IInv, ReceiptsMatch
  <2>2. ASSUME NEW p \in Ops
        PROVE  opState'[p] = "succeeded" <=> \A r \in StepsOf(p) : stepState'[r] = "succeeded"
    <3>1. CASE p = o
      BY <1>3, <1>7, <3>1
    <3>2. CASE p # o
      <4>1. \A r \in StepsOf(p) : r \in StepIds /\ r # s
        BY <1>3, <3>2, Steps
      <4> QED
        BY <1>7, <3>2, <4>1 DEF IInv, ReceiptsMatch
    <3> QED
      BY <3>1, <3>2
  <2> QED
    BY <2>1, <2>2 DEF ReceiptsMatch
<1>11. Done
  BY <1>3, <1>4, <1>7 DEF Done, IInv, TypeOK, ReceiptsMatch
<1> QED
  BY <1>6, <1>8, <1>9, <1>10, <1>11 DEF IInv

LEMMA ReturnKeeps ==
  ASSUME IInv, NEW w \in Workers, Return(w)
  PROVE  IInv' /\ Done
<1>1. /\ claim' = [claim EXCEPT ![w] = NoClaim] /\ claim[w] # NoClaim /\ UNCHANGED retries
      /\ claim' \in [Workers -> (Ops \X Ordinals \X Nat) \cup {NoClaim}]
  BY DEF Return, Complete, Replay, Fail, Stale, IInv, TypeOK
<1>2. claim[w][1] \in Ops /\ StepOf(w) \in StepIds
  BY <1>1, ClaimOf
<1>3. CASE Complete(w)
  <2>1. /\ stepState[StepOf(w)] = "leased" /\ EndAttempt(StepOf(w), "succeeded")
        /\ receipts' = receipts \cup {StepOf(w)}
    BY <1>3 DEF Complete, HoldsLease
  <2> QED
    BY <1>1, <1>2, <2>1, EndAttemptKeeps
<1>4. CASE Replay(w)
  <2>1. opState[claim[w][1]] # "absent"
    BY <1>1 DEF IInv, RowsExist
  <2>2. /\ opState' = [opState EXCEPT ![claim[w][1]] = Desired(claim[w][1], stepState)]
        /\ UNCHANGED <<stepState, attempts, fresh, receipts, retries>>
    BY <1>4 DEF Replay
  <2>3. \A v \in Workers : claim'[v] \in {claim[v], NoClaim}
    BY <1>1 DEF IInv, TypeOK
  <2> QED
    BY <1>1, <1>2, <2>1, <2>2, <2>3, ReconcileKeeps
<1>5. ASSUME NEW retryable \in BOOLEAN, Fail(w, retryable) PROVE IInv' /\ Done
  <2>1. PICK state \in {"pending", "failed"} : EndAttempt(StepOf(w), state)
    BY <1>5 DEF Fail
  <2>2. stepState[StepOf(w)] = "leased" /\ receipts' = receipts
    BY <1>5 DEF Fail, HoldsLease
  <2> QED
    BY <1>1, <1>2, <2>1, <2>2, EndAttemptKeeps
<1>6. CASE Stale(w)
  <2>1. UNCHANGED <<opState, stepState, attempts, fresh, receipts, retries>>
    BY <1>6 DEF Stale
  <2>2. TypeOK'
    BY <1>1, <2>1 DEF IInv, TypeOK
  <2>3. RowsExist'
    BY <1>1, <2>1 DEF IInv, TypeOK, RowsExist
  <2>4. TokensApart'
    BY <1>1, <2>1, ReturnKeepsTokens
  <2>5. ReceiptsMatch' /\ Done
    BY <2>1 DEF IInv, TypeOK, ReceiptsMatch, Done
  <2> QED
    BY <2>2, <2>3, <2>4, <2>5 DEF IInv
<1> QED
  BY <1>3, <1>4, <1>5, <1>6 DEF Return

LEMMA StepsKeep == IInv /\ [Next]_vars => IInv' /\ [Done]_vars
<1> SUFFICES ASSUME IInv, [Next]_vars PROVE IInv' /\ [Done]_vars
  OBVIOUS
<1>1. CASE Create
  BY <1>1, CreateKeeps
<1>2. ASSUME NEW o \in Ops, Cancel(o) \/ Retry(o) \/ Reconcile(o) PROVE IInv' /\ Done
  <2>1. CASE Reconcile(o)
    <3>1. /\ opState[o] # "absent" /\ opState' = [opState EXCEPT ![o] = Desired(o, stepState)]
          /\ UNCHANGED <<stepState, attempts, fresh, receipts, claim, retries>>
      BY <2>1 DEF Reconcile
    <3>2. claim' \in [Workers -> (Ops \X Ordinals \X Nat) \cup {NoClaim}]
      BY <3>1 DEF IInv, TypeOK
    <3> QED
      BY <3>1, <3>2, ReconcileKeeps
  <2> QED
    BY <1>2, <2>1, CancelKeeps, RetryKeeps
<1>3. ASSUME NEW o \in Evaluations, Evaluate(o) PROVE IInv' /\ Done
  BY <1>3, EvaluateKeeps, EvaluationsAssumption
<1>4. ASSUME NEW w \in Workers, Claim(w) \/ Return(w) PROVE IInv' /\ Done
  BY <1>4, ClaimKeeps, ReturnKeeps
<1>5. ASSUME NEW s \in StepIds, Expire(s) PROVE IInv' /\ Done
  <2>1. /\ fresh' = [fresh EXCEPT ![s] = FALSE]
        /\ UNCHANGED <<opState, stepState, attempts, receipts, claim, retries>>
    BY <1>5 DEF Expire
  <2>2. /\ opState' \in [Ops -> OpStates] /\ stepState' \in [StepIds -> StepStates]
        /\ fresh' \in [StepIds -> BOOLEAN] /\ retries' \in 0 .. MaxRetries
    BY <2>1 DEF IInv, TypeOK
  <2>3. RowsExist'
    BY <2>1 DEF IInv, RowsExist
  <2> QED
    BY <2>1, <2>2, <2>3, OpenWorkKeeps
<1>6. CASE UNCHANGED vars
  <2>1. UNCHANGED <<opState, stepState, attempts, fresh, receipts, claim, retries>>
    BY <1>6 DEF vars
  <2>2. /\ opState' \in [Ops -> OpStates] /\ stepState' \in [StepIds -> StepStates]
        /\ fresh' \in [StepIds -> BOOLEAN] /\ retries' \in 0 .. MaxRetries
    BY <2>1 DEF IInv, TypeOK
  <2>3. RowsExist'
    BY <2>1 DEF IInv, RowsExist
  <2> QED
    BY <2>1, <2>2, <2>3, OpenWorkKeeps
<1> QED
  BY <1>1, <1>2, <1>3, <1>4, <1>5, <1>6 DEF Next

LEMMA InitHolds == Init => IInv
<1> SUFFICES ASSUME Init PROVE IInv
  OBVIOUS
<1>1. TypeOK
  BY CountsAssumption DEF Init, TypeOK, OpStates, StepStates
<1>2. RowsExist /\ TokensApart
  BY Steps DEF Init, RowsExist, TokensApart
<1>3. ReceiptsMatch
  BY Steps DEF Init, ReceiptsMatch
<1> QED
  BY <1>1, <1>2, <1>3 DEF IInv

LEMMA IInvHolds == Spec => []IInv
BY InitHolds, StepsKeep, PTL DEF Spec

----------------------------------------------------------------------------
(* Theorems *)

\* Operations, steps, leases and claims keep their types: no worker that returns
\* late and no evaluation writes a state that the ledger does not know.
THEOREM TypeCorrect == Spec => []TypeOK
BY IInvHolds, PTL DEF IInv

\* At most one worker can end the current attempt of a step, for any number of
\* workers and whatever leases expire.
THEOREM HolderUnique == Spec => []SingleHolder
<1>1. IInv => SingleHolder
  <2> SUFFICES ASSUME IInv, NEW v \in Workers, NEW w \in Workers,
                      claim[v] # NoClaim, HoldsLease(v), claim[w] # NoClaim, HoldsLease(w),
                      StepOf(v) = StepOf(w)
               PROVE  v = w
    BY DEF SingleHolder
  <2>1. claim[v][1] = claim[w][1] /\ claim[v][2] = claim[w][2] /\ claim[v][3] = claim[w][3]
    BY DEF StepOf, HoldsLease
  <2>2. claim[v] = claim[w]
    BY <2>1, ClaimOf
  <2> QED
    BY <2>2 DEF IInv, TokensApart
<1> QED
  BY <1>1, IInvHolds, PTL

\* Success means all receipts, and all receipts mean success or a cancellation, in
\* any order of late completions, retries, reconciliations and evaluations.
THEOREM SuccessReceipted == Spec => []SucceededIsReceipted
<1>1. IInv => SucceededIsReceipted
  BY Steps DEF IInv, ReceiptsMatch, SucceededIsReceipted
<1> QED
  BY <1>1, IInvHolds, PTL

\* A step with a receipt keeps it and is never run again.
THEOREM DoneKept == Spec => DoneStaysDone
<1>1. IInv /\ [Next]_vars =>
        [\A s \in receipts :
           s \in receipts' /\ stepState'[s] = "succeeded" /\ attempts'[s] = attempts[s]]_vars
  BY StepsKeep DEF Done
<1> QED
  BY <1>1, IInvHolds, PTL DEF Spec, DoneStaysDone
=============================================================================
