----------------------------- MODULE RepairWork -----------------------------
(***************************************************************************)
(* What the recovery of cases promises about its repairs, without plans,   *)
(* claims, receipts and revisions.  A repair is authorised once, for a     *)
(* number of provider calls that the budget of its case has left; while it *)
(* runs, nobody else repairs the same original or touches the same keys;   *)
(* its calls stay within its grant, and end with its result, which stays.  *)
(* DurableRecovery implements it.                                          *)
(***************************************************************************)
EXTENDS Totals

CONSTANTS Cases, Originals, CaseOf, Repairs, OriginalOf, Keys, Budget, MaxRounds

VARIABLES
  work,     \* of each repair: "none", "running" or "settled"
  grant,    \* the calls it may make
  calls,    \* the calls it has made
  touched,  \* the keys it touches while it runs
  result    \* "none" until it is settled

vars == <<work, grant, calls, touched, result>>

Verdicts == {"admitted", "failed", "held"}

CaseOfRepair(r) == CaseOf[OriginalOf[r]]
RepairsOf(c) == {r \in Repairs : CaseOfRepair(r) = c}
Running == {r \in Repairs : work[r] = "running"}

\* The calls of a case that have been made, or still may be.
Exposed(c) == SumOf([r \in Repairs |-> IF r \in Running THEN grant[r] ELSE calls[r]], RepairsOf(c))

Rounds(o) == Cardinality({r \in Repairs : OriginalOf[r] = o /\ work[r] # "none"})

Init ==
  /\ work = [r \in Repairs |-> "none"]
  /\ grant = [r \in Repairs |-> 0]
  /\ calls = [r \in Repairs |-> 0]
  /\ touched = [r \in Repairs |-> {}]
  /\ result = [r \in Repairs |-> "none"]

\* Two repairs may run side by side.
Compatible(r, keys, s) ==
  IF CaseOfRepair(s) = CaseOfRepair(r) THEN OriginalOf[s] # OriginalOf[r] /\ touched[s] = keys
  ELSE touched[s] \cap keys = {}

Authorise(r, n, keys) ==
  /\ work[r] = "none"
  /\ Exposed(CaseOfRepair(r)) + n <= Budget
  /\ Rounds(OriginalOf[r]) < MaxRounds
  /\ \A s \in Running : Compatible(r, keys, s)
  /\ work' = [work EXCEPT ![r] = "running"]
  /\ grant' = [grant EXCEPT ![r] = n]
  /\ touched' = [touched EXCEPT ![r] = keys]
  /\ UNCHANGED <<calls, result>>

Call(r) ==
  /\ r \in Running
  /\ calls[r] < grant[r]
  /\ calls' = [calls EXCEPT ![r] = @ + 1]
  /\ UNCHANGED <<work, grant, touched, result>>

\* A receipt settles repairs of one case, each with the verdict on it.
Settle(c, done) ==
  /\ done \subseteq Running \cap RepairsOf(c)
  /\ work' = [r \in Repairs |-> IF r \in done THEN "settled" ELSE work[r]]
  /\ touched' = [r \in Repairs |-> IF r \in done THEN {} ELSE touched[r]]
  /\ \E verdict \in [done -> Verdicts] :
       result' = [r \in Repairs |-> IF r \in done THEN verdict[r] ELSE result[r]]
  /\ UNCHANGED <<grant, calls>>

\* Plans, claims and receipts that settle nothing are not seen here.
Hidden == UNCHANGED vars

Next ==
  \/ Hidden
  \/ \E r \in Repairs, n \in 0 .. Budget, keys \in SUBSET Keys : Authorise(r, n, keys)
  \/ \E r \in Repairs : Call(r)
  \/ \E c \in Cases, done \in SUBSET Repairs : Settle(c, done)

Spec == Init /\ [][Next]_vars
=============================================================================
