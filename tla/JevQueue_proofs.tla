--------------------------- MODULE JevQueue_proofs ---------------------------
(***************************************************************************)
(* The Jev host, for any number of workers, jobs and faults: no running    *)
(* job is lost or doubled, no live child works in vain, a queued job can   *)
(* still be tried, the queue keeps its capacity, jobs live as promised.      *)
(***************************************************************************)
EXTENDS JevQueue, TLAPS, FiniteSetTheorems

----------------------------------------------------------------------------
(* The invariant, in parts over values, so that a handler can show it of   *)
(* what it hands to dispatch                                               *)

Types(st, att, late, pr, sj, rp) ==
  /\ st \in [JobIds -> JobStates]
  /\ att \in [JobIds -> Nat]
  /\ late \subseteq JobIds
  /\ pr \in [Slots -> ProcStates]
  /\ sj \in [Slots -> JobIds \cup {NoJob}]
  /\ rp \in [Slots -> Outcomes \cup {NoJob}]

\* What a slot's process, job and reply say of each other.
Channels(h, pr, sj, rp) ==
  \A i \in Slots :
    /\ h \in {"down", "open"} => pr[i] = "none"
    /\ pr[i] = "none" => sj[i] = NoJob
    /\ sj[i] = NoJob => rp[i] = NoJob
    /\ ~Connected(pr, i) => rp[i] = NoJob

\* Slots have jobs of their own, which run there or were cancelled there.
Places(st, pr, sj) ==
  /\ \A i, k \in Slots : sj[i] # NoJob /\ sj[k] = sj[i] => k = i
  /\ \A i \in Slots : sj[i] # NoJob =>
       /\ st[sj[i]] \in {"running", "cancelled"}
       /\ pr[i] = "up" => st[sj[i]] = "running"

Attached(st, h, sj) ==
  h = "running" => \A j \in JobIds : st[j] = "running" => \E i \in Slots : sj[i] = j

Tries(st, att) ==
  \A j \in JobIds :
    /\ att[j] <= MaxAttempts
    /\ st[j] = "queued" => att[j] < MaxAttempts
    /\ st[j] = "absent" => att[j] = 0

\* Rows are inserted one after the other.
Rows(st) == \A j, k \in JobIds : st[j] = "absent" /\ j < k => st[k] = "absent"

ActiveIn(st) == {j \in JobIds : st[j] \in Active}

Bounded(st) == Cardinality(ActiveIn(st)) <= MaxActive

Kept(st, att, late, h, pr, sj, rp) ==
  /\ Types(st, att, late, pr, sj, rp)
  /\ Channels(h, pr, sj, rp)
  /\ Places(st, pr, sj)
  /\ Attached(st, h, sj)
  /\ Tries(st, att)
  /\ Rows(st)
  /\ Bounded(st)

OthersTyped ==
  /\ host \in HostStates
  /\ bootFailed \in BOOLEAN
  /\ idleExits \in Nat
  /\ budget \in 0 .. Rate
  /\ submits \in Nat
  /\ faults \in Nat

IInv ==
  /\ Kept(status, attempts, delayed, host, proc, slotJob, reply)
  /\ OthersTyped

----------------------------------------------------------------------------
(* Sets of jobs *)

LEMMA JobIdsFinite == JobIds \subseteq Nat /\ IsFiniteSet(JobIds)
BY BoundsAssumption, FS_Interval DEF JobIds

LEMMA ActiveFinite ==
  \A st : IsFiniteSet(ActiveIn(st)) /\ Cardinality(ActiveIn(st)) \in Nat
<1> TAKE st
<1>1. ActiveIn(st) \in SUBSET JobIds
  BY DEF ActiveIn
<1> QED
  BY <1>1, JobIdsFinite, FS_Subset, FS_CardinalityType

\* Where no job becomes active, the queue does not grow.
LEMMA BoundedShrinks ==
  ASSUME NEW st, NEW st2, Bounded(st),
         \A j \in JobIds : st2[j] \in Active => st[j] \in Active
  PROVE  Bounded(st2)
<1>1. ActiveIn(st2) \in SUBSET ActiveIn(st)
  BY DEF ActiveIn
<1>2. Cardinality(ActiveIn(st2)) <= Cardinality(ActiveIn(st))
  BY <1>1, ActiveFinite, FS_Subset
<1> QED
  BY <1>2, ActiveFinite, BoundsAssumption DEF Bounded

\* The rows are the first ones: as many as there are.
LEMMA RowsAreFirst ==
  ASSUME NEW st, Rows(st)
  PROVE  LET rows == JobIds \ {j \in JobIds : st[j] \in {"absent"}}
         IN /\ Cardinality(rows) \in Nat
            /\ \A j \in JobIds : st[j] = "absent" <=> j > Cardinality(rows)
<1> DEFINE rows == JobIds \ {j \in JobIds : st[j] \in {"absent"}}
<1>1. rows \in SUBSET JobIds
  OBVIOUS
<1>2. IsFiniteSet(rows) /\ Cardinality(rows) \in Nat
  BY <1>1, JobIdsFinite, FS_Subset, FS_CardinalityType
<1>3. ASSUME NEW j \in JobIds, st[j] # "absent" PROVE j <= Cardinality(rows)
  <2>1. 1 .. j \in SUBSET rows
    <3> SUFFICES ASSUME NEW k \in 1 .. j PROVE k \in rows
      OBVIOUS
    <3>1. k \in JobIds /\ (k < j \/ k = j)
      BY BoundsAssumption DEF JobIds
    <3> QED
      BY <1>3, <3>1 DEF Rows
  <2>2. Cardinality(1 .. j) = j
    BY FS_Interval, BoundsAssumption DEF JobIds
  <2>3. Cardinality(1 .. j) <= Cardinality(rows)
    BY <1>2, <2>1, FS_Subset
  <2> QED
    BY <2>2, <2>3
<1>4. ASSUME NEW j \in JobIds, st[j] = "absent" PROVE j > Cardinality(rows)
  <2>1. rows \in SUBSET (1 .. (j - 1))
    <3> SUFFICES ASSUME NEW k \in rows PROVE k \in 1 .. (j - 1)
      OBVIOUS
    <3>1. k \in JobIds /\ st[k] # "absent"
      OBVIOUS
    <3>2. ~(j < k) /\ k # j
      BY <1>4, <3>1 DEF Rows
    <3> QED
      BY <3>1, <3>2, BoundsAssumption DEF JobIds
  <2>2. IsFiniteSet(1 .. (j - 1)) /\ Cardinality(1 .. (j - 1)) = j - 1
    BY FS_Interval, BoundsAssumption DEF JobIds
  <2>3. Cardinality(rows) <= j - 1
    BY <2>1, <2>2, FS_Subset
  <2> QED
    BY <1>2, <2>3, BoundsAssumption DEF JobIds
<1> QED
  BY <1>2, <1>3, <1>4, BoundsAssumption DEF JobIds

LEMMA AfterFailureIs ==
  ASSUME NEW j, NEW retryable \in BOOLEAN
  PROVE  /\ AfterFailure(j, retryable) \in {"queued", "failed"}
         /\ AfterFailure(j, retryable) = "queued" => attempts[j] < MaxAttempts
BY DEF AfterFailure

----------------------------------------------------------------------------
(* Dispatch *)

LEMMA LeastOfThree ==
  ASSUME NEW a \in Nat, NEW b \in Nat, NEW c \in Nat
  PROVE  Least({a, b, c}) \in 0 .. c
<1>1. \E n \in {a, b, c} : \A k \in {a, b, c} : n <= k
  <2>1. CASE a <= b /\ a <= c
    BY <2>1
  <2>2. CASE b <= a /\ b <= c
    BY <2>2
  <2>3. CASE c <= a /\ c <= b
    BY <2>3
  <2> QED
    BY <2>1, <2>2, <2>3
<1>2. Least({a, b, c}) \in {a, b, c} /\ \A k \in {a, b, c} : Least({a, b, c}) <= k
  BY <1>1 DEF Least
<1> QED
  BY <1>2

\* What a dispatch of the jobs of next to their slots does, job by job and slot
\* by slot.
Started(next, slot, st, late, pr, sj) ==
  /\ \A j \in next : st[j] = "queued" /\ j \notin late /\ Connected(pr, slot[j]) /\ sj[slot[j]] = NoJob
  /\ \A j, k \in next : slot[j] = slot[k] => j = k
  /\ status' = [j \in JobIds |-> IF j \in next THEN "running" ELSE st[j]]
  /\ attempts' = [j \in JobIds |-> IF j \in next THEN attempts[j] + 1 ELSE attempts[j]]
  /\ slotJob' \in [Slots -> JobIds \cup {NoJob}]
  /\ \A j \in next : slotJob'[slot[j]] = j
  /\ \A i \in Slots : slotJob'[i] = sj[i] \/ \E j \in next : slot[j] = i /\ slotJob'[i] = j

LEMMA DispatchStarts ==
  ASSUME NEW st, NEW late, NEW pr, NEW sj \in [Slots -> JobIds \cup {NoJob}], NEW up,
         budget \in 0 .. Rate, Dispatch(st, late, pr, sj, up)
  PROVE  /\ delayed' = late /\ proc' = pr /\ budget' \in 0 .. Rate
         /\ \E next \in SUBSET JobIds : \E slot \in [next -> Slots] :
              Started(next, slot, st, late, pr, sj)
<1> DEFINE free == {i \in Slots : Connected(pr, i) /\ sj[i] = NoJob}
           ready == {j \in JobIds : st[j] = "queued" /\ j \notin late}
           n == IF up THEN Room(free, ready) ELSE 0
           next == Smallest(ready, n)
<1>1. Assign(next, free, st, pr, sj) /\ delayed' = late /\ budget' = budget - n
  BY DEF Dispatch
<1>2. budget' \in 0 .. Rate
  <2>1. free \in SUBSET Slots /\ ready \in SUBSET JobIds
    OBVIOUS
  <2>2. IsFiniteSet(free) /\ IsFiniteSet(ready)
    BY <2>1, SlotsAssumption, JobIdsFinite, FS_Subset
  <2>3. Cardinality(free) \in Nat /\ Cardinality(ready) \in Nat
    BY <2>2, FS_CardinalityType
  <2>4. budget \in Nat /\ budget <= Rate
    BY BoundsAssumption
  <2>5. Room(free, ready) \in 0 .. budget
    BY <2>3, <2>4, LeastOfThree DEF Room
  <2>6. n \in 0 .. budget
    BY <2>4, <2>5
  <2> HIDE DEF n
  <2> QED
    BY <1>1, <2>4, <2>6, BoundsAssumption
<1>3. next \in SUBSET JobIds /\ \A j \in next : st[j] = "queued" /\ j \notin late
  BY DEF Smallest
<1> HIDE DEF next
<1>4. PICK slot \in [next -> free] :
        /\ \A j, k \in next : slot[j] = slot[k] => j = k
        /\ status' = [j \in JobIds |-> IF j \in next THEN "running" ELSE st[j]]
        /\ attempts' = [j \in JobIds |-> IF j \in next THEN attempts[j] + 1 ELSE attempts[j]]
        /\ slotJob' = [i \in Slots |-> IF \E j \in next : slot[j] = i
                                       THEN CHOOSE j \in next : slot[j] = i ELSE sj[i]]
        /\ proc' = pr
  BY <1>1 DEF Assign
<1>5. slot \in [next -> Slots] /\ \A j \in next : Connected(pr, slot[j]) /\ sj[slot[j]] = NoJob
  OBVIOUS
<1>6. \A j \in next : slotJob'[slot[j]] = j
  BY <1>4, <1>5
<1>7. \A i \in Slots : slotJob'[i] = sj[i] \/ \E j \in next : slot[j] = i /\ slotJob'[i] = j
  BY <1>4, <1>5
<1>8. slotJob' \in [Slots -> JobIds \cup {NoJob}]
  <2>1. \A i \in Slots : slotJob'[i] \in JobIds \cup {NoJob}
    BY <1>3, <1>7
  <2> QED
    BY <1>4, <2>1
<1>9. Started(next, slot, st, late, pr, sj)
  BY <1>3, <1>4, <1>5, <1>6, <1>7, <1>8 DEF Started
<1> QED
  BY <1>5, <1>1, <1>2, <1>3, <1>4, <1>9

\* What a dispatch makes of a job: nothing, or an attempt if it is not delayed.
Dispatched(st, late) ==
  \A j \in JobIds :
    \/ status'[j] = st[j] /\ attempts'[j] = attempts[j]
    \/ /\ st[j] = "queued" /\ j \notin late /\ attempts[j] < MaxAttempts
       /\ status'[j] = "running" /\ attempts'[j] = attempts[j] + 1

\* Dispatch keeps the invariant: a handler has to show it only of the values it
\* hands over.
LEMMA DispatchKeeps ==
  ASSUME NEW st, NEW late, NEW pr, NEW sj, NEW up, NEW h, NEW rp,
         host' = h, reply' = rp, budget \in 0 .. Rate,
         Kept(st, attempts, late, h, pr, sj, rp),
         Dispatch(st, late, pr, sj, up)
  PROVE  /\ Kept(status, attempts, delayed, host, proc, slotJob, reply)'
         /\ budget' \in 0 .. Rate
         /\ Dispatched(st, late)
<1>1. Types(st, attempts, late, pr, sj, rp)
  BY DEF Kept
<1>2. /\ delayed' = late /\ proc' = pr /\ budget' \in 0 .. Rate
      /\ \E next \in SUBSET JobIds : \E slot \in [next -> Slots] :
           Started(next, slot, st, late, pr, sj)
  BY <1>1, DispatchStarts DEF Types
<1>3. PICK next \in SUBSET JobIds : \E slot \in [next -> Slots] : Started(next, slot, st, late, pr, sj)
  BY <1>2
<1>4. PICK slot \in [next -> Slots] : Started(next, slot, st, late, pr, sj)
  BY <1>3
<1>5. \A j \in JobIds : /\ j \in next => status'[j] = "running" /\ attempts'[j] = attempts[j] + 1
                        /\ j \notin next => status'[j] = st[j] /\ attempts'[j] = attempts[j]
  BY <1>4 DEF Started
<1>6. Types(status, attempts, delayed, proc, slotJob, reply)'
  <2>1. status' \in [JobIds -> JobStates]
    BY <1>1, <1>4 DEF Types, Started, JobStates, Active
  <2>2. attempts' \in [JobIds -> Nat]
    BY <1>1, <1>4 DEF Types, Started
  <2>3. slotJob' \in [Slots -> JobIds \cup {NoJob}]
    BY <1>4 DEF Started
  <2> QED
    BY <1>1, <1>2, <2>1, <2>2, <2>3 DEF Types
<1>7. Channels(host, proc, slotJob, reply)'
  <2> SUFFICES ASSUME NEW i \in Slots
               PROVE  /\ h \in {"down", "open"} => pr[i] = "none"
                      /\ pr[i] = "none" => slotJob'[i] = NoJob
                      /\ slotJob'[i] = NoJob => rp[i] = NoJob
                      /\ ~Connected(pr, i) => rp[i] = NoJob
    BY <1>2 DEF Channels, Connected
  <2>1. CASE slotJob'[i] = sj[i]
    BY <2>1 DEF Kept, Channels
  <2>2. CASE \E j \in next : slot[j] = i /\ slotJob'[i] = j
    BY <2>2, <1>4, NoJobAssumption DEF Kept, Channels, Started, Connected
  <2> QED
    BY <2>1, <2>2, <1>4 DEF Started
<1>8. Places(status, proc, slotJob)'
  <2>1. ASSUME NEW i \in Slots, NEW k \in Slots, slotJob'[i] # NoJob, slotJob'[k] = slotJob'[i]
        PROVE  k = i
    <3>1. CASE slotJob'[i] = sj[i] /\ slotJob'[k] = sj[k]
      BY <2>1, <3>1 DEF Kept, Places
    <3>2. CASE slotJob'[i] = sj[i] /\ \E j \in next : slot[j] = k /\ slotJob'[k] = j
      BY <2>1, <3>2, <1>4 DEF Kept, Places, Started
    <3>3. CASE slotJob'[k] = sj[k] /\ \E j \in next : slot[j] = i /\ slotJob'[i] = j
      BY <2>1, <3>3, <1>4 DEF Kept, Places, Started
    <3>4. CASE \E j \in next, l \in next : slot[j] = i /\ slotJob'[i] = j /\ slot[l] = k /\ slotJob'[k] = l
      BY <2>1, <3>4
    <3> QED
      BY <3>1, <3>2, <3>3, <3>4, <1>4 DEF Started
  <2>2. ASSUME NEW i \in Slots, slotJob'[i] # NoJob
        PROVE  /\ status'[slotJob'[i]] \in {"running", "cancelled"}
               /\ pr[i] = "up" => status'[slotJob'[i]] = "running"
    <3>1. slotJob'[i] \in JobIds
      BY <2>2, <1>4 DEF Started
    <3>2. CASE slotJob'[i] = sj[i]
      <4>1. slotJob'[i] \notin next
        BY <2>2, <3>2, <1>4 DEF Kept, Places, Started
      <4> QED
        BY <2>2, <3>1, <3>2, <4>1, <1>5 DEF Kept, Places
    <3>3. CASE \E j \in next : slot[j] = i /\ slotJob'[i] = j
      BY <3>1, <3>3, <1>5
    <3> QED
      BY <3>2, <3>3, <1>4 DEF Started
  <2> QED
    BY <1>2, <2>1, <2>2 DEF Places
<1>9. Attached(status, host, slotJob)'
  <2> SUFFICES ASSUME h = "running", NEW j \in JobIds, status'[j] = "running"
               PROVE  \E i \in Slots : slotJob'[i] = j
    BY DEF Attached
  <2>1. CASE j \in next
    BY <2>1, <1>4 DEF Started
  <2>2. CASE j \notin next
    <3>1. PICK i \in Slots : sj[i] = j
      BY <2>2, <1>5 DEF Kept, Attached
    <3>2. slotJob'[i] = j
      BY <3>1, <1>4, NoJobAssumption DEF Started
    <3> QED
      BY <3>2
  <2> QED
    BY <2>1, <2>2
<1>10. Tries(status, attempts)'
  <2> SUFFICES ASSUME NEW j \in JobIds
               PROVE  /\ attempts'[j] <= MaxAttempts
                      /\ status'[j] = "queued" => attempts'[j] < MaxAttempts
                      /\ status'[j] = "absent" => attempts'[j] = 0
    BY DEF Tries
  <2>1. CASE j \in next
    <3>1. st[j] = "queued" /\ attempts[j] \in Nat
      BY <2>1, <1>1, <1>4 DEF Started, Types
    <3> QED
      BY <2>1, <3>1, <1>5, BoundsAssumption DEF Kept, Tries
  <2>2. CASE j \notin next
    BY <2>2, <1>5 DEF Kept, Tries
  <2> QED
    BY <2>1, <2>2
<1>11. Rows(status)'
  BY <1>4, <1>5 DEF Kept, Rows, Started
<1>12. Bounded(status)'
  <2>1. \A j \in JobIds : status'[j] \in Active => st[j] \in Active
    BY <1>4, <1>5 DEF Started, Active
  <2>2. Bounded(status')
    BY <2>1, BoundedShrinks DEF Kept
  <2> QED
    BY <2>2 DEF Bounded, ActiveIn
<1>13. Dispatched(st, late)
  BY <1>4, <1>5 DEF Started, Dispatched, Kept, Tries
<1> QED
  BY <1>2, <1>6, <1>7, <1>8, <1>9, <1>10, <1>11, <1>12, <1>13 DEF Kept

----------------------------------------------------------------------------
(* Handlers that end attempts or jobs *)

\* What ended stays, only what ran succeeds, and what is requeued ran and has an
\* attempt left.
Ends(st) ==
  /\ st \in [JobIds -> JobStates]
  /\ \A j \in JobIds : st[j] # status[j] =>
       /\ status[j] \in Active
       /\ st[j] \in Terminal \cup {"queued"}
       /\ st[j] = "queued" => attempts[j] < MaxAttempts /\ status[j] = "running"
       /\ st[j] = "succeeded" => status[j] = "running"

\* What is requeued has to wait.
Waits(st, late) == \A j \in JobIds : st[j] = "queued" /\ status[j] # "queued" => j \in late

\* Every job makes a move of its life.
Lives == \A j \in JobIds : Lifecycle!Moves(j)

LEMMA EndsKeep ==
  ASSUME IInv, NEW st, Ends(st)
  PROVE  /\ Tries(st, attempts)
         /\ Rows(st)
         /\ Bounded(st)
<1>1. \A j \in JobIds : st[j] = "absent" <=> status[j] = "absent"
  BY DEF Ends, Active, Terminal
<1>2. Tries(st, attempts)
  BY <1>1 DEF Tries, Ends, IInv, Kept
<1>3. Rows(st)
  BY <1>1 DEF Rows, IInv, Kept
<1>4. Bounded(st)
  <2>1. \A j \in JobIds : st[j] \in Active => status[j] \in Active
    BY DEF Ends
  <2> QED
    BY <2>1, BoundedShrinks DEF IInv, Kept
<1> QED
  BY <1>2, <1>3, <1>4

\* A handler that ends attempts or jobs and then dispatches.
LEMMA EndsLive ==
  ASSUME IInv, NEW st, NEW late, Ends(st), Waits(st, late), Dispatched(st, late)
  PROVE  Lives
<1> SUFFICES ASSUME NEW j \in JobIds PROVE Lifecycle!Moves(j)
  BY DEF Lives
<1>1. CASE st[j] = status[j]
  BY <1>1 DEF Dispatched, Lifecycle!Moves, Lifecycle!Becomes, Lifecycle!Try
<1>2. CASE st[j] # status[j]
  <2>1. status[j] \in Active /\ st[j] \in Terminal \cup {"queued"}
    BY <1>2 DEF Ends
  <2>2. status'[j] = st[j] /\ attempts'[j] = attempts[j]
    BY <1>2, <2>1 DEF Dispatched, Waits
  <2>3. Lifecycle!Becomes(j, st[j])
    BY <2>2 DEF Lifecycle!Becomes
  <2>4. CASE status[j] = "running"
    BY <1>2, <2>1, <2>3, <2>4 DEF Ends, Terminal, Lifecycle!Moves, Lifecycle!Finish, Lifecycle!Withdraw
  <2>5. CASE status[j] = "queued"
    BY <1>2, <2>1, <2>3, <2>5 DEF Ends, Terminal, Lifecycle!Moves, Lifecycle!Withdraw
  <2> QED
    BY <2>1, <2>4, <2>5 DEF Active
<1> QED
  BY <1>1, <1>2

LEMMA StartKeeps ==
  ASSUME IInv, Start
  PROVE  IInv' /\ Lives
<1> DEFINE interrupted == JobsIn({"running"})
           st == [j \in JobIds |-> IF j \in interrupted THEN AfterFailure(j, TRUE) ELSE status[j]]
           late == delayed \cup {j \in interrupted : st[j] = "queued"}
           pr == [i \in Slots |-> "up"]
           sj == [i \in Slots |-> NoJob]
<1>1. /\ host = "open" /\ host' = "running"
      /\ Dispatch(st, late, pr, sj, TRUE)
      /\ UNCHANGED <<bootFailed, idleExits, reply, submits, faults>>
  BY DEF Start
<1>2. \A j \in JobIds : /\ status[j] # "running" => st[j] = status[j]
                        /\ status[j] = "running" => /\ st[j] \in {"queued", "failed"}
                                                    /\ st[j] = "queued" => attempts[j] < MaxAttempts
  BY AfterFailureIs DEF JobsIn
<1>3. late \subseteq JobIds
  BY DEF IInv, Kept, Types, JobsIn
<1>w. Waits(st, late)
  BY <1>2 DEF Waits, JobsIn
<1>4. st \in [JobIds -> JobStates]
  <2>1. \A j \in JobIds : status[j] \in JobStates
    BY DEF IInv, Kept, Types
  <2>2. \A j \in JobIds : st[j] \in JobStates
    BY <1>2, <2>1 DEF JobStates, Active, Terminal
  <2> QED
    BY <2>2
<1> HIDE DEF st, late
<1>5. Ends(st)
  BY <1>2, <1>4 DEF Ends, Active, Terminal
<1>6. \A i \in Slots : reply[i] = NoJob
  BY <1>1 DEF IInv, Kept, Channels
<1>7. Types(st, attempts, late, pr, sj, reply)
  BY <1>3, <1>4 DEF IInv, Kept, Types, ProcStates
<1>8. Channels("running", pr, sj, reply)
  BY <1>6 DEF Channels, Connected
<1>9. Places(st, pr, sj)
  BY DEF Places
<1>10. Attached(st, "running", sj)
  BY <1>2 DEF Attached
<1>11. Kept(st, attempts, late, "running", pr, sj, reply)
  BY <1>5, <1>7, <1>8, <1>9, <1>10, EndsKeep DEF Kept
<1> HIDE DEF pr, sj
<1>12. /\ Kept(status, attempts, delayed, host, proc, slotJob, reply)'
       /\ budget' \in 0 .. Rate
       /\ Dispatched(st, late)
  BY <1>1, <1>11, DispatchKeeps DEF IInv, OthersTyped
<1>13. OthersTyped'
  BY <1>1, <1>12 DEF IInv, OthersTyped, HostStates
<1>14. Lives
  BY <1>5, <1>w, <1>12, EndsLive
<1> QED
  BY <1>12, <1>13, <1>14 DEF IInv

\* What a handler that frees slot i of its job hands over to dispatch.
LEMMA FreedSlot ==
  ASSUME IInv, NEW i \in Slots, NEW st, Ends(st), NEW pr \in [Slots -> ProcStates],
         NEW rp \in [Slots -> Outcomes \cup {NoJob}],
         rp[i] = NoJob, \A k \in Slots \ {i} : pr[k] = proc[k] /\ rp[k] = reply[k],
         host \in {"running", "closing"},
         \A j \in JobIds :
           /\ j = slotJob[i] => st[j] # "running"
           /\ j # slotJob[i] /\ status[j] = "running" => st[j] = "running"
  PROVE  /\ Channels(host, pr, [slotJob EXCEPT ![i] = NoJob], rp)
         /\ Places(st, pr, [slotJob EXCEPT ![i] = NoJob])
         /\ Attached(st, host, [slotJob EXCEPT ![i] = NoJob])
<1> DEFINE sj == [slotJob EXCEPT ![i] = NoJob]
<1>1. /\ slotJob \in [Slots -> JobIds \cup {NoJob}]
      /\ st \in [JobIds -> JobStates]
  BY DEF IInv, Kept, Types, Ends
<1>2. sj[i] = NoJob /\ \A k \in Slots \ {i} : sj[k] = slotJob[k]
  BY <1>1
<1>3. Channels(host, pr, sj, rp)
  <2> SUFFICES ASSUME NEW k \in Slots
               PROVE  /\ host \in {"down", "open"} => pr[k] = "none"
                      /\ pr[k] = "none" => sj[k] = NoJob
                      /\ sj[k] = NoJob => rp[k] = NoJob
                      /\ ~Connected(pr, k) => rp[k] = NoJob
    BY DEF Channels
  <2>1. CASE k = i
    BY <1>2, <2>1
  <2>2. CASE k # i
    BY <1>2, <2>2 DEF IInv, Kept, Channels, Connected
  <2> QED
    BY <2>1, <2>2
<1>4. \A k, l \in Slots : sj[k] # NoJob /\ sj[l] = sj[k] => l = k
  BY <1>2 DEF IInv, Kept, Places
<1>5. ASSUME NEW k \in Slots, sj[k] # NoJob
      PROVE  /\ st[sj[k]] \in {"running", "cancelled"}
             /\ pr[k] = "up" => st[sj[k]] = "running"
  <2>1. k # i /\ sj[k] = slotJob[k] /\ sj[k] \in JobIds
    BY <1>1, <1>2, <1>5
  <2>2. slotJob[k] # slotJob[i]
    BY <1>5, <2>1 DEF IInv, Kept, Places
  <2>3. /\ status[sj[k]] \in {"running", "cancelled"}
        /\ proc[k] = "up" => status[sj[k]] = "running"
    BY <1>5, <2>1 DEF IInv, Kept, Places
  <2>4. status[sj[k]] = "cancelled" => st[sj[k]] = "cancelled"
    BY <2>1 DEF Ends, Active
  <2> QED
    BY <2>1, <2>2, <2>3, <2>4
<1>6. Attached(st, host, sj)
  <2> SUFFICES ASSUME host = "running", NEW j \in JobIds, st[j] = "running"
               PROVE  \E k \in Slots : sj[k] = j
    BY DEF Attached
  <2>1. status[j] = "running" /\ j # slotJob[i]
    BY DEF Ends, Active, Terminal
  <2>2. PICK k \in Slots : slotJob[k] = j
    BY <2>1 DEF IInv, Kept, Attached
  <2> QED
    BY <1>2, <2>1, <2>2
<1> QED
  BY <1>3, <1>4, <1>5, <1>6 DEF Places

LEMMA CompleteKeeps ==
  ASSUME IInv, NEW i \in Slots, Complete(i)
  PROVE  IInv' /\ Lives
<1> DEFINE j == slotJob[i]
           outcome == reply[i]
           st == IF status[j] # "running" THEN status
                 ELSE [status EXCEPT ![j] =
                         IF outcome = "ok" THEN "succeeded"
                         ELSE AfterFailure(j, outcome = "retryable")]
           late == IF st[j] = "queued" THEN delayed \cup {j} ELSE delayed
           sj == [slotJob EXCEPT ![i] = NoJob]
           rp == [reply EXCEPT ![i] = NoJob]
           up == host = "running" /\ ~bootFailed
<1>1. /\ Connected(proc, i) /\ reply[i] # NoJob /\ reply' = rp /\ idleExits' = 0
      /\ Dispatch(st, late, proc, sj, up)
      /\ UNCHANGED <<host, bootFailed, submits, faults>>
  BY DEF Complete
<1>2. /\ Types(status, attempts, delayed, proc, slotJob, reply)
      /\ status \in [JobIds -> JobStates]
  BY DEF IInv, Kept, Types
<1>3. j \in JobIds /\ status[j] \in {"running", "cancelled"}
  BY <1>1 DEF IInv, Kept, Types, Channels, Places
<1>4. /\ \A k \in JobIds \ {j} : st[k] = status[k]
      /\ status[j] = "cancelled" => st[j] = "cancelled"
      /\ status[j] = "running" => /\ st[j] \in {"succeeded", "queued", "failed"}
                                  /\ st[j] = "queued" => attempts[j] < MaxAttempts
  BY <1>2, <1>3, AfterFailureIs
<1>5. st \in [JobIds -> JobStates]
  BY <1>2, <1>3, AfterFailureIs DEF JobStates, Active, Terminal
<1>6. late \subseteq JobIds /\ Waits(st, late)
  BY <1>2, <1>3, <1>4 DEF Types, Waits
<1> HIDE DEF st, late
<1>7. Ends(st)
  BY <1>3, <1>4, <1>5 DEF Ends, Active, Terminal
<1>8. host \in {"running", "closing"}
  BY <1>1 DEF IInv, Kept, Channels, Connected, OthersTyped, HostStates
<1>9. proc \in [Slots -> ProcStates] /\ rp \in [Slots -> Outcomes \cup {NoJob}] /\ rp[i] = NoJob
      /\ \A k \in Slots \ {i} : rp[k] = reply[k]
  BY <1>2 DEF Types
<1>10. \A k \in JobIds :
         /\ k = slotJob[i] => st[k] # "running"
         /\ k # slotJob[i] /\ status[k] = "running" => st[k] = "running"
  BY <1>3, <1>4
<1>11. Types(st, attempts, late, proc, sj, rp)
  BY <1>2, <1>5, <1>6, <1>9 DEF Types
<1> HIDE DEF j, outcome, sj, rp
<1>12. Channels(host, proc, sj, rp) /\ Places(st, proc, sj) /\ Attached(st, host, sj)
  BY <1>7, <1>8, <1>9, <1>10, FreedSlot DEF sj
<1>13. Kept(st, attempts, late, host, proc, sj, rp)
  BY <1>7, <1>11, <1>12, EndsKeep DEF Kept
<1>14. /\ Kept(status, attempts, delayed, host, proc, slotJob, reply)'
       /\ budget' \in 0 .. Rate
       /\ Dispatched(st, late)
  BY <1>1, <1>13, DispatchKeeps DEF IInv, OthersTyped
<1>15. OthersTyped'
  BY <1>1, <1>14 DEF IInv, OthersTyped
<1>16. Lives
  BY <1>6, <1>7, <1>14, EndsLive
<1> QED
  BY <1>14, <1>15, <1>16 DEF IInv

LEMMA ChildClosedKeeps ==
  ASSUME IInv, NEW i \in Slots, ChildClosed(i)
  PROVE  IInv' /\ Lives
<1> DEFINE j == slotJob[i]
           st1 == IF j # NoJob /\ status[j] = "running"
                  THEN [status EXCEPT ![j] = AfterFailure(j, TRUE)] ELSE status
           idle == IdleExitsAfter(i)
           giveUp == idle >= IdleExitLimit
           up == host = "running" /\ ~bootFailed /\ ~giveUp
           st == [k \in JobIds |-> IF giveUp /\ st1[k] = "queued" THEN "failed" ELSE st1[k]]
           late == IF giveUp THEN {}
                   ELSE IF j # NoJob /\ st1[j] = "queued" THEN delayed \cup {j} ELSE delayed
           pr == [proc EXCEPT ![i] = IF up THEN "up" ELSE "none"]
           sj == [slotJob EXCEPT ![i] = NoJob]
<1>1. /\ proc[i] = "cut" /\ idleExits' = idle /\ bootFailed' = (bootFailed \/ giveUp)
      /\ Dispatch(st, late, pr, sj, up)
      /\ UNCHANGED <<host, reply, submits, faults>>
  BY DEF ChildClosed
<1>2. /\ status \in [JobIds -> JobStates] /\ delayed \subseteq JobIds
      /\ proc \in [Slots -> ProcStates] /\ slotJob[i] \in JobIds \cup {NoJob}
      /\ reply \in [Slots -> Outcomes \cup {NoJob}]
      /\ Types(status, attempts, delayed, proc, slotJob, reply)
  BY DEF IInv, Kept, Types
<1>3. slotJob[i] # NoJob => status[slotJob[i]] \in {"running", "cancelled"}
  BY DEF IInv, Kept, Places
<1>4. \A k \in JobIds :
        /\ k # slotJob[i] => st1[k] = status[k]
        /\ k = slotJob[i] =>
             /\ status[k] = "cancelled" => st1[k] = "cancelled"
             /\ status[k] = "running" => /\ st1[k] \in {"queued", "failed"}
                                         /\ st1[k] = "queued" => attempts[k] < MaxAttempts
  BY <1>2, <1>3, AfterFailureIs, NoJobAssumption
<1>5. \A k \in JobIds : st1[k] \in JobStates
  BY <1>2, <1>3, <1>4 DEF JobStates, Active, Terminal
<1>6. /\ late \subseteq JobIds
      /\ ~giveUp /\ slotJob[i] # NoJob /\ st1[slotJob[i]] = "queued" => slotJob[i] \in late
  BY <1>2
<1> HIDE DEF st1, giveUp
<1>7. st \in [JobIds -> JobStates]
  BY <1>5 DEF JobStates, Terminal
<1>8. \A k \in JobIds : st[k] = IF giveUp /\ st1[k] = "queued" THEN "failed" ELSE st1[k]
  OBVIOUS
<1> HIDE DEF st
<1>9. Ends(st)
  <2> SUFFICES ASSUME NEW k \in JobIds, st[k] # status[k]
               PROVE  /\ status[k] \in Active
                      /\ st[k] \in Terminal \cup {"queued"}
                      /\ st[k] = "queued" => attempts[k] < MaxAttempts /\ status[k] = "running"
                      /\ st[k] = "succeeded" => status[k] = "running"
    BY <1>7 DEF Ends
  <2>1. CASE k = slotJob[i]
    BY <1>2, <1>3, <1>4, <1>8, <2>1, NoJobAssumption DEF Active, Terminal
  <2>2. CASE k # slotJob[i]
    BY <1>4, <1>8, <2>2 DEF Active, Terminal
  <2> QED
    BY <2>1, <2>2
<1>w. Waits(st, late)
  BY <1>4, <1>6, <1>8, NoJobAssumption DEF Waits
<1>10. \A k \in JobIds :
         /\ k = slotJob[i] => st[k] # "running"
         /\ k # slotJob[i] /\ status[k] = "running" => st[k] = "running"
  BY <1>2, <1>3, <1>4, <1>8, NoJobAssumption
<1>11. host \in {"running", "closing"}
  BY <1>1 DEF IInv, Kept, Channels, OthersTyped, HostStates
<1>12. /\ pr \in [Slots -> ProcStates] /\ reply[i] = NoJob
       /\ \A k \in Slots \ {i} : pr[k] = proc[k]
  BY <1>1, <1>2 DEF IInv, Kept, Channels, Connected, ProcStates
<1>13. Types(st, attempts, late, pr, sj, reply)
  BY <1>2, <1>6, <1>7, <1>12 DEF Types
<1> HIDE DEF j, idle, late, pr, sj, up
<1>14. Channels(host, pr, sj, reply) /\ Places(st, pr, sj) /\ Attached(st, host, sj)
  BY <1>2, <1>9, <1>10, <1>11, <1>12, FreedSlot DEF sj
<1>15. Kept(st, attempts, late, host, pr, sj, reply)
  BY <1>9, <1>13, <1>14, EndsKeep DEF Kept
<1>16. /\ Kept(status, attempts, delayed, host, proc, slotJob, reply)'
       /\ budget' \in 0 .. Rate
       /\ Dispatched(st, late)
  BY <1>1, <1>15, DispatchKeeps DEF IInv, OthersTyped
<1>17. OthersTyped'
  <2>1. idle \in Nat
    BY DEF idle, IdleExitsAfter, IInv, OthersTyped
  <2>2. giveUp \in BOOLEAN
    BY DEF giveUp
  <2> QED
    BY <1>1, <1>16, <2>1, <2>2 DEF IInv, OthersTyped
<1>18. Lives
  BY <1>9, <1>w, <1>16, EndsLive
<1> QED
  BY <1>16, <1>17, <1>18 DEF IInv

----------------------------------------------------------------------------
(* Clients, children and the host *)

LEMMA EndSubmitKeeps ==
  ASSUME IInv, NEW size \in 1 .. 2, EndSubmit(size)
  PROVE  IInv' /\ Lives
<1> DEFINE rows == JobIds \ JobsIn({"absent"})
           first == Cardinality(rows) + 1
           batch == first .. (first + size - 1)
           st == [j \in JobIds |-> IF j \in batch THEN "queued" ELSE status[j]]
           up == host = "running" /\ ~bootFailed
<1>1. /\ Usable /\ submits > 0 /\ batch \subseteq JobIds
      /\ Cardinality(JobsIn(Active)) + size <= MaxActive
      /\ submits' = submits - 1
      /\ Dispatch(st, delayed, proc, slotJob, up)
      /\ UNCHANGED <<hostVars, reply, faults>>
  BY DEF EndSubmit
<1>2. /\ status \in [JobIds -> JobStates]
      /\ Types(status, attempts, delayed, proc, slotJob, reply)
      /\ Rows(status)
  BY DEF IInv, Kept, Types
<1>3. /\ Cardinality(rows) \in Nat
      /\ \A j \in JobIds : status[j] = "absent" <=> j > Cardinality(rows)
  BY <1>2, RowsAreFirst DEF JobsIn
<1> HIDE DEF rows
<1>4. \A j \in JobIds : j \in batch => status[j] = "absent"
  BY <1>3, BoundsAssumption DEF JobIds
<1>5. /\ st \in [JobIds -> JobStates]
      /\ \A j \in JobIds : st[j] = IF j \in batch THEN "queued" ELSE status[j]
  BY <1>2 DEF JobStates, Active
<1>6. Rows(st)
  <2> SUFFICES ASSUME NEW j \in JobIds, NEW k \in JobIds, st[j] = "absent", j < k
               PROVE  st[k] = "absent"
    BY DEF Rows
  <2>1. j \notin batch /\ j > Cardinality(rows)
    BY <1>3, <1>5
  <2>2. k \notin batch /\ k > Cardinality(rows)
    BY <1>3, <2>1, BoundsAssumption DEF JobIds
  <2> QED
    BY <1>3, <1>5, <2>2
<1>7. Bounded(st)
  <2>1. IsFiniteSet(batch) /\ Cardinality(batch) = size
    <3>1. first \in Int /\ first + size - 1 \in Int /\ first <= first + size - 1
      BY <1>3
    <3>2. size = (first + size - 1) - first + 1
      BY <1>3
    <3> HIDE DEF first
    <3> QED
      BY <3>1, <3>2, FS_Interval
  <2>2. ActiveIn(st) = ActiveIn(status) \cup batch
    BY <1>1, <1>5 DEF ActiveIn, Active
  <2>3. /\ Cardinality(ActiveIn(st)) = Cardinality(ActiveIn(status)) + size
                                          - Cardinality(ActiveIn(status) \cap batch)
        /\ Cardinality(ActiveIn(status) \cap batch) \in Nat
    BY <2>1, <2>2, ActiveFinite, FS_Union, FS_Intersection, FS_CardinalityType
  <2>4. ActiveIn(status) = JobsIn(Active)
    BY DEF ActiveIn, JobsIn
  <2> HIDE DEF batch
  <2> QED
    BY <1>1, <2>3, <2>4, ActiveFinite, BoundsAssumption DEF Bounded
<1> HIDE DEF st, batch
<1>8. Tries(st, attempts)
  BY <1>4, <1>5, BoundsAssumption DEF IInv, Kept, Tries
<1>9. Places(st, proc, slotJob)
  <2>1. ASSUME NEW i \in Slots, slotJob[i] # NoJob
        PROVE  slotJob[i] \in JobIds /\ st[slotJob[i]] = status[slotJob[i]]
    BY <1>2, <1>4, <1>5, <2>1 DEF IInv, Kept, Places, Types
  <2> QED
    BY <2>1 DEF IInv, Kept, Places
<1>10. Attached(st, host, slotJob)
  BY <1>5 DEF IInv, Kept, Attached
<1>11. Kept(st, attempts, delayed, host, proc, slotJob, reply)
  BY <1>2, <1>5, <1>6, <1>7, <1>8, <1>9, <1>10 DEF Kept, Types, IInv
<1>12. /\ Kept(status, attempts, delayed, host, proc, slotJob, reply)'
       /\ budget' \in 0 .. Rate
       /\ Dispatched(st, delayed)
  BY <1>1, <1>11, DispatchKeeps DEF IInv, OthersTyped, hostVars
<1>13. OthersTyped'
  BY <1>1, <1>12 DEF IInv, OthersTyped, hostVars
<1>14. Lives
  BY <1>4, <1>5, <1>12 DEF Lives, Dispatched, Lifecycle!Moves, Lifecycle!Becomes, Lifecycle!Submit, Lifecycle!Try
<1> QED
  BY <1>12, <1>13, <1>14 DEF IInv

LEMMA CancelKeeps ==
  ASSUME IInv, NEW j \in JobIds, Cancel(j)
  PROVE  IInv' /\ Lives
<1>1. /\ status \in [JobIds -> JobStates]
      /\ Types(status, attempts, delayed, proc, slotJob, reply)
  BY DEF IInv, Kept, Types
<1>2. status[j] \in Active /\ \A k \in JobIds : status'[k] = IF k = j THEN "cancelled" ELSE status[k]
  BY <1>1 DEF Cancel
<1>3. Ends(status')
  BY <1>1, <1>2 DEF Ends, Cancel, JobStates, Terminal
<1>4. \A i \in Slots : proc'[i] = IF slotJob[i] = j /\ proc[i] = "up" THEN "dying" ELSE proc[i]
  BY DEF Cancel
<1>5. Types(status, attempts, delayed, proc, slotJob, reply)'
  BY <1>1, <1>3 DEF Types, Cancel, ProcStates, Ends, slotVars
<1>6. Channels(host, proc, slotJob, reply)'
  BY <1>4, NoJobAssumption DEF IInv, Kept, Channels, Connected, Cancel, hostVars
<1>7. Places(status, proc, slotJob)'
  <2>1. ASSUME NEW i \in Slots, slotJob[i] # NoJob
        PROVE  /\ status'[slotJob[i]] \in {"running", "cancelled"}
               /\ proc'[i] = "up" => status'[slotJob[i]] = "running"
    BY <1>1, <1>2, <1>4, <2>1 DEF IInv, Kept, Places, Types
  <2> QED
    BY <2>1 DEF IInv, Kept, Places, Cancel
<1>8. Attached(status, host, slotJob)'
  BY <1>2 DEF IInv, Kept, Attached, Cancel, hostVars
<1>9. Tries(status', attempts) /\ Rows(status') /\ Bounded(status')
  BY <1>3, EndsKeep
<1>l. Lives
  BY <1>2 DEF Lives, Cancel, Active, Lifecycle!Moves, Lifecycle!Becomes, Lifecycle!Withdraw
<1>10. Kept(status, attempts, delayed, host, proc, slotJob, reply)'
  BY <1>5, <1>6, <1>7, <1>8, <1>9 DEF Kept, Tries, Rows, Bounded, ActiveIn, Cancel
<1>11. OthersTyped'
  BY DEF IInv, OthersTyped, Cancel, hostVars
<1> QED
  BY <1>l, <1>10, <1>11 DEF IInv

\* The timer is a dispatch of what there is.
LEMMA TimerKeeps ==
  ASSUME IInv, Timer
  PROVE  IInv' /\ Lives
<1>1. /\ Dispatch(status, delayed, proc, slotJob, TRUE)
      /\ UNCHANGED <<hostVars, reply, submits, faults>>
  BY DEF Timer
<1>2. /\ Kept(status, attempts, delayed, host, proc, slotJob, reply)'
      /\ budget' \in 0 .. Rate
      /\ Dispatched(status, delayed)
  BY <1>1, DispatchKeeps DEF IInv, OthersTyped, hostVars
<1>3. Ends(status) /\ Waits(status, delayed)
  BY DEF Ends, Waits, IInv, Kept, Types
<1>4. Lives
  BY <1>2, <1>3, EndsLive
<1> QED
  BY <1>1, <1>2, <1>4 DEF IInv, OthersTyped, hostVars

\* Steps that touch neither jobs nor slots, and no host that has processes.
LEMMA AsideKeeps ==
  ASSUME IInv, UNCHANGED <<jobVars, slotVars>>,
         \/ host' = host
         \/ (\A i \in Slots : proc[i] = "none") /\ host' # "running",
         OthersTyped'
  PROVE  IInv' /\ Lives
<1>1. Channels(host, proc, slotJob, reply)'
  BY DEF IInv, Kept, Channels, Connected, slotVars
<1>2. Attached(status, host, slotJob)'
  BY DEF IInv, Kept, Attached, jobVars, slotVars
<1>3. Kept(status, attempts, delayed, host, proc, slotJob, reply)'
  BY <1>1, <1>2 DEF IInv, Kept, Types, Places, Tries, Rows, Bounded, ActiveIn, jobVars, slotVars
<1> QED
  BY <1>3 DEF IInv, Lives, jobVars, Lifecycle!Moves, Lifecycle!Becomes

\* Steps of the processes and channels: jobs and slots keep each other.
LEMMA ChildKeeps ==
  ASSUME IInv, UNCHANGED <<status, attempts, slotJob>>, delayed' \subseteq delayed,
         proc' \in [Slots -> ProcStates], reply' \in [Slots -> Outcomes \cup {NoJob}],
         Channels(host, proc, slotJob, reply)', OthersTyped',
         \A i \in Slots : proc'[i] = "up" => proc[i] = "up",
         host' = "running" => host = "running"
  PROVE  IInv' /\ Lives
<1>1. Types(status, attempts, delayed, proc, slotJob, reply)'
  BY DEF IInv, Kept, Types
<1>2. Places(status, proc, slotJob)'
  BY DEF IInv, Kept, Places
<1>3. Attached(status, host, slotJob)'
  BY DEF IInv, Kept, Attached
<1>4. Kept(status, attempts, delayed, host, proc, slotJob, reply)'
  BY <1>1, <1>2, <1>3 DEF IInv, Kept, Tries, Rows, Bounded, ActiveIn
<1> QED
  BY <1>4 DEF IInv, Lives, Lifecycle!Moves, Lifecycle!Becomes

LEMMA HostKeeps ==
  ASSUME IInv, HostNext
  PROVE  IInv' /\ Lives
<1>1. CASE OpenHost
  <2>1. \A i \in Slots : proc[i] = "none"
    BY <1>1 DEF OpenHost, IInv, Kept, Channels
  <2>2. OthersTyped'
    <3>1. bootFailed' \in BOOLEAN /\ idleExits' = 0 /\ host' = "open" /\ budget' = Rate
      BY <1>1 DEF OpenHost
    <3> QED
      BY <1>1, <3>1, BoundsAssumption DEF OpenHost, IInv, OthersTyped, HostStates
  <2> QED
    BY <1>1, <2>1, <2>2, AsideKeeps DEF OpenHost
<1>2. CASE Start
  BY <1>2, StartKeeps
<1>3. CASE Close
  <2>1. proc' \in [Slots -> ProcStates] /\ reply' \in [Slots -> Outcomes \cup {NoJob}]
    BY <1>3 DEF Close, IInv, Kept, Types, ProcStates
  <2>2. Channels(host, proc, slotJob, reply)'
    BY <1>3 DEF Close, IInv, Kept, Channels, Connected
  <2>3. OthersTyped'
    BY <1>3 DEF Close, IInv, OthersTyped, HostStates
  <2>4. \A i \in Slots : proc'[i] = "up" => proc[i] = "up"
    BY <1>3 DEF Close
  <2> QED
    BY <1>3, <2>1, <2>2, <2>3, <2>4, ChildKeeps DEF Close, jobVars
<1>4. CASE Closed
  <2>1. OthersTyped'
    BY <1>4 DEF Closed, IInv, OthersTyped, HostStates
  <2> QED
    BY <1>4, <2>1, AsideKeeps DEF Closed
<1>5. CASE HostCrash
  <2>1. Types(status, attempts, delayed, proc, slotJob, reply)'
    BY <1>5 DEF HostCrash, jobVars, IInv, Kept, Types, ProcStates
  <2>2. Channels(host, proc, slotJob, reply)'
    BY <1>5 DEF HostCrash, Channels
  <2>3. Places(status, proc, slotJob)' /\ Attached(status, host, slotJob)'
    BY <1>5 DEF HostCrash, Places, Attached
  <2>4. OthersTyped'
    BY <1>5 DEF HostCrash, IInv, OthersTyped, HostStates
  <2> QED
    BY <1>5, <2>1, <2>2, <2>3, <2>4
    DEF HostCrash, jobVars, IInv, Kept, Tries, Rows, Bounded, ActiveIn, Lives, Lifecycle!Moves, Lifecycle!Becomes
<1> QED
  BY <1>1, <1>2, <1>3, <1>4, <1>5 DEF HostNext

LEMMA ClientsKeep ==
  ASSUME IInv, ClientNext
  PROVE  IInv' /\ Lives
<1>1. CASE BeginSubmit
  <2>1. OthersTyped'
    BY <1>1 DEF BeginSubmit, hostVars, IInv, OthersTyped
  <2>2. UNCHANGED <<jobVars, slotVars>> /\ host' = host
    BY <1>1 DEF BeginSubmit, hostVars
  <2> QED
    BY <2>1, <2>2, AsideKeeps
<1>2. ASSUME NEW size \in 1 .. 2, EndSubmit(size) PROVE IInv' /\ Lives
  BY <1>2, EndSubmitKeeps
<1>3. CASE RejectSubmit
  <2>1. OthersTyped'
    BY <1>3 DEF RejectSubmit, hostVars, IInv, OthersTyped
  <2>2. UNCHANGED <<jobVars, slotVars>> /\ host' = host
    BY <1>3 DEF RejectSubmit, hostVars
  <2> QED
    BY <2>1, <2>2, AsideKeeps
<1>4. ASSUME NEW j \in JobIds, Cancel(j) PROVE IInv' /\ Lives
  BY <1>4, CancelKeeps
<1> QED
  BY <1>1, <1>2, <1>3, <1>4 DEF ClientNext

LEMMA ChildrenKeep ==
  ASSUME IInv, NEW i \in Slots, ChildNext(i)
  PROVE  IInv' /\ Lives
<1>1. /\ proc \in [Slots -> ProcStates] /\ reply \in [Slots -> Outcomes \cup {NoJob}]
  BY DEF IInv, Kept, Types
<1>2. ASSUME NEW outcome \in Outcomes, ChildReplies(i, outcome) PROVE IInv' /\ Lives
  <2>1. /\ reply' = [reply EXCEPT ![i] = outcome]
        /\ proc[i] = "up" /\ slotJob[i] # NoJob
        /\ UNCHANGED <<jobVars, hostVars, proc, slotJob, budget, submits, faults>>
    BY <1>2 DEF ChildReplies
  <2>2. Channels(host, proc, slotJob, reply)'
    BY <1>1, <2>1 DEF hostVars, IInv, Kept, Channels, Connected
  <2>3. OthersTyped'
    BY <2>1 DEF hostVars, IInv, OthersTyped
  <2> QED
    BY <1>1, <2>1, <2>2, <2>3, ChildKeeps DEF jobVars, hostVars
<1>3. CASE ChildDies(i)
  <2>1. proc' \in [Slots -> ProcStates] /\ \A k \in Slots : proc'[k] = "up" => proc[k] = "up"
    BY <1>1, <1>3 DEF ChildDies, ProcStates
  <2>2. Channels(host, proc, slotJob, reply)'
    BY <1>1, <1>3 DEF ChildDies, hostVars, IInv, Kept, Channels, Connected
  <2>3. OthersTyped'
    BY <1>3 DEF ChildDies, hostVars, IInv, OthersTyped
  <2> QED
    BY <1>1, <1>3, <2>1, <2>2, <2>3, ChildKeeps DEF ChildDies, jobVars, hostVars
<1>4. CASE Disconnect(i)
  <2>1. proc' \in [Slots -> ProcStates] /\ \A k \in Slots : proc'[k] = "up" => proc[k] = "up"
    BY <1>1, <1>4 DEF Disconnect, ProcStates
  <2>2. Channels(host, proc, slotJob, reply)'
    BY <1>1, <1>4 DEF Disconnect, hostVars, IInv, Kept, Channels, Connected
  <2>3. OthersTyped'
    BY <1>4 DEF Disconnect, hostVars, IInv, OthersTyped
  <2> QED
    BY <1>1, <1>4, <2>1, <2>2, <2>3, ChildKeeps DEF Disconnect, jobVars, hostVars
<1>5. CASE Complete(i)
  BY <1>5, CompleteKeeps
<1>6. CASE ChildClosed(i)
  BY <1>6, ChildClosedKeeps
<1> QED
  BY <1>2, <1>3, <1>4, <1>5, <1>6 DEF ChildNext

LEMMA InitHolds == Init => IInv
<1> SUFFICES ASSUME Init PROVE IInv
  OBVIOUS
<1>1. Types(status, attempts, delayed, proc, slotJob, reply)
  BY DEF Init, Types, JobStates, ProcStates
<1>2. Bounded(status)
  <2>1. ActiveIn(status) = {}
    BY DEF Init, ActiveIn, Active
  <2> QED
    BY <2>1, FS_EmptySet, BoundsAssumption DEF Bounded
<1>3. Tries(status, attempts) /\ Rows(status)
  BY BoundsAssumption DEF Init, Tries, Rows
<1>4. /\ Channels(host, proc, slotJob, reply)
      /\ Places(status, proc, slotJob) /\ Attached(status, host, slotJob)
  BY DEF Init, Channels, Places, Attached
<1>5. OthersTyped
  <2>1. bootFailed \in BOOLEAN /\ idleExits = 0 /\ host = "down" /\ budget = Rate
    BY DEF Init
  <2> QED
    BY <2>1, BoundsAssumption DEF Init, OthersTyped, HostStates
<1> QED
  BY <1>1, <1>2, <1>3, <1>4, <1>5 DEF IInv, Kept

LEMMA StepsKeep == IInv /\ [Next]_vars => IInv' /\ Lives
<1> SUFFICES ASSUME IInv, [Next]_vars PROVE IInv' /\ Lives
  OBVIOUS
<1>1. CASE HostNext
  BY <1>1, HostKeeps
<1>2. CASE ClientNext
  BY <1>2, ClientsKeep
<1>3. ASSUME NEW i \in Slots, ChildNext(i) PROVE IInv' /\ Lives
  BY <1>3, ChildrenKeep
<1>4. ASSUME NEW j \in JobIds, Elapse(j) PROVE IInv' /\ Lives
  <2>1. /\ UNCHANGED <<status, attempts, hostVars, slotVars, budget, submits, faults>>
        /\ delayed' \subseteq delayed
    BY <1>4 DEF Elapse
  <2>2. Channels(host, proc, slotJob, reply)' /\ OthersTyped'
    BY <2>1 DEF hostVars, slotVars, IInv, Kept, Channels, Connected, OthersTyped
  <2>3. proc' \in [Slots -> ProcStates] /\ reply' \in [Slots -> Outcomes \cup {NoJob}]
    BY <2>1 DEF slotVars, IInv, Kept, Types
  <2> QED
    BY <2>1, <2>2, <2>3, ChildKeeps DEF hostVars, slotVars
<1>5. CASE Minute
  <2>1. OthersTyped'
    BY <1>5, BoundsAssumption DEF Minute, hostVars, IInv, OthersTyped
  <2>2. UNCHANGED <<jobVars, slotVars>> /\ host' = host
    BY <1>5 DEF Minute, hostVars
  <2> QED
    BY <2>1, <2>2, AsideKeeps
<1>6. CASE Timer
  BY <1>6, TimerKeeps
<1>7. CASE UNCHANGED vars
  <2>1. OthersTyped'
    BY <1>7 DEF vars, hostVars, IInv, OthersTyped
  <2>2. UNCHANGED <<jobVars, slotVars>> /\ host' = host
    BY <1>7 DEF vars, hostVars
  <2> QED
    BY <2>1, <2>2, AsideKeeps
<1> QED
  BY <1>1, <1>2, <1>3, <1>4, <1>5, <1>6, <1>7 DEF Next

LEMMA IInvHolds == Spec => []IInv
BY InitHolds, StepsKeep, PTL DEF Spec

----------------------------------------------------------------------------
(* Theorems *)

\* The rows, the slots and the counters keep their types: no handler that races
\* another leaves a job in a slot that is none or spends a budget it has not got.
THEOREM TypeCorrect == Spec => []TypeOK
<1>1. IInv => TypeOK
  BY DEF IInv, Kept, Types, OthersTyped, TypeOK
<1> QED
  BY <1>1, IInvHolds, PTL

\* While a host runs, every running job has one worker slot: replies, exits,
\* cancellations, retries and restarts neither lose it nor run it twice.
THEOREM RunningJobsAttached == Spec => []RunningAttached
<1>1. IInv => RunningAttached
  BY NoJobAssumption DEF IInv, Kept, Places, Attached, RunningAttached
<1> QED
  BY <1>1, IInvHolds, PTL

\* A child that lives works on a running job: cancellation kills the child of
\* the job it ends, and no slot keeps a job that ended elsewhere.
THEOREM LiveChildrenWanted == Spec => []LiveWorkIsWanted
<1>1. IInv => LiveWorkIsWanted
  BY DEF IInv, Kept, Places, LiveWorkIsWanted
<1> QED
  BY <1>1, IInvHolds, PTL

\* A queued job has an attempt left, whatever ended those before: a reply, an
\* exit or the end of the host.
THEOREM QueuedJobsCanRun == Spec => []QueuedHasAttempt
<1>1. IInv => QueuedHasAttempt
  BY DEF IInv, Kept, Tries, QueuedHasAttempt
<1> QED
  BY <1>1, IInvHolds, PTL

\* Submissions that overlap and retries keep to maxQueuedJobs active jobs.
THEOREM CapacityKept == Spec => []ActiveBounded
<1>1. IInv => ActiveBounded
  BY DEF IInv, Kept, Bounded, ActiveIn, ActiveBounded, JobsIn
<1> QED
  BY <1>1, IInvHolds, PTL

\* The host with its children, channels and faults implements what clients see of
\* their jobs.
THEOREM LifecycleImplemented == Spec => ImplementsLifecycle
<1>1. Init => Lifecycle!Init
  BY DEF Init, Lifecycle!Init
<1>2. IInv /\ [Next]_vars => [Lifecycle!Next]_(Lifecycle!vars)
  <2> SUFFICES ASSUME IInv, [Next]_vars PROVE Lifecycle!Next
    OBVIOUS
  <2>1. IInv' /\ Lives
    BY StepsKeep
  <2>2. status' \in [JobIds -> Lifecycle!States]
    BY <2>1 DEF IInv, Kept, Types, JobStates, Active, Terminal, Lifecycle!States
  <2>3. attempts' \in [JobIds -> 0 .. MaxAttempts]
    BY <2>1, BoundsAssumption DEF IInv, Kept, Types, Tries
  <2> QED
    BY <2>1, <2>2, <2>3 DEF Lives, Lifecycle!Next
<1> QED
  BY <1>1, <1>2, IInvHolds, PTL DEF Spec, ImplementsLifecycle, Lifecycle!Spec
=============================================================================
