---------------------- MODULE VectorPublication_proofs ----------------------
(***************************************************************************)
(* The history of vector publications, for any calls, requests and drift:  *)
(* what a transaction leaves behind can be traced whatever was prepared    *)
(* before its turn, nothing published is lost or changed.                  *)
(***************************************************************************)
EXTENDS VectorPublication, TLAPS, SequenceTheorems

----------------------------------------------------------------------------
(* Databases *)

\* A database whose pointers, events and publications tell one history.
Sound(d) ==
  /\ \A s \in Spaces : Traced(d, s) /\ Homely(d, s)
  /\ \A p \in Pubs : Exists(d, p) => Activated(d, p)

\* d2 is d1 with more history.
Extends(d1, d2) ==
  /\ \A p \in Pubs : Exists(d1, p) => d2.pubs[p] = d1.pubs[p]
  /\ \A s \in Spaces : \/ d2.log[s] = d1.log[s]
                       \/ \E e \in Entries : d2.log[s] = Append(d1.log[s], e)

LEMMA EmptySound == EmptyDatabase \in Databases /\ Sound(EmptyDatabase)
BY DEF EmptyDatabase, Databases, Sound, Traced, Homely, Exists, NoPublication, NoPointer

\* What is in a database where it is not empty.
LEMMA Inside ==
  ASSUME NEW d \in Databases
  PROVE  /\ \A p \in Pubs : Exists(d, p) => d.pubs[p] \in Publications
         /\ \A s \in Spaces : /\ d.log[s] \in Seq(Entries)
                              /\ d.pointer[s] \in Pointers \cup {NoPointer}
                              /\ d.pointer[s].revision \in Nat
                              /\ d.pointer[s].pub \in Pubs \cup {Nil}
BY DEF Databases, Exists, Pointers, NoPointer

\* Inserting a publication that does not exist changes no history.
LEMMA InsertKeeps ==
  ASSUME NEW d \in Databases, Sound(d), NEW r \in Shapes, ~Exists(d, r.pub)
  PROVE  /\ Insert(d, r) \in Databases
         /\ Exists(Insert(d, r), r.pub)
         /\ \A p \in Pubs : Exists(d, p) => Insert(d, r).pubs[p] = d.pubs[p] /\ Exists(Insert(d, r), p)
         /\ \A s \in Spaces : Traced(Insert(d, r), s) /\ Homely(Insert(d, r), s)
         /\ \A p \in Pubs \ {r.pub} : Exists(Insert(d, r), p) => Activated(Insert(d, r), p)
<1> DEFINE new == [space |-> r.space, version |-> r.version, content |-> r.content,
                   evidence |-> r.evidence, predecessor |-> d.pointer[r.space].pub]
           i == Insert(d, r)
<1>1. new \in Publications
  BY Inside DEF Shapes, Publications
<1>2. new # NoPublication
  BY <1>1, NilAssumption DEF Publications, NoPublication
<1>3. i.pubs = [d.pubs EXCEPT ![r.pub] = new] /\ i.pointer = d.pointer /\ i.log = d.log
  BY DEF Insert
<1>4. i \in Databases
  BY <1>1, <1>3 DEF Insert, Databases, Shapes
<1>5. r.pub \in Pubs /\ i.pubs[r.pub] = new
  BY <1>3 DEF Shapes, Databases
<1>6. \A p \in Pubs \ {r.pub} : i.pubs[p] = d.pubs[p]
  BY <1>3 DEF Databases
<1>7. Exists(i, r.pub)
  BY <1>2, <1>5 DEF Exists
<1>8. \A p \in Pubs : Exists(d, p) => i.pubs[p] = d.pubs[p] /\ Exists(i, p)
  BY <1>6 DEF Exists
<1>9. \A s \in Spaces : Homely(i, s)
  <2> SUFFICES ASSUME NEW s \in Spaces, NEW k \in 1 .. Len(d.log[s])
               PROVE  Exists(i, d.log[s][k].to) /\ i.pubs[d.log[s][k].to].space = s
    BY <1>3 DEF Homely
  <2>1. d.log[s][k] \in Entries
    BY Inside
  <2>2. Exists(d, d.log[s][k].to) /\ d.pubs[d.log[s][k].to].space = s
    BY DEF Sound, Homely
  <2> QED BY <2>1, <2>2, <1>8 DEF Entries
<1>10. \A s \in Spaces : Traced(i, s)
  <2> SUFFICES ASSUME NEW s \in Spaces PROVE Traced(i, s)
    OBVIOUS
  <2>1. Traced(d, s)
    BY DEF Sound
  <2>2. d.log[s] # <<>> => d.pointer[s].pub \in Pubs
    <3> SUFFICES ASSUME d.log[s] # <<>> PROVE d.pointer[s].pub \in Pubs
      OBVIOUS
    <3>1. d.log[s] \in Seq(Entries)
      BY Inside
    <3>2. d.log[s][Len(d.log[s])] \in Entries
      BY <3>1
    <3> QED BY <2>1, <3>2 DEF Traced, Entries
  <2> QED BY <2>1, <2>2, <1>3, <1>8 DEF Traced
<1>11. \A p \in Pubs \ {r.pub} : Exists(i, p) => Activated(i, p)
  <2> SUFFICES ASSUME NEW p \in Pubs \ {r.pub}, Exists(i, p) PROVE Activated(i, p)
    OBVIOUS
  <2>1. i.pubs[p] = d.pubs[p] /\ i.log = d.log
    BY <1>3, <1>6
  <2>2. Exists(d, p) /\ Activated(d, p)
    BY <2>1 DEF Sound, Exists
  <2> QED BY <2>1, <2>2 DEF Activated
<1> QED BY <1>4, <1>7, <1>8, <1>9, <1>10, <1>11

\* Moving the pointer of a space to one of its publications, with the event that
\* records it.
LEMMA ActivateTraces ==
  ASSUME NEW d \in Databases, NEW r \in Shapes, NEW p \in Pubs,
         \A s \in Spaces : Traced(d, s) /\ Homely(d, s),
         Exists(d, p), d.pubs[p].space = r.space
  PROVE  LET a == Activate(d, r, p, d.pubs[p].version)
             e == [id |-> r.event, from |-> d.pointer[r.space].pub, to |-> p]
         IN /\ a \in Databases
            /\ a.pubs = d.pubs
            /\ e \in Entries
            /\ a.log = [d.log EXCEPT ![r.space] = Append(d.log[r.space], e)]
            /\ \A s \in Spaces : Traced(a, s) /\ Homely(a, s)
<1> DEFINE v == d.pubs[p].version
           a == Activate(d, r, p, v)
           e == [id |-> r.event, from |-> d.pointer[r.space].pub, to |-> p]
           old == d.log[r.space]
           n == Len(old)
<1>1. r.space \in Spaces /\ r.event \in Events
  BY DEF Shapes
<1>2. d.pubs[p] \in Publications /\ v \in Versions
  BY Inside DEF Publications
<1>3. old \in Seq(Entries) /\ n \in Nat
  BY <1>1, Inside
<1>4. e \in Entries
  BY <1>1, Inside DEF Entries
<1>5. Append(old, e) \in Seq(Entries) /\ Len(Append(old, e)) = n + 1 /\ Append(old, e) # <<>>
  BY <1>3, <1>4, AppendProperties
<1>6. /\ \A k \in 1 .. n : Append(old, e)[k] = old[k]
      /\ Append(old, e)[n + 1] = e
  BY <1>3, <1>4, AppendProperties
<1> DEFINE ptr == [pub |-> p, version |-> v, revision |-> d.pointer[r.space].revision + 1]
<1>7. /\ a.pubs = d.pubs
      /\ a.log = [d.log EXCEPT ![r.space] = Append(old, e)]
      /\ a.pointer = [d.pointer EXCEPT ![r.space] = ptr]
  BY DEF Activate
<1>8. ptr \in Pointers
  BY <1>1, <1>2, Inside DEF Pointers
<1>9. a \in Databases
  BY <1>1, <1>5, <1>8 DEF Activate, Databases
<1>10. /\ \A s \in Spaces \ {r.space} : a.log[s] = d.log[s] /\ a.pointer[s] = d.pointer[s]
       /\ a.log[r.space] = Append(old, e)
       /\ a.pointer[r.space] = ptr
  BY <1>1, <1>7 DEF Databases
<1>p. /\ ptr.pub = p /\ ptr.version = v /\ ptr.revision = d.pointer[r.space].revision + 1
      /\ e.from = d.pointer[r.space].pub /\ e.to = p
      /\ v = d.pubs[p].version
      /\ old = d.log[r.space] /\ n = Len(old)
  OBVIOUS
<1> HIDE DEF a, e, v, old, n, ptr
<1>11. \A s \in Spaces : Homely(a, s)
  <2> SUFFICES ASSUME NEW s \in Spaces, NEW k \in 1 .. Len(a.log[s])
               PROVE  Exists(a, a.log[s][k].to) /\ a.pubs[a.log[s][k].to].space = s
    BY DEF Homely
  <2>1. CASE s # r.space
    BY <2>1, <1>7, <1>10 DEF Homely, Exists
  <2>2. CASE s = r.space /\ k = n + 1
    <3>1. a.log[s][k].to = p
      BY <2>2, <1>6, <1>10, <1>p
    <3> QED BY <2>2, <3>1, <1>7 DEF Exists
  <2>3. CASE s = r.space /\ k # n + 1
    <3>1. k \in 1 .. n
      BY <2>3, <1>5, <1>3, <1>10, <1>p
    <3>2. Homely(d, r.space)
      BY <1>1
    <3>3. a.log[s][k] = d.log[r.space][k]
      BY <2>3, <3>1, <1>6, <1>10, <1>p
    <3>4. k \in 1 .. Len(d.log[r.space])
      BY <3>1, <1>p
    <3>5. Exists(d, d.log[r.space][k].to) /\ d.pubs[d.log[r.space][k].to].space = r.space
      BY <3>2, <3>4 DEF Homely
    <3> QED BY <2>3, <3>3, <3>5, <1>7 DEF Exists
  <2> QED BY <2>1, <2>2, <2>3
<1>12. \A s \in Spaces \ {r.space} : Traced(a, s)
  BY <1>7, <1>10 DEF Traced, Exists
<1>13. Traced(a, r.space)
  <2>1. Traced(d, r.space)
    BY <1>1
  <2>2. \A k \in 1 .. n + 1 : Append(old, e)[k].from = From(Append(old, e), k)
    <3> SUFFICES ASSUME NEW k \in 1 .. n + 1
                 PROVE  Append(old, e)[k].from = From(Append(old, e), k)
      OBVIOUS
    <3>1. CASE k # n + 1
      <4>1. k \in 1 .. n /\ (k # 1 => k - 1 \in 1 .. n)
        BY <3>1, <1>3
      <4>2. old[k].from = From(old, k)
        BY <4>1, <2>1, <1>p DEF Traced
      <4> QED BY <4>1, <4>2, <1>6 DEF From
    <3>2. CASE k = n + 1 /\ n = 0
      <4>1. old = <<>>
        BY <3>2, <1>3, <1>p, EmptySeq
      <4>2. e.from = Nil
        BY <4>1, <2>1, <1>p DEF Traced, NoPointer
      <4> QED BY <3>2, <4>2, <1>6 DEF From
    <3>3. CASE k = n + 1 /\ n # 0
      <4>1. old # <<>> /\ n \in 1 .. n /\ k - 1 = n /\ k # 1
        BY <3>3, <1>3, <1>p
      <4>2. d.pointer[r.space].pub = old[n].to
        BY <4>1, <2>1, <1>p DEF Traced
      <4> QED BY <3>3, <4>1, <4>2, <1>6, <1>p DEF From
    <3> QED BY <3>1, <3>2, <3>3
  <2>3. ptr.revision = n + 1
    BY <2>1, <1>p DEF Traced
  <2>4. Exists(a, p)
    BY <1>7 DEF Exists
  <2>5. a.log[r.space] # <<>> /\ Len(a.log[r.space]) = n + 1 /\ a.log[r.space][n + 1].to = p
    BY <1>5, <1>6, <1>10, <1>p
  <2>6. a.pointer[r.space] = ptr /\ a.log[r.space] = Append(old, e) /\ a.pubs = d.pubs
    BY <1>7, <1>10
  <2> QED BY <2>2, <2>3, <2>4, <2>5, <2>6, <1>p DEF Traced
<1> QED BY <1>4, <1>7, <1>9, <1>11, <1>12, <1>13 DEF a, e, v, old, n

\* What a publish has promised once it returns.
Delivered(d, r) ==
  /\ Exists(d, r.pub)
  /\ \A field \in {"space", "version", "content"} : d.pubs[r.pub][field] = r[field]

\* What a callback leaves in the copies of a sound database, whether it throws or not.
Outcome(d, ran) == ran.db \in Databases /\ Sound(ran.db) /\ Extends(d, ran.db) /\ ran.threw \in BOOLEAN

LEMMA PublishedOutcome ==
  ASSUME NEW d \in Databases, Sound(d), NEW r \in Shapes
  PROVE  /\ Outcome(d, Published(d, r))
         /\ ~Published(d, r).threw => Delivered(Published(d, r).db, r)
<1>1. CASE Exists(d, r.pub)
  <2>1. Published(d, r) = [db |-> d, threw |-> ~SameVerified(d.pubs[r.pub], r)]
    BY <1>1 DEF Published
  <2>2. SameVerified(d.pubs[r.pub], r) => Delivered(d, r)
    BY <1>1 DEF SameVerified, Delivered
  <2>3. Published(d, r).db = d /\ Published(d, r).threw \in BOOLEAN
    BY <2>1 DEF SameVerified
  <2>4. Published(d, r).threw = ~SameVerified(d.pubs[r.pub], r)
    BY <2>1
  <2>5. Extends(d, d)
    BY DEF Extends
  <2> QED BY <2>2, <2>3, <2>4, <2>5 DEF Outcome
<1>2. CASE ~Exists(d, r.pub)
  <2> DEFINE i == Insert(d, r)
             p == r.pub
             a == Activate(i, r, p, i.pubs[p].version)
             e == [id |-> r.event, from |-> i.pointer[r.space].pub, to |-> p]
  <2>1. p \in Pubs /\ r.space \in Spaces
    BY DEF Shapes
  <2>2. /\ i \in Databases
        /\ Exists(i, p)
        /\ \A q \in Pubs : Exists(d, q) => i.pubs[q] = d.pubs[q] /\ Exists(i, q)
        /\ \A s \in Spaces : Traced(i, s) /\ Homely(i, s)
        /\ \A q \in Pubs \ {p} : Exists(i, q) => Activated(i, q)
    BY <1>2, InsertKeeps
  <2>3. /\ i.pubs[p] = [space |-> r.space, version |-> r.version, content |-> r.content,
                        evidence |-> r.evidence, predecessor |-> d.pointer[r.space].pub]
        /\ i.pointer = d.pointer
        /\ i.log = d.log
    BY <2>1 DEF Insert, Databases
  <2>4. i.pubs[p].space = r.space /\ i.pubs[p].version = r.version /\ i.pubs[p].content = r.content
        /\ i.pubs[p].predecessor = i.pointer[r.space].pub
    BY <2>3
  <2>5. /\ a \in Databases
        /\ a.pubs = i.pubs
        /\ e \in Entries
        /\ a.log = [i.log EXCEPT ![r.space] = Append(i.log[r.space], e)]
        /\ \A s \in Spaces : Traced(a, s) /\ Homely(a, s)
    BY <2>1, <2>2, <2>4, ActivateTraces
  <2>6. e.to = p /\ e.from = i.pubs[p].predecessor
    BY <2>4
  <2>7. Published(d, r).db = a /\ Published(d, r).threw \in BOOLEAN
    BY <1>2, <2>4 DEF Published, Used
  <2> HIDE DEF i, p, a, e
  <2>8. i.log[r.space] \in Seq(Entries)
    BY <2>1, <2>2, Inside
  <2>9. \A q \in Pubs : Exists(a, q) => Activated(a, q)
    <3> SUFFICES ASSUME NEW q \in Pubs, Exists(a, q) PROVE Activated(a, q)
      OBVIOUS
    <3>1. CASE q = p
      <4>1. Len(a.log[r.space]) = Len(i.log[r.space]) + 1 /\ a.log[r.space][Len(i.log[r.space]) + 1] = e
        BY <2>1, <2>2, <2>5, <2>8, AppendProperties DEF Databases
      <4>2. Len(i.log[r.space]) + 1 \in 1 .. Len(a.log[r.space])
        BY <4>1, <2>8
      <4> QED BY <3>1, <4>1, <4>2, <2>4, <2>5, <2>6 DEF Activated
    <3>2. CASE q # p
      <4>1. Exists(i, q) /\ Activated(i, q)
        BY <3>2, <2>2, <2>5 DEF Exists
      <4>2. i.pubs[q].space \in Spaces
        BY <4>1, <2>2, Inside DEF Publications
      <4>3. PICK k \in 1 .. Len(i.log[i.pubs[q].space]) :
              i.log[i.pubs[q].space][k].to = q /\ i.log[i.pubs[q].space][k].from = i.pubs[q].predecessor
        BY <4>1 DEF Activated
      <4>4. k \in 1 .. Len(a.log[i.pubs[q].space]) /\ a.log[i.pubs[q].space][k] = i.log[i.pubs[q].space][k]
        <5>1. CASE i.pubs[q].space = r.space
          <6>1. a.log[r.space] = Append(i.log[r.space], e)
            BY <2>1, <2>2, <2>5 DEF Databases
          <6>2. Len(a.log[r.space]) = Len(i.log[r.space]) + 1
            BY <6>1, <2>5, <2>8, AppendProperties
          <6>3. a.log[r.space][k] = i.log[r.space][k]
            BY <5>1, <6>1, <4>3, <2>5, <2>8, AppendProperties
          <6> QED BY <5>1, <6>2, <6>3, <4>3, <2>8
        <5>2. CASE i.pubs[q].space # r.space
          BY <5>2, <4>2, <4>3, <2>2, <2>5 DEF Databases
        <5> QED BY <5>1, <5>2
      <4> QED BY <4>3, <4>4, <2>5 DEF Activated
    <3> QED BY <3>1, <3>2
  <2>10. Extends(d, a)
    <3>1. \A s \in Spaces : a.log[s] = d.log[s] \/ \E f \in Entries : a.log[s] = Append(d.log[s], f)
      BY <2>3, <2>5 DEF Databases
    <3> QED BY <3>1, <2>2, <2>5 DEF Extends
  <2>11. Delivered(a, r)
    BY <2>2, <2>4, <2>5 DEF Delivered, Exists, p
  <2> QED BY <2>5, <2>7, <2>9, <2>10, <2>11 DEF Outcome, Sound
<1> QED BY <1>1, <1>2

LEMMA RolledBackOutcome ==
  ASSUME NEW d \in Databases, Sound(d), NEW r \in Shapes, Exists(d, r.pub), d.pubs[r.pub].space = r.space
  PROVE  Outcome(d, RolledBack(d, r, d.pubs[r.pub].version))
<1> DEFINE v == d.pubs[r.pub].version
<1>1. CASE d.pointer[r.space] = NoPointer \/ d.pointer[r.space].pub = r.pub
  <2>1. RolledBack(d, r, v) = [db |-> d, threw |-> d.pointer[r.space] = NoPointer]
    BY <1>1 DEF RolledBack
  <2> QED BY <2>1 DEF Outcome, Extends
<1>2. CASE ~(d.pointer[r.space] = NoPointer \/ d.pointer[r.space].pub = r.pub)
  <2> DEFINE a == Activate(d, r, r.pub, v)
             e == [id |-> r.event, from |-> d.pointer[r.space].pub, to |-> r.pub]
  <2>1. r.pub \in Pubs /\ r.space \in Spaces
    BY DEF Shapes
  <2>2. /\ a \in Databases
        /\ a.pubs = d.pubs
        /\ e \in Entries
        /\ a.log = [d.log EXCEPT ![r.space] = Append(d.log[r.space], e)]
        /\ \A s \in Spaces : Traced(a, s) /\ Homely(a, s)
    BY <2>1, ActivateTraces DEF Sound
  <2>3. RolledBack(d, r, v).db = a /\ RolledBack(d, r, v).threw \in BOOLEAN
    BY <1>2 DEF RolledBack, Used
  <2> HIDE DEF a, e
  <2>4. \A s \in Spaces : a.log[s] = d.log[s] \/ a.log[s] = Append(d.log[s], e)
    BY <2>2 DEF Databases
  <2>5. \A p \in Pubs : Exists(a, p) => Activated(a, p)
    <3> SUFFICES ASSUME NEW p \in Pubs, Exists(a, p) PROVE Activated(a, p)
      OBVIOUS
    <3>1. Exists(d, p) /\ Activated(d, p)
      BY <2>2 DEF Exists, Sound
    <3>2. d.pubs[p].space \in Spaces
      BY <3>1, Inside DEF Publications
    <3>3. d.log[d.pubs[p].space] \in Seq(Entries)
      BY <3>2, Inside
    <3>4. PICK k \in 1 .. Len(d.log[d.pubs[p].space]) :
            d.log[d.pubs[p].space][k].to = p /\ d.log[d.pubs[p].space][k].from = d.pubs[p].predecessor
      BY <3>1 DEF Activated
    <3>5. CASE a.log[d.pubs[p].space] = d.log[d.pubs[p].space]
      BY <3>4, <3>5, <2>2 DEF Activated
    <3>6. CASE a.log[d.pubs[p].space] = Append(d.log[d.pubs[p].space], e)
      <4> DEFINE was == d.log[d.pubs[p].space]
                 is == a.log[d.pubs[p].space]
      <4>0. e \in Entries /\ was \in Seq(Entries) /\ is = Append(was, e)
        BY <2>2, <3>3, <3>6
      <4>1. Len(is) = Len(was) + 1 /\ \A j \in 1 .. Len(was) : is[j] = was[j]
        <5> HIDE DEF was, is
        <5> QED BY ONLY <4>0, AppendProperties
      <4>2. is[k].to = p /\ is[k].from = d.pubs[p].predecessor
        BY <3>4, <4>1
      <4>3. k \in 1 .. Len(is)
        <5>1. k \in 1 .. Len(was)
          BY <3>4
        <5> HIDE DEF was, is
        <5> QED BY <4>0, <4>1, <5>1
      <4> QED BY <4>2, <4>3, <2>2 DEF Activated
    <3> QED BY <3>2, <3>5, <3>6, <2>4
  <2>6. Extends(d, a)
    BY <2>2, <2>4 DEF Extends
  <2>7. a \in Databases /\ Sound(a)
    BY <2>2, <2>5 DEF Sound
  <2> QED BY <2>3, <2>6, <2>7 DEF Outcome
<1> QED BY <1>1, <1>2

----------------------------------------------------------------------------
(* The induction *)

\* A call between its inspection and its return stands in the queue, and the
\* one whose callback has run at its head.
Turns ==
  /\ \A c \in Calls : pc[c] \in {"wait", "commit"} => \E i \in 1 .. Len(queue) : queue[i] = c
  /\ \A c \in Calls : pc[c] = "commit" => Head(queue) = c

\* What a call has read outside a transaction still holds.
Reads ==
  /\ \A c \in Calls : pc[c] = "look" =>
       /\ request[c].kind = "reconcile"
       /\ seen[c] \in Pointers
       /\ Exists(db, seen[c].pub)
       /\ db.pubs[seen[c].pub].version = seen[c].version
  /\ \A c \in Calls : pc[c] \in {"inspect", "wait"} /\ request[c].kind = "rollback" =>
       /\ Exists(db, request[c].pub)
       /\ db.pubs[request[c].pub].space = request[c].space
       /\ target[c] = db.pubs[request[c].pub]
  /\ \A c \in Calls : pc[c] = "wait" => request[c].kind \in {"publish", "rollback"}

\* The copies of the transaction under way continue the committed database.
Copies ==
  \A c \in Calls : pc[c] = "commit" =>
    /\ Sound(work[c])
    /\ Extends(db, work[c])
    /\ request[c].kind = "publish" /\ ~threw[c] => Delivered(work[c], request[c])

Returned == \A c \in Calls : pc[c] = "ok" /\ request[c].kind = "publish" => Delivered(db, request[c])

IInv == TypeOK /\ Turns /\ Reads /\ Copies /\ Sound(db) /\ Returned /\ NeverCorrupt

LEMMA InitInvariant == Init => IInv
<1> SUFFICES ASSUME Init PROVE IInv
  OBVIOUS
<1>1. TypeOK
  BY EmptySound DEF Init, TypeOK, Places, Ended
<1>2. Turns /\ Reads /\ Copies /\ Returned /\ NeverCorrupt
  BY DEF Init, Turns, Reads, Copies, Returned, NeverCorrupt
<1> QED BY <1>1, <1>2, EmptySound DEF Init, IInv

\* A new request.
LEMMA CallInvariant ==
  ASSUME IInv, NEW c \in Calls, Call(c)
  PROVE  IInv' /\ db' = db
<1>1. PICK r \in Requests : CallPublish(c, r) \/ CallRollback(c, r) \/ CallReconcile(c, r)
  BY DEF Call
<1>2. r \in Shapes /\ r.space \in Spaces /\ r.pub \in Pubs
  BY RequestsAssumption DEF Shapes
<1>3. /\ pc[c] \in Ended /\ request' = [request EXCEPT ![c] = r]
      /\ UNCHANGED <<db, store, work, threw, queue>>
  BY <1>1 DEF CallPublish, CallRollback, CallReconcile, Start
<1>4. /\ pc' = [pc EXCEPT ![c] = pc'[c]]
      /\ target' = [target EXCEPT ![c] = target'[c]]
      /\ seen' = [seen EXCEPT ![c] = seen'[c]]
  BY <1>1 DEF CallPublish, CallRollback, CallReconcile, Start, Goto, Return, read, IInv, TypeOK
<1>5. \/ pc'[c] = "inspect" /\ target'[c] = target[c] /\ seen'[c] = seen[c] /\ r.kind = "publish"
      \/ /\ pc'[c] = "inspect" /\ seen'[c] = seen[c] /\ r.kind = "rollback"
         /\ Exists(db, r.pub) /\ db.pubs[r.pub].space = r.space /\ target'[c] = db.pubs[r.pub]
      \/ pc'[c] \in {"refused", "missing"} /\ target'[c] = NoPublication /\ seen'[c] = NoPointer
      \/ /\ pc'[c] = "look" /\ target'[c] = target[c] /\ r.kind = "reconcile"
         /\ db.pointer[r.space] # NoPointer /\ seen'[c] = db.pointer[r.space]
  BY <1>1 DEF CallPublish, CallRollback, CallReconcile, Start, Goto, Return, read, IInv, TypeOK, Targetable
<1>6. db.pointer[r.space] # NoPointer =>
        /\ db.pointer[r.space] \in Pointers
        /\ Exists(db, db.pointer[r.space].pub)
        /\ db.pubs[db.pointer[r.space].pub].version = db.pointer[r.space].version
  BY <1>2, Inside DEF IInv, TypeOK, Sound, Traced
<1>7. Exists(db, r.pub) => db.pubs[r.pub] \in Publications
  BY <1>2, Inside DEF IInv, TypeOK
<1>8. TypeOK'
  BY <1>3, <1>4, <1>5, <1>6, <1>7 DEF IInv, TypeOK, Places, Ended
<1>9. Turns'
  BY <1>3, <1>4, <1>5 DEF IInv, TypeOK, Turns
<1>10. Reads'
  BY <1>3, <1>4, <1>5, <1>6 DEF IInv, TypeOK, Reads, Exists
<1>11. Copies'
  BY <1>3, <1>4, <1>5 DEF IInv, TypeOK, Copies
<1>12. Returned' /\ NeverCorrupt'
  BY <1>3, <1>4, <1>5 DEF IInv, TypeOK, Returned, NeverCorrupt, Delivered, Exists
<1> QED BY <1>3, <1>8, <1>9, <1>10, <1>11, <1>12 DEF IInv

\* Reads, inspections and reports.
LEMMA LookInvariant ==
  ASSUME IInv, NEW c \in Calls, Look(c) \/ Report(c) \/ Inspect(c)
  PROVE  IInv' /\ db' = db
<1>1. /\ UNCHANGED <<db, store, request, work, threw>>
      /\ pc[c] \in {"look", "inspect"}
      /\ pc' = [pc EXCEPT ![c] = pc'[c]]
      /\ target' = [target EXCEPT ![c] = target'[c]]
      /\ seen' = [seen EXCEPT ![c] = seen'[c]]
  BY DEF Look, Report, Inspect, Goto, Return, read, IInv, TypeOK
<1>2. \/ /\ pc'[c] = "inspect" /\ request[c].kind = "reconcile" /\ queue' = queue
         /\ target'[c] \in Publications /\ seen'[c] = seen[c]
      \/ /\ pc'[c] \in {"ok", "drift", "refused"} /\ target'[c] = NoPublication /\ seen'[c] = NoPointer
         /\ queue' = queue /\ (pc'[c] = "ok" => request[c].kind = "reconcile")
      \/ /\ pc'[c] = "wait" /\ queue' = Append(queue, c) /\ request[c].kind # "reconcile"
         /\ pc[c] = "inspect" /\ target'[c] = target[c] /\ seen'[c] = seen[c]
  <2>1. CASE Look(c)
    <3>1. Exists(db, seen[c].pub) /\ db.pubs[seen[c].pub].version = seen[c].version /\ seen[c].pub \in Pubs
          /\ request[c].kind = "reconcile"
      <4>1. pc[c] = "look"
        BY <2>1 DEF Look
      <4>2. request[c].kind = "reconcile" /\ seen[c] \in Pointers
        BY <4>1 DEF IInv, Reads
      <4>3. Exists(db, seen[c].pub) /\ db.pubs[seen[c].pub].version = seen[c].version
        BY <2>1, <4>1 DEF Look, IInv, Reads
      <4> QED BY <4>2, <4>3 DEF Pointers
    <3>2. db.pubs[seen[c].pub] \in Publications
      BY <3>1, Inside DEF IInv, TypeOK
    <3> QED BY <2>1, <3>1, <3>2 DEF Look, Goto, IInv, TypeOK
  <2>2. CASE Report(c)
    BY <2>2 DEF Report, Return, Goto, IInv, TypeOK
  <2>3. CASE Inspect(c)
    BY <2>3 DEF Inspect, Return, Goto, read, IInv, TypeOK
  <2> QED BY <2>1, <2>2, <2>3
<1>3. request[c] \in Shapes
  BY <1>1, RequestsAssumption DEF IInv, TypeOK
<1>4. TypeOK'
  <2>1. queue' \in Seq(Calls)
    <3>1. queue \in Seq(Calls)
      BY DEF IInv, TypeOK
    <3>2. Append(queue, c) \in Seq(Calls)
      BY <3>1, AppendProperties
    <3>3. queue' = queue \/ queue' = Append(queue, c)
      BY <1>2
    <3> QED BY <3>1, <3>2, <3>3
  <2>2. pc' \in [Calls -> Places] /\ target' \in [Calls -> Publications \cup {NoPublication}]
    BY <1>1, <1>2 DEF IInv, TypeOK, Places, Ended
  <2>3. seen' \in [Calls -> Pointers \cup {NoPointer}]
    BY <1>1, <1>2 DEF IInv, TypeOK
  <2>4. \A d \in Calls : pc'[d] # "idle" => request'[d] \in Requests
    BY <1>1 DEF IInv, TypeOK
  <2> QED BY <1>1, <2>1, <2>2, <2>3, <2>4 DEF IInv, TypeOK
<1>5. Turns'
  <2>1. CASE queue' = queue
    BY <2>1, <1>1, <1>2 DEF IInv, TypeOK, Turns
  <2>2. CASE queue' = Append(queue, c) /\ pc'[c] = "wait"
    <3>1. Len(queue') = Len(queue) + 1 /\ queue'[Len(queue) + 1] = c /\ Len(queue) \in Nat
          /\ \A i \in 1 .. Len(queue) : queue'[i] = queue[i]
      BY <2>2, AppendProperties, LenProperties DEF IInv, TypeOK
    <3>2. \A d \in Calls : pc'[d] \in {"wait", "commit"} => \E i \in 1 .. Len(queue') : queue'[i] = d
      <4> SUFFICES ASSUME NEW d \in Calls, pc'[d] \in {"wait", "commit"}
                   PROVE  \E i \in 1 .. Len(queue') : queue'[i] = d
        OBVIOUS
      <4>1. CASE d = c
        <5>1. Len(queue) + 1 \in 1 .. Len(queue')
          BY <3>1
        <5> QED BY <4>1, <5>1, <3>1
      <4>2. CASE d # c
        <5>1. PICK i \in 1 .. Len(queue) : queue[i] = d
          BY <4>2, <1>1 DEF IInv, TypeOK, Turns
        <5>2. i \in 1 .. Len(queue')
          BY <3>1
        <5> QED BY <5>1, <5>2, <3>1
      <4> QED BY <4>1, <4>2
    <3>3. \A d \in Calls : pc'[d] = "commit" => Head(queue') = d
      <4> SUFFICES ASSUME NEW d \in Calls, pc'[d] = "commit" PROVE Head(queue') = d
        OBVIOUS
      <4>1. pc[d] = "commit"
        BY <1>1, <2>2 DEF IInv, TypeOK
      <4>2. Len(queue) # 0 /\ Head(queue) = d
        BY <4>1, <3>1 DEF IInv, Turns
      <4>3. Head(queue') = queue'[1] /\ Head(queue) = queue[1]
        OBVIOUS
      <4> QED BY <4>2, <4>3, <3>1
    <3> QED BY <3>2, <3>3 DEF Turns
  <2> QED BY <2>1, <2>2, <1>2
<1>6. Reads'
  BY <1>1, <1>2, <1>3 DEF IInv, TypeOK, Reads, Exists, Shapes
<1>7. Copies'
  BY <1>1, <1>2 DEF IInv, TypeOK, Copies
<1>8. Returned' /\ NeverCorrupt'
  BY <1>1, <1>2, <1>3 DEF IInv, TypeOK, Returned, NeverCorrupt, Delivered, Exists
<1> QED BY <1>1, <1>4, <1>5, <1>6, <1>7, <1>8 DEF IInv

\* The callback of a transaction.
LEMMA BeginInvariant ==
  ASSUME IInv, NEW c \in Calls, Begin(c)
  PROVE  IInv' /\ db' = db
<1> DEFINE ran == IF request[c].kind = "publish" THEN Published(db, request[c])
                  ELSE RolledBack(db, request[c], target[c].version)
<1>1. /\ pc[c] = "wait" /\ Head(queue) = c
      /\ work' = [work EXCEPT ![c] = ran.db]
      /\ threw' = [threw EXCEPT ![c] = ran.threw]
      /\ pc' = [pc EXCEPT ![c] = "commit"]
      /\ UNCHANGED <<db, store, request, target, seen, queue>>
  BY DEF Begin, MayBegin, Goto, read
<1>2. request[c] \in Shapes
  BY <1>1, RequestsAssumption DEF IInv, TypeOK
<1>3. Outcome(db, ran) /\ (request[c].kind = "publish" /\ ~ran.threw => Delivered(ran.db, request[c]))
  <2>1. CASE request[c].kind = "publish"
    BY <2>1, <1>2, PublishedOutcome DEF IInv, TypeOK
  <2>2. CASE request[c].kind # "publish"
    <3>1. /\ Exists(db, request[c].pub)
          /\ db.pubs[request[c].pub].space = request[c].space
          /\ target[c] = db.pubs[request[c].pub]
      BY <2>2, <1>1 DEF IInv, Reads
    <3> QED BY <2>2, <3>1, <1>2, RolledBackOutcome DEF IInv, TypeOK
  <2> QED BY <2>1, <2>2
<1> HIDE DEF ran
<1>4. TypeOK'
  BY <1>1, <1>3 DEF IInv, TypeOK, Places, Outcome
<1>5. Turns'
  BY <1>1 DEF IInv, TypeOK, Turns
<1>6. Reads'
  BY <1>1 DEF IInv, TypeOK, Reads, Exists
<1>7. Copies'
  BY <1>1, <1>3 DEF IInv, TypeOK, Copies, Outcome
<1>8. Returned' /\ NeverCorrupt'
  BY <1>1 DEF IInv, TypeOK, Returned, NeverCorrupt, Delivered, Exists
<1> QED BY <1>1, <1>4, <1>5, <1>6, <1>7, <1>8 DEF IInv

\* A transaction commits or is abandoned.
LEMMA EndInvariant ==
  ASSUME IInv, NEW c \in Calls, End(c)
  PROVE  IInv' /\ (db' = db \/ Extends(db, db'))
<1>1. /\ pc[c] = "commit"
      /\ db' = IF threw[c] THEN db ELSE work[c]
      /\ queue' = Tail(queue)
      /\ work' = [work EXCEPT ![c] = EmptyDatabase]
      /\ threw' = [threw EXCEPT ![c] = FALSE]
      /\ pc' = [pc EXCEPT ![c] = IF threw[c] THEN "refused" ELSE "ok"]
      /\ target' = [target EXCEPT ![c] = NoPublication]
      /\ seen' = [seen EXCEPT ![c] = NoPointer]
      /\ UNCHANGED <<store, request>>
  BY DEF End, Committed, Released, Return, Goto
<1>2. db' \in Databases /\ Sound(db') /\ (db' = db \/ Extends(db, db'))
  BY <1>1 DEF IInv, TypeOK, Copies
<1>3. \A p \in Pubs : Exists(db, p) => Exists(db', p) /\ db'.pubs[p] = db.pubs[p]
  BY <1>2 DEF Extends, Exists
<1>4. \A d \in Calls \ {c} : pc[d] # "commit"
  BY <1>1 DEF IInv, Turns
<1>5. Len(queue) \in Nat \ {0} /\ Head(queue) = queue[1] /\ Head(queue) = c
  <2>1. PICK i \in 1 .. Len(queue) : queue[i] = c
    BY <1>1 DEF IInv, Turns
  <2> QED BY <2>1, <1>1, LenProperties DEF IInv, TypeOK, Turns
<1>6. queue # <<>>
  BY <1>5, EmptySeq DEF IInv, TypeOK
<1>7. queue' \in Seq(Calls) /\ Len(queue') = Len(queue) - 1 /\ \A i \in 1 .. Len(queue') : queue'[i] = queue[i + 1]
  BY <1>1, <1>6, HeadTailProperties DEF IInv, TypeOK
<1>8. TypeOK'
  BY <1>1, <1>2, <1>7, EmptySound DEF IInv, TypeOK, Places, Ended
<1>9. Turns'
  <2>1. ASSUME NEW d \in Calls, pc'[d] \in {"wait", "commit"}
        PROVE  \E i \in 1 .. Len(queue') : queue'[i] = d
    <3>1. d # c /\ pc[d] \in {"wait", "commit"}
      BY <2>1, <1>1 DEF IInv, TypeOK
    <3>2. PICK i \in 1 .. Len(queue) : queue[i] = d
      BY <3>1 DEF IInv, Turns
    <3>3. i # 1
      BY <3>1, <3>2, <1>5
    <3>4. i - 1 \in 1 .. Len(queue') /\ queue'[i - 1] = d
      BY <3>2, <3>3, <1>5, <1>7
    <3> QED BY <3>4
  <2>2. \A d \in Calls : pc'[d] # "commit"
    BY <1>1, <1>4 DEF IInv, TypeOK
  <2> QED BY <2>1, <2>2 DEF Turns
<1>10. Reads'
  <2>1. \A d \in Calls : pc[d] = "look" => seen[d].pub \in Pubs
    BY DEF IInv, Reads, Pointers
  <2>2. \A d \in Calls : pc[d] \in {"inspect", "wait"} => request[d].pub \in Pubs
    BY RequestsAssumption DEF IInv, TypeOK, Shapes
  <2> QED BY <2>1, <2>2, <1>1, <1>3 DEF IInv, TypeOK, Reads
<1>11. Copies'
  BY <1>1, <1>4 DEF IInv, TypeOK, Copies
<1>12. Returned'
  <2> SUFFICES ASSUME NEW d \in Calls, pc'[d] = "ok", request[d].kind = "publish"
               PROVE  Delivered(db', request[d])
    BY <1>1 DEF Returned
  <2>1. CASE d = c
    BY <2>1, <1>1 DEF IInv, TypeOK, Copies
  <2>2. CASE d # c
    <3>1. pc[d] = "ok" /\ Delivered(db, request[d])
      BY <2>2, <1>1 DEF IInv, TypeOK, Returned
    <3>2. request[d].pub \in Pubs
      BY <3>1, RequestsAssumption DEF IInv, TypeOK, Shapes
    <3> QED BY <3>1, <3>2, <1>3 DEF Delivered
  <2> QED BY <2>1, <2>2
<1>13. NeverCorrupt'
  BY <1>1 DEF IInv, TypeOK, NeverCorrupt
<1> QED BY <1>2, <1>8, <1>9, <1>10, <1>11, <1>12, <1>13 DEF IInv

LEMMA QuietInvariant ==
  ASSUME IInv, (\E v \in Versions : Drift(v)) \/ UNCHANGED vars
  PROVE  IInv' /\ db' = db
<1>1. UNCHANGED <<db, pc, request, target, seen, work, threw, queue>> /\ store' \in [Versions -> Reports]
  BY DEF Drift, read, vars, IInv, TypeOK
<1>2. TypeOK' /\ Turns' /\ NeverCorrupt'
  BY <1>1 DEF IInv, TypeOK, Turns, NeverCorrupt
<1>3. Reads' /\ Returned'
  BY <1>1 DEF IInv, Reads, Returned, Exists, Delivered
<1>4. Copies'
  BY <1>1 DEF IInv, Copies
<1> QED BY <1>1, <1>2, <1>3, <1>4 DEF IInv

LEMMA StepInvariant ==
  ASSUME IInv, [Next]_vars
  PROVE  IInv' /\ (db' = db \/ Extends(db, db'))
BY CallInvariant, LookInvariant, BeginInvariant, EndInvariant, QuietInvariant DEF Next, Step

THEOREM Invariant == Spec => []IInv
BY InitInvariant, StepInvariant, PTL DEF Spec

\* Every variable keeps its type, for any calls, requests and spaces.
THEOREM TypeCorrect == Spec => []TypeOK
BY Invariant, PTL DEF IInv

\* The pointer of every space is where its events lead, whatever calls prepared
\* before their turn.
THEOREM PointersTraced == Spec => []PointerTraced
<1>1. IInv => PointerTraced
  BY DEF IInv, Sound, PointerTraced
<1> QED BY <1>1, Invariant, PTL

\* Predecessors and events tell the same history.
THEOREM HistoryAgrees == Spec => []PredecessorsTraced
<1>1. IInv => PredecessorsTraced
  BY DEF IInv, Sound, PredecessorsTraced
<1> QED BY <1>1, Invariant, PTL

\* A publish that returned is not lost to a transaction beside it.
THEOREM PublishesStay == Spec => []PublishedStays
<1>1. IInv => PublishedStays
  BY DEF IInv, Returned, Delivered, PublishedStays
<1> QED BY <1>1, Invariant, PTL

\* A reconciliation never meets a pointer whose publication is missing.
THEOREM ReconcilesClean == Spec => []NeverCorrupt
BY Invariant, PTL DEF IInv

----------------------------------------------------------------------------
(* Every commit is one publication or one rollback *)

\* What the request of a call comes to on a database.
Ran(d, r) == IF r.kind = "publish" THEN Published(d, r) ELSE RolledBack(d, r, d.pubs[r.pub].version)

\* A rollback's target is a publication of its space.
Grounded(d, r) == r.kind # "publish" => Exists(d, r.pub) /\ d.pubs[r.pub].space = r.space

\* The copies at the head of the queue are what the request comes to on what is
\* committed when it ends, not only when it began.
Prepared ==
  \A c \in Calls : pc[c] = "commit" =>
    /\ Grounded(db, request[c])
    /\ work[c] = Ran(db, request[c]).db
    /\ threw[c] = Ran(db, request[c]).threw

LEMMA PreparedNext ==
  ASSUME IInv, Prepared, [Next]_vars
  PROVE  Prepared'
<1>1. CASE \E c \in Calls : Begin(c)
  <2>1. PICK c \in Calls : Begin(c)
    BY <1>1
  <2> DEFINE r == request[c]
  <2>2. /\ pc[c] = "wait"
        /\ pc' = [pc EXCEPT ![c] = "commit"]
        /\ UNCHANGED <<db, request>>
    BY <2>1 DEF Begin, Goto
  <2>3. Grounded(db, r) /\ (r.kind # "publish" => target[c] = db.pubs[r.pub])
    BY <2>2 DEF IInv, Reads, Grounded
  <2>4. work' = [work EXCEPT ![c] = Ran(db, r).db] /\ threw' = [threw EXCEPT ![c] = Ran(db, r).threw]
    BY <2>1, <2>3 DEF Begin, Ran
  <2>5. \A d \in Calls \ {c} : pc'[d] = pc[d] /\ work'[d] = work[d] /\ threw'[d] = threw[d]
    BY <2>2, <2>4 DEF IInv, TypeOK
  <2>6. work'[c] = Ran(db, r).db /\ threw'[c] = Ran(db, r).threw
    BY <2>4 DEF IInv, TypeOK
  <2> QED BY <2>2, <2>3, <2>5, <2>6 DEF Prepared
<1>2. CASE \E c \in Calls : End(c)
  <2>1. PICK c \in Calls : End(c)
    BY <1>2
  <2>2. pc[c] = "commit" /\ pc' = [pc EXCEPT ![c] = IF threw[c] THEN "refused" ELSE "ok"]
    BY <2>1 DEF End, Return, Goto
  <2>3. \A d \in Calls \ {c} : pc[d] # "commit"
    BY <2>2 DEF IInv, Turns
  <2>4. \A d \in Calls : pc'[d] # "commit"
    BY <2>2, <2>3 DEF IInv, TypeOK
  <2> QED BY <2>4 DEF Prepared
<1>3. CASE \E c \in Calls : Call(c) \/ Look(c) \/ Report(c) \/ Inspect(c)
  <2>1. PICK c \in Calls : Call(c) \/ Look(c) \/ Report(c) \/ Inspect(c)
    BY <1>3
  <2>2. /\ pc[c] \in Ended \cup {"look", "inspect"}
        /\ \E place \in Ended \cup {"look", "inspect", "wait"} : pc' = [pc EXCEPT ![c] = place]
        /\ request' = request \/ \E r \in Requests : request' = [request EXCEPT ![c] = r]
        /\ UNCHANGED <<db, work, threw>>
    BY <2>1 DEF Call, CallPublish, CallRollback, CallReconcile, Start, Look, Report, Inspect, Goto, Return, Ended
  <2>3. \A d \in Calls : pc'[d] = "commit" => d # c /\ pc[d] = "commit" /\ request'[d] = request[d]
    BY <2>2 DEF IInv, TypeOK, Ended
  <2> QED BY <2>2, <2>3 DEF Prepared
<1>4. CASE (\E v \in Versions : Drift(v)) \/ UNCHANGED vars
  BY <1>4 DEF Drift, vars, Prepared
<1> QED BY <1>1, <1>2, <1>3, <1>4 DEF Next, Step

\* What a request comes to on the committed database is a step of its history.
LEMMA RanIsHistory ==
  ASSUME IInv, NEW r \in Shapes, Grounded(db, r), ~Ran(db, r).threw, db' = Ran(db, r).db
  PROVE  [History!Next]_(History!vars)
<1>1. db \in Databases /\ r.pub \in Pubs /\ r.event \in Events /\ r.space \in Spaces
  BY DEF IInv, TypeOK, Shapes
<1>2. CASE db' = db
  BY <1>2 DEF History!vars
<1>3. CASE r.kind = "publish" /\ db' # db
  <2> DEFINE new == [space |-> r.space, version |-> r.version, content |-> r.content,
                     evidence |-> r.evidence, predecessor |-> db.pointer[r.space].pub]
  <2>1. Ran(db, r) = [db |-> Activate(Insert(db, r), r, r.pub, r.version), threw |-> Used(db, r.event)] /\ ~Exists(db, r.pub)
    BY <1>3 DEF Ran, Published
  <2>2. db' = Activate(Insert(db, r), r, r.pub, r.version) /\ ~Used(db, r.event)
    BY <2>1
  <2>3. /\ db'.pubs = [db.pubs EXCEPT ![r.pub] = new]
        /\ db'.pointer = [db.pointer EXCEPT ![r.space] =
                            [pub |-> r.pub, version |-> r.version, revision |-> db.pointer[r.space].revision + 1]]
        /\ db'.log = [db.log EXCEPT ![r.space] =
                        Append(db.log[r.space], [id |-> r.event, from |-> db.pointer[r.space].pub, to |-> r.pub])]
    BY <2>2 DEF Activate, Insert
  <2>4. new \in Publications
    BY <1>1, Inside DEF Shapes, Publications
  <2>5. new.space = r.space /\ new.version = r.version /\ new.predecessor = db.pointer[r.space].pub
    OBVIOUS
  <2> HIDE DEF new
  <2>6. History!Activate(new.space, r.pub, new.version, r.event)
    BY <2>2, <2>3, <2>5 DEF History!Activate, History!Recorded, Used
  <2>7. History!Publish(r.pub, new, r.event)
    BY <2>1, <2>3, <2>5, <2>6 DEF History!Publish, Exists
  <2> QED BY <1>1, <2>4, <2>7 DEF History!Next
<1>4. CASE r.kind # "publish" /\ db' # db
  <2> DEFINE v == db.pubs[r.pub].version
  <2>1. /\ Ran(db, r) = [db |-> Activate(db, r, r.pub, v), threw |-> Used(db, r.event)]
        /\ db.pointer[r.space] # NoPointer /\ db.pointer[r.space].pub # r.pub
    BY <1>4 DEF Ran, RolledBack
  <2>2. db' = Activate(db, r, r.pub, v) /\ ~Used(db, r.event)
    BY <2>1
  <2>3. /\ db'.pubs = db.pubs
        /\ db'.pointer = [db.pointer EXCEPT ![r.space] =
                            [pub |-> r.pub, version |-> v, revision |-> db.pointer[r.space].revision + 1]]
        /\ db'.log = [db.log EXCEPT ![r.space] =
                        Append(db.log[r.space], [id |-> r.event, from |-> db.pointer[r.space].pub, to |-> r.pub])]
    BY <2>2 DEF Activate
  <2>4. Exists(db, r.pub) /\ db.pubs[r.pub].space = r.space
    BY <1>4 DEF Grounded
  <2>5. History!Activate(r.space, r.pub, v, r.event)
    BY <2>2, <2>3 DEF History!Activate, History!Recorded, Used
  <2>6. History!Rollback(r.pub, r.event)
    BY <2>1, <2>3, <2>4, <2>5 DEF History!Rollback, Exists
  <2> QED BY <1>1, <2>6 DEF History!Next
<1> QED BY <1>2, <1>3, <1>4

LEMMA HistoryNext ==
  ASSUME IInv, Prepared, [Next]_vars
  PROVE  [History!Next]_(History!vars)
<1>1. CASE \E c \in Calls : End(c)
  <2>1. PICK c \in Calls : End(c)
    BY <1>1
  <2>2. pc[c] = "commit" /\ db' = IF threw[c] THEN db ELSE work[c]
    BY <2>1 DEF End, Committed
  <2>3. CASE threw[c]
    BY <2>2, <2>3 DEF History!vars
  <2>4. CASE ~threw[c]
    <3>1. request[c] \in Shapes
      BY <2>2, RequestsAssumption DEF IInv, TypeOK
    <3>2. Grounded(db, request[c]) /\ ~Ran(db, request[c]).threw /\ db' = Ran(db, request[c]).db
      BY <2>2, <2>4 DEF Prepared
    <3> QED BY <3>1, <3>2, RanIsHistory
  <2> QED BY <2>3, <2>4
<1>2. CASE ~ \E c \in Calls : End(c)
  <2>1. db' = db
    BY <1>2, CallInvariant, LookInvariant, BeginInvariant, QuietInvariant DEF Next, Step
  <2> QED BY <2>1 DEF History!vars
<1> QED BY <1>1, <1>2

\* Calls that inspect, wait and work on copies implement publications and
\* rollbacks that happen at once.
THEOREM HistoryImplemented == Spec => ImplementsHistory
<1>1. Init => IInv /\ Prepared /\ History!Init
  BY InitInvariant DEF Init, Prepared, History!Init, EmptyDatabase
<1>2. IInv /\ Prepared /\ [Next]_vars => (IInv /\ Prepared)' /\ [History!Next]_(History!vars)
  BY StepInvariant, PreparedNext, HistoryNext
<1> QED BY <1>1, <1>2, PTL DEF Spec, ImplementsHistory, History!Spec
=============================================================================
