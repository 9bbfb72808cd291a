------------------------- MODULE VectorPublication -------------------------
(***************************************************************************)
(* Exploratory vector publications:                                        *)
(* packages/retrieval/src/vector-backends/publication, the coordinator's   *)
(* publish, rollback and reconcile over the serializable repository.       *)
(*                                                                         *)
(* A call inspects the remote store first and only then asks for a         *)
(* transaction.  Transactions queue behind one another; each works on      *)
(* copies that replace the repository's when its callback returns.  Reads  *)
(* outside a transaction see the committed copies at any moment.           *)
(*                                                                         *)
(* Identifiers are those of one tenant: the repository keys everything by  *)
(* tenant and tenants share nothing but the queue.  The events of a space  *)
(* are read by space only and are kept that way.  Counts, manifests,       *)
(* receipts and decisions of a request are its content.                    *)
(***************************************************************************)
EXTENDS Naturals, Sequences

CONSTANTS
  Calls,      \* concurrent calls of the coordinator
  Requests,   \* what they may ask for
  Pubs,       \* publication ids
  Events,     \* event ids
  Spaces,     \* vector store spaces
  Versions,   \* vector space versions
  Contents,   \* verified contents
  Evidence,   \* candidate evidence digests
  Reports,    \* what inspections of a version may report
  Nil

\* A rollback names a space, a target and an event, a reconciliation a space;
\* neither reads the other fields.
Shapes == [kind: {"publish", "rollback", "reconcile"}, pub: Pubs, event: Events, space: Spaces,
           version: Versions, content: Contents, evidence: Evidence \cup {Nil}]

\* No report: the version is unknown, or fails a check of index,
\* authorization, evaluation or sample search.
ASSUME RequestsAssumption ==
  /\ Requests \subseteq Shapes
  /\ Reports \subseteq [content: Contents, evidence: Evidence \cup {Nil}] \cup {Nil}
ASSUME NilAssumption == Nil \notin Pubs \cup Spaces \cup Evidence \cup Requests

VARIABLES
  db,        \* committed publications, pointers and events
  store,     \* what an inspection of each version would report
  pc,        \* where each call is, or how it ended
  request,   \* its request
  target,    \* the publication a rollback has read
  seen,      \* the pointer a reconciliation has read
  work,      \* the copies of a transaction whose callback has run
  threw,     \* its callback threw
  queue      \* calls in a transaction or waiting for one, in order

read == <<target, seen>>
vars == <<db, store, pc, request, read, work, threw, queue>>

----------------------------------------------------------------------------
Publications == [space: Spaces, version: Versions, content: Contents,
                 evidence: Evidence \cup {Nil}, predecessor: Pubs \cup {Nil}]
Pointers == [pub: Pubs, version: Versions, revision: Nat]
Entries == [id: Events, from: Pubs \cup {Nil}, to: Pubs]
NoPublication == [space |-> Nil]
NoPointer == [pub |-> Nil, revision |-> 0]
Databases == [pubs: [Pubs -> Publications \cup {NoPublication}],
              pointer: [Spaces -> Pointers \cup {NoPointer}],
              log: [Spaces -> Seq(Entries)]]

EmptyDatabase == [pubs |-> [p \in Pubs |-> NoPublication],
                  pointer |-> [s \in Spaces |-> NoPointer],
                  log |-> [s \in Spaces |-> <<>>]]

Exists(d, p) == d.pubs[p] # NoPublication
Used(d, e) == \E s \in Spaces : \E i \in 1 .. Len(d.log[s]) : d.log[s][i].id = e

\* verifyInspection.  Evidence that a required dependency revoked is no evidence.
Verifies(report, content, evidence) ==
  /\ report # Nil
  /\ report.content = content
  /\ evidence # Nil => report.evidence = evidence

----------------------------------------------------------------------------
(* Calls up to their transaction *)

Ended == {"idle", "ok", "refused", "missing", "drift", "corrupt"}

Goto(c, place) == pc' = [pc EXCEPT ![c] = place]

Return(c, how) ==
  /\ Goto(c, how)
  /\ target' = [target EXCEPT ![c] = NoPublication]
  /\ seen' = [seen EXCEPT ![c] = NoPointer]

\* Mutant of Targetable: the target's space is not compared.
TargetableAnywhere(r) == Exists(db, r.pub)

Targetable(r) == Exists(db, r.pub) /\ db.pubs[r.pub].space = r.space

Start(c, r) ==
  /\ pc[c] \in Ended
  /\ request' = [request EXCEPT ![c] = r]
  /\ UNCHANGED <<db, store, work, threw, queue>>

\* publish, up to the await of its inspection.
CallPublish(c, r) ==
  /\ r.kind = "publish"
  /\ Start(c, r)
  /\ Goto(c, "inspect")
  /\ UNCHANGED read

\* rollback, up to the await of its inspection.
CallRollback(c, r) ==
  /\ r.kind = "rollback"
  /\ Start(c, r)
  /\ IF Targetable(r)
     THEN /\ Goto(c, "inspect")
          /\ target' = [target EXCEPT ![c] = db.pubs[r.pub]]
          /\ UNCHANGED seen
     ELSE Return(c, "refused")

\* reconcile, up to the await of the pointer.
CallReconcile(c, r) ==
  /\ r.kind = "reconcile"
  /\ Start(c, r)
  /\ IF db.pointer[r.space] = NoPointer
     THEN Return(c, "missing")
     ELSE /\ Goto(c, "look")
          /\ seen' = [seen EXCEPT ![c] = db.pointer[r.space]]
          /\ UNCHANGED target

\* reconcile: the publication is read after the pointer.  One that is missing or of
\* another version is reported, whatever the inspection may add.
Look(c) ==
  LET p == seen[c].pub IN
  /\ pc[c] = "look"
  /\ IF ~Exists(db, p) \/ db.pubs[p].version # seen[c].version
     THEN Return(c, "corrupt")
     ELSE /\ Goto(c, "inspect")
          /\ target' = [target EXCEPT ![c] = db.pubs[p]]
          /\ UNCHANGED seen
  /\ UNCHANGED <<db, store, request, work, threw, queue>>

\* What the call asks the inspector to find.
Expected(c) == IF request[c].kind = "publish" THEN request[c] ELSE target[c]

Passes(c) == Verifies(store[Expected(c).version], Expected(c).content, Expected(c).evidence)

\* The inspection of a reconciliation, which only reports.
Report(c) ==
  /\ pc[c] = "inspect"
  /\ request[c].kind = "reconcile"
  /\ Return(c, IF Passes(c) THEN "ok" ELSE "drift")
  /\ UNCHANGED <<db, store, request, work, threw, queue>>

\* The inspection of the others, and transaction() up to the await of its turn.
Inspect(c) ==
  /\ pc[c] = "inspect"
  /\ request[c].kind # "reconcile"
  /\ IF Passes(c)
     THEN Goto(c, "wait") /\ queue' = Append(queue, c) /\ UNCHANGED read
     ELSE Return(c, "refused") /\ UNCHANGED queue
  /\ UNCHANGED <<db, store, request, work, threw>>

----------------------------------------------------------------------------
(* Transactions *)

\* Mutant of MayBegin: the predecessor in the queue is not awaited.
BeginAtOnce(c) == TRUE

MayBegin(c) == Head(queue) = c

\* setActivePointer and appendEvent.
Activate(d, r, p, version) ==
  [pubs |-> d.pubs,
   pointer |-> [d.pointer EXCEPT ![r.space] =
                  [pub |-> p, version |-> version, revision |-> d.pointer[r.space].revision + 1]],
   log |-> [d.log EXCEPT ![r.space] =
              Append(d.log[r.space], [id |-> r.event, from |-> d.pointer[r.space].pub, to |-> p])]]

\* insertPublication
Insert(d, r) ==
  [pubs |-> [d.pubs EXCEPT ![r.pub] =
               [space |-> r.space, version |-> r.version, content |-> r.content,
                evidence |-> r.evidence, predecessor |-> d.pointer[r.space].pub]],
   pointer |-> d.pointer,
   log |-> d.log]

\* Mutant of SameVerified: a replay is known by its id alone.
SameId(old, r) == TRUE

\* The verification digest covers version and content, not the evidence.
SameVerified(old, r) == old.space = r.space /\ old.version = r.version /\ old.content = r.content

\* A callback: what it leaves in the copies d, and whether it throws.
Published(d, r) ==
  IF Exists(d, r.pub) THEN [db |-> d, threw |-> ~SameVerified(d.pubs[r.pub], r)]
  ELSE [db |-> Activate(Insert(d, r), r, r.pub, r.version), threw |-> Used(d, r.event)]

\* Mutant of RolledBack: a target that is active already is activated again.
RolledBackAgain(d, r, version) ==
  IF d.pointer[r.space] = NoPointer THEN [db |-> d, threw |-> TRUE]
  ELSE [db |-> Activate(d, r, r.pub, version), threw |-> Used(d, r.event)]

RolledBack(d, r, version) ==
  IF d.pointer[r.space] = NoPointer \/ d.pointer[r.space].pub = r.pub
  THEN [db |-> d, threw |-> d.pointer[r.space] = NoPointer]
  ELSE [db |-> Activate(d, r, r.pub, version), threw |-> Used(d, r.event)]

Begin(c) ==
  LET ran == IF request[c].kind = "publish" THEN Published(db, request[c])
             ELSE RolledBack(db, request[c], target[c].version)
  IN /\ pc[c] = "wait"
     /\ MayBegin(c)
     /\ work' = [work EXCEPT ![c] = ran.db]
     /\ threw' = [threw EXCEPT ![c] = ran.threw]
     /\ Goto(c, "commit")
     /\ UNCHANGED <<db, store, request, read, queue>>

Committed(c) == IF threw[c] THEN db ELSE work[c]

\* Mutant of Released: only a transaction that commits gives up its turn.
ReleasedOnCommit(c) == IF threw[c] THEN queue ELSE Tail(queue)

Released(c) == Tail(queue)

End(c) ==
  /\ pc[c] = "commit"
  /\ db' = Committed(c)
  /\ queue' = Released(c)
  /\ work' = [work EXCEPT ![c] = EmptyDatabase]
  /\ threw' = [threw EXCEPT ![c] = FALSE]
  /\ Return(c, IF threw[c] THEN "refused" ELSE "ok")
  /\ UNCHANGED <<store, request>>

\* The remote store changes.
Drift(v) ==
  /\ \E report \in Reports : store' = [store EXCEPT ![v] = report]
  /\ UNCHANGED <<db, pc, request, read, work, threw, queue>>

----------------------------------------------------------------------------
Init ==
  /\ db = EmptyDatabase
  /\ store \in [Versions -> Reports]
  /\ pc = [c \in Calls |-> "idle"]
  /\ request = [c \in Calls |-> Nil]
  /\ target = [c \in Calls |-> NoPublication]
  /\ seen = [c \in Calls |-> NoPointer]
  /\ work = [c \in Calls |-> EmptyDatabase]
  /\ threw = [c \in Calls |-> FALSE]
  /\ queue = <<>>

Call(c) == \E r \in Requests : CallPublish(c, r) \/ CallRollback(c, r) \/ CallReconcile(c, r)
Step(c) == Look(c) \/ Report(c) \/ Inspect(c) \/ Begin(c) \/ End(c)

Next ==
  \/ \E c \in Calls : Call(c) \/ Step(c)
  \/ \E v \in Versions : Drift(v)

Spec == Init /\ [][Next]_vars

\* Awaited inspections, reads and turns return; nobody has to call.
FairSpec == Spec /\ \A c \in Calls : WF_vars(Step(c))

----------------------------------------------------------------------------
Places == Ended \cup {"look", "inspect", "wait", "commit"}

\* Every variable has its type, and a call that has started its request.
TypeOK ==
  /\ db \in Databases
  /\ store \in [Versions -> Reports]
  /\ pc \in [Calls -> Places]
  /\ request \in [Calls -> Requests \cup {Nil}]
  /\ target \in [Calls -> Publications \cup {NoPublication}]
  /\ seen \in [Calls -> Pointers \cup {NoPointer}]
  /\ work \in [Calls -> Databases]
  /\ threw \in [Calls -> BOOLEAN]
  /\ queue \in Seq(Calls)
  /\ \A c \in Calls : pc[c] # "idle" => request[c] \in Requests

From(log, i) == IF i = 1 THEN Nil ELSE log[i - 1].to

\* The pointer of a space is where its events lead: each event starts where the
\* one before ended, the revision counts them, and the pointer names the target
\* of the last one with that publication's version.
Traced(d, s) ==
  LET log == d.log[s] IN
  /\ \A i \in 1 .. Len(log) : log[i].from = From(log, i)
  /\ d.pointer[s].revision = Len(log)
  /\ log = <<>> => d.pointer[s] = NoPointer
  /\ log # <<>> => /\ d.pointer[s].pub = log[Len(log)].to
                  /\ Exists(d, d.pointer[s].pub)
                  /\ d.pointer[s].version = d.pubs[d.pointer[s].pub].version

\* Although transactions are prepared from inspections and reads that are older,
\* every committed database can be traced: no two transactions that ran on the
\* same copies, and no failed one, ever leave a pointer without its event.
PointerTraced == \A s \in Spaces : Traced(db, s)

\* A publication was activated in its own space, from the publication it records
\* as its predecessor, and an event leads to publications of its space only.
Activated(d, p) ==
  LET log == d.log[d.pubs[p].space] IN
  \E i \in 1 .. Len(log) : log[i].to = p /\ log[i].from = d.pubs[p].predecessor

Homely(d, s) == \A i \in 1 .. Len(d.log[s]) : Exists(d, d.log[s][i].to) /\ d.pubs[d.log[s][i].to].space = s

\* The predecessors recorded and the events tell the same history.
PredecessorsTraced ==
  /\ \A p \in Pubs : Exists(db, p) => Activated(db, p)
  /\ \A s \in Spaces : Homely(db, s)

\* A publish that returned, whether it inserted or found the publication, has
\* its publication, with the verified content asked for, in the repository for
\* as long as anyone can look.
PublishedStays ==
  \A c \in Calls :
    pc[c] = "ok" /\ request[c].kind = "publish" =>
      /\ Exists(db, request[c].pub)
      /\ \A field \in {"space", "version", "content"} : db.pubs[request[c].pub][field] = request[c][field]

\* Nothing a reconciliation can meet between its two reads makes it report a
\* pointer to a missing or different publication.
NeverCorrupt == \A c \in Calls : pc[c] # "corrupt"

History ==
  INSTANCE PublicationHistory
  WITH pubs <- db.pubs, pointer <- db.pointer, log <- db.log

\* Whatever calls have read or inspected before their turn, what they commit is one
\* publication or one rollback applied at once to what is committed then: nothing
\* published is changed or lost, no event is recorded twice, a rollback stays in
\* its space.
ImplementsHistory == History!Spec

\* Every call returns: a transaction gives up its turn whether its callback
\* returned or threw.
CallsReturn == \A c \in Calls : pc[c] \notin Ended ~> pc[c] \in Ended
=============================================================================
