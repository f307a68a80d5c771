---------------------------- MODULE SupplyProofs ----------------------------
(***************************************************************************)
(* Theorems about the three parts that MCSupply composes: the catalogue of *)
(* promotions, for every set of programmes and administrators; checkouts,  *)
(* for every set of services, partners and requests; and the adapters, for *)
(* any number of proxies, pages and calls.                                 *)
(*                                                                         *)
(* CatalogueInv says what an editor about to write knows of the list.      *)
(* CheckoutInv says that everything read, kept or under way comes from a   *)
(* document that was saved, and how old what is known of a country is.     *)
(* AdapterInv says which figures a request may still carry, what a listing *)
(* has handed out, and which units the call under way and the requests     *)
(* that were given up may still be charged for: each by one of them only.  *)
(* The parts share no variable, so what holds of each holds of Supply.     *)
(***************************************************************************)
EXTENDS MCSupply, Totals, FiniteSetTheorems, TLAPS

\* Two active programmes do not overlap.
Disjoint(programs) ==
    \A q, r \in DOMAIN programs :
        q # r /\ programs[q].status = "active" /\ programs[r].status = "active"
        => ~Catalogue!Overlap(programs[q], programs[r])

\* What an editor about to write knows of the catalogue it read.
WellRead(a) ==
    /\ task[a].seen.revision <= catalog.revision
    /\ task[a].seen.revision = catalog.revision => task[a].seen = catalog
    /\ Catalogue!Accepts(task[a], task[a].seen.programs)

ReadInv == \A a \in Editors : step[a] = "write" => WellRead(a)

CatalogueInv == Catalogue!TypeOK /\ Catalogue!EditsKept /\ Disjoint(catalog.programs) /\ ReadInv

-----------------------------------------------------------------------------
(* What an edit makes of the programmes.                                   *)

\* An accepted change gives programmes again (save, remove).
LEMMA ChangeGivesProgrammes ==
    ASSUME NEW t \in Catalogue!Tasks, NEW P \in Catalogue!Programmes
    PROVE  Catalogue!Changed(t, P) \in Catalogue!Programmes
<1> DEFINE others == DOMAIN P \ {t.id}
           ids == IF t.does = "save" THEN others \cup {t.id} ELSE others
<1>1. PICK S \in SUBSET Programs : P \in [S -> Catalogue!Terms]
  BY DEF Catalogue!Programmes
<1>2. ids \in SUBSET Programs
  BY <1>1 DEF Catalogue!Tasks
<1>3. \A q \in ids : (IF q = t.id THEN t.terms ELSE P[q]) \in Catalogue!Terms
  <2>1. t.does = "save" => t.terms \in Catalogue!Terms
    BY DEF Catalogue!Tasks
  <2> QED
    BY <1>1, <2>1
<1>4. Catalogue!Changed(t, P) = [q \in ids |-> IF q = t.id THEN t.terms ELSE P[q]]
  BY DEF Catalogue!Changed
<1>5. Catalogue!Changed(t, P) \in [ids -> Catalogue!Terms]
  BY <1>3, <1>4
<1> QED
  BY <1>2, <1>5 DEF Catalogue!Programmes

\* An accepted change of disjoint programmes leaves them disjoint (save).
LEMMA ChangeStaysDisjoint ==
    ASSUME NEW t \in Catalogue!Tasks, NEW P, Catalogue!Accepts(t, P), Disjoint(P)
    PROVE  Disjoint(Catalogue!Changed(t, P))
<1> DEFINE C == Catalogue!Changed(t, P)
<1>1. SUFFICES ASSUME NEW q \in DOMAIN C, NEW r \in DOMAIN C, q # r,
                      C[q].status = "active", C[r].status = "active"
               PROVE  ~Catalogue!Overlap(C[q], C[r])
  BY DEF Disjoint
<1>2. \A x \in DOMAIN C : x # t.id => x \in DOMAIN P /\ C[x] = P[x]
  BY DEF Catalogue!Changed
<1>3. t.id \in DOMAIN C => t.does = "save" /\ C[t.id] = t.terms
  BY DEF Catalogue!Changed
<1>4. CASE q # t.id /\ r # t.id
  BY <1>1, <1>2, <1>4 DEF Disjoint
<1>5. CASE q = t.id
  <2>1. t.does = "save" /\ C[q] = t.terms
    BY <1>1, <1>3, <1>5
  <2> r \in DOMAIN P /\ C[r] = P[r] /\ r # t.id
    BY <1>1, <1>2, <1>5
  <2>2. ~Catalogue!Clashes(P, t.id, t.terms)
    BY <2>1 DEF Catalogue!Accepts
  <2>3. ~Catalogue!Overlap(P[r], t.terms)
    BY <1>1, <2>1, <2>2 DEF Catalogue!Clashes
  <2> QED
    BY <2>1, <2>3 DEF Catalogue!Overlap
<1>6. CASE r = t.id
  <2>1. t.does = "save" /\ C[r] = t.terms
    BY <1>1, <1>3, <1>6
  <2> q \in DOMAIN P /\ C[q] = P[q] /\ q # t.id
    BY <1>1, <1>2, <1>6
  <2>2. ~Catalogue!Clashes(P, t.id, t.terms)
    BY <2>1 DEF Catalogue!Accepts
  <2> QED
    BY <1>1, <2>1, <2>2 DEF Catalogue!Clashes
<1> QED
  BY <1>4, <1>5, <1>6

\* Where no active programmes overlap, at most one is in force (quote, createIntent).
LEMMA DisjointOneInForce ==
    ASSUME catalog \in Catalogue!Catalogs, Disjoint(catalog.programs)
    PROVE  Catalogue!OneInForce
<1> DEFINE P == catalog.programs
<1>1. SUFFICES ASSUME NEW m \in 0..Horizon, NEW q \in Catalogue!InForce(m), NEW r \in Catalogue!InForce(m), q # r
               PROVE  FALSE
  BY DEF Catalogue!OneInForce
<1>2. /\ q \in DOMAIN P /\ r \in DOMAIN P
      /\ P[q].status = "active" /\ P[r].status = "active"
      /\ P[q].start <= m /\ m < P[q].end /\ P[r].start <= m /\ m < P[r].end
  BY DEF Catalogue!InForce
<1>3. P \in Catalogue!Programmes
  BY DEF Catalogue!Catalogs
<1>4. P[q] \in Catalogue!Terms /\ P[r] \in Catalogue!Terms
  BY <1>2, <1>3 DEF Catalogue!Programmes
<1>5. Catalogue!Overlap(P[q], P[r])
  BY <1>2, <1>4, SupplyAssumption DEF Catalogue!Overlap, Catalogue!Terms, Catalogue!PromotionAssumption
<1> QED
  BY <1>1, <1>2, <1>5 DEF Disjoint

-----------------------------------------------------------------------------
(* The invariant is inductive.                                             *)

\* The document before the first edit (edit).
LEMMA EmptyCatalogue == Catalogue!NoProgrammes \in Catalogue!Programmes /\ Disjoint(Catalogue!NoProgrammes) /\ Catalogue!Absent \in Catalogue!Catalogs
<1>1. Catalogue!NoProgrammes \in [{} -> Catalogue!Terms]
  BY DEF Catalogue!NoProgrammes
<1>2. Catalogue!NoProgrammes \in Catalogue!Programmes
  BY <1>1 DEF Catalogue!Programmes
<1> QED
  BY <1>1, <1>2 DEF Disjoint, Catalogue!Absent, Catalogue!Catalogs

\* Moving an execution leaves the others where they were.
LEMMA MoveOthers ==
    ASSUME Catalogue!TypeOK, NEW a \in Editors, NEW to, NEW t, Catalogue!Move(a, to, t)
    PROVE  /\ step'[a] = to /\ task'[a] = t
           /\ \A b \in Editors : b # a => step'[b] = step[b] /\ task'[b] = task[b]
BY DEF Catalogue!TypeOK, Catalogue!Move

\* A new request keeps the invariant (save, remove).
LEMMA RequestKeeps ==
    ASSUME CatalogueInv, NEW a \in Editors, NEW t \in Catalogue!Tasks, Catalogue!Request(a, t),
           t.id \in given', given \subseteq given', given' \subseteq Programs
    PROVE  CatalogueInv'
<1> USE DEF CatalogueInv
<1>1. Catalogue!Move(a, "create", t) /\ UNCHANGED <<catalog, granted>>
  BY DEF Catalogue!Request
<1>2. step'[a] = "create" /\ task'[a] = t
      /\ \A b \in Editors : b # a => step'[b] = step[b] /\ task'[b] = task[b]
  BY <1>1, MoveOthers
<1>3. t # Catalogue!NoTask
  BY DEF Catalogue!Tasks, Catalogue!NoTask
<1>4. Catalogue!TypeOK'
  BY <1>1, <1>2, <1>3 DEF Catalogue!TypeOK, Catalogue!Move
<1>5. ReadInv'
  BY <1>1, <1>2 DEF ReadInv, WellRead, Catalogue!Accepts, Catalogue!Clashes
<1> QED
  BY <1>1, <1>4, <1>5 DEF Catalogue!EditsKept

\* A task as it is begun is a task.
LEMMA NewTask ==
    ASSUME NEW does \in {"save", "remove"}, NEW i \in Programs,
           NEW known \in BOOLEAN, NEW u \in Catalogue!Terms \cup {Catalogue!NoTerms},
           does = "save" => u \in Catalogue!Terms
    PROVE  Catalogue!Task(does, i, known, u) \in Catalogue!Tasks /\ Catalogue!Task(does, i, known, u).id = i
BY EmptyCatalogue, SupplyAssumption DEF Catalogue!Task, Catalogue!Tasks, Catalogue!PromotionAssumption

\* No edit is under way before the first request.
LEMMA CatalogueInit == Catalogue!Init => CatalogueInv
<1> SUFFICES ASSUME Catalogue!Init PROVE CatalogueInv
  OBVIOUS
<1>1. Catalogue!TypeOK
  BY EmptyCatalogue DEF Catalogue!Init, Catalogue!TypeOK
<1>2. Catalogue!EditsKept /\ Disjoint(catalog.programs)
  BY EmptyCatalogue DEF Catalogue!Init, Catalogue!EditsKept, Catalogue!Absent
<1>3. ReadInv
  BY DEF Catalogue!Init, ReadInv
<1> QED
  BY <1>1, <1>2, <1>3 DEF CatalogueInv

\* Creating the document ($setOnInsert) changes no programme, and no editor about to
\* write read a catalogue that did not exist.
LEMMA CreateKeeps == ASSUME CatalogueInv, NEW a \in Editors, Catalogue!Create(a) PROVE CatalogueInv'
<1> USE DEF CatalogueInv
<1>1. Catalogue!Move(a, "read", task[a]) /\ step[a] = "create" /\ UNCHANGED <<given, granted>>
  BY DEF Catalogue!Create
<1>2. step'[a] = "read" /\ task'[a] = task[a]
      /\ \A b \in Editors : b # a => step'[b] = step[b] /\ task'[b] = task[b]
  BY <1>1, MoveOthers
<1>3. /\ catalog' \in Catalogue!Catalogs /\ catalog'.programs = catalog.programs
      /\ catalog' = catalog \/ (catalog.revision = -1 /\ catalog'.revision = 0)
  BY DEF Catalogue!Create, Catalogue!Absent, Catalogue!TypeOK, Catalogue!Catalogs
<1>4. Catalogue!TypeOK'
  BY <1>1, <1>2, <1>3 DEF Catalogue!TypeOK, Catalogue!Move
<1>5. ASSUME NEW b \in Editors, step'[b] = "write" PROVE WellRead(b)'
  <2>1. b # a /\ step[b] = "write" /\ task'[b] = task[b]
    BY <1>1, <1>2, <1>5
  <2>2. WellRead(b) /\ task[b].seen.revision \in Int /\ catalog.revision \in Int
    BY <2>1 DEF ReadInv, Catalogue!TypeOK, Catalogue!Tasks, Catalogue!Catalogs
  <2> QED
    BY <1>3, <2>1, <2>2 DEF WellRead, Catalogue!Accepts, Catalogue!Clashes
<1> QED
  BY <1>1, <1>3, <1>4, <1>5 DEF Catalogue!EditsKept, ReadInv

\* An editor that goes on to write has applied its change to what it read.
LEMMA ReadKeeps == ASSUME CatalogueInv, NEW a \in Editors, Catalogue!Read(a) PROVE CatalogueInv'
<1> USE DEF CatalogueInv
<1>1. UNCHANGED <<catalog, given, granted>> /\ step[a] = "read" /\ task[a] \in Catalogue!Tasks
      /\ task[a].id \in given
  BY DEF Catalogue!Read, Catalogue!TypeOK
<1>2. CASE Catalogue!Accepts(task[a], catalog.programs)
  <2> DEFINE t == [task[a] EXCEPT !.seen = catalog]
  <2>1. Catalogue!Move(a, "write", t)
    BY <1>2 DEF Catalogue!Read
  <2>2. step'[a] = "write" /\ task'[a] = t
        /\ \A b \in Editors : b # a => step'[b] = step[b] /\ task'[b] = task[b]
    BY <2>1, MoveOthers
  <2>3. /\ t \in Catalogue!Tasks /\ t # Catalogue!NoTask /\ t.seen = catalog
        /\ t.id = task[a].id /\ t.known = task[a].known
        /\ t.does = task[a].does /\ t.terms = task[a].terms
    BY <1>1 DEF Catalogue!Tasks, Catalogue!NoTask, Catalogue!TypeOK
  <2>4. Catalogue!TypeOK'
    BY <1>1, <2>1, <2>2, <2>3 DEF Catalogue!TypeOK, Catalogue!Move
  <2>5. WellRead(a)'
    BY <1>1, <1>2, <2>2, <2>3 DEF WellRead, Catalogue!Accepts, Catalogue!Clashes, Catalogue!TypeOK, Catalogue!Catalogs
  <2>6. ASSUME NEW b \in Editors, step'[b] = "write" PROVE WellRead(b)'
    <3>1. CASE b = a
      BY <2>5, <3>1
    <3>2. CASE b # a
      <4>1. catalog' = catalog /\ task'[b] = task[b] /\ step[b] = "write"
        BY <1>1, <2>2, <2>6, <3>2
      <4>2. WellRead(b)
        BY <4>1 DEF ReadInv
      <4> QED
        BY <4>1, <4>2 DEF WellRead, Catalogue!Accepts, Catalogue!Clashes
    <3> QED
      BY <3>1, <3>2
  <2>7. ReadInv'
    BY <2>6 DEF ReadInv
  <2> QED
    BY <1>1, <2>4, <2>7 DEF Catalogue!EditsKept
<1>3. CASE ~Catalogue!Accepts(task[a], catalog.programs)
  <2>1. Catalogue!Move(a, "idle", Catalogue!NoTask)
    BY <1>3 DEF Catalogue!Read
  <2>2. step'[a] = "idle" /\ task'[a] = Catalogue!NoTask
        /\ \A b \in Editors : b # a => step'[b] = step[b] /\ task'[b] = task[b]
    BY <2>1, MoveOthers
  <2>3. Catalogue!TypeOK'
    BY <1>1, <2>1, <2>2 DEF Catalogue!TypeOK, Catalogue!Move
  <2>4. ReadInv'
    BY <1>1, <2>2 DEF ReadInv, WellRead, Catalogue!Accepts, Catalogue!Clashes
  <2> QED
    BY <1>1, <2>3, <2>4 DEF Catalogue!EditsKept
<1> QED
  BY <1>2, <1>3

\* A write under the current revision is a change of the current programmes.
LEMMA WriteKeeps == ASSUME CatalogueInv, NEW a \in Editors, Catalogue!Write(a) PROVE CatalogueInv'
<1> USE DEF CatalogueInv
<1> DEFINE t == task[a]
<1>1. /\ step[a] = "write" /\ t \in Catalogue!Tasks /\ t.id \in given /\ UNCHANGED given
      /\ WellRead(a) /\ t.seen \in Catalogue!Catalogs
  BY DEF Catalogue!Write, Catalogue!TypeOK, ReadInv, Catalogue!Tasks
<1>2. CASE Catalogue!IsCurrent(a)
  <2>1. /\ catalog' = [revision |-> catalog.revision + 1, programs |-> Catalogue!Changed(t, t.seen.programs)]
        /\ granted' = Catalogue!Changed(t, granted) /\ Catalogue!Move(a, "idle", Catalogue!NoTask)
    BY <1>2 DEF Catalogue!Write
  <2>2. t.seen = catalog /\ granted = catalog.programs /\ catalog.programs \in Catalogue!Programmes
    BY <1>1, <1>2 DEF Catalogue!IsCurrent, WellRead, Catalogue!EditsKept, Catalogue!Catalogs, Catalogue!TypeOK
  <2>3. Catalogue!Changed(t, catalog.programs) \in Catalogue!Programmes
    BY <1>1, <2>2, ChangeGivesProgrammes
  <2>4. Disjoint(Catalogue!Changed(t, catalog.programs))
    BY <1>1, <2>2, ChangeStaysDisjoint DEF WellRead
  <2>5. catalog' \in Catalogue!Catalogs /\ catalog'.revision = catalog.revision + 1
        /\ catalog'.programs = Catalogue!Changed(t, catalog.programs)
    BY <2>1, <2>2, <2>3 DEF Catalogue!Catalogs, Catalogue!TypeOK
  <2>6. step'[a] = "idle" /\ task'[a] = Catalogue!NoTask
        /\ \A b \in Editors : b # a => step'[b] = step[b] /\ task'[b] = task[b]
    BY <2>1, MoveOthers
  <2>7. Catalogue!TypeOK'
    BY <1>1, <2>1, <2>2, <2>3, <2>5, <2>6 DEF Catalogue!TypeOK, Catalogue!Move
  <2>8. ASSUME NEW b \in Editors, step'[b] = "write" PROVE WellRead(b)'
    <3>1. b # a /\ step[b] = "write" /\ task'[b] = task[b]
      BY <2>6, <2>8
    <3>2. WellRead(b) /\ task[b].seen.revision \in Int /\ catalog.revision \in Int
      BY <3>1 DEF ReadInv, Catalogue!TypeOK, Catalogue!Tasks, Catalogue!Catalogs
    <3> QED
      BY <2>5, <3>1, <3>2 DEF WellRead, Catalogue!Accepts, Catalogue!Clashes
  <2> QED
    BY <2>1, <2>2, <2>4, <2>5, <2>7, <2>8 DEF Catalogue!EditsKept, ReadInv
<1>3. CASE ~Catalogue!IsCurrent(a)
  <2>1. UNCHANGED <<catalog, granted>>
    BY <1>3 DEF Catalogue!Write
  <2>2. PICK to \in {"read", "idle"}, s \in Catalogue!Tasks \cup {Catalogue!NoTask} :
          /\ Catalogue!Move(a, to, s)
          /\ to # "idle" => s # Catalogue!NoTask /\ s.id = t.id
    <3>1. CASE t.tries + 1 < MaxTries
      <4>1. Catalogue!Move(a, "read", [t EXCEPT !.tries = @ + 1])
        BY <1>3, <3>1 DEF Catalogue!Write
      <4>2. [t EXCEPT !.tries = @ + 1] \in Catalogue!Tasks /\ [t EXCEPT !.tries = @ + 1] # Catalogue!NoTask
            /\ [t EXCEPT !.tries = @ + 1].id = t.id
        BY <1>1, <3>1, SupplyAssumption DEF Catalogue!Tasks, Catalogue!NoTask, Catalogue!PromotionAssumption
      <4> QED
        BY <4>1, <4>2
    <3>2. CASE ~(t.tries + 1 < MaxTries)
      BY <1>3, <3>2 DEF Catalogue!Write
    <3> QED
      BY <3>1, <3>2
  <2>3. step'[a] = to /\ task'[a] = s
        /\ \A b \in Editors : b # a => step'[b] = step[b] /\ task'[b] = task[b]
    BY <2>2, MoveOthers
  <2>4. Catalogue!TypeOK'
    BY <1>1, <2>1, <2>2, <2>3 DEF Catalogue!TypeOK, Catalogue!Move
  <2>5. ReadInv'
    BY <2>1, <2>3 DEF ReadInv, WellRead, Catalogue!Accepts, Catalogue!Clashes
  <2> QED
    BY <2>1, <2>4, <2>5 DEF Catalogue!EditsKept
<1> QED
  BY <1>2, <1>3

\* Every step keeps the invariant.
LEMMA CatalogueKeeps == ASSUME CatalogueInv, [Catalogue!Next]_Catalogue!vars PROVE CatalogueInv'
<1>1. CASE UNCHANGED Catalogue!vars
  BY <1>1 DEF Catalogue!vars, CatalogueInv, Catalogue!TypeOK, Catalogue!EditsKept, ReadInv, WellRead, Catalogue!Accepts, Catalogue!Clashes, Disjoint
<1>2. ASSUME NEW a \in Editors, Catalogue!Add(a) PROVE CatalogueInv'
  <2>1. PICK i \in Programs \ given, u \in Catalogue!Terms :
          Catalogue!Request(a, Catalogue!Task("save", i, FALSE, u)) /\ given' = given \cup {i}
    BY <1>2 DEF Catalogue!Add
  <2> QED
    BY <2>1, NewTask, RequestKeeps DEF CatalogueInv, Catalogue!TypeOK
<1>3. ASSUME NEW a \in Editors, Catalogue!Save(a) PROVE CatalogueInv'
  <2>1. PICK i \in given, u \in Catalogue!Terms :
          Catalogue!Request(a, Catalogue!Task("save", i, TRUE, u)) /\ given' = given
    BY <1>3 DEF Catalogue!Save
  <2>2. i \in Programs /\ given \subseteq Programs
    BY DEF CatalogueInv, Catalogue!TypeOK
  <2> QED
    BY <2>1, <2>2, NewTask, RequestKeeps
<1>4. ASSUME NEW a \in Editors, Catalogue!Remove(a) PROVE CatalogueInv'
  <2>1. PICK i \in given :
          Catalogue!Request(a, Catalogue!Task("remove", i, TRUE, Catalogue!NoTerms)) /\ given' = given
    BY <1>4 DEF Catalogue!Remove
  <2>2. i \in Programs /\ given \subseteq Programs
    BY DEF CatalogueInv, Catalogue!TypeOK
  <2> QED
    BY <2>1, <2>2, NewTask, RequestKeeps
<1> QED
  BY <1>1, <1>2, <1>3, <1>4, CreateKeeps, ReadKeeps, WriteKeeps DEF Catalogue!Next

\* Editing under the revision keeps one programme in force at most at any moment, and
\* every accepted edit (save, remove, edit).
THEOREM CatalogueIsKept == Catalogue!Spec => []Catalogue!CatalogueHolds
<1>1. CatalogueInv => Catalogue!CatalogueHolds
  BY DisjointOneInForce DEF CatalogueInv, Catalogue!CatalogueHolds, Catalogue!TypeOK
<1>2. CatalogueInv /\ [Catalogue!Next]_Catalogue!vars => CatalogueInv'
  BY CatalogueKeeps
<1> QED
  BY <1>1, <1>2, CatalogueInit, PTL DEF Catalogue!Spec

-----------------------------------------------------------------------------
(* The catalogue: what the computations of a checkout return.              *)

Jobs == [request : Checkouts \cup {<<>>}, service : ServiceConfigs \cup {<<>>},
         partner : PartnerConfigs \cup {<<>>}, params : Sent \cup {<<>>}]

Named(q) == q \in Sent /\ (q.configured => q.product # None)

\* What a checkout has settled at its label (buy, quote).
JobAt(b) ==
    /\ pc[b] # "idle" =>
          /\ job[b].service \in ServiceConfigs /\ job[b].request \in Checkouts
          /\ Priced(job[b].service, job[b].request)
    /\ pc[b] \in {"select", "coverage", "check"} =>
          /\ job[b].partner \in PartnerConfigs
          /\ Resolves(job[b].service, job[b].request)
    /\ pc[b] = "coverage" => NeedsCoverage(job[b])
    /\ pc[b] = "check" => Named(job[b].params)

JobInv ==
    /\ pc \in [Buyers -> {"idle", "partner", "select", "coverage", "check"}]
    /\ job \in [Buyers -> Jobs]
    /\ \A b \in Buyers : JobAt(b)

\* The service is one that was saved, open or closed, or it is deleted.
DocumentInv ==
    /\ code \in Codes /\ partner \in PartnerConfigs
    /\ service = Deleted \/ \E c \in ServiceConfigs : service \in {c, [c EXCEPT !.open = FALSE]}

\* What a kept answer names was covered as recently as the answer is old.
CoverageInv ==
    /\ coverage \in [Products -> SUBSET Countries]
    /\ since \in [Products -> [Countries -> 0..TTL]]
    /\ inflight \subseteq Products /\ DOMAIN cache \subseteq Products
    /\ \A k \in DOMAIN cache : cache[k] \in [options : SUBSET Countries, age : 0..TTL]
    /\ \A k \in Products : \A n \in coverage[k] : since[k][n] = 0
    /\ \A k \in DOMAIN cache : \A n \in cache[k].options : since[k][n] <= cache[k].age

Orders == [kept : Sent, sent : Seq(Sent), later : Seq(Ids)]

\* What was sent, and later said, is what was kept.
OrderInv ==
    /\ orders \in Seq(Orders) /\ Len(orders) <= MaxOrders
    /\ edits \in 0..MaxEdits
    /\ \A i \in 1..Len(orders) :
          /\ Named(orders[i].kept)
          /\ orders[i].sent # <<>> =>
               /\ [orders[i].sent[1] EXCEPT !.template = None]
                      = [orders[i].kept EXCEPT !.template = None]
               /\ code = "gpnip" => orders[i].sent[1] = orders[i].kept
          /\ orders[i].later # <<>> => orders[i].later[1] = orders[i].kept.product

CheckoutInv == DocumentInv /\ CoverageInv /\ JobInv /\ OrderInv

\* What holds of a checkout still holds when it has not moved.
LEMMA JobStays ==
    ASSUME code' = code, NEW b \in Buyers, pc'[b] = pc[b], job'[b] = job[b], JobAt(b)
    PROVE  JobAt(b)'
BY DEF JobAt, Resolves, Mapped, ResolveProduct, NeedsCoverage, CanList, PackageId

\* A step that moves no checkout keeps what holds of them.
LEMMA JobsRest ==
    ASSUME JobInv, code' = code, pc' = pc, job' = job
    PROVE  JobInv'
<1>1. ASSUME NEW b \in Buyers PROVE JobAt(b)'
  <2>1. pc'[b] = pc[b] /\ job'[b] = job[b] /\ JobAt(b)
    BY DEF JobInv
  <2> QED  BY <2>1, JobStays
<1> QED  BY <1>1 DEF JobInv

\* The smaller of two numbers.
LEMMA MinPair ==
    ASSUME NEW x \in Int, NEW y \in Int
    PROVE  Min({x, y}) = IF x <= y THEN x ELSE y
<1>1. \E m \in {x, y} : \A n \in {x, y} : m <= n
  OBVIOUS
<1>2. Min({x, y}) \in {x, y} /\ \A n \in {x, y} : Min({x, y}) <= n
  BY <1>1 DEF Min
<1> QED  BY <1>2

\* A counter that stops at TTL.
LEMMA CappedIs ==
    ASSUME NEW n \in 0..TTL
    PROVE  Capped(n) = (IF n < TTL THEN n + 1 ELSE TTL) /\ Capped(n) \in 0..TTL
<1>0. TTL \in Nat
  BY ProcurementAssumption
<1>1. TTL \in Nat /\ n + 1 \in Int
  BY <1>0
<1>2. Capped(n) = IF n + 1 <= TTL THEN n + 1 ELSE TTL
  BY <1>1, MinPair DEF Capped
<1> QED  BY <1>1, <1>2

\* The one element of a set of one.
LEMMA OneIn ==
    ASSUME NEW S, Cardinality(S) = 1
    PROVE  (CHOOSE x \in S : TRUE) \in S
<1>1. S # {}
  BY FS_EmptySet
<1> QED  BY <1>1

\* What the table of a service holds (services.schema).
Table(c) == c.tiers \in Seq(Nat \X Nat \X Days)

\* Tiers have a place, a least GB and a price; their order is total.
LEMMA TierRows ==
    ASSUME NEW c, Table(c)
    PROVE  /\ Tiers(c) \subseteq Nat
           /\ \A i \in Tiers(c) :
                 c.tiers[i] \in Nat \X Nat \X Days /\ c.tiers[i][1] \in Nat /\ c.tiers[i][2] \in Nat
           /\ \E n \in Nat : \A i \in Tiers(c) : i <= n
           /\ \A i, j \in Tiers(c) : i = j \/ Before(c, i, j) \/ Before(c, j, i)
           /\ \A i, j \in Tiers(c) : Before(c, i, j) => i # j /\ ~Before(c, j, i)
<1>1. /\ DOMAIN c.tiers = 1..Len(c.tiers) /\ Len(c.tiers) \in Nat
      /\ \A i \in DOMAIN c.tiers : c.tiers[i] \in Nat \X Nat \X Days
  BY DEF Table
<1>2. Tiers(c) \subseteq 1..Len(c.tiers)
  BY <1>1 DEF Tiers
<1>3. \A i \in Tiers(c) :
         c.tiers[i] \in Nat \X Nat \X Days /\ c.tiers[i][1] \in Nat /\ c.tiers[i][2] \in Nat
  BY <1>1, <1>2
<1>4. Tiers(c) \subseteq Nat /\ \E n \in Nat : \A i \in Tiers(c) : i <= n
  BY <1>1, <1>2
<1>5. /\ \A i, j \in Tiers(c) : i = j \/ Before(c, i, j) \/ Before(c, j, i)
      /\ \A i, j \in Tiers(c) : Before(c, i, j) => i # j /\ ~Before(c, j, i)
  BY <1>3, <1>4 DEF Before
<1> QED  BY <1>3, <1>4, <1>5

\* Some tiers have a first one.
LEMMA FirstTier ==
    ASSUME NEW c, Table(c), NEW S \in SUBSET Tiers(c), S # {}
    PROVE  \E i \in S : \A j \in S : ~Before(c, j, i)
<1> DEFINE G == {c.tiers[i][1] : i \in S}
<1>1. G \in SUBSET Nat /\ G # {}
  BY TierRows
<1>2. PICK g \in G : \A h \in G : g <= h
  BY <1>1, Least
<1> DEFINE I == {i \in S : c.tiers[i][1] = g}
<1>3. I \in SUBSET Nat /\ I # {}
  BY <1>2, TierRows
<1>4. PICK i \in I : \A j \in I : i <= j
  BY <1>3, Least
<1>5. SUFFICES ASSUME NEW j \in S, Before(c, j, i) PROVE FALSE
  BY <1>4
<1>6. c.tiers[i][1] = g /\ g <= c.tiers[j][1] /\ (c.tiers[j][1] = g => i <= j)
  BY <1>2, <1>4
<1>7. i \in Nat /\ j \in Nat /\ c.tiers[i][1] \in Nat /\ c.tiers[j][1] \in Nat
  BY <1>4, TierRows
<1> HIDE DEF G, I
<1> QED  BY <1>5, <1>6, <1>7 DEF Before

\* Some tiers have a last one.
LEMMA LastTier ==
    ASSUME NEW c, Table(c), NEW S \in SUBSET Tiers(c), S # {}, NEW gb \in Nat,
           \A i \in S : c.tiers[i][1] <= gb
    PROVE  \E i \in S : \A j \in S : ~Before(c, i, j)
<1> DEFINE G == {gb - c.tiers[i][1] : i \in S}
<1>1. G \in SUBSET Nat /\ G # {}
  BY TierRows
<1>2. PICK g \in G : \A h \in G : g <= h
  BY <1>1, Least
<1>3. PICK n \in Nat : \A i \in Tiers(c) : i <= n
  BY TierRows
<1> DEFINE I == {i \in S : gb - c.tiers[i][1] = g}
           K == {n - i : i \in I}
<1>4. K \in SUBSET Nat /\ K # {}
  BY <1>2, <1>3, TierRows
<1>5. PICK k \in K : \A l \in K : k <= l
  BY <1>4, Least
<1>6. PICK i \in I : k = n - i
  BY <1>5
<1>7. SUFFICES ASSUME NEW j \in S, Before(c, i, j) PROVE FALSE
  BY <1>6
<1>8. /\ gb - c.tiers[i][1] = g /\ g <= gb - c.tiers[j][1]
      /\ gb - c.tiers[j][1] = g => n - i <= n - j
  BY <1>2, <1>5, <1>6
<1>9. i \in Nat /\ j \in Nat /\ c.tiers[i][1] \in Nat /\ c.tiers[j][1] \in Nat
  BY <1>6, TierRows
<1> HIDE DEF G, I, K
<1> QED  BY <1>7, <1>8, <1>9 DEF Before

\* Gigabytes that can be sold have a tier, the last that begins at no more
\* (resolveBandwidthTier).
LEMMA TierFound ==
    ASSUME NEW c, Table(c), NEW gb \in Nat, CanSellGb(c, gb)
    PROVE  /\ TierAt(c, gb) \in Tiers(c) /\ c.tiers[TierAt(c, gb)][1] <= gb
           /\ \A j \in Tiers(c) : c.tiers[j][1] <= gb => ~Before(c, TierAt(c, gb), j)
<1> DEFINE G == {c.tiers[i][1] : i \in Tiers(c)}
           S == {i \in Tiers(c) : c.tiers[i][1] <= gb}
<1>1. G \in SUBSET Nat /\ G # {}
  BY TierRows DEF CanSellGb
<1>2. \E n \in G : \A m \in G : n <= m
  BY <1>1, Least
<1>3. Min(G) \in G
  BY <1>2 DEF Min
<1>4. Min(G) <= gb
  BY <1>1, <1>3 DEF CanSellGb, MinGb
<1>5. S \in SUBSET Tiers(c) /\ S # {} /\ \A i \in S : c.tiers[i][1] <= gb
  BY <1>3, <1>4
<1>6. PICK i \in S : \A j \in S : ~Before(c, i, j)
  <2> HIDE DEF S
  <2> QED  BY <1>5, LastTier
<1>7. \E k \in Tiers(c) : /\ c.tiers[k][1] <= gb
                          /\ \A j \in Tiers(c) : c.tiers[j][1] <= gb => ~Before(c, k, j)
  BY <1>6
<1> QED  BY <1>7 DEF TierAt

\* Its days are days the shop sells.
LEMMA TierSold ==
    ASSUME NEW c, Table(c), NEW gb \in Nat, CanSellGb(c, gb)
    PROVE  TierOf(c, gb) \in Nat \X Nat \X Days
  BY TierFound, TierRows DEF TierOf

\* What has a price lasts a number of days the shop sells (resolvePricing).
LEMMA DaysSold ==
    ASSUME NEW c, IsService(c), NEW r \in Requests, Priced(c, r)
    PROVE  DaysOf(c, r) \in Days
<1>1. r.gb \in Nat /\ DOMAIN c.plans \subseteq Days
  BY DEF Requests, IsService
<1>2. CASE c.mode = "bandwidth"
  <2>1. Table(c)
    BY Zenon DEF IsService, Table
  <2>2. TierOf(c, r.gb) \in Nat \X Nat \X Days
    BY <1>1, <1>2, <2>1, TierSold DEF Priced
  <2> QED  BY <1>2, <2>2 DEF DaysOf
<1>3. CASE c.mode # "bandwidth"
  BY <1>1, <1>3 DEF DaysOf, Priced
<1> QED  BY <1>2, <1>3

\* The ISP a service settles on is one it has.
LEMMA ChoiceHad ==
    ASSUME NEW c, IsService(c), NEW isp \in Isps \cup {None}
    PROVE  /\ Choice(c, isp) # None => Choice(c, isp) \in DOMAIN c.isps
           /\ Choice(c, isp) \in Isps \cup {None}
<1>1. DOMAIN c.isps \subseteq Isps
  BY DEF IsService
<1>2. isp \notin DOMAIN c.isps /\ isp = None /\ Cardinality(DOMAIN c.isps) = 1
        => Choice(c, isp) \in DOMAIN c.isps
  BY OneIn DEF Choice
<1>3. isp \in DOMAIN c.isps => Choice(c, isp) = isp
  BY <1>1, ProcurementAssumption DEF Choice, None
<1>4. isp \notin DOMAIN c.isps /\ ~(isp = None /\ Cardinality(DOMAIN c.isps) = 1)
        => Choice(c, isp) = None
  BY DEF Choice
<1> QED  BY <1>1, <1>2, <1>3, <1>4

\* The product of a checkout is one the provider sells, and has a name if it was configured
\* (resolveProduct).
LEMMA ProductNamed ==
    ASSUME NEW c, IsService(c), NEW r \in Requests, Priced(c, r)
    PROVE  /\ ResolveProduct(c, r) \in Ids /\ IspOf(c, r) \in Isps \cup {None}
           /\ Resolves(c, r) /\ IsConfigured(c, r) => ResolveProduct(c, r) # None
<1>1. /\ c.durations \in [Days -> Ids] /\ c.idService \in Ids /\ c.template \in Ids
      /\ \A i \in DOMAIN c.isps : c.isps[i] = <<>> \/ c.isps[i] \in [Days -> Ids]
  BY DEF IsService
<1>2. DaysOf(c, r) \in Days
  BY DaysSold
<1>3. r.isp \in Isps \cup {None}
  BY DEF Requests, None
<1>4. IspOf(c, r) \in Isps \cup {None}
  BY <1>3, ChoiceHad DEF IspOf
<1>5. IspOf(c, r) \in Ids
  BY <1>4, ProcurementAssumption DEF Ids, None
<1>6. CASE Mapped(c, r.isp)
  <2>1. c.isps[Choice(c, r.isp)] \in [Days -> Ids]
    BY <1>1, <1>3, <1>6, ChoiceHad DEF Mapped
  <2>2. ResolveProduct(c, r) = c.isps[Choice(c, r.isp)][DaysOf(c, r)]
    BY <1>6 DEF ResolveProduct
  <2> QED  BY <1>2, <1>4, <1>6, <2>1, <2>2 DEF Resolves
<1>7. CASE ~Mapped(c, r.isp) /\ c.durations[DaysOf(c, r)] # None
  <2>1. ResolveProduct(c, r) = c.durations[DaysOf(c, r)]
    BY <1>7 DEF ResolveProduct
  <2> QED  BY <1>1, <1>2, <1>4, <1>7, <2>1
<1>8. CASE ~Mapped(c, r.isp) /\ c.durations[DaysOf(c, r)] = None
  <2>1. ResolveProduct(c, r) \in {IspOf(c, r), c.template, c.idService}
    BY <1>8 DEF ResolveProduct
  <2>2. ~IsConfigured(c, r)
    BY <1>8 DEF IsConfigured
  <2> QED  BY <1>1, <1>4, <1>5, <2>1, <2>2
<1> QED  BY <1>6, <1>7, <1>8

\* A country that is picked is on sale, or there is none (select).
LEMMA PickOnSale ==
    ASSUME NEW c, IsService(c), NEW options \in SUBSET Countries, NEW country
    PROVE  /\ Pick(OnSale(c, options), country) \in Countries \cup {None}
           /\ Pick(OnSale(c, options), country) # None =>
                /\ Pick(OnSale(c, options), country) \in options
                /\ c.sales = "allowlist" => Pick(OnSale(c, options), country) \in c.allowed
<1> DEFINE S == OnSale(c, options)
<1>1. S \subseteq options /\ (c.sales = "allowlist" => S \subseteq c.allowed)
  BY DEF OnSale
<1>2. country \in S => Pick(S, country) = country
  BY <1>1, ProcurementAssumption DEF Pick, None
<1>3. country \notin S /\ country = None /\ Cardinality(S) = 1 => Pick(S, country) \in S
  BY OneIn DEF Pick
<1>4. country \notin S /\ ~(country = None /\ Cardinality(S) = 1) => Pick(S, country) = None
  BY DEF Pick
<1> QED  BY <1>1, <1>2, <1>3, <1>4

\* What a checkout keeps (countryProviderParams, productProviderParams).
LEMMA ParamsKept ==
    ASSUME NEW c, IsService(c), NEW r \in Requests, Priced(c, r), Resolves(c, r), NEW p,
           NEW options \in SUBSET Countries
    PROVE  Named(BuyParams(c, p, r, options))
<1> DEFINE q == BuyParams(c, p, r, options)
<1>1. /\ ResolveProduct(c, r) \in Ids /\ IspOf(c, r) \in Isps \cup {None}
      /\ IsConfigured(c, r) => ResolveProduct(c, r) # None
  BY ProductNamed
<1>2. q.country \in Countries \cup {None}
  BY PickOnSale DEF BuyParams
<1>3. c.template \in Ids
  BY DEF IsService
<1>4. q.policy \in BOOLEAN
  BY DEF BuyParams, HasPolicy
<1>5. q.configured \in BOOLEAN
  BY DEF BuyParams, IsConfigured
<1>6. q \in Sent
  BY <1>1, <1>2, <1>3, <1>4, <1>5 DEF BuyParams, Sent, Ids, None
<1>7. q.configured => q.product # None
  BY <1>1 DEF BuyParams, Adopts, PackageId
<1> QED  BY <1>6, <1>7 DEF Named

\* A checkout starts idle, and the provider covers what it covers.
LEMMA CheckoutInit == Init => CheckoutInv
<1> SUFFICES ASSUME Init PROVE CheckoutInv
  OBVIOUS
<1>0. TTL \in Nat /\ MaxOrders \in Nat /\ MaxEdits \in Nat
  BY ProcurementAssumption
<1>1. DocumentInv
  BY DEF Init, DocumentInv
<1>2. CoverageInv
  BY <1>0 DEF Init, CoverageInv
<1>3. JobInv
  BY DEF Init, JobInv, JobAt, NoJob, Jobs
<1>4. OrderInv
  BY <1>0 DEF Init, OrderInv
<1> QED  BY <1>1, <1>2, <1>3, <1>4 DEF CheckoutInv

\* Documents that were saved have their shape.
LEMMA Documents ==
    /\ \A c \in ServiceConfigs : IsService(c) /\ c.open = TRUE /\ c = [c EXCEPT !.open = TRUE]
    /\ Checkouts \subseteq Requests
    /\ PartnerConfigs \subseteq Partners
<1>1. \A c \in ServiceConfigs : IsService(c)
  BY DocumentAssumption
<1>2. ASSUME NEW c \in ServiceConfigs PROVE c.open = TRUE /\ c = [c EXCEPT !.open = TRUE]
  BY <1>1 DEF IsService
<1> QED  BY <1>1, <1>2, DocumentAssumption

LEMMA CheckoutTypes == CheckoutInv => TypeOK
<1> SUFFICES ASSUME CheckoutInv PROVE TypeOK
  OBVIOUS
<1>1. service = Deleted \/ [service EXCEPT !.open = TRUE] \in ServiceConfigs
  <2> SUFFICES ASSUME service # Deleted PROVE [service EXCEPT !.open = TRUE] \in ServiceConfigs
    OBVIOUS
  <2>1. PICK c \in ServiceConfigs : service \in {c, [c EXCEPT !.open = FALSE]}
    BY DEF CheckoutInv, DocumentInv
  <2>2. c = [c EXCEPT !.open = TRUE]
    BY Documents
  <2>3. [service EXCEPT !.open = TRUE] = c
    BY <2>1, <2>2
  <2> QED  BY <2>3
<1>2. \A k \in DOMAIN cache : cache[k].age \in 0..TTL /\ cache[k].options \subseteq Countries
  BY DEF CheckoutInv, CoverageInv
<1> QED  BY <1>1, <1>2 DEF CheckoutInv, TypeOK, DocumentInv, CoverageInv, JobInv, JobAt, OrderInv, Named

\* Checkouts that end keep nothing.
LEMMA GiveKeeps ==
    ASSUME JobInv, NEW B \in SUBSET Buyers, code' = code,
           pc' = [b \in Buyers |-> IF b \in B THEN "idle" ELSE pc[b]],
           job' = [b \in Buyers |-> IF b \in B THEN NoJob ELSE job[b]]
    PROVE  JobInv'
<1>1. NoJob \in Jobs
  BY DEF NoJob, Jobs
<1>2. /\ pc' \in [Buyers -> {"idle", "partner", "select", "coverage", "check"}]
      /\ job' \in [Buyers -> Jobs]
  BY <1>1 DEF JobInv
<1>3. ASSUME NEW b \in Buyers PROVE JobAt(b)'
  <2>1. CASE b \in B
    <3>1. pc'[b] = "idle"
      BY <2>1
    <3> QED  BY <3>1 DEF JobAt
  <2>2. CASE b \notin B
    <3>1. pc'[b] = pc[b] /\ job'[b] = job[b] /\ JobAt(b)
      BY <2>2 DEF JobInv
    <3> QED  BY <3>1 DEF JobAt, Resolves, Mapped, ResolveProduct, NeedsCoverage, CanList, PackageId
  <2> QED  BY <2>1, <2>2
<1> QED  BY <1>2, <1>3 DEF JobInv

\* A checkout whose options are known settles on a product that can be sold.
LEMMA SettleKeeps ==
    ASSUME JobInv, NEW B \in SUBSET Buyers, NEW options \in SUBSET Countries, code' = code,
           \A b \in B : pc[b] \in {"select", "coverage"}, Settle(B, options)
    PROVE  JobInv'
<1> DEFINE Param(b) == BuyParams(job[b].service, job[b].partner, job[b].request, options)
<1>1. \A b \in B : Named(Param(b))
  <2> TAKE b \in B
  <2>1. /\ job[b].service \in ServiceConfigs /\ job[b].request \in Checkouts
        /\ Priced(job[b].service, job[b].request) /\ Resolves(job[b].service, job[b].request)
    BY DEF JobInv, JobAt
  <2>2. IsService(job[b].service) /\ job[b].request \in Requests
    BY <2>1, Documents
  <2> QED  BY <2>1, <2>2, ParamsKept
<1>2. NoJob \in Jobs
  BY DEF NoJob, Jobs
<1>3. \A b \in B : [job[b] EXCEPT !.params = Param(b)] \in Jobs
  <2> TAKE b \in B
  <2>1. Param(b) \in Sent /\ job[b] \in Jobs
    BY <1>1 DEF Named, JobInv
  <2> HIDE DEF Param
  <2> QED  BY <2>1 DEF Jobs
<1>4. /\ pc' \in [Buyers -> {"idle", "partner", "select", "coverage", "check"}]
      /\ job' \in [Buyers -> Jobs]
  BY <1>2, <1>3 DEF JobInv, Settle
<1>5. ASSUME NEW b \in Buyers PROVE JobAt(b)'
  <2>1. CASE b \in B /\ Settles(job[b], options)
    <3>1. pc'[b] = "check" /\ job'[b] = [job[b] EXCEPT !.params = Param(b)]
      BY <2>1 DEF Settle
    <3>2. job[b] \in Jobs /\ JobAt(b) /\ pc[b] \in {"select", "coverage"} /\ Named(Param(b))
      BY <1>1, <2>1 DEF JobInv
    <3> HIDE DEF Param
    <3>3. /\ job'[b].service = job[b].service /\ job'[b].request = job[b].request
          /\ job'[b].partner = job[b].partner /\ job'[b].params = Param(b)
      BY <3>1, <3>2 DEF Jobs
    <3> QED  BY <3>1, <3>2, <3>3 DEF JobAt, Resolves, Mapped, ResolveProduct, Named
  <2>2. CASE b \in B /\ ~Settles(job[b], options)
    <3>1. pc'[b] = "idle"
      BY <2>2 DEF Settle
    <3> QED  BY <3>1 DEF JobAt
  <2>3. CASE b \notin B
    <3>1. pc'[b] = pc[b] /\ job'[b] = job[b] /\ JobAt(b)
      BY <2>3 DEF JobInv, Settle
    <3> QED  BY <3>1 DEF JobAt, Resolves, Mapped, ResolveProduct, NeedsCoverage, CanList, PackageId
  <2> QED  BY <2>1, <2>2, <2>3
<1> QED  BY <1>4, <1>5 DEF JobInv

\* The package whose coverage is asked for is a product.
LEMMA PackageSells ==
    ASSUME JobInv, NEW b \in Buyers, pc[b] \in {"select", "coverage"}, NeedsCoverage(job[b])
    PROVE  Package(job[b]) \in Products
<1>1. /\ job[b].service \in ServiceConfigs /\ job[b].request \in Checkouts
      /\ Priced(job[b].service, job[b].request)
  BY DEF JobInv, JobAt
<1>2. IsService(job[b].service) /\ job[b].request \in Requests
  BY <1>1, Documents
<1>3. ResolveProduct(job[b].service, job[b].request) \in Ids
  BY <1>1, <1>2, ProductNamed
<1>4. PackageId(job[b].service, job[b].request) # None
  BY DEF NeedsCoverage, CanList
<1> QED  BY <1>3, <1>4 DEF Package, PackageId, Ids, None

-----------------------------------------------------------------------------
(* A checkout's steps.                                                     *)

LEMMA ReadServiceKeeps ==
    ASSUME CheckoutInv, NEW b \in Buyers, NEW r \in Checkouts, ReadService(b, r)
    PROVE  CheckoutInv'
<1>0. UNCHANGED <<code, service, partner, provider, asked, orders, edits>>
  BY DEF ReadService
<1>1. DocumentInv'
  BY <1>0 DEF CheckoutInv, DocumentInv
<1>2. CoverageInv' /\ OrderInv'
  BY <1>0 DEF CheckoutInv, CoverageInv, OrderInv, provider, asked
<1>3. service \in ServiceConfigs
  <2>1. service # Deleted
    BY DEF ReadService, Deleted
  <2>2. PICK c \in ServiceConfigs : service \in {c, [c EXCEPT !.open = FALSE]}
    BY <2>1 DEF CheckoutInv, DocumentInv
  <2>3. IsService(c)
    BY Documents
  <2>4. [c EXCEPT !.open = FALSE].open = FALSE
    BY <2>3 DEF IsService
  <2> QED  BY <2>2, <2>4 DEF ReadService
<1> DEFINE J == [NoJob EXCEPT !.request = r, !.service = service]
<1>4. J \in Jobs /\ J.request = r /\ J.service = service
  BY <1>3 DEF NoJob, Jobs
<1>5. /\ pc' \in [Buyers -> {"idle", "partner", "select", "coverage", "check"}]
      /\ job' \in [Buyers -> Jobs]
  BY <1>4 DEF CheckoutInv, JobInv, ReadService
<1>6. ASSUME NEW d \in Buyers PROVE JobAt(d)'
  <2>1. CASE d = b
    <3>1. pc'[b] = "partner" /\ job'[b] = J
      BY DEF CheckoutInv, JobInv, ReadService
    <3>2. Priced(service, r)
      BY DEF ReadService
    <3> HIDE DEF J
    <3>3. Priced(job'[b].service, job'[b].request)
      BY <1>4, <3>1, <3>2
    <3> QED  BY <1>3, <1>4, <2>1, <3>1, <3>3 DEF JobAt
  <2>2. CASE d # b
    <3>1. pc'[d] = pc[d] /\ job'[d] = job[d] /\ JobAt(d) /\ code' = code
      BY <2>2, <1>0 DEF CheckoutInv, JobInv, ReadService
    <3> QED  BY <3>1 DEF JobAt, Resolves, Mapped, ResolveProduct, NeedsCoverage, CanList, PackageId
  <2> QED  BY <2>1, <2>2
<1>7. JobInv'
  BY <1>5, <1>6 DEF JobInv
<1> QED  BY <1>1, <1>2, <1>7 DEF CheckoutInv

\* What changes no document, no coverage and no order keeps the invariant if the jobs do.
LEMMA JobsOnly ==
    ASSUME CheckoutInv, UNCHANGED <<code, service, partner, provider, cache, orders, edits>>,
           inflight' \subseteq Products, JobInv'
    PROVE  CheckoutInv'
<1>1. DocumentInv'
  BY DEF CheckoutInv, DocumentInv
<1>2. CoverageInv' /\ OrderInv'
  BY DEF CheckoutInv, CoverageInv, OrderInv, provider
<1> QED  BY <1>1, <1>2 DEF CheckoutInv

LEMMA GivesUp ==
    ASSUME JobInv, NEW b \in Buyers, Give(b), code' = code
    PROVE  JobInv'
<1>1. /\ pc' = [d \in Buyers |-> IF d \in {b} THEN "idle" ELSE pc[d]]
      /\ job' = [d \in Buyers |-> IF d \in {b} THEN NoJob ELSE job[d]]
  BY DEF JobInv, Give
<1> QED  BY <1>1, GiveKeeps

LEMMA PartnerKeeps ==
    ASSUME CheckoutInv, NEW b \in Buyers, ReadPartner(b)
    PROVE  CheckoutInv'
<1>0. /\ UNCHANGED <<code, service, partner, provider, cache, orders, edits>> /\ inflight' = inflight
      /\ inflight' \subseteq Products
  BY DEF ReadPartner, asked, CheckoutInv, CoverageInv
<1>1. CASE partner.ready /\ Resolves(job[b].service, job[b].request)
  <2>1. /\ pc' = [pc EXCEPT ![b] = "select"] /\ job' = [job EXCEPT ![b].partner = partner]
        /\ pc[b] = "partner" /\ job[b] \in Jobs /\ partner \in PartnerConfigs
    BY <1>1 DEF ReadPartner, CheckoutInv, JobInv, DocumentInv
  <2> DEFINE J == [job[b] EXCEPT !.partner = partner]
  <2>2. /\ J \in Jobs /\ J.partner = partner /\ J.service = job[b].service
        /\ J.request = job[b].request
    BY <2>1 DEF Jobs
  <2>3. pc'[b] = "select" /\ job'[b] = J
    BY <2>1 DEF CheckoutInv, JobInv
  <2>4. /\ pc' \in [Buyers -> {"idle", "partner", "select", "coverage", "check"}]
        /\ job' \in [Buyers -> Jobs]
    BY <2>1, <2>2 DEF CheckoutInv, JobInv
  <2> HIDE DEF J
  <2>5. ASSUME NEW d \in Buyers PROVE JobAt(d)'
    <3>1. CASE d = b
      <4>1. JobAt(b)
        BY DEF CheckoutInv, JobInv
      <4>2. code' = code
        BY <1>0
      <4> QED  BY <1>1, <2>1, <2>2, <2>3, <3>1, <4>1, <4>2 DEF JobAt, Resolves, Mapped, ResolveProduct
    <3>2. CASE d # b
      <4>1. pc'[d] = pc[d] /\ job'[d] = job[d] /\ JobAt(d) /\ code' = code
        BY <1>0, <2>1, <3>2 DEF CheckoutInv, JobInv
      <4> QED  BY <4>1 DEF JobAt, Resolves, Mapped, ResolveProduct, NeedsCoverage, CanList, PackageId
    <3> QED  BY <3>1, <3>2
  <2> QED  BY <1>0, <2>4, <2>5, JobsOnly DEF JobInv
<1>2. CASE ~(partner.ready /\ Resolves(job[b].service, job[b].request))
  <2>1. Give(b) /\ JobInv /\ code' = code
    BY <1>0, <1>2 DEF ReadPartner, CheckoutInv
  <2> QED  BY <1>0, <2>1, GivesUp, JobsOnly
<1> QED  BY <1>1, <1>2

LEMMA ManualIs ==
    ASSUME NEW c \in ServiceConfigs, NEW p \in PartnerConfigs
    PROVE  Manual(c, p) \in SUBSET Countries
<1>1. IsService(c) /\ p \in Partners
  BY Documents
<1> QED  BY <1>1 DEF IsService, Partners, Manual

LEMMA SelectNowKeeps ==
    ASSUME CheckoutInv, NEW b \in Buyers, SelectNow(b)
    PROVE  CheckoutInv'
<1>0. /\ UNCHANGED <<code, service, partner, provider, cache, orders, edits>> /\ inflight' = inflight
      /\ inflight' \subseteq Products /\ code' = code /\ JobInv /\ pc[b] = "select"
  BY DEF SelectNow, asked, CheckoutInv, CoverageInv
<1>1. CASE CanList(job[b].service, job[b].partner, job[b].request)
  <2>1. Settle({b}, Manual(job[b].service, job[b].partner))
    BY <1>1 DEF SelectNow
  <2>2. job[b].service \in ServiceConfigs /\ job[b].partner \in PartnerConfigs
    BY <1>0 DEF JobInv, JobAt
  <2>3. Manual(job[b].service, job[b].partner) \in SUBSET Countries
    BY <2>2, ManualIs
  <2>4. {b} \in SUBSET Buyers /\ \A d \in {b} : pc[d] \in {"select", "coverage"}
    BY <1>0
  <2> QED  BY <1>0, <2>1, <2>3, <2>4, SettleKeeps, JobsOnly
<1>2. CASE ~CanList(job[b].service, job[b].partner, job[b].request)
  <2>1. Give(b)
    BY <1>2 DEF SelectNow
  <2> QED  BY <1>0, <2>1, GivesUp, JobsOnly
<1> QED  BY <1>1, <1>2

LEMMA SelectKeptKeeps ==
    ASSUME CheckoutInv, NEW b \in Buyers, SelectKept(b)
    PROVE  CheckoutInv'
<1>0. /\ UNCHANGED <<code, service, partner, provider, cache, orders, edits>> /\ inflight' = inflight
      /\ inflight' \subseteq Products /\ code' = code /\ JobInv /\ pc[b] = "select"
  BY DEF SelectKept, asked, CheckoutInv, CoverageInv
<1>1. Package(job[b]) \in DOMAIN cache
  BY DEF SelectKept, IsKept
<1>2. cache[Package(job[b])].options \in SUBSET Countries
  BY <1>1 DEF CheckoutInv, CoverageInv
<1>3. Settle({b}, cache[Package(job[b])].options)
  BY DEF SelectKept
<1>4. {b} \in SUBSET Buyers /\ \A d \in {b} : pc[d] \in {"select", "coverage"}
  BY <1>0
<1> QED  BY <1>0, <1>2, <1>3, <1>4, SettleKeeps, JobsOnly

LEMMA SelectAsksKeeps ==
    ASSUME CheckoutInv, NEW b \in Buyers, SelectAsks(b)
    PROVE  CheckoutInv'
<1>0. /\ UNCHANGED <<code, service, partner, provider, cache, orders, edits>> /\ job' = job
      /\ JobInv /\ pc[b] = "select" /\ pc' = [pc EXCEPT ![b] = "coverage"]
      /\ NeedsCoverage(job[b])
  BY DEF SelectAsks, CheckoutInv
<1>1. Package(job[b]) \in Products
  BY <1>0, PackageSells
<1>2. inflight' \subseteq Products
  BY <1>1 DEF SelectAsks, CheckoutInv, CoverageInv
<1>3. pc' \in [Buyers -> {"idle", "partner", "select", "coverage", "check"}]
  BY <1>0 DEF JobInv
<1>4. ASSUME NEW d \in Buyers PROVE JobAt(d)'
  <2>1. JobAt(d) /\ job'[d] = job[d] /\ code' = code /\ pc'[d] = IF d = b THEN "coverage" ELSE pc[d]
    BY <1>0 DEF JobInv
  <2>2. CASE d # b
    BY <2>1, <2>2, JobStays
  <2>3. CASE d = b
    <3>1. /\ job[d].service \in ServiceConfigs /\ job[d].request \in Checkouts
          /\ Priced(job[d].service, job[d].request) /\ job[d].partner \in PartnerConfigs
          /\ Resolves(job[d].service, job[d].request) /\ NeedsCoverage(job[d])
      BY <1>0, <2>1, <2>3 DEF JobAt
    <3>2. Resolves(job[d].service, job[d].request)' /\ NeedsCoverage(job[d])'
      BY <2>1, <3>1 DEF Resolves, Mapped, ResolveProduct, NeedsCoverage, CanList, PackageId
    <3> QED  BY <2>1, <2>3, <3>1, <3>2 DEF JobAt
  <2> QED  BY <2>2, <2>3
<1>5. JobInv'
  BY <1>0, <1>3, <1>4 DEF JobInv
<1> QED  BY <1>0, <1>2, <1>5, JobsOnly

LEMMA WaitingAre ==
    ASSUME NEW k
    PROVE  Waiting(k) \in SUBSET Buyers /\ \A b \in Waiting(k) : pc[b] \in {"select", "coverage"}
  BY DEF Waiting

LEMMA AnswersKeep ==
    ASSUME CheckoutInv, NEW k \in Products, CoverageAnswers(k)
    PROVE  CheckoutInv'
<1>0. UNCHANGED <<code, service, partner, provider, orders, edits>> /\ code' = code /\ JobInv
  BY DEF CoverageAnswers, CheckoutInv
<1>1. DocumentInv' /\ OrderInv'
  BY <1>0 DEF CheckoutInv, DocumentInv, OrderInv
<1>2. coverage[k] \in SUBSET Countries
  BY DEF CheckoutInv, CoverageInv
<1>3. JobInv'
  <2>1. Settle(Waiting(k), coverage[k])
    BY DEF CoverageAnswers
  <2> QED  BY <1>0, <1>2, <2>1, WaitingAre, SettleKeeps
<1>4. CoverageInv'
  <2>1. /\ coverage' = coverage /\ since' = since /\ inflight' \subseteq inflight
        /\ cache' = [x \in DOMAIN cache \cup {k} |->
                       IF x = k THEN [options |-> coverage[k], age |-> 0] ELSE cache[x]]
    BY <1>0 DEF CoverageAnswers, provider
  <2>2. 0 \in 0..TTL
    <3>1. TTL \in Nat
      BY ProcurementAssumption
    <3> QED  BY <3>1
  <2>3. [options |-> coverage[k], age |-> 0] \in [options : SUBSET Countries, age : 0..TTL]
    BY <1>2, <2>2
  <2>4. \A n \in coverage[k] : since[k][n] <= 0
    BY DEF CheckoutInv, CoverageInv
  <2>5. \A x \in DOMAIN cache' : cache'[x] = IF x = k THEN [options |-> coverage[k], age |-> 0] ELSE cache[x]
    BY <2>1
  <2>6. DOMAIN cache' = DOMAIN cache \cup {k}
    BY <2>1
  <2>7. DOMAIN cache' \subseteq Products /\ inflight' \subseteq Products
    BY <2>1, <2>6 DEF CheckoutInv, CoverageInv
  <2>8. \A x \in DOMAIN cache' : cache'[x] \in [options : SUBSET Countries, age : 0..TTL]
    BY <2>3, <2>5, <2>6 DEF CheckoutInv, CoverageInv
  <2>9. \A x \in DOMAIN cache' : \A n \in cache'[x].options : since'[x][n] <= cache'[x].age
    <3> TAKE x \in DOMAIN cache'
    <3>1. CASE x = k
      <4>1. cache'[x].options = coverage[k] /\ cache'[x].age = 0
        BY <2>5, <3>1
      <4> QED  BY <2>1, <2>4, <3>1, <4>1
    <3>2. CASE x # k
      <4>1. x \in DOMAIN cache /\ cache'[x] = cache[x]
        BY <2>5, <2>6, <3>2
      <4> QED  BY <2>1, <4>1 DEF CheckoutInv, CoverageInv
    <3> QED  BY <3>1, <3>2
  <2> QED  BY <2>1, <2>7, <2>8, <2>9 DEF CheckoutInv, CoverageInv
<1> QED  BY <1>1, <1>3, <1>4 DEF CheckoutInv

LEMMA FailsKeeps ==
    ASSUME CheckoutInv, NEW k \in Products, CoverageFails(k)
    PROVE  CheckoutInv'
<1>0. /\ UNCHANGED <<code, service, partner, provider, cache, orders, edits>>
      /\ inflight' \subseteq Products /\ code' = code /\ JobInv
      /\ pc' = [b \in Buyers |-> IF b \in Waiting(k) THEN "idle" ELSE pc[b]]
      /\ job' = [b \in Buyers |-> IF b \in Waiting(k) THEN NoJob ELSE job[b]]
  BY DEF CoverageFails, CheckoutInv, CoverageInv
<1> QED  BY <1>0, WaitingAre, GiveKeeps, JobsOnly

\* An order keeps what its checkout settled.
LEMMA SellKeeps ==
    ASSUME CheckoutInv, NEW b \in Buyers, Sell(b)
    PROVE  CheckoutInv'
<1>0. /\ UNCHANGED <<code, service, partner, provider, asked, edits>> /\ Give(b) /\ code' = code
      /\ pc[b] = "check" /\ JobInv /\ Len(orders) < MaxOrders
      /\ orders' = Append(orders, [kept |-> job[b].params, sent |-> <<>>, later |-> <<>>])
  BY DEF Sell, CheckoutInv
<1>1. DocumentInv' /\ CoverageInv'
  BY <1>0 DEF CheckoutInv, DocumentInv, CoverageInv, provider, asked
<1>2. JobInv'
  BY <1>0, GivesUp
<1>3. OrderInv'
  <2> DEFINE o == [kept |-> job[b].params, sent |-> <<>>, later |-> <<>>]
  <2>1. Named(job[b].params)
    BY <1>0 DEF JobInv, JobAt
  <2>2. o \in Orders
    BY <2>1 DEF Orders, Named
  <2>3. orders \in Seq(Orders) /\ MaxOrders \in Nat
    BY ProcurementAssumption DEF CheckoutInv, OrderInv
  <2>5. o.kept = job[b].params /\ o.sent = <<>> /\ o.later = <<>>
    OBVIOUS
  <2>6. orders' = Append(orders, o)
    BY <1>0
  <2> HIDE DEF o
  <2>4. /\ orders' \in Seq(Orders) /\ Len(orders') = Len(orders) + 1 /\ Len(orders) \in Nat
        /\ \A i \in 1..Len(orders') : orders'[i] = IF i <= Len(orders) THEN orders[i] ELSE o
    BY <2>2, <2>3, <2>6
  <2>7. ASSUME NEW i \in 1..Len(orders')
        PROVE  /\ Named(orders'[i].kept)
               /\ orders'[i].sent # <<>> =>
                     /\ [orders'[i].sent[1] EXCEPT !.template = None]
                            = [orders'[i].kept EXCEPT !.template = None]
                     /\ code' = "gpnip" => orders'[i].sent[1] = orders'[i].kept
               /\ orders'[i].later # <<>> => orders'[i].later[1] = orders'[i].kept.product
    <3>1. CASE i <= Len(orders)
      <4>1. i \in 1..Len(orders) /\ orders'[i] = orders[i]
        BY <2>4, <3>1
      <4> QED  BY <1>0, <4>1 DEF CheckoutInv, OrderInv
    <3>2. CASE ~(i <= Len(orders))
      <4>1. orders'[i] = o
        BY <2>4, <3>2
      <4> QED  BY <2>1, <2>5, <4>1
    <3> QED  BY <3>1, <3>2
  <2>8. edits' \in 0..MaxEdits
    BY <1>0 DEF CheckoutInv, OrderInv
  <2> QED  BY <1>0, <2>3, <2>4, <2>7, <2>8 DEF OrderInv
<1> QED  BY <1>1, <1>2, <1>3 DEF CheckoutInv

LEMMA RefuseKeeps ==
    ASSUME CheckoutInv, NEW b \in Buyers, Refuse(b)
    PROVE  CheckoutInv'
<1>0. /\ UNCHANGED <<code, service, partner, provider, cache, orders, edits>>
      /\ inflight' \subseteq Products /\ code' = code /\ JobInv /\ Give(b)
  BY DEF Refuse, CheckoutInv, CoverageInv, asked
<1> QED  BY <1>0, GivesUp, JobsOnly

-----------------------------------------------------------------------------
(* The worker, the administrator, the provider and time.                   *)

\* An order that is told more, of what was kept, leaves the others alone.
LEMMA OrderTold ==
    ASSUME CheckoutInv, NEW i \in 1..Len(orders), NEW o \in Orders,
           o.kept = orders[i].kept,
           o.sent # <<>> =>
              /\ [o.sent[1] EXCEPT !.template = None] = [o.kept EXCEPT !.template = None]
              /\ code = "gpnip" => o.sent[1] = o.kept,
           o.later # <<>> => o.later[1] = o.kept.product,
           orders' = [orders EXCEPT ![i] = o],
           UNCHANGED <<code, service, partner, provider, asked, checkout, edits>>
    PROVE  CheckoutInv'
<1>1. DocumentInv' /\ CoverageInv'
  BY DEF CheckoutInv, DocumentInv, CoverageInv, provider, asked
<1>2. JobInv'
  <2>1. pc' = pc /\ job' = job /\ code' = code
    BY DEF checkout
  <2> QED  BY <2>1, JobsRest DEF CheckoutInv
<1>3. OrderInv'
  <2>1. orders \in Seq(Orders)
    BY DEF CheckoutInv, OrderInv
  <2>2. /\ orders' \in Seq(Orders) /\ Len(orders') = Len(orders)
        /\ \A j \in 1..Len(orders') : orders'[j] = IF j = i THEN o ELSE orders[j]
    BY <2>1
  <2>3. ASSUME NEW j \in 1..Len(orders')
        PROVE  /\ Named(orders'[j].kept)
               /\ orders'[j].sent # <<>> =>
                     /\ [orders'[j].sent[1] EXCEPT !.template = None]
                            = [orders'[j].kept EXCEPT !.template = None]
                     /\ code' = "gpnip" => orders'[j].sent[1] = orders'[j].kept
               /\ orders'[j].later # <<>> => orders'[j].later[1] = orders'[j].kept.product
    <3>0. code' = code /\ j \in 1..Len(orders)
      BY <2>2
    <3>1. CASE j = i
      <4>1. orders'[j] = o /\ Named(orders[i].kept)
        BY <2>2, <3>1 DEF CheckoutInv, OrderInv
      <4> QED  BY <3>0, <4>1
    <3>2. CASE j # i
      <4>1. orders'[j] = orders[j]
        BY <2>2, <3>2
      <4> QED  BY <3>0, <4>1 DEF CheckoutInv, OrderInv
    <3> QED  BY <3>1, <3>2
  <2> QED  BY <2>2, <2>3 DEF CheckoutInv, OrderInv
<1> QED  BY <1>1, <1>2, <1>3 DEF CheckoutInv

\* The worker changes nothing of what was kept but another adapter's template (createOrder).
LEMMA DispatchKeeps ==
    ASSUME CheckoutInv, NEW i \in 1..Len(orders), Dispatch(i)
    PROVE  CheckoutInv'
<1>1. orders[i] \in Orders
  BY DEF CheckoutInv, OrderInv
<1> DEFINE q == WorkerParams(orders[i], service)
           o == [orders[i] EXCEPT !.sent = <<q>>]
<1>2. service.template \in Products \cup {None}
  <2>1. CASE service = Deleted
    BY <2>1 DEF Deleted
  <2>2. CASE service # Deleted
    <3>1. PICK c \in ServiceConfigs : service \in {c, [c EXCEPT !.open = FALSE]}
      BY <2>2 DEF CheckoutInv, DocumentInv
    <3>2. IsService(c)
      BY Documents
    <3>3. service.template = c.template /\ c.template \in Ids
      BY <3>1, <3>2 DEF IsService
    <3> QED  BY <3>3 DEF Ids, None
  <2> QED  BY <2>1, <2>2
<1>3. /\ q \in Sent
      /\ [q EXCEPT !.template = None] = [orders[i].kept EXCEPT !.template = None]
      /\ code = "gpnip" => q = orders[i].kept
  BY <1>1, <1>2 DEF WorkerParams, Orders, Sent
<1>4. orders[i].later = <<>> \/ orders[i].later[1] = orders[i].kept.product
  BY DEF CheckoutInv, OrderInv
<1>5. /\ orders' = [orders EXCEPT ![i].sent = <<q>>]
      /\ UNCHANGED <<code, service, partner, provider, asked, checkout, edits>>
  BY DEF Dispatch
<1>6. orders' = [orders EXCEPT ![i] = o]
  BY <1>5
<1> HIDE DEF q
<1>7. <<q>> \in Seq(Sent) /\ <<q>>[1] = q
  BY <1>3
<1>8. o \in Orders /\ o.kept = orders[i].kept /\ o.sent = <<q>> /\ o.later = orders[i].later
  BY <1>1, <1>7 DEF Orders
<1> HIDE DEF o
<1>9. /\ [o.sent[1] EXCEPT !.template = None] = [o.kept EXCEPT !.template = None]
      /\ code = "gpnip" => o.sent[1] = o.kept
  BY <1>3, <1>7, <1>8
<1>10. o.later # <<>> => o.later[1] = o.kept.product
  BY <1>4, <1>8
<1> QED  BY <1>5, <1>6, <1>8, <1>9, <1>10, OrderTold

LEMMA FollowUpKeeps ==
    ASSUME CheckoutInv, NEW i \in 1..Len(orders), FollowUp(i)
    PROVE  CheckoutInv'
<1>1. orders[i] \in Orders
  BY DEF CheckoutInv, OrderInv
<1> DEFINE q == orders[i].kept.product
           o == [orders[i] EXCEPT !.later = <<q>>]
<1>2. q \in Ids
  BY <1>1 DEF Orders, Sent, Ids, None
<1>3. orders' = [orders EXCEPT ![i] = o]
  BY DEF FollowUp, DeriveIdService
<1>4. UNCHANGED <<code, service, partner, provider, asked, checkout, edits>>
  BY DEF FollowUp
<1>5. o.sent # <<>> =>
         /\ [o.sent[1] EXCEPT !.template = None] = [o.kept EXCEPT !.template = None]
         /\ code = "gpnip" => o.sent[1] = o.kept
  <2>1. o.sent = orders[i].sent /\ o.kept = orders[i].kept
    BY <1>1 DEF Orders
  <2> QED  BY <2>1 DEF CheckoutInv, OrderInv
<1> HIDE DEF q
<1>6. <<q>> \in Seq(Ids) /\ <<q>>[1] = q
  BY <1>2
<1>7. o \in Orders /\ o.kept = orders[i].kept /\ o.later = <<q>>
  BY <1>1, <1>6 DEF Orders
<1>8. o.later # <<>> => o.later[1] = o.kept.product
  BY <1>6, <1>7 DEF q
<1> HIDE DEF o
<1> QED  BY <1>3, <1>4, <1>5, <1>7, <1>8, OrderTold

\* Whoever edits a document changes no checkout and no order.
LEMMA EditKeeps ==
    ASSUME CheckoutInv, Edit, DocumentInv', UNCHANGED <<code, asked, checkout, orders>>,
           CoverageInv'
    PROVE  CheckoutInv'
<1>1. JobInv'
  <2>1. pc' = pc /\ job' = job /\ code' = code
    BY DEF checkout
  <2> QED  BY <2>1, JobsRest DEF CheckoutInv
<1>2. OrderInv'
  <2>0. MaxEdits \in Nat
    BY ProcurementAssumption
  <2>1. edits' \in 0..MaxEdits
    BY <2>0 DEF Edit, CheckoutInv, OrderInv
  <2> QED  BY <2>1 DEF CheckoutInv, OrderInv
<1> QED  BY <1>1, <1>2 DEF CheckoutInv

LEMMA ServiceKeeps ==
    ASSUME CheckoutInv, \/ \E c \in ServiceConfigs : UpdateService(c)
                        \/ ToggleStatus
                        \/ DeleteService
                        \/ \E p \in PartnerConfigs : UpdatePartner(p)
    PROVE  CheckoutInv'
<1>1. Edit /\ UNCHANGED <<code, provider, asked, checkout, orders>>
  BY DEF UpdateService, ToggleStatus, DeleteService, UpdatePartner
<1>2. CoverageInv'
  BY <1>1 DEF CheckoutInv, CoverageInv, provider, asked
<1>3. DocumentInv'
  <2>0. code' \in Codes
    BY <1>1 DEF CheckoutInv, DocumentInv
  <2>1. ASSUME NEW c \in ServiceConfigs, UpdateService(c) PROVE DocumentInv'
    BY <2>0, <2>1 DEF UpdateService, CheckoutInv, DocumentInv
  <2>2. CASE DeleteService
    BY <2>0, <2>2 DEF DeleteService, CheckoutInv, DocumentInv
  <2>3. ASSUME NEW p \in PartnerConfigs, UpdatePartner(p) PROVE DocumentInv'
    BY <2>0, <2>3 DEF UpdatePartner, CheckoutInv, DocumentInv
  <2>4. CASE ToggleStatus
    <3>1. PICK c \in ServiceConfigs : service \in {c, [c EXCEPT !.open = FALSE]}
      BY <2>4 DEF ToggleStatus, CheckoutInv, DocumentInv
    <3>2. IsService(c) /\ c.open = TRUE /\ c = [c EXCEPT !.open = TRUE]
      BY Documents
    <3>3. service' = [service EXCEPT !.open = ~service.open]
      BY <2>4 DEF ToggleStatus
    <3>4. service = c => service' = [c EXCEPT !.open = FALSE]
      BY <3>2, <3>3
    <3>5. service = [c EXCEPT !.open = FALSE] => service' = c
      <4> SUFFICES ASSUME service = [c EXCEPT !.open = FALSE] PROVE service' = c
        OBVIOUS
      <4>1. service.open = FALSE
        BY <3>2 DEF IsService
      <4>2. service' = [service EXCEPT !.open = TRUE]
        BY <3>3, <4>1
      <4> QED  BY <3>2, <4>2
    <3>6. partner' \in PartnerConfigs
      BY <2>4 DEF ToggleStatus, CheckoutInv, DocumentInv
    <3> QED  BY <2>0, <3>1, <3>4, <3>5, <3>6 DEF DocumentInv
  <2> QED  BY <2>1, <2>2, <2>3, <2>4
<1> QED  BY <1>1, <1>2, <1>3, EditKeeps

LEMMA ChangeKeepsCoverage ==
    ASSUME CheckoutInv, NEW k \in Products, NEW S \in SUBSET Countries, ChangeCoverage(k, S)
    PROVE  CheckoutInv'
<1>0. TTL \in Nat
  BY ProcurementAssumption
<1>1. Edit /\ UNCHANGED <<code, service, partner, asked, checkout, orders>>
  BY DEF ChangeCoverage
<1>2. DocumentInv'
  BY <1>1 DEF CheckoutInv, DocumentInv
<1>3. /\ coverage' = [coverage EXCEPT ![k] = S]
      /\ since' = [since EXCEPT ![k] = [n \in Countries |-> IF n \in S THEN 0 ELSE since[k][n]]]
      /\ coverage \in [Products -> SUBSET Countries]
      /\ since \in [Products -> [Countries -> 0..TTL]]
  BY DEF ChangeCoverage, CheckoutInv, CoverageInv
<1>4. \A x \in Products, n \in Countries :
         since'[x][n] = IF x = k /\ n \in S THEN 0 ELSE since[x][n]
  BY <1>3
<1>5. \A x \in Products : coverage'[x] = IF x = k THEN S ELSE coverage[x]
  BY <1>3
<1>6. coverage' \in [Products -> SUBSET Countries]
  BY <1>3
<1>7. since' \in [Products -> [Countries -> 0..TTL]]
  <2>1. [n \in Countries |-> IF n \in S THEN 0 ELSE since[k][n]] \in [Countries -> 0..TTL]
    BY <1>0, <1>3
  <2> QED  BY <1>3, <2>1
<1>8. \A x \in Products : \A n \in coverage'[x] : since'[x][n] = 0
  <2> TAKE x \in Products
  <2> TAKE n \in coverage'[x]
  <2>1. n \in Countries
    BY <1>6
  <2>2. x # k => n \in coverage[x] /\ since[x][n] = 0
    BY <1>5 DEF CheckoutInv, CoverageInv
  <2> QED  BY <1>4, <1>5, <2>1, <2>2
<1>9. \A x \in DOMAIN cache : \A n \in cache[x].options : since'[x][n] <= cache[x].age
  <2> TAKE x \in DOMAIN cache
  <2> TAKE n \in cache[x].options
  <2>1. x \in Products /\ n \in Countries /\ cache[x].age \in 0..TTL /\ since[x][n] <= cache[x].age
    BY DEF CheckoutInv, CoverageInv
  <2>2. since'[x][n] = since[x][n] \/ since'[x][n] = 0
    BY <1>4, <2>1
  <2> QED  BY <1>0, <2>1, <2>2
<1>10. CoverageInv'
  BY <1>1, <1>6, <1>7, <1>8, <1>9 DEF CheckoutInv, CoverageInv, asked
<1> QED  BY <1>1, <1>2, <1>10, EditKeeps

\* Time passes for an answer as it does for what it says.
LEMMA TickKeeps ==
    ASSUME CheckoutInv, Tick
    PROVE  CheckoutInv'
<1>0. TTL \in Nat
  BY ProcurementAssumption
<1>1. /\ UNCHANGED <<code, service, partner, coverage, inflight, checkout, orders, edits>>
      /\ code' = code /\ pc' = pc /\ job' = job /\ coverage' = coverage /\ inflight' = inflight
  BY DEF Tick, checkout
<1>2. DocumentInv' /\ OrderInv'
  BY <1>1 DEF CheckoutInv, DocumentInv, OrderInv
<1>3. JobInv'
  BY <1>1, JobsRest DEF CheckoutInv
<1>4. \A x \in Products, n \in Countries :
         since[x][n] \in 0..TTL /\ Capped(since[x][n]) \in 0..TTL
            /\ Capped(since[x][n]) = IF since[x][n] < TTL THEN since[x][n] + 1 ELSE TTL
  BY CappedIs DEF CheckoutInv, CoverageInv
<1>5. \A x \in Products, n \in Countries :
         since'[x][n] = IF n \in coverage[x] THEN 0 ELSE Capped(since[x][n])
  BY DEF Tick
<1>6. since' \in [Products -> [Countries -> 0..TTL]]
  <2>1. \A x \in Products, n \in Countries :
          (IF n \in coverage[x] THEN 0 ELSE Capped(since[x][n])) \in 0..TTL
    BY <1>0, <1>4
  <2>2. since' = [x \in Products |-> [n \in Countries |->
                    IF n \in coverage[x] THEN 0 ELSE Capped(since[x][n])]]
    BY DEF Tick
  <2> QED  BY <2>1, <2>2
<1>7. \A x \in DOMAIN cache :
        /\ cache[x] \in [options : SUBSET Countries, age : 0..TTL] /\ cache[x].age \in 0..TTL
        /\ Capped(cache[x].age) \in 0..TTL
        /\ Capped(cache[x].age) = IF cache[x].age < TTL THEN cache[x].age + 1 ELSE TTL
  BY CappedIs DEF CheckoutInv, CoverageInv
<1>8. /\ DOMAIN cache' = DOMAIN cache
      /\ \A x \in DOMAIN cache : cache'[x] = [cache[x] EXCEPT !.age = Capped(cache[x].age)]
  BY DEF Tick
<1>9. \A x \in DOMAIN cache :
        /\ cache'[x] \in [options : SUBSET Countries, age : 0..TTL]
        /\ cache'[x].options = cache[x].options /\ cache'[x].age = Capped(cache[x].age)
  BY <1>7, <1>8
<1>10. \A x \in DOMAIN cache : \A n \in cache[x].options : since'[x][n] <= Capped(cache[x].age)
  <2> TAKE x \in DOMAIN cache
  <2> TAKE n \in cache[x].options
  <2>1. x \in Products /\ n \in Countries /\ since[x][n] <= cache[x].age
    BY DEF CheckoutInv, CoverageInv
  <2>2. since'[x][n] = 0 \/ since'[x][n] = Capped(since[x][n])
    BY <1>5, <2>1
  <2> QED  BY <1>0, <1>4, <1>7, <2>1, <2>2
<1>11. CoverageInv'
  <2>1. \A x \in Products : \A n \in coverage'[x] : since'[x][n] = 0
    BY <1>1, <1>5 DEF CheckoutInv, CoverageInv
  <2> QED  BY <1>1, <1>6, <1>8, <1>9, <1>10, <2>1 DEF CheckoutInv, CoverageInv
<1> QED  BY <1>2, <1>3, <1>11 DEF CheckoutInv

LEMMA RestartKeeps ==
    ASSUME CheckoutInv, Restart
    PROVE  CheckoutInv'
<1>1. /\ UNCHANGED <<code, service, partner, provider, orders>> /\ code' = code
      /\ cache' = <<>> /\ inflight' = {}
      /\ pc' = [b \in Buyers |-> "idle"] /\ job' = [b \in Buyers |-> NoJob]
  BY DEF Restart
<1>2. DocumentInv'
  BY <1>1 DEF CheckoutInv, DocumentInv
<1>3. CoverageInv'
  <2>1. DOMAIN cache' = {}
    BY <1>1
  <2> QED  BY <1>1, <2>1 DEF CheckoutInv, CoverageInv, provider
<1>4. JobInv'
  BY <1>1 DEF JobInv, JobAt, NoJob, Jobs
<1>5. OrderInv'
  <2>0. MaxEdits \in Nat
    BY ProcurementAssumption
  <2>1. edits' \in 0..MaxEdits
    BY <2>0 DEF Restart, Edit, CheckoutInv, OrderInv
  <2> QED  BY <1>1, <2>1 DEF CheckoutInv, OrderInv
<1> QED  BY <1>2, <1>3, <1>4, <1>5 DEF CheckoutInv

LEMMA CheckoutKeeps == ASSUME CheckoutInv, [Next]_vars PROVE CheckoutInv'
<1>1. ASSUME NEW b \in Buyers,
             \/ \E r \in Checkouts : ReadService(b, r)
             \/ ReadPartner(b) \/ SelectNow(b) \/ SelectKept(b) \/ SelectAsks(b)
             \/ Sell(b) \/ Refuse(b)
      PROVE  CheckoutInv'
  BY <1>1, ReadServiceKeeps, PartnerKeeps, SelectNowKeeps, SelectKeptKeeps, SelectAsksKeeps,
     SellKeeps, RefuseKeeps
<1>2. ASSUME NEW k \in Products, CoverageAnswers(k) \/ CoverageFails(k) PROVE CheckoutInv'
  BY <1>2, AnswersKeep, FailsKeeps
<1>3. ASSUME NEW i \in 1..Len(orders), Dispatch(i) \/ FollowUp(i) PROVE CheckoutInv'
  BY <1>3, DispatchKeeps, FollowUpKeeps
<1>4. CASE \/ \E c \in ServiceConfigs : UpdateService(c)
           \/ \E p \in PartnerConfigs : UpdatePartner(p)
           \/ ToggleStatus \/ DeleteService
  BY <1>4, ServiceKeeps
<1>5. ASSUME NEW k \in Products, NEW S \in SUBSET Countries, ChangeCoverage(k, S)
      PROVE  CheckoutInv'
  BY <1>5, ChangeKeepsCoverage
<1>6. CASE Tick \/ Restart
  BY <1>6, TickKeeps, RestartKeeps
<1>7. CASE UNCHANGED vars
  <2>1. /\ UNCHANGED <<code, service, partner, provider, cache, orders, edits>> /\ code' = code
        /\ inflight' \subseteq Products /\ pc' = pc /\ job' = job
    BY <1>7 DEF vars, provider, asked, checkout, CheckoutInv, CoverageInv
  <2>2. JobInv'
    BY <2>1, JobsRest DEF CheckoutInv
  <2> QED  BY <2>1, <2>2, JobsOnly
<1> QED  BY <1>1, <1>2, <1>3, <1>4, <1>5, <1>6, <1>7 DEF Next

LEMMA CheckoutAlways == Spec => []CheckoutInv
  BY CheckoutInit, CheckoutKeeps, PTL DEF Spec

LEMMA CheckedHolds == CheckoutInv => CheckedIsBought
<1> SUFFICES ASSUME CheckoutInv PROVE CheckedIsBought
  OBVIOUS
<1>1. TypeOK
  BY CheckoutTypes
<1> QED  BY <1>1 DEF CheckedIsBought, CheckoutInv, OrderInv

\* A country that a checkout settles on, of the countries the provider covers.
LEMMA SettledIsCovered ==
    ASSUME CheckoutInv, NEW b \in Buyers, NEW B \in SUBSET Buyers, b \in B,
           pc[b] \in {"select", "coverage"}, NeedsCoverage(job[b]),
           NEW options \in SUBSET Countries, Settle(B, options), pc'[b] = "check",
           \A n \in options : since[Package(job[b])][n] < TTL
    PROVE  LET q == job'[b].params IN
              /\ since[PackageSold(q)][q.country] < TTL
              /\ job[b].service.sales = "allowlist" => q.country \in job[b].service.allowed
<1> DEFINE c == job[b].service
           p == job[b].partner
           r == job[b].request
           q == BuyParams(c, p, r, options)
           n == Pick(OnSale(c, options), r.country)
<1>1. /\ c \in ServiceConfigs /\ r \in Checkouts /\ Priced(c, r) /\ Resolves(c, r)
      /\ job[b] \in Jobs
  BY DEF CheckoutInv, JobInv, JobAt
<1>2. IsService(c)
  BY <1>1, Documents
<1>3. Source(c, p) = "api" /\ CanList(c, p, r)
  BY DEF NeedsCoverage
<1>4. code = "gpnip" /\ PackageId(c, r) # None
  BY <1>3 DEF CanList
<1>5. Settles(job[b], options) /\ job'[b] = [job[b] EXCEPT !.params = q]
  BY DEF Settle
<1>6. n # None
  <2>1. ~Refused(c, p, r, options)
    BY <1>5 DEF Settles
  <2> QED  BY <1>3, <2>1 DEF Refused
<1>7. n \in options /\ (c.sales = "allowlist" => n \in c.allowed)
  BY <1>2, <1>6, PickOnSale
<1>8. q.country = n /\ q.product = ResolveProduct(c, r)
  BY <1>3 DEF BuyParams
<1>9. q.configured
  <2>1. ~IsConfigured(c, r) => Adopts(c, p, r)
    BY <1>3, <1>4 DEF Adopts, HasPolicy, DerivesProduct, ByIsp
  <2> QED  BY <1>4, <2>1 DEF BuyParams
<1>10. PackageSold(q) = Package(job[b])
  BY <1>8, <1>9 DEF PackageSold, Package, PackageId
<1>11. job'[b].params = q
  <2> HIDE DEF q
  <2> QED  BY <1>1, <1>5 DEF Jobs
<1> QED  BY <1>7, <1>8, <1>10, <1>11

\* The step of CountryIsCovered.
CountryStep ==
    \A b \in Buyers :
        /\ pc[b] # "check" /\ pc'[b] = "check" /\ Source(job[b].service, job[b].partner) = "api"
        => LET q == job'[b].params IN
            /\ since[PackageSold(q)][q.country] < TTL
            /\ job[b].service.sales = "allowlist" => q.country \in job[b].service.allowed

LEMMA CountryAt == ASSUME CheckoutInv, [Next]_vars PROVE CountryStep
<1> SUFFICES ASSUME NEW b \in Buyers, pc[b] # "check", pc'[b] = "check",
                    Source(job[b].service, job[b].partner) = "api"
             PROVE  LET q == job'[b].params IN
                      /\ since[PackageSold(q)][q.country] < TTL
                      /\ job[b].service.sales = "allowlist"
                            => q.country \in job[b].service.allowed
  BY DEF CountryStep
<1>0. TTL \in Nat /\ TTL > 0 /\ pc \in [Buyers -> {"idle", "partner", "select", "coverage", "check"}]
  BY ProcurementAssumption DEF CheckoutInv, JobInv
<1>1. \/ SelectNow(b) \/ SelectKept(b)
      \/ \E k \in Products : CoverageAnswers(k) /\ b \in Waiting(k)
  <2>1. pc' # pc
    OBVIOUS
  <2>2. ASSUME NEW d \in Buyers,
               \/ \E r \in Checkouts : ReadService(d, r)
               \/ ReadPartner(d) \/ SelectAsks(d) \/ Sell(d) \/ Refuse(d)
        PROVE  FALSE
    BY <1>0, <2>2 DEF ReadService, ReadPartner, SelectAsks, Sell, Refuse, Give
  <2>3. ASSUME NEW d \in Buyers, SelectNow(d) PROVE SelectNow(b)
    BY <1>0, <2>3 DEF SelectNow, Settle, Give
  <2>4. ASSUME NEW d \in Buyers, SelectKept(d) PROVE SelectKept(b)
    BY <1>0, <2>4 DEF SelectKept, Settle
  <2>5. ASSUME NEW k \in Products, CoverageAnswers(k) PROVE b \in Waiting(k)
    BY <1>0, <2>5 DEF CoverageAnswers, Settle
  <2>6. ASSUME NEW k \in Products, CoverageFails(k) PROVE FALSE
    BY <1>0, <2>6 DEF CoverageFails
  <2>7. ~Restart
    BY <1>0 DEF Restart
  <2>8. ASSUME UNCHANGED checkout PROVE FALSE
    BY <2>1, <2>8 DEF checkout
  <2>9. /\ ~Tick /\ ~ToggleStatus /\ ~DeleteService /\ ~UNCHANGED vars
        /\ \A c \in ServiceConfigs : ~UpdateService(c)
        /\ \A p \in PartnerConfigs : ~UpdatePartner(p)
        /\ \A k \in Products, S \in SUBSET Countries : ~ChangeCoverage(k, S)
        /\ \A i \in 1..Len(orders) : ~Dispatch(i) /\ ~FollowUp(i)
    BY <2>8 DEF Tick, ToggleStatus, DeleteService, vars, UpdateService, UpdatePartner,
                ChangeCoverage, Dispatch, FollowUp
  <2> QED  BY <2>2, <2>3, <2>4, <2>5, <2>6, <2>7, <2>9 DEF Next
<1>2. CASE SelectNow(b)
  <2>1. ~CanList(job[b].service, job[b].partner, job[b].request)
    BY <1>2 DEF SelectNow, NeedsCoverage
  <2>2. Give(b)
    BY <1>2, <2>1 DEF SelectNow
  <2> QED  BY <1>0, <2>2 DEF Give
<1>3. CASE SelectKept(b)
  <2>1. /\ pc[b] = "select" /\ NeedsCoverage(job[b]) /\ Package(job[b]) \in DOMAIN cache
        /\ cache[Package(job[b])].age < TTL
        /\ Settle({b}, cache[Package(job[b])].options)
    BY <1>3 DEF SelectKept, IsKept
  <2>2. /\ cache[Package(job[b])].options \in SUBSET Countries
        /\ \A n \in cache[Package(job[b])].options :
              since[Package(job[b])][n] <= cache[Package(job[b])].age
        /\ cache[Package(job[b])].age \in 0..TTL /\ Package(job[b]) \in Products
        /\ \A n \in Countries : since[Package(job[b])][n] \in 0..TTL
    BY <2>1 DEF CheckoutInv, CoverageInv
  <2>3. \A n \in cache[Package(job[b])].options : since[Package(job[b])][n] < TTL
    BY <1>0, <2>1, <2>2
  <2>4. {b} \in SUBSET Buyers /\ b \in {b} /\ pc[b] \in {"select", "coverage"}
    BY <2>1
  <2> QED  BY <2>1, <2>2, <2>3, <2>4, SettledIsCovered
<1>4. ASSUME NEW k \in Products, CoverageAnswers(k), b \in Waiting(k)
      PROVE  LET q == job'[b].params IN
               /\ since[PackageSold(q)][q.country] < TTL
               /\ job[b].service.sales = "allowlist" => q.country \in job[b].service.allowed
  <2>1. pc[b] = "coverage" /\ Package(job[b]) = k /\ Settle(Waiting(k), coverage[k])
    BY <1>4 DEF Waiting, CoverageAnswers
  <2>2. NeedsCoverage(job[b])
    BY <2>1 DEF CheckoutInv, JobInv, JobAt
  <2>3. coverage[k] \in SUBSET Countries /\ \A n \in coverage[k] : since[k][n] = 0
    BY DEF CheckoutInv, CoverageInv
  <2>4. \A n \in coverage[k] : since[Package(job[b])][n] < TTL
    BY <1>0, <2>1, <2>3
  <2> QED  BY <1>4, <2>1, <2>2, <2>3, <2>4, WaitingAre, SettledIsCovered
<1> QED  BY <1>1, <1>2, <1>3, <1>4

\* What a worker sends, and a later call names, is what the checkout had checked, whatever became
\* of the service in between (processOrder, refetchProxies).
THEOREM CheckedAreBought == Spec => []CheckedIsBought
  BY CheckoutAlways, CheckedHolds, PTL

\* A country picked from the provider's list was covered by the package to be bought less than TTL
\* ago, whoever else asked the question, kept the answer or waits for it (select, resolve).
THEOREM CountriesAreCovered == Spec => CountryIsCovered
<1>1. CheckoutInv /\ [Next]_vars => [CountryStep]_vars
  BY CountryAt
<1> QED  BY <1>1, CheckoutAlways, PTL DEF Spec, CountryIsCovered, CountryStep

-----------------------------------------------------------------------------
(* The quote of a service sold by the gigabyte.                            *)

\* The larger of zero and a number.
LEMMA MaxZero ==
    ASSUME NEW x \in Int
    PROVE  Max({0, x}) = IF x <= 0 THEN 0 ELSE x
<1>1. \E m \in {0, x} : \A n \in {0, x} : m >= n
  OBVIOUS
<1>2. Max({0, x}) \in {0, x} /\ \A n \in {0, x} : Max({0, x}) >= n
  BY <1>1 DEF Max
<1> QED  BY <1>2

\* The list shows what a plan costs (applyUserDiscount, resolvePricing).
LEMMA PlanListed ==
    ASSUME NEW p \in Nat, NEW d \in Nat
    PROVE  ListedPrice(p, d) = PlanPrice(p, d)
<1>1. Max({0, p - d}) = IF p - d <= 0 THEN 0 ELSE p - d
  BY MaxZero
<1>2. Min({p, d}) = IF p <= d THEN p ELSE d
  BY MinPair
<1> QED  BY <1>1, <1>2 DEF ListedPrice, PlanPrice

\* Without a discount gigabytes cost the price of their tier.
LEMMA FullPrice ==
    ASSUME NEW c, Table(c), NEW gb \in Nat, TierAt(c, gb) \in Tiers(c)
    PROVE  TierPrice(c, gb, 0) = gb * c.tiers[TierAt(c, gb)][2]
<1> DEFINE p == c.tiers[TierAt(c, gb)][2]
<1>1. p \in Nat
  BY TierRows
<1>2. Min({p, 0}) = 0
  BY <1>1, MinPair
<1>3. TierPrice(c, gb, 0) = gb * (p - Min({p, 0}))
  BY DEF TierPrice, TierOf
<1>4. p - Min({p, 0}) = p
  BY <1>1, <1>2
<1> QED  BY <1>3, <1>4

\* Where a tier is followed by another, the next one is there and begins no later.
LEMMA NextIs ==
    ASSUME NEW c, Table(c), NEW i \in Tiers(c), NEW m \in Tiers(c), Before(c, i, m)
    PROVE  \E j \in NextTier(c, i) : c.tiers[j][1] <= c.tiers[m][1]
<1> DEFINE S == {j \in Tiers(c) : Before(c, i, j)}
<1>1. S \in SUBSET Tiers(c) /\ S # {}
  OBVIOUS
<1>2. PICK j \in S : \A k \in S : ~Before(c, k, j)
  <2> HIDE DEF S
  <2> QED  BY <1>1, FirstTier
<1>3. j \in NextTier(c, i)
  BY <1>2 DEF NextTier
<1>4. ~Before(c, m, j) /\ j \in Tiers(c)
  BY <1>2
<1>5. c.tiers[j][1] \in Nat /\ c.tiers[m][1] \in Nat
  BY <1>4, TierRows
<1> QED  BY <1>3, <1>4, <1>5 DEF Before

\* One row of a quote holds the gigabytes: that of their tier (quoteBandwidth).
LEMMA OneRow ==
    ASSUME NEW c, Table(c), NEW gb \in Nat, CanSellGb(c, gb)
    PROVE  \A i \in Tiers(c) :
              (c.tiers[i][1] <= gb /\ \A j \in NextTier(c, i) : gb <= c.tiers[j][1] - 1)
              <=> i = TierAt(c, gb)
<1> DEFINE m == TierAt(c, gb)
<1>1. m \in Tiers(c) /\ c.tiers[m][1] <= gb
      /\ \A j \in Tiers(c) : c.tiers[j][1] <= gb => ~Before(c, m, j)
  BY TierFound
<1>2. ASSUME NEW j \in NextTier(c, m) PROVE gb <= c.tiers[j][1] - 1
  <2>1. j \in Tiers(c) /\ Before(c, m, j)
    BY DEF NextTier
  <2>2. ~(c.tiers[j][1] <= gb) /\ c.tiers[j][1] \in Nat
    BY <1>1, <2>1, TierRows
  <2> QED  BY <2>2
<1>3. ASSUME NEW i \in Tiers(c), c.tiers[i][1] <= gb, i # m,
             \A j \in NextTier(c, i) : gb <= c.tiers[j][1] - 1
      PROVE  FALSE
  <2>1. Before(c, i, m)
    BY <1>1, <1>3, TierRows
  <2>2. PICK j \in NextTier(c, i) : c.tiers[j][1] <= c.tiers[m][1]
    BY <1>1, <2>1, NextIs
  <2>3. j \in Tiers(c)
    BY DEF NextTier
  <2>4. c.tiers[j][1] \in Nat /\ c.tiers[m][1] \in Nat
    BY <1>1, <2>3, TierRows
  <2>5. c.tiers[j][1] <= gb /\ gb <= c.tiers[j][1] - 1
    BY <1>1, <1>3, <2>2, <2>4
  <2> QED  BY <2>4, <2>5
<1> HIDE DEF m
<1>4. m = TierAt(c, gb)
  BY DEF m
<1> QED  BY <1>1, <1>2, <1>3, <1>4

\* At its least GB a tier is in force, if it is the only one that begins there.
LEMMA TierAtLeast ==
    ASSUME NEW c, Table(c), Distinct(c), NEW j \in Tiers(c)
    PROVE  TierAt(c, c.tiers[j][1]) = j
<1> DEFINE gb == c.tiers[j][1]
           Fits(i) == /\ c.tiers[i][1] <= gb
                      /\ \A k \in Tiers(c) : c.tiers[k][1] <= gb => ~Before(c, i, k)
<1>1. gb \in Nat
  BY TierRows
<1>2. Fits(j)
  <2>1. gb <= gb
    BY <1>1
  <2>2. ASSUME NEW k \in Tiers(c), c.tiers[k][1] <= gb, Before(c, j, k) PROVE FALSE
    <3>1. c.tiers[k][1] \in Nat /\ j # k
      BY <2>2, TierRows
    <3>2. c.tiers[k][1] # gb
      BY <3>1 DEF Distinct
    <3> QED  BY <1>1, <2>2, <3>1, <3>2 DEF Before
  <2> QED  BY <2>1, <2>2
<1>3. \A i \in Tiers(c) : Fits(i) => i = j
  BY <1>2, TierRows
<1>4. TierAt(c, gb) = CHOOSE i \in Tiers(c) : Fits(i)
  BY DEF TierAt
<1> HIDE DEF Fits, gb
<1>5. TierAt(c, gb) = j
  BY <1>2, <1>3, <1>4
<1> QED  BY <1>5 DEF gb

\* What a quote says of gigabytes that can be sold (quoteBandwidth).
LEMMA QuoteHolds ==
    ASSUME NEW c, Table(c), NEW gb \in Nat, CanSellGb(c, gb)
    PROVE  LET rows == QuoteRows(c, gb)
               holds == {i \in DOMAIN rows : /\ rows[i].from <= gb
                                             /\ \A last \in rows[i].to : gb <= last}
           IN  /\ Cardinality(holds) = 1
               /\ \A i \in holds :
                     rows[i].active /\ TierPrice(c, gb, 0) = gb * rows[i].price
               /\ Distinct(c) =>
                     \A h \in QuoteHints(c, gb) : TierPrice(c, h.from, 0) = h.total
<1> DEFINE rows == QuoteRows(c, gb)
           m == TierAt(c, gb)
           holds == {i \in DOMAIN rows : /\ rows[i].from <= gb
                                         /\ \A last \in rows[i].to : gb <= last}
<1>1. /\ DOMAIN rows = Tiers(c)
      /\ \A i \in Tiers(c) :
            /\ rows[i].from = c.tiers[i][1]
            /\ rows[i].to = {c.tiers[j][1] - 1 : j \in NextTier(c, i)}
            /\ rows[i].price = c.tiers[i][2]
            /\ rows[i].active = (c.tiers[i][1] = TierOf(c, gb)[1])
  BY DEF QuoteRows
<1>2. m \in Tiers(c)
  BY TierFound
<1> HIDE DEF rows
<1>3. holds = {m}
  <2>1. \A i \in Tiers(c) :
           (rows[i].from <= gb /\ \A last \in rows[i].to : gb <= last) <=> i = m
    BY <1>1, OneRow
  <2> QED  BY <1>1, <1>2, <2>1
<1>4. Cardinality(holds) = 1
  BY <1>3, FS_Singleton
<1>5. rows[m].active /\ TierPrice(c, gb, 0) = gb * rows[m].price
  <2>1. TierPrice(c, gb, 0) = gb * c.tiers[m][2] /\ TierOf(c, gb) = c.tiers[m]
    BY <1>2, FullPrice DEF TierOf
  <2>2. rows[m].active = (c.tiers[m][1] = TierOf(c, gb)[1]) /\ rows[m].price = c.tiers[m][2]
    BY <1>1, <1>2
  <2>3. rows[m].active
    BY <2>1, <2>2
  <2> HIDE DEF m
  <2> QED  BY <2>1, <2>2, <2>3
<1>6. ASSUME Distinct(c), NEW h \in QuoteHints(c, gb) PROVE TierPrice(c, h.from, 0) = h.total
  <2>1. PICK j \in Tiers(c) : h = [from |-> c.tiers[j][1], total |-> c.tiers[j][1] * c.tiers[j][2]]
    BY DEF QuoteHints
  <2>2. TierAt(c, c.tiers[j][1]) = j /\ c.tiers[j][1] \in Nat
    BY <1>6, TierAtLeast, TierRows
  <2>3. TierPrice(c, c.tiers[j][1], 0) = c.tiers[j][1] * c.tiers[j][2]
    BY <2>2, FullPrice
  <2> QED  BY <2>1, <2>3
<1> QED  BY <1>3, <1>4, <1>5, <1>6 DEF rows

\* A saved service has a table and prices, open or closed.
LEMMA ServiceSaved ==
    ASSUME DocumentInv, service # Deleted
    PROVE  Table(service) /\ service.plans \in [DOMAIN service.plans -> Nat]
<1>1. PICK c \in ServiceConfigs : service = c \/ service = [c EXCEPT !.open = FALSE]
  BY DEF DocumentInv
<1>2. IsService(c)
  BY DocumentAssumption
<1>3. c \in [DOMAIN c -> {c[x] : x \in DOMAIN c}] /\ {"tiers", "plans", "open"} \subseteq DOMAIN c
  BY <1>2 DEF IsService
<1>4. service.tiers = c.tiers /\ service.plans = c.plans
  BY <1>1, <1>3
<1> QED  BY <1>2, <1>4 DEF IsService, Table

\* The customer pays what was shown: list, rows and hint.
LEMMA QuotedHolds == CheckoutInv => QuotedAsSold
<1> SUFFICES ASSUME CheckoutInv, service # Deleted PROVE QuotedAsSold
  BY DEF QuotedAsSold
<1>1. Table(service) /\ service.plans \in [DOMAIN service.plans -> Nat]
  BY ServiceSaved DEF CheckoutInv
<1>2. \A k \in DOMAIN service.plans, d \in 0..6 :
         ListedPrice(service.plans[k], d) = PlanPrice(service.plans[k], d)
  BY <1>1, PlanListed
<1>3. \A gb \in {gb \in 1..service.maxGb : CanSellGb(service, gb)} :
         gb \in Nat /\ CanSellGb(service, gb)
  OBVIOUS
<1> QED  BY <1>1, <1>2, <1>3, QuoteHolds DEF QuotedAsSold

\* A customer pays what the list shows, and each number of gigabytes costs what its one row, and
\* the hint of the next tier, say, whatever tables of tiers were saved (quoteBandwidth).
THEOREM QuotesAreSold == Spec => []QuotedAsSold
  BY CheckoutAlways, QuotedHolds, PTL

-----------------------------------------------------------------------------
(* The adapters: what holds of a call under way, of the calls made, and of *)
(* the requests that were given up.                                        *)

Paid  == Adapter!Paid
Units == Adapter!Units

\* Once the provider has to be asked: the order as it is billed, its package, and what the
\* preflight compared (preflightBuy, createOrder).
Fits == Adapter!PackageFits(sold, request, Adapter!Body(request))

Compared ==
    /\ Adapter!BodyAccepted(request) /\ Fits /\ Adapter!QuoteFits(sold, Adapter!Body(request))

Placeable == Adapter!Accepted(request) /\ (adapter = "gpnip" => cleared)

SessionInv ==
    /\ adapter \in Adapters /\ request \in Adapter!Requests(adapter)
    /\ sold \in Adapter!Packages \cup {Adapter!NoPackage}

\* Which requests each call makes; what is left of a renewal proxy by proxy.
ControlInv ==
    /\ op \in {"none", "preflight", "buy", "fetch", "renew", "extend", "edit", "read"}
    /\ op = "none" <=> at = "none"
    /\ op = "preflight" <=> at \in {"package", "stock", "price"}
    /\ op = "buy" <=> at \in {"order", "attached"}
    /\ op = "fetch" <=> at \in {"detail", "list", "page"}
    /\ op = "renew" => at \in {"preview", "reference", "one", "all", "commit"}
    /\ at \in {"preview", "reference", "one", "all"} => op = "renew"
    /\ at = "reference" => adapter = "proxyseller"
    /\ op \in {"extend", "edit"} => at = "commit"
    /\ at = "commit" => op \in {"renew", "extend", "edit"}
    /\ tries \in 0..2 /\ page \in 1..MaxPages /\ failed \in BOOLEAN
    /\ left \in SUBSET (1..held) /\ done \in SUBSET (1..held) /\ left \cap done = {}
    /\ at \notin {"one", "all"} => left = {} /\ done = {}
    /\ op = "renew" /\ adapter \notin Adapter!WholeOrder => held > 0

Asking == [asked : Int, days : Int]

Fine(t) == t \in Asking /\ IF adapter = "omoproxy" THEN Adapter!CloseTo(t.days, t.asked)
                           ELSE t.days = t.asked

\* What was, is or may still be bought or renewed was billed.
FigureInv ==
    /\ cleared \in BOOLEAN /\ (cleared => Compared)
    /\ op = "preflight" => ~cleared /\ Adapter!BodyAccepted(request) /\ adapter = "gpnip"
    /\ at \in {"stock", "price"} => Fits
    /\ op = "buy" => Placeable
    /\ bought \in Seq({Adapter!Asks(request)}) /\ (bought # <<>> => Placeable)
    /\ terms \in Asking /\ (op = "renew" /\ at # "preview" => Fine(terms))
    /\ \A t \in renewed : Fine(t)
    /\ \A l \in late : /\ l.op = "buy" => Placeable
                       /\ l.op = "renew" => Fine(l.terms)

\* What a listing hands out, and what the shop and the provider have.
ListingInv ==
    /\ id \in {"none", "usable", "unusable"} /\ named \in BOOLEAN
    /\ {held, ready, seen, served} \subseteq 0..MaxQuantity
    /\ ready <= request.quantity /\ held <= ready
    /\ id = "none" => held = 0 /\ ready = 0 /\ served = 0 /\ ~named
    /\ named => id = "usable"
    /\ at = "order" => id = "none"
    /\ served = 0 \/ (seen <= served /\ served <= ready)
    /\ op = "fetch" => served = 0 /\ seen <= ready /\ (adapter = "proxyvn" => seen <= held)

Called == [state : {"open", "returned", "threw"}, spent : [Units -> {0, 1}],
           claimed : SUBSET Units]

Current == calls[Len(calls)]

Spent(i) == {u \in Units : calls[i].spent[u] = 1}

\* The last call is open while it is under way, and it alone; nothing was charged twice.
CallsInv ==
    /\ calls \in Seq(Called) /\ Len(calls) <= MaxCalls
    /\ op \in Paid => calls # <<>>
    /\ \A i \in DOMAIN calls :
          /\ calls[i].state = "open" <=> i = Len(calls) /\ op \in Paid
          /\ calls[i].state = "open" => calls[i].claimed = {}

Given == [call : Nat, op : Paid, units : SUBSET Units, terms : Asking]

\* A request that was given up asks for what was not done, and no other one asks for it.
LateInv ==
    /\ late \in SUBSET Given
    /\ \A l \in late : l.call \in DOMAIN calls /\ l.units # {} /\ l.units \cap Spent(l.call) = {}
    /\ \A l, m \in late : l # m /\ l.call = m.call => l.units \cap m.units = {}

\* The call under way has not done, nor given up, what it is about to ask for.
OpenInv ==
    op \in Paid =>
        /\ \A l \in late : l.call = Len(calls) => at = "one" /\ l.units \cap left = {}
        /\ at \in {"order", "commit", "preview", "reference"} => Spent(Len(calls)) = {}
        /\ at \in {"one", "all"} => left \cap Spent(Len(calls)) = {} /\ done \subseteq Spent(Len(calls))
        /\ at = "attached" => 0 \in Spent(Len(calls))

AdapterInv ==
    SessionInv /\ ControlInv /\ FigureInv /\ ListingInv /\ CallsInv /\ LateInv /\ OpenInv

-----------------------------------------------------------------------------
(* What a purchase asks for is what was billed.                            *)

LEMMA AdapterNumbers ==
    /\ MaxQuantity \in Nat \ {0} /\ Gigabytes \in Nat \ {0} /\ PageSize \in Nat \ {0}
    /\ MaxPages \in Nat \ {0} /\ MaxCalls \in Nat \ {0}
    /\ Days \subseteq Nat \ {0} /\ TierDays \subseteq Nat \ {0}
    /\ MaxQuantity <= PageSize * MaxPages /\ Adapters \subseteq Adapter!Registered
<1>1. Adapter!AdapterAssumption
  BY SupplyAssumption
<1> QED  BY <1>1 DEF Adapter!AdapterAssumption

LEMMA RequestIs ==
    ASSUME SessionInv
    PROVE  /\ request.quantity \in 1..MaxQuantity /\ request.days \in Nat
           /\ request.mode \in {"duration", "bandwidth"} /\ request.configured \in BOOLEAN
           /\ request.mode = "bandwidth" => /\ adapter = "gpnip" /\ request.quantity = 1
                                            /\ request.gb = Gigabytes
           /\ request.mode # "bandwidth" => request.days # 0 /\ request.gb = 0
           /\ request.configured => adapter \in {"gpnip", "proxyseller", "proxyv6"}
           /\ request.gb \in Nat
<1>1. request \in [mode : {"duration", "bandwidth"}, quantity : 1..MaxQuantity,
                   days : Days \cup {0}, gb : {0, Gigabytes},
                   template : Adapter!Templates[adapter], mapped : BOOLEAN,
                   configured : BOOLEAN, country : {Adapter!Anywhere, "us"}]
  BY DEF SessionInv, Adapter!Requests
<1>2. /\ IF request.mode = "bandwidth"
         THEN adapter = "gpnip" /\ request.quantity = 1 /\ request.gb = Gigabytes
         ELSE request.days # 0 /\ request.gb = 0
      /\ request.configured => adapter \in {"gpnip", "proxyseller", "proxyv6"}
  BY DEF SessionInv, Adapter!Requests
<1>3. /\ request.quantity \in 1..MaxQuantity /\ request.days \in Days \cup {0}
      /\ request.mode \in {"duration", "bandwidth"} /\ request.configured \in BOOLEAN
      /\ request.gb \in {0, Gigabytes}
  BY <1>1
<1>4. request.days \in Nat
  <2>1. \A d \in Days : d \in Nat
    BY AdapterNumbers
  <2>2. request.days \in Days \/ request.days = 0
    BY <1>3
  <2> QED  BY <2>1, <2>2
<1>5. request.gb \in Nat
  BY <1>3, AdapterNumbers
<1> QED  BY <1>2, <1>3, <1>4, <1>5

LEMMA SoldIs ==
    ASSUME SessionInv
    PROVE  sold.static \in BOOLEAN /\ (sold.static => sold.mode = "time")
<1>1. Adapter!NoPackage.static = FALSE
  BY DEF Adapter!NoPackage
<1>2. \A m : /\ [Adapter!NoPackage EXCEPT !.mode = m].static = FALSE
             /\ \A d : [Adapter!NoPackage EXCEPT !.mode = "fixed", !.days = d].static = FALSE
  BY DEF Adapter!NoPackage
<1>3. ASSUME NEW p \in Adapter!Packages PROVE p.static \in BOOLEAN /\ (p.static => p.mode = "time")
  <2> DEFINE A == {[Adapter!NoPackage EXCEPT !.mode = m] :
                      m \in {"tiered_per_gb", "per_ip", "time", "other"}}
             B == {[Adapter!NoPackage EXCEPT !.mode = "fixed", !.days = d] : d \in Days}
             C == [mode : {"time"}, static : {TRUE}, days : {0}, periods : (SUBSET Days) \ {{}},
                   listed : BOOLEAN]
  <2>1. p \in (A \cup B) \cup C
    BY DEF Adapter!Packages
  <2>2. CASE p \in A
    BY <1>2, <2>2
  <2>3. CASE p \in B
    <3>1. PICK d \in Days : p = [Adapter!NoPackage EXCEPT !.mode = "fixed", !.days = d]
      BY <2>3
    <3> QED  BY <1>2, <3>1
  <2>4. CASE p \in C
    BY <2>4
  <2> HIDE DEF A, B, C
  <2> QED  BY <2>1, <2>2, <2>3, <2>4
<1> QED  BY <1>1, <1>3 DEF SessionInv

\* The fields of GPNIP's body, one by one (buildOrderBody).
LEMMA BodyIs ==
    ASSUME NEW r, r.days \in Nat
    PROVE  LET b == Adapter!Body(r) IN
           /\ "gb" \in DOMAIN b.top <=> r.mode = "bandwidth"
           /\ "gb" \in DOMAIN b.top => b.top["gb"] = r.gb
           /\ Adapter!IsStatic(r) =>
                /\ "ips" \notin DOMAIN b.top
                /\ "ips" \in DOMAIN b.options => b.options["ips"] = r.quantity
                /\ "period" \in DOMAIN b.options /\ b.options["period"] = r.days
                /\ "country" \in DOMAIN b.options <=> Adapter!Country(r) # "any"
                /\ "country" \in DOMAIN b.options => b.options["country"] = Adapter!Country(r)
           /\ ~Adapter!IsStatic(r) =>
                /\ DOMAIN b.options = {}
                /\ "ips" \in DOMAIN b.top => b.top["ips"] = r.quantity
                /\ "duration" \in DOMAIN b.top <=> r.days > 0
                /\ "duration" \in DOMAIN b.top => b.top["duration"] = r.days
                /\ "country" \in DOMAIN b.top <=> Adapter!Country(r) # "any"
                /\ "country" \in DOMAIN b.top => b.top["country"] = Adapter!Country(r)
<1> DEFINE fields == {f \in {"ips", "period", "country", "gb", "duration"} :
                        CASE f = "ips" -> f \in r.template
                          [] f = "period" -> Adapter!IsStatic(r)
                          [] f = "country" -> Adapter!Country(r) # "any"
                          [] f = "gb" -> r.mode = "bandwidth"
                          [] f = "duration" -> ~Adapter!IsStatic(r) /\ r.days > 0}
           value == [ips |-> r.quantity, period |-> r.days, country |-> Adapter!Country(r),
                     gb |-> r.gb, duration |-> r.days]
           nested == IF Adapter!IsStatic(r) THEN {"ips", "period", "country"} ELSE {}
           top == [f \in fields \ nested |-> value[f]]
           options == [f \in fields \cap nested |-> value[f]]
<1>1. Adapter!Body(r) = [top |-> top, options |-> options]
  BY DEF Adapter!Body, Adapter!Anywhere
<1>2. /\ "ips" \in fields <=> "ips" \in r.template
      /\ "period" \in fields <=> Adapter!IsStatic(r)
      /\ "country" \in fields <=> Adapter!Country(r) # "any"
      /\ "gb" \in fields <=> r.mode = "bandwidth"
      /\ "duration" \in fields <=> ~Adapter!IsStatic(r) /\ r.days > 0
  OBVIOUS
<1>3. /\ value["ips"] = r.quantity /\ value["period"] = r.days /\ value["gb"] = r.gb
      /\ value["country"] = Adapter!Country(r) /\ value["duration"] = r.days
  OBVIOUS
<1>4. /\ DOMAIN top = fields \ nested /\ \A f \in fields \ nested : top[f] = value[f]
      /\ DOMAIN options = fields \cap nested /\ \A f \in fields \cap nested : options[f] = value[f]
  OBVIOUS
<1>6. Adapter!IsStatic(r) => nested = {"ips", "period", "country"}
  OBVIOUS
<1>7. ~Adapter!IsStatic(r) => nested = {}
  OBVIOUS
<1> HIDE DEF fields, value, top, options, nested
<1>5. Adapter!Body(r).top = top /\ Adapter!Body(r).options = options
  BY <1>1
<1> QED  BY <1>2, <1>3, <1>4, <1>5, <1>6, <1>7

\* GPNIP delivers what was billed once the preflight has compared it (preflightBuy).
LEMMA ComparedIsBilled ==
    ASSUME SessionInv, adapter = "gpnip", Compared
    PROVE  LET o == Adapter!Delivers(sold, Adapter!Body(request)) IN
           /\ o.quantity = request.quantity
           /\ Adapter!TemplateFits => o.days = request.days
           /\ request.mode = "bandwidth" => o.gb = request.gb
           /\ request.configured /\ Adapter!TemplateFits => o.country = request.country
<1> DEFINE b == Adapter!Body(request)
           o == Adapter!Delivers(sold, b)
<1>0. /\ request.quantity \in Nat \ {0} /\ request.days \in Nat
      /\ request.mode # "bandwidth" => request.days # 0
      /\ Adapter!TemplateFits => (Adapter!IsStatic(request) => sold.static)
      /\ sold.static => sold.mode = "time"
  BY RequestIs, SoldIs, AdapterNumbers DEF Adapter!TemplateFits
<1>1. Adapter!PackageFits(sold, request, b) /\ Adapter!QuoteFits(sold, b)
  BY DEF Compared, Fits
<1>2. request.configured => Adapter!Country(request) = request.country
  BY DEF Adapter!Country
<1>3. CASE sold.static
  <2>1. /\ request.mode # "bandwidth"
        /\ Adapter!Field(b.options, "ips", 0) = request.quantity
        /\ Adapter!Field(b.options, "period", 0) = request.days
    BY <1>1, <1>3 DEF Adapter!PackageFits
  <2>2. "ips" \in DOMAIN b.options /\ "period" \in DOMAIN b.options
    BY <1>0, <2>1 DEF Adapter!Field, Adapter!Has
  <2>3. Adapter!IsStatic(request)
    BY <1>0, <2>2, BodyIs
  <2>4. b.options.period \in sold.periods
    BY <1>1, <1>3 DEF Adapter!QuoteFits
  <2>5. b.options.ips = request.quantity /\ b.options.period = request.days
    BY <2>1, <2>2 DEF Adapter!Field, Adapter!Has
  <2>6. /\ o.quantity = Adapter!Field(b.options, "ips", 1)
        /\ o.days = IF Adapter!Field(b.options, "period", 0) \in sold.periods
                    THEN b.options.period ELSE 30
        /\ o.country = Adapter!Field(b.options, "country", "any")
    BY <1>0, <1>3 DEF Adapter!Delivers, Adapter!Anywhere
  <2>7. o.quantity = request.quantity /\ o.days = request.days
    BY <2>1, <2>2, <2>4, <2>5, <2>6 DEF Adapter!Field, Adapter!Has
  <2>8. o.country = Adapter!Country(request)
    BY <1>0, <2>3, <2>6, BodyIs DEF Adapter!Field, Adapter!Has
  <2> QED  BY <1>2, <2>1, <2>7, <2>8
<1>4. CASE ~sold.static
  <2>1. Adapter!TemplateFits => ~Adapter!IsStatic(request)
    BY <1>0, <1>4
  <2>2. /\ sold.mode \in {"tiered_per_gb", "per_ip", "time", "fixed"}
        /\ (sold.mode = "tiered_per_gb") = (request.mode = "bandwidth")
        /\ sold.mode = "fixed" => sold.days = request.days
        /\ sold.mode = "per_ip" => "ips" \in DOMAIN b.top
        /\ sold.mode # "per_ip" => request.quantity = 1
    BY <1>1, <1>4 DEF Adapter!PackageFits, Adapter!Has
  <2>3. /\ o.quantity = IF sold.mode = "per_ip" THEN Adapter!Field(b.top, "ips", 1) ELSE 1
        /\ o.days = IF sold.mode = "fixed" THEN sold.days ELSE Adapter!Field(b.top, "duration", 0)
        /\ o.gb = IF sold.mode = "tiered_per_gb" THEN Adapter!Field(b.top, "gb", 0) ELSE 0
        /\ o.country = Adapter!Field(b.top, "country", "any")
    BY <1>4 DEF Adapter!Delivers, Adapter!Anywhere
  <2>4. Adapter!TemplateFits => Adapter!Field(b.top, "duration", 0) = request.days
    BY <1>0, <2>1, BodyIs DEF Adapter!Field, Adapter!Has
  <2>5. Adapter!TemplateFits => Adapter!Field(b.top, "country", "any") = Adapter!Country(request)
    BY <1>0, <2>1, BodyIs DEF Adapter!Field, Adapter!Has
  <2>6. sold.mode = "per_ip" => Adapter!Field(b.top, "ips", 1) = request.quantity
    <3>1. sold.mode = "per_ip" => ~Adapter!IsStatic(request)
      BY <1>0, <2>2, BodyIs
    <3> QED  BY <1>0, <2>2, <3>1, BodyIs DEF Adapter!Field, Adapter!Has
  <2>7. request.mode = "bandwidth" => Adapter!Field(b.top, "gb", 0) = request.gb
    BY <1>0, BodyIs DEF Adapter!Field, Adapter!Has
  <2> QED  BY <1>2, <2>2, <2>3, <2>4, <2>5, <2>6, <2>7
<1> QED  BY <1>0, <1>3, <1>4, SoldIs

\* What any adapter asks for is what was billed.
LEMMA AskedIsBilled ==
    ASSUME SessionInv, Placeable, cleared => Compared
    PROVE  LET o == Adapter!Asks(request) IN
           /\ ~Adapter!Decided => o.quantity = request.quantity
           /\ ~Adapter!Decided /\ Adapter!TemplateFits => o.days = request.days
           /\ request.mode = "bandwidth" => o.gb = request.gb
           /\ request.configured /\ Adapter!TemplateFits => o.country = request.country
<1>1. CASE adapter = "gpnip"
  <2>1. Compared
    BY <1>1 DEF Placeable
  <2>2. Adapter!Asks(request) = Adapter!Delivers(sold, Adapter!Body(request))
    BY <1>1 DEF Adapter!Asks
  <2> QED  BY <1>1, <2>1, <2>2, ComparedIsBilled
<1>2. CASE adapter # "gpnip"
  <2>1. request.mode # "bandwidth"
    BY <1>2, RequestIs
  <2>2. request.configured => adapter \in {"proxyseller", "proxyv6"}
    BY <1>2, RequestIs
  <2>3. CASE adapter = "omoproxy"
    BY <2>1, <2>2, <2>3 DEF Adapter!Decided
  <2>4. CASE adapter = "proxysieutoc"
    BY <2>1, <2>2, <2>4 DEF Adapter!Decided
  <2>5. CASE adapter = "proxyseller"
    BY <2>1, <2>2, <2>5 DEF Adapter!Decided, Adapter!Asks, Adapter!ProxysellerAsks, Adapter!Billed
  <2>6. CASE adapter = "proxyv6"
    BY <2>1, <2>6 DEF Adapter!Asks, Adapter!ProxyV6Asks, Adapter!Billed
  <2>7. CASE adapter = "homeproxy"
    BY <2>1, <2>2, <2>7 DEF Adapter!Asks, Adapter!HomeproxyAsks, Adapter!Billed
  <2>8. CASE adapter = "twoproxy"
    BY <2>1, <2>2, <2>8 DEF Adapter!Asks, Adapter!TwoProxyAsks, Adapter!Billed
  <2>9. CASE adapter = "proxyvn"
    BY <2>1, <2>2, <2>9 DEF Adapter!Asks, Adapter!ProxyvnAsks, Adapter!Billed
  <2> QED  BY <2>3, <2>4, <2>5, <2>6, <2>7, <2>8, <2>9, <1>2, AdapterNumbers DEF SessionInv, Adapter!Registered
<1> QED  BY <1>1, <1>2

-----------------------------------------------------------------------------
(* What a step does to the calls made and to the requests given up.        *)

\* The calls, once the last one has spent U more, is in state s and claims C.
Updated(U, s, C) ==
    [calls EXCEPT ![Len(calls)] =
        [state |-> s, spent |-> [u \in Units |-> IF u \in U THEN 1 ELSE Current.spent[u]],
         claimed |-> C]]

\* A step of the last call: it spends U, and gives up the requests in N.
Ended(U, s, C, N) ==
    /\ op \in Paid /\ U \in SUBSET Units /\ U \cap Spent(Len(calls)) = {}
    /\ s \in {"open", "returned", "threw"}
    /\ C \in SUBSET (U \cup Spent(Len(calls))) /\ (s # "returned" => C = {})
    /\ calls' = Updated(U, s, C) /\ (op' \in Paid <=> s = "open")
    /\ late' = late \cup N /\ N \in SUBSET Given
    /\ \A l \in N : /\ l.call = Len(calls) /\ l.units # {}
                    /\ l.units \cap (U \cup Spent(Len(calls))) = {}
    /\ \A l, m \in N : l # m => l.units \cap m.units = {}
    /\ \A l \in late : l.call = Len(calls) =>
          l.units \cap U = {} /\ \A m \in N : l.units \cap m.units = {}

\* A call that has spent something else.
LEMMA CalledSpent ==
    ASSUME NEW c \in Called, NEW f
    PROVE  [c EXCEPT !.spent = f] = [state |-> c.state, spent |-> f, claimed |-> c.claimed]
  BY DEF Called

\* A call in another state that has spent something else.
LEMMA CalledThrew ==
    ASSUME NEW c \in Called, NEW s, NEW f
    PROVE  [c EXCEPT !.state = s, !.spent = f] = [state |-> s, spent |-> f, claimed |-> c.claimed]
<1> DEFINE e == [c EXCEPT !.state = s]
           r == [state |-> s, spent |-> c.spent, claimed |-> c.claimed]
<1>1. [c EXCEPT !.state = s, !.spent = f] = [e EXCEPT !.spent = f]
  OBVIOUS
<1>2. e = r
  BY DEF Called
<1>3. [r EXCEPT !.spent = f] = [state |-> s, spent |-> f, claimed |-> c.claimed]
  OBVIOUS
<1> HIDE DEF r
<1>4. [e EXCEPT !.spent = f] = [r EXCEPT !.spent = f]
  BY <1>2
<1> HIDE DEF e
<1> QED  BY <1>1, <1>3, <1>4

\* A call in another state that claims something else.
LEMMA CalledReturned ==
    ASSUME NEW c \in Called, NEW s, NEW C
    PROVE  [c EXCEPT !.state = s, !.claimed = C] = [state |-> s, spent |-> c.spent, claimed |-> C]
<1> DEFINE e == [c EXCEPT !.state = s]
           r == [state |-> s, spent |-> c.spent, claimed |-> c.claimed]
<1>1. [c EXCEPT !.state = s, !.claimed = C] = [e EXCEPT !.claimed = C]
  OBVIOUS
<1>2. e = r
  BY DEF Called
<1>3. [r EXCEPT !.claimed = C] = [state |-> s, spent |-> c.spent, claimed |-> C]
  OBVIOUS
<1> HIDE DEF r
<1>4. [e EXCEPT !.claimed = C] = [r EXCEPT !.claimed = C]
  BY <1>2
<1> HIDE DEF e
<1> QED  BY <1>1, <1>3, <1>4

LEMMA SpentIs ==
    ASSUME CallsInv, NEW i \in DOMAIN calls
    PROVE  /\ calls[i] \in Called /\ i \in 1..Len(calls) /\ Len(calls) \in Nat
           /\ calls[i].spent \in [Units -> {0, 1}]
           /\ \A u \in Units : u \notin Spent(i) => calls[i].spent[u] = 0
<1>1. calls[i] \in Called /\ i \in 1..Len(calls) /\ Len(calls) \in Nat
  BY DEF CallsInv
<1>2. calls[i].spent \in [Units -> {0, 1}]
  BY <1>1 DEF Called
<1> QED  BY <1>1, <1>2 DEF Spent

\* Charging a call with what it has not spent.
LEMMA ChargedIs ==
    ASSUME CallsInv, NEW i \in DOMAIN calls, NEW U \in SUBSET Units, U \cap Spent(i) = {}
    PROVE  /\ Adapter!Charged(calls, i, U) =
                [calls EXCEPT ![i].spent = [u \in Units |-> IF u \in U THEN 1 ELSE calls[i].spent[u]]]
           /\ Len(Adapter!Charged(calls, i, U)) = Len(calls)
<1>0. calls \in Seq(Called)
  BY DEF CallsInv
<1>1. \A u \in U : calls[i].spent[u] = 0
  BY SpentIs
<1>2. [u \in Units |-> IF u \in U THEN calls[i].spent[u] + 1 ELSE calls[i].spent[u]]
        = [u \in Units |-> IF u \in U THEN 1 ELSE calls[i].spent[u]]
  BY <1>1
<1>3. Adapter!Charged(calls, i, U) =
        [calls EXCEPT ![i].spent =
            [u \in Units |-> IF u \in U THEN calls[i].spent[u] + 1 ELSE calls[i].spent[u]]]
  BY DEF Adapter!Charged, Units
<1>4. Adapter!Charged(calls, i, U) =
        [calls EXCEPT ![i].spent = [u \in Units |-> IF u \in U THEN 1 ELSE calls[i].spent[u]]]
  BY <1>2, <1>3
<1>5. \A f : Len([calls EXCEPT ![i].spent = f]) = Len(calls)
  BY <1>0
<1> QED  BY <1>4, <1>5

\* What Charged and Over do to the call under way.
LEMMA StepIs ==
    ASSUME CallsInv, op \in Paid, NEW U \in SUBSET Units, U \cap Spent(Len(calls)) = {},
           NEW s, NEW C
    PROVE  /\ Len(calls) \in DOMAIN calls
           /\ Adapter!Charged(calls, Len(calls), U) = Updated(U, "open", {})
           /\ Adapter!Over(Adapter!Charged(calls, Len(calls), U), s, C) = Updated(U, s, C)
           /\ Adapter!Over(calls, s, C) = Updated({}, s, C)
<1>0. /\ calls \in Seq(Called) /\ Len(calls) \in DOMAIN calls /\ Len(calls) \in Nat
      /\ Current \in Called /\ Current.state = "open" /\ Current.claimed = {}
      /\ Len(calls) > 0
  BY DEF CallsInv, Current
<1> DEFINE k == Len(calls)
           f == [u \in Units |-> IF u \in U THEN 1 ELSE Current.spent[u]]
           new == Adapter!Charged(calls, k, U)
           c == [Current EXCEPT !.spent = f]
           r == [state |-> s, spent |-> f, claimed |-> C]
           q == [state |-> s, spent |-> Current.spent, claimed |-> C]
<1>1. new = [calls EXCEPT ![k].spent = f] /\ Len(new) = k
  BY <1>0, ChargedIs DEF Current
<1>2. new = [calls EXCEPT ![k] = c]
  BY <1>1 DEF Current
<1>3. Current.spent = [u \in Units |-> IF u \in {} THEN 1 ELSE Current.spent[u]]
  BY <1>0 DEF Called
<1>4. f \in [Units -> {0, 1}]
  BY <1>0 DEF Called
<1> HIDE DEF f
<1>5. c = [state |-> "open", spent |-> f, claimed |-> {}]
  BY <1>0, CalledSpent
<1>6. c \in Called /\ c.spent = f
  BY <1>4, <1>5 DEF Called
<1>7. new[k] = c
  BY <1>0, <1>2
<1> HIDE DEF c
<1>8. [c EXCEPT !.state = s, !.claimed = C] = r
  <2>1. [c EXCEPT !.state = s, !.claimed = C] = [state |-> s, spent |-> c.spent, claimed |-> C]
    BY <1>6, CalledReturned, Zenon
  <2> QED  BY <1>6, <2>1
<1>9. [Current EXCEPT !.state = s, !.claimed = C] = q
  BY <1>0, CalledReturned, Zenon
<1>10. Adapter!Over(new, s, C) = [new EXCEPT ![k].state = s, ![k].claimed = C]
  BY <1>1 DEF Adapter!Over, Paid
<1>11. Adapter!Over(calls, s, C) = [calls EXCEPT ![k].state = s, ![k].claimed = C]
  BY DEF Adapter!Over, Paid
<1>12. [calls EXCEPT ![k].state = s, ![k].claimed = C]
          = [calls EXCEPT ![k] = [Current EXCEPT !.state = s, !.claimed = C]]
  BY <1>0 DEF Current
<1> HIDE DEF new, r, q
<1>13. [new EXCEPT ![k].state = s, ![k].claimed = C]
          = [new EXCEPT ![k] = [c EXCEPT !.state = s, !.claimed = C]]
  BY <1>0, <1>2, <1>7
<1>14. [new EXCEPT ![k] = r] = [calls EXCEPT ![k] = r]
  BY <1>0, <1>2
<1>15. Adapter!Charged(calls, k, U) = Updated(U, "open", {})
  BY <1>2, <1>5 DEF Updated, f, new
<1>16. Adapter!Over(new, s, C) = [calls EXCEPT ![k] = r]
  BY <1>8, <1>10, <1>13, <1>14
<1>17. Adapter!Over(calls, s, C) = [calls EXCEPT ![k] = q]
  BY <1>9, <1>11, <1>12
<1>18. Updated(U, s, C) = [calls EXCEPT ![k] = r]
  BY DEF Updated, r, f
<1>19. Updated({}, s, C) = [calls EXCEPT ![k] = q]
  BY <1>3 DEF Updated, q
<1> QED  BY <1>0, <1>15, <1>16, <1>17, <1>18, <1>19 DEF new

\* A step of the last call keeps the calls and the requests given up in order, and is a step
\* that the contract allows.
LEMMA EndedKeeps ==
    ASSUME CallsInv, LateInv, NEW U, NEW s, NEW C, NEW N, Ended(U, s, C, N)
    PROVE  /\ CallsInv' /\ LateInv' /\ [Adapter!Contract!Next]_calls
           /\ Len(calls') = Len(calls) /\ Spent(Len(calls))' = Spent(Len(calls)) \cup U
<1> DEFINE k == Len(calls)
           f == [u \in Units |-> IF u \in U THEN 1 ELSE Current.spent[u]]
           r == [state |-> s, spent |-> f, claimed |-> C]
<1>0. /\ calls \in Seq(Called) /\ k \in DOMAIN calls /\ k \in Nat /\ Len(calls) <= MaxCalls
      /\ Current \in Called /\ Current.state = "open" /\ Current.claimed = {} /\ k > 0
      /\ DOMAIN calls = 1..k
  BY DEF CallsInv, Current, Ended
<1>1. /\ U \in SUBSET Units /\ U \cap Spent(k) = {} /\ s \in {"open", "returned", "threw"}
      /\ C \in SUBSET (U \cup Spent(k)) /\ (s # "returned" => C = {})
      /\ op' \in Paid <=> s = "open"
  BY DEF Ended
<1>2. calls' = [calls EXCEPT ![k] = r]
  BY DEF Ended, Updated
<1>3. Spent(k) \in SUBSET Units /\ C \in SUBSET Units
  BY <1>1 DEF Spent
<1>4. f \in [Units -> {0, 1}] /\ {u \in Units : f[u] = 1} = Spent(k) \cup U
  BY <1>0, <1>1 DEF Called, Spent, Current
<1>5. \A u \in U : Current.spent[u] = 0
  BY <1>0, <1>1 DEF Called, Spent, Current
<1> HIDE DEF f
<1>6. r \in Called /\ r.state = s /\ r.spent = f /\ r.claimed = C
  BY <1>1, <1>3, <1>4 DEF Called
<1> HIDE DEF r
<1>7. /\ calls' \in Seq(Called) /\ Len(calls') = k /\ DOMAIN calls' = DOMAIN calls
      /\ \A i \in DOMAIN calls : calls'[i] = IF i = k THEN r ELSE calls[i]
  BY <1>0, <1>2, <1>6
<1>8. CallsInv'
  <2>1. op' \in Paid => calls' # <<>>
    BY <1>0, <1>7
  <2>2. \A i \in DOMAIN calls :
          /\ calls'[i].state = "open" <=> i = k /\ op' \in Paid
          /\ calls'[i].state = "open" => calls'[i].claimed = {}
    BY <1>1, <1>6, <1>7 DEF CallsInv, Ended
  <2>3. Paid' = Paid
    BY DEF Paid, Adapter!Paid
  <2> QED  BY <1>0, <1>7, <2>1, <2>2, <2>3 DEF CallsInv
<1>9. \A i \in DOMAIN calls : {u \in Units : calls'[i].spent[u] = 1} = IF i = k THEN Spent(k) \cup U ELSE Spent(i)
  BY <1>4, <1>6, <1>7 DEF Spent
<1>10. \A i \in DOMAIN calls : Spent(i)' = IF i = k THEN Spent(k) \cup U ELSE Spent(i)
  BY <1>9 DEF Spent, Units, Adapter!Units
<1>11. LateInv'
  <2>1. /\ late' = late \cup N /\ N \in SUBSET Given
        /\ \A l \in N : l.call = k /\ l.units # {} /\ l.units \cap (U \cup Spent(k)) = {}
        /\ \A l, m \in N : l # m => l.units \cap m.units = {}
        /\ \A l \in late : l.call = k => l.units \cap U = {} /\ \A m \in N : l.units \cap m.units = {}
    BY DEF Ended
  <2>2. /\ late \in SUBSET Given
        /\ \A l \in late : l.call \in DOMAIN calls /\ l.units # {} /\ l.units \cap Spent(l.call) = {}
        /\ \A l, m \in late : l # m /\ l.call = m.call => l.units \cap m.units = {}
    BY DEF LateInv
  <2>3. late' \in SUBSET Given'
    BY <2>1, <2>2 DEF Given, Paid, Adapter!Paid, Units, Adapter!Units, Asking
  <2>4. ASSUME NEW l \in late'
        PROVE  l.call \in DOMAIN calls' /\ l.units # {} /\ l.units \cap Spent(l.call)' = {}
    <3>1. CASE l \in N
      <4>1. Spent(l.call)' = Spent(k) \cup U
        BY <1>0, <1>10, <2>1, <3>1
      <4> QED  BY <1>0, <1>7, <2>1, <3>1, <4>1
    <3>2. CASE l \in late
      <4>1. Spent(l.call)' = IF l.call = k THEN Spent(k) \cup U ELSE Spent(l.call)
        BY <1>10, <2>2, <3>2
      <4> QED  BY <1>7, <2>1, <2>2, <3>2, <4>1
    <3> QED  BY <2>1, <3>1, <3>2
  <2>5. ASSUME NEW l \in late', NEW m \in late', l # m, l.call = m.call
        PROVE  l.units \cap m.units = {}
    <3>1. CASE l \in N /\ m \in N
      BY <2>1, <2>5, <3>1
    <3>2. CASE l \in late /\ m \in late
      BY <2>2, <2>5, <3>2
    <3>3. CASE l \in late /\ m \in N
      BY <2>1, <2>5, <3>3
    <3>4. CASE l \in N /\ m \in late
      BY <2>1, <2>5, <3>4
    <3> QED  BY <2>1, <3>1, <3>2, <3>3, <3>4
  <2> QED  BY <2>3, <2>4, <2>5 DEF LateInv
<1>12. [Adapter!Contract!Next]_calls
  <2>0. Adapter!Contract!Open /\ calls[Len(calls)] = Current
    BY <1>0 DEF Adapter!Contract!Open, Current
  <2>1. [u \in Adapter!Units |-> IF u \in U THEN 1 ELSE Current.spent[u]] = f
    BY DEF f, Units
  <2>2. {u \in Adapter!Units : calls[Len(calls)].spent[u] = 1} = Spent(k)
    BY DEF Spent, Units
  <2>3. CASE s = "open" /\ U # {}
    <3>1. r = [Current EXCEPT !.spent = f]
      <4>1. [Current EXCEPT !.spent = f]
              = [state |-> Current.state, spent |-> f, claimed |-> Current.claimed]
        BY <1>0, CalledSpent, Zenon
      <4> QED  BY <1>0, <1>1, <2>3, <4>1 DEF r
    <3>2. calls' = [calls EXCEPT ![k].spent = f]
      BY <1>0, <1>2, <3>1 DEF Current
    <3>3. U \in (SUBSET Adapter!Units) \ {{}} /\ \A u \in U : calls[k].spent[u] = 0
      BY <1>1, <1>5, <2>3 DEF Current, Units
    <3>4. calls' = [calls EXCEPT ![k].spent =
                      [u \in Adapter!Units |-> IF u \in U THEN 1 ELSE calls[k].spent[u]]]
      BY <2>1, <3>2 DEF Current
    <3>5. Adapter!Contract!Spend(k)
      BY <3>3, <3>4 DEF Adapter!Contract!Spend
    <3>6. k \in 1..Len(calls)
      BY <1>0
    <3> QED  BY <3>5, <3>6 DEF Adapter!Contract!Next
  <2>4. CASE s = "open" /\ U = {}
    <3>1. f = Current.spent
      BY <1>0, <2>4 DEF f, Called
    <3>2. r = Current
      BY <1>0, <1>1, <2>4, <3>1 DEF r, Called
    <3>3. calls' = calls
      BY <1>0, <1>2, <3>2 DEF Current
    <3> QED  BY <3>3
  <2>5. CASE s = "returned" /\ U = {}
    <3>1. f = Current.spent
      BY <1>0, <2>5 DEF f, Called
    <3>2. r = [Current EXCEPT !.state = "returned", !.claimed = C]
      <4>1. [Current EXCEPT !.state = "returned", !.claimed = C]
              = [state |-> "returned", spent |-> Current.spent, claimed |-> C]
        BY <1>0, CalledReturned, Zenon
      <4>2. r = [state |-> "returned", spent |-> Current.spent, claimed |-> C]
        BY <2>5, <3>1 DEF r
      <4> QED  BY <4>1, <4>2, Zenon
    <3>3. calls' = [calls EXCEPT ![k].state = "returned", ![k].claimed = C]
      BY <1>0, <1>2, <3>2 DEF Current
    <3>4. C \in SUBSET {u \in Adapter!Units : calls[Len(calls)].spent[u] = 1}
      BY <1>1, <2>2, <2>5
    <3>5. Adapter!Contract!Return
      BY <2>0, <3>3, <3>4 DEF Adapter!Contract!Return
    <3> QED  BY <3>5 DEF Adapter!Contract!Next
  <2>6. CASE s = "returned" /\ U # {}
    <3>1. r = [state |-> "returned", claimed |-> C,
               spent |-> [u \in Adapter!Units |-> IF u \in U THEN 1 ELSE Current.spent[u]]]
      BY <2>1, <2>6 DEF r
    <3>2. U \in (SUBSET Adapter!Units) \ {{}} /\ \A u \in U : Current.spent[u] = 0
      BY <1>1, <1>5, <2>6 DEF Units
    <3>3. C \in SUBSET (U \cup {u \in Adapter!Units : Current.spent[u] = 1})
      BY <1>1, <2>0, <2>2
    <3>4. Adapter!Contract!SpendAndReturn
      BY <1>2, <2>0, <3>1, <3>2, <3>3 DEF Adapter!Contract!SpendAndReturn
    <3> QED  BY <3>4 DEF Adapter!Contract!Next
  <2>7. CASE s = "threw"
    <3>1. r = [Current EXCEPT !.state = "threw", !.spent = f]
      <4>1. [Current EXCEPT !.state = "threw", !.spent = f]
              = [state |-> "threw", spent |-> f, claimed |-> Current.claimed]
        BY <1>0, CalledThrew, Zenon
      <4>2. r = [state |-> "threw", spent |-> f, claimed |-> Current.claimed]
        BY <1>0, <1>1, <2>7 DEF r
      <4> QED  BY <4>1, <4>2, Zenon
    <3>2. calls' = [calls EXCEPT ![k].state = "threw", ![k].spent = f]
      BY <1>0, <1>2, <3>1 DEF Current
    <3>3. calls' = [calls EXCEPT ![k].state = "threw", ![k].spent =
                      [u \in Adapter!Units |-> IF u \in U THEN 1 ELSE calls[k].spent[u]]]
      BY <2>1, <3>2 DEF Current
    <3>4. U \in SUBSET {u \in Adapter!Units : calls[Len(calls)].spent[u] = 0}
      BY <1>1, <1>5, <2>0 DEF Units
    <3>5. Adapter!Contract!Throw
      BY <2>0, <3>3, <3>4 DEF Adapter!Contract!Throw
    <3> QED  BY <3>5 DEF Adapter!Contract!Next
  <2> QED  BY <1>1, <2>3, <2>4, <2>5, <2>6, <2>7
<1>13. Spent(Len(calls))' = Spent(k) \cup U
  BY <1>0, <1>7, <1>10
<1> QED  BY <1>7, <1>8, <1>11, <1>12, <1>13

-----------------------------------------------------------------------------
(* What most steps of an adapter have in common.                           *)

Kept == AdapterInv' /\ [Adapter!Contract!Next]_calls

LEMMA PaidIs == Paid = {"buy", "renew", "extend", "edit"} /\ Paid' = Paid /\ Units' = Units
  BY DEF Paid, Adapter!Paid, Units, Adapter!Units

LEMMA UnitsAre ==
    ASSUME ListingInv
    PROVE  Units = 0..MaxQuantity /\ 1..held \in SUBSET Units /\ 0 \in Units
<1>1. MaxQuantity \in Nat
  BY AdapterNumbers
<1>2. held \in 0..MaxQuantity
  BY DEF ListingInv
<1> QED  BY <1>1, <1>2 DEF Units, Adapter!Units

LEMMA SessionKeeps ==
    ASSUME SessionInv, UNCHANGED <<adapter, request, sold>>
    PROVE  SessionInv'
  BY DEF SessionInv, Adapter!Requests, Adapter!Templates

LEMMA FigureKeeps ==
    ASSUME FigureInv, UNCHANGED <<adapter, request, sold, cleared>>,
           \/ bought' = bought /\ renewed' = renewed
           \/ \E w : /\ Adapter!Effect(w) /\ (w.op = "buy" => Placeable)
                     /\ w.op = "renew" => Fine(w.terms),
           \A l \in late' : l \in late \/ ((l.op = "buy" => Placeable) /\ (l.op = "renew" => Fine(l.terms))),
           op' = "preflight" => ~cleared /\ Adapter!BodyAccepted(request) /\ adapter = "gpnip",
           at' \in {"stock", "price"} => Fits, op' = "buy" => Placeable,
           terms' \in Asking, op' = "renew" /\ at' # "preview" => Fine(terms')
    PROVE  FigureInv'
<1>1. Placeable' <=> Placeable
  BY DEF Placeable, Adapter!Accepted
<1>2. Fits' <=> Fits
  BY DEF Fits
<1>3. Compared' <=> Compared
  BY <1>2 DEF Compared
<1>4. Adapter!Asks(request)' = Adapter!Asks(request)
  BY DEF Adapter!Asks
<1>5. \A t : Fine(t)' <=> Fine(t)
  BY DEF Fine
<1>6. bought' \in Seq({Adapter!Asks(request)}) /\ (bought' # <<>> => Placeable)
  <2>1. bought \in Seq({Adapter!Asks(request)}) /\ (bought # <<>> => Placeable)
    BY DEF FigureInv
  <2>2. CASE bought' = bought
    BY <2>1, <2>2
  <2>3. CASE \E w : Adapter!Effect(w) /\ (w.op = "buy" => Placeable)
    <3>1. \/ bought' = bought
          \/ bought' = Append(bought, Adapter!Asks(request)) /\ Placeable
      BY <2>3 DEF Adapter!Effect
    <3>2. Append(bought, Adapter!Asks(request)) \in Seq({Adapter!Asks(request)})
      BY <2>1
    <3> QED  BY <2>1, <3>1, <3>2
  <2> QED  BY <2>2, <2>3
<1>7. \A t \in renewed' : Fine(t)
  BY DEF FigureInv, Adapter!Effect
<1>8. \A l \in late' : (l.op = "buy" => Placeable) /\ (l.op = "renew" => Fine(l.terms))
  BY DEF FigureInv
<1>9. cleared' \in BOOLEAN /\ (cleared' => Compared')
  BY <1>3 DEF FigureInv
<1>10. Adapter!BodyAccepted(request)' <=> Adapter!BodyAccepted(request)
  BY DEF Adapter!BodyAccepted
<1> QED  BY <1>1, <1>2, <1>4, <1>5, <1>6, <1>7, <1>8, <1>9, <1>10 DEF FigureInv

LEMMA ListingKeeps ==
    ASSUME ListingInv, UNCHANGED <<adapter, request, id, held, ready, named, seen, served>>,
           op' = "fetch" => op = "fetch", at' = "order" => id = "none"
    PROVE  ListingInv'
  BY DEF ListingInv

LEMMA RestIs ==
    ASSUME AdapterInv, Adapter!Rest
    PROVE  /\ ControlInv' /\ OpenInv' /\ op' = "none" /\ at' = "none" /\ op' \notin Paid
           /\ terms' \in Asking
<1>1. MaxPages \in Nat \ {0}
  BY AdapterNumbers
<1>2. /\ op' = "none" /\ at' = "none" /\ tries' = 0 /\ page' = 1 /\ left' = {} /\ done' = {}
      /\ failed' = FALSE
  BY DEF Adapter!Rest
<1>3. ControlInv'
  <2>1. 0 \in 0..2 /\ 1 \in 1..MaxPages
    BY <1>1
  <2> QED  BY <1>2, <2>1 DEF ControlInv
<1>4. OpenInv'
  BY <1>2, PaidIs DEF OpenInv
<1>5. terms' \in Asking
  BY DEF Adapter!Rest, Adapter!NoTerms, Asking
<1> QED  BY <1>2, <1>3, <1>4, <1>5, PaidIs

LEMMA QuietKeeps ==
    ASSUME CallsInv, LateInv, calls' = calls, late' \in SUBSET late, op' \in Paid <=> op \in Paid
    PROVE  CallsInv' /\ LateInv' /\ [Adapter!Contract!Next]_calls
<1>1. \A i : Spent(i)' = Spent(i)
  BY PaidIs DEF Spent
<1>2. Given' = Given
  BY PaidIs DEF Given, Asking
<1>3. CallsInv'
  BY PaidIs DEF CallsInv, Called
<1>4. LateInv'
  BY <1>1, <1>2 DEF LateInv
<1> QED  BY <1>3, <1>4

\* A call that ends with nothing more done.
LEMMA OverKeeps ==
    ASSUME AdapterInv, NEW s \in {"returned", "threw"}, NEW C, s = "threw" => C = {},
           op \in Paid => C \in SUBSET Spent(Len(calls)), calls' = Adapter!Over(calls, s, C),
           op' \notin Paid, late' = late
    PROVE  CallsInv' /\ LateInv' /\ [Adapter!Contract!Next]_calls
<1>0. CallsInv /\ LateInv
  BY DEF AdapterInv
<1>1. CASE op \notin Paid
  <2>1. calls' = calls
    BY <1>1 DEF Adapter!Over, Paid
  <2> QED  BY <1>0, <1>1, <2>1, QuietKeeps
<1>2. CASE op \in Paid
  <2>1. calls' = Updated({}, s, C)
    BY <1>0, <1>2, StepIs
  <2>2. Ended({}, s, C, {})
    BY <1>2, <2>1 DEF Ended
  <2> QED  BY <1>0, <2>2, EndedKeeps
<1> QED  BY <1>1, <1>2

\* A call that begins has asked for nothing yet.
LEMMA BeginKeeps ==
    ASSUME AdapterInv, NEW o, NEW at1, Adapter!Begin(o, at1), late' = late
    PROVE  /\ CallsInv' /\ LateInv' /\ [Adapter!Contract!Next]_calls
           /\ op = "none" /\ at = "none" /\ op' = o /\ at' = at1
           /\ o \in Paid => Spent(Len(calls))' = {} /\ \A l \in late : l.call # Len(calls')
<1>0. CallsInv /\ LateInv /\ op = "none" /\ at = "none" /\ op' = o /\ at' = at1
  BY DEF AdapterInv, ControlInv, Adapter!Begin, Adapter!Idle
<1>1. CASE o \notin Paid
  <2>1. calls' = calls
    BY <1>1 DEF Adapter!Begin, Paid
  <2> QED  BY <1>0, <1>1, <2>1, PaidIs, QuietKeeps
<1>2. CASE o \in Paid
  <2> DEFINE c == [state |-> "open", spent |-> [u \in Units |-> 0], claimed |-> {}]
             k == Len(calls)
  <2>0. calls \in Seq(Called) /\ k \in Nat /\ DOMAIN calls = 1..k /\ c \in Called
    BY <1>0 DEF CallsInv, Called
  <2>1. k < MaxCalls /\ calls' = Append(calls, c)
    BY <1>2 DEF Adapter!Begin, Paid, Units
  <2>2. c.state = "open" /\ c.claimed = {} /\ \A u \in Units : c.spent[u] = 0
    OBVIOUS
  <2> HIDE DEF c
  <2>3. /\ calls' \in Seq(Called) /\ Len(calls') = k + 1 /\ DOMAIN calls' = 1..(k + 1)
        /\ calls'[k + 1] = c /\ \A i \in 1..k : calls'[i] = calls[i]
    BY <2>0, <2>1
  <2>4. MaxCalls \in Nat
    BY AdapterNumbers
  <2>5. \A i \in 1..k : calls[i].state # "open"
    BY <1>0, <2>0, PaidIs DEF CallsInv
  <2>6. \A i \in DOMAIN calls' :
          /\ calls'[i].state = "open" <=> i = k + 1
          /\ calls'[i].state = "open" => calls'[i].claimed = {}
    <3> TAKE i \in DOMAIN calls'
    <3>1. i = k + 1 \/ (i \in 1..k /\ i # k + 1)
      BY <2>0, <2>3
    <3> QED  BY <2>2, <2>3, <2>5, <3>1
  <2>7. CallsInv'
    <3>1. Len(calls') <= MaxCalls /\ calls' # <<>>
      BY <2>0, <2>1, <2>3, <2>4
    <3> QED  BY <1>0, <1>2, <2>3, <2>6, <3>1, PaidIs DEF CallsInv, Called
  <2>8. Spent(Len(calls))' = {} /\ \A i \in 1..k : Spent(i)' = Spent(i)
    BY <2>2, <2>3, PaidIs DEF Spent
  <2>9. LateInv'
    <3>1. Given' = Given
      BY PaidIs DEF Given, Asking
    <3>2. \A l \in late : l.call \in 1..k
      BY <1>0, <2>0 DEF LateInv
    <3>3. 1..k \subseteq DOMAIN calls'
      BY <2>0, <2>3
    <3> QED  BY <2>8, <3>1, <3>2, <3>3, <1>0 DEF LateInv
  <2>10. [Adapter!Contract!Next]_calls
    <3>1. ~Adapter!Contract!Open
      BY <2>0, <2>5 DEF Adapter!Contract!Open
    <3>2. Adapter!Contract!Called = c
      BY DEF Adapter!Contract!Called, c, Units
    <3> QED  BY <2>1, <3>1, <3>2 DEF Adapter!Contract!Next, Adapter!Contract!Call
  <2>11. \A l \in late : l.call # k + 1
    BY <1>0, <2>0 DEF LateInv
  <2> QED  BY <1>0, <2>3, <2>7, <2>8, <2>9, <2>10, <2>11
<1> QED  BY <1>1, <1>2

\* A call that begins, once what it changes beside the calls is in order.
LEMMA OpensKeeps ==
    ASSUME AdapterInv, NEW o, NEW at1, Adapter!Begin(o, at1), at1 # "attached",
           UNCHANGED <<adapter, request, sold, late, done>>,
           ControlInv', FigureInv', ListingInv'
    PROVE  Kept
<1>1. /\ CallsInv' /\ LateInv' /\ [Adapter!Contract!Next]_calls
      /\ op = "none" /\ at = "none" /\ op' = o /\ at' = at1
      /\ o \in Paid => Spent(Len(calls))' = {} /\ \A l \in late : l.call # Len(calls')
  BY BeginKeeps
<1>2. done' = {}
  BY <1>1 DEF AdapterInv, ControlInv
<1>3. OpenInv'
  <2> SUFFICES ASSUME o \in Paid PROVE OpenInv'
    BY <1>1, PaidIs DEF OpenInv
  <2>1. Spent(Len(calls))' = {}
    BY <1>1
  <2>2. \A l \in late' : l.call # Len(calls')
    BY <1>1
  <2> QED  BY <1>1, <1>2, <2>1, <2>2 DEF OpenInv
<1>4. SessionInv'
  BY SessionKeeps DEF AdapterInv
<1> QED  BY <1>1, <1>3, <1>4 DEF AdapterInv, Kept

\* A call that ends with nothing more done, here or at the provider.
LEMMA EndsKeeps ==
    ASSUME AdapterInv, Adapter!Rest, NEW s \in {"returned", "threw"}, NEW C, s = "threw" => C = {},
           op \in Paid => C \in SUBSET Spent(Len(calls)), calls' = Adapter!Over(calls, s, C),
           UNCHANGED <<adapter, request, sold, cleared, bought, renewed, late>>, ListingInv'
    PROVE  Kept
<1>1. ControlInv' /\ OpenInv' /\ op' = "none" /\ at' = "none" /\ op' \notin Paid /\ terms' \in Asking
  BY RestIs
<1>2. CallsInv' /\ LateInv' /\ [Adapter!Contract!Next]_calls
  BY <1>1, OverKeeps
<1>3. FigureInv'
  BY <1>1, FigureKeeps DEF AdapterInv
<1>4. SessionInv'
  BY SessionKeeps DEF AdapterInv
<1> QED  BY <1>1, <1>2, <1>3, <1>4 DEF AdapterInv, Kept

-----------------------------------------------------------------------------
(* The steps that begin a call.                                            *)

LEMMA ReadingsAre ==
    ASSUME SessionInv, NEW what \in Adapter!Readings[adapter]
    PROVE  what \in {"account", "packages", "orders", "usage", "geo", "coverage"}
<1>1. adapter \in Adapters
  BY DEF SessionInv
<1>2. CASE adapter = "gpnip"
  BY <1>1, <1>2 DEF Adapter!Readings
<1>3. CASE adapter = "omoproxy"
  BY <1>1, <1>3 DEF Adapter!Readings
<1>4. CASE adapter = "homeproxy"
  BY <1>1, <1>4 DEF Adapter!Readings
<1>5. CASE adapter \notin {"gpnip", "omoproxy", "homeproxy"}
  BY <1>1, <1>5 DEF Adapter!Readings
<1> QED  BY <1>2, <1>3, <1>4, <1>5

\* A call that changes nothing else when it begins.
LEMMA PlainKeeps ==
    ASSUME AdapterInv, NEW o, NEW at1, Adapter!Begin(o, at1),
           UNCHANGED <<adapter, request, sold, cleared, id, held, tries, page, left, done, failed,
                       terms, bought, renewed, ready, late, named, seen, served>>,
           \/ /\ o = "preflight" /\ at1 = "package" /\ ~cleared
              /\ Adapter!BodyAccepted(request) /\ adapter = "gpnip"
           \/ o = "buy" /\ at1 = "order" /\ id = "none" /\ Placeable
           \/ o \in {"extend", "edit"} /\ at1 = "commit"
           \/ o = "read" /\ at1 \in {"account", "packages", "orders", "usage", "geo", "coverage"}
    PROVE  Kept
<1>0. op = "none" /\ at = "none" /\ op' = o /\ at' = at1
  BY DEF AdapterInv, ControlInv, Adapter!Begin, Adapter!Idle
<1>1. ControlInv'
  <2>1. left = {} /\ done = {} /\ tries \in 0..2 /\ page \in 1..MaxPages /\ failed \in BOOLEAN
    BY <1>0 DEF AdapterInv, ControlInv
  <2> QED  BY <1>0, <2>1 DEF ControlInv
<1>2. FigureInv'
  <2>1. terms \in Asking
    BY DEF AdapterInv, FigureInv
  <2>2. \A l \in late' : l \in late
    OBVIOUS
  <2>3. /\ op' = "preflight" => ~cleared /\ Adapter!BodyAccepted(request) /\ adapter = "gpnip"
        /\ at' \in {"stock", "price"} => Fits
        /\ op' = "buy" => Placeable
        /\ op' = "renew" /\ at' # "preview" => Fine(terms')
    BY <1>0
  <2> QED  BY <2>1, <2>2, <2>3, FigureKeeps DEF AdapterInv
<1>3. ListingInv'
  BY <1>0, ListingKeeps DEF AdapterInv
<1>4. at1 # "attached"
  OBVIOUS
<1> QED  BY <1>1, <1>2, <1>3, <1>4, OpensKeeps

LEMMA ListingOpens ==
    ASSUME AdapterInv, NEW next \in {"detail", "list", "page"}, NEW n, Adapter!Listing(next, n),
           \/ n = ready /\ adapter # "proxyvn"
           \/ n = held /\ adapter = "proxyvn"
    PROVE  Kept
<1>0. /\ op = "none" /\ at = "none" /\ op' = "fetch" /\ at' = next /\ seen' = n /\ served' = 0
      /\ Adapter!Begin("fetch", next)
      /\ UNCHANGED <<adapter, request, sold, cleared, id, held, tries, page, left, done, failed,
                     terms, bought, renewed, ready, late, named>>
  BY DEF AdapterInv, ControlInv, Adapter!Listing, Adapter!Begin, Adapter!Idle, Adapter!session,
         Adapter!order, Adapter!progress, Adapter!remote
<1>1. ControlInv'
  <2>1. left = {} /\ done = {} /\ tries \in 0..2 /\ page \in 1..MaxPages /\ failed \in BOOLEAN
    BY <1>0 DEF AdapterInv, ControlInv
  <2> QED  BY <1>0, <2>1 DEF ControlInv
<1>2. FigureInv'
  <2>1. terms \in Asking
    BY DEF AdapterInv, FigureInv
  <2>2. \A l \in late' : l \in late
    BY <1>0
  <2> QED  BY <1>0, <2>1, <2>2, FigureKeeps DEF AdapterInv
<1>3. ListingInv'
  <2>1. MaxQuantity \in Nat
    BY AdapterNumbers
  <2>2. n \in 0..MaxQuantity /\ n <= ready /\ (adapter = "proxyvn" => n <= held)
    BY <2>1 DEF AdapterInv, ListingInv
  <2> QED  BY <1>0, <2>1, <2>2 DEF AdapterInv, ListingInv
<1> QED  BY <1>0, <1>1, <1>2, <1>3, OpensKeeps

LEMMA RenewingOpens ==
    ASSUME AdapterInv, NEW d \in Days, NEW next, NEW units, Adapter!Renewing(next, d, units),
           \/ next \in {"preview", "reference", "commit"} /\ units = {}
           \/ next \in {"one", "all"} /\ units = 1..held,
           adapter # "omoproxy" \/ next = "preview", next = "reference" => adapter = "proxyseller"
    PROVE  Kept
<1>0. /\ op = "none" /\ at = "none" /\ op' = "renew" /\ at' = next
      /\ terms' = [asked |-> d, days |-> d] /\ left' = units
      /\ adapter \notin Adapter!WholeOrder => held > 0
      /\ Adapter!Begin("renew", next)
      /\ UNCHANGED <<adapter, request, sold, cleared, id, held, tries, page, done, failed,
                     bought, renewed, ready, late, named, seen, served>>
  BY DEF AdapterInv, ControlInv, Adapter!Renewing, Adapter!Begin, Adapter!Idle, Adapter!session,
         Adapter!order, Adapter!remote, Adapter!history
<1>1. ControlInv'
  <2>1. done = {} /\ tries \in 0..2 /\ page \in 1..MaxPages /\ failed \in BOOLEAN
    BY <1>0 DEF AdapterInv, ControlInv
  <2>2. units \in SUBSET (1..held)
    OBVIOUS
  <2>3. Adapter!WholeOrder' = Adapter!WholeOrder
    BY DEF Adapter!WholeOrder
  <2> QED  BY <1>0, <2>1, <2>2, <2>3 DEF ControlInv
<1>2. FigureInv'
  <2>1. d \in Int
    <3>1. \A e \in Days : e \in Nat
      BY AdapterNumbers
    <3> QED  BY <3>1
  <2>2. terms' \in Asking /\ (adapter # "omoproxy" => Fine(terms'))
    BY <1>0, <2>1 DEF Asking, Fine
  <2>3. \A l \in late' : l \in late
    BY <1>0
  <2> QED  BY <1>0, <2>2, <2>3, FigureKeeps DEF AdapterInv
<1>3. ListingInv'
  BY <1>0, ListingKeeps DEF AdapterInv
<1> QED  BY <1>0, <1>1, <1>2, <1>3, OpensKeeps

\* All the steps by which a call begins.
LEMMA BeginningsKeep ==
    ASSUME AdapterInv,
           \/ Adapter!Preflight \/ Adapter!Buy
           \/ Adapter!FetchDetail \/ Adapter!FetchPages \/ Adapter!FetchList
           \/ Adapter!FetchOrNone \/ Adapter!FetchByIds
           \/ \E d \in Days : \/ Adapter!RenewPriced(d) \/ Adapter!RenewByTier(d)
                              \/ Adapter!RenewByPeriod(d) \/ Adapter!RenewTogether(d)
                              \/ Adapter!RenewInTurn(d) \/ Adapter!RenewAtOnce(d)
                              \/ Adapter!RenewOrder(d)
           \/ Adapter!Extend \/ Adapter!ChangePassword \/ Adapter!SetAllowedIps
           \/ Adapter!Rotate \/ Adapter!Cancel
           \/ Adapter!CheckConnection \/ Adapter!ListPackages \/ Adapter!ListProviderOrders
           \/ Adapter!ListCountries \/ Adapter!FetchUsage \/ Adapter!FetchGeo
    PROVE  Kept
<1>1. CASE Adapter!Preflight
  BY <1>1, PlainKeeps DEF Adapter!Preflight, Adapter!session, Adapter!order, Adapter!progress,
     Adapter!remote, Adapter!history
<1>2. CASE Adapter!Buy
  <2>1. Placeable
    BY <1>2 DEF Adapter!Buy, Placeable
  <2> QED  BY <1>2, <2>1, PlainKeeps DEF Adapter!Buy, Adapter!session, Adapter!order,
           Adapter!progress, Adapter!remote, Adapter!history
<1>3. CASE Adapter!FetchDetail \/ Adapter!FetchPages \/ Adapter!FetchList \/ Adapter!FetchOrNone
  <2>1. PICK next \in {"detail", "list", "page"} : Adapter!Listing(next, ready) /\ adapter # "proxyvn"
    BY <1>3 DEF Adapter!FetchDetail, Adapter!FetchPages, Adapter!FetchList, Adapter!FetchOrNone
  <2> QED  BY <2>1, ListingOpens
<1>4. CASE Adapter!FetchByIds
  BY <1>4, ListingOpens DEF Adapter!FetchByIds
<1>5. ASSUME NEW d \in Days,
             \/ Adapter!RenewPriced(d) \/ Adapter!RenewByTier(d) \/ Adapter!RenewByPeriod(d)
             \/ Adapter!RenewTogether(d) \/ Adapter!RenewInTurn(d) \/ Adapter!RenewAtOnce(d)
             \/ Adapter!RenewOrder(d)
      PROVE  Kept
  <2>1. CASE Adapter!RenewPriced(d)
    BY <2>1, RenewingOpens DEF Adapter!RenewPriced
  <2>2. CASE Adapter!RenewByTier(d)
    BY <2>2, RenewingOpens DEF Adapter!RenewByTier
  <2>3. CASE Adapter!RenewByPeriod(d)
    BY <2>3, RenewingOpens DEF Adapter!RenewByPeriod
  <2>4. CASE Adapter!RenewTogether(d)
    BY <2>4, RenewingOpens DEF Adapter!RenewTogether
  <2>5. CASE Adapter!RenewInTurn(d)
    BY <2>5, RenewingOpens DEF Adapter!RenewInTurn
  <2>6. CASE Adapter!RenewAtOnce(d)
    BY <2>6, RenewingOpens DEF Adapter!RenewAtOnce
  <2>7. CASE Adapter!RenewOrder(d)
    BY <2>7, RenewingOpens DEF Adapter!RenewOrder
  <2> QED  BY <1>5, <2>1, <2>2, <2>3, <2>4, <2>5, <2>6, <2>7
<1>6. CASE Adapter!Extend
  BY <1>6, PlainKeeps DEF Adapter!Extend, Adapter!session, Adapter!order, Adapter!progress,
     Adapter!remote, Adapter!history
<1>7. CASE Adapter!ChangePassword \/ Adapter!SetAllowedIps \/ Adapter!Rotate \/ Adapter!Cancel
  <2>1. PICK S : Adapter!Editing(S)
    BY <1>7 DEF Adapter!ChangePassword, Adapter!SetAllowedIps, Adapter!Rotate, Adapter!Cancel
  <2> QED  BY <2>1, PlainKeeps DEF Adapter!Editing, Adapter!session, Adapter!order,
           Adapter!progress, Adapter!remote, Adapter!history
<1>8. CASE \/ Adapter!CheckConnection \/ Adapter!ListPackages \/ Adapter!ListProviderOrders
           \/ Adapter!ListCountries \/ Adapter!FetchUsage \/ Adapter!FetchGeo
  <2>1. PICK what : Adapter!Reading(what)
    BY <1>8 DEF Adapter!CheckConnection, Adapter!ListPackages, Adapter!ListProviderOrders,
       Adapter!ListCountries, Adapter!FetchUsage, Adapter!FetchGeo
  <2>2. what \in {"account", "packages", "orders", "usage", "geo", "coverage"}
    BY <2>1, ReadingsAre DEF AdapterInv, Adapter!Reading
  <2> QED  BY <2>1, <2>2, PlainKeeps DEF Adapter!Reading, Adapter!session, Adapter!order,
           Adapter!progress, Adapter!remote, Adapter!history
<1> QED  BY <1>1, <1>2, <1>3, <1>4, <1>5, <1>6, <1>7, <1>8

-----------------------------------------------------------------------------
(* The steps of a call that costs nothing.                                 *)

LEMMA ThrowsKeeps ==
    ASSUME AdapterInv, Adapter!Throws,
           UNCHANGED <<adapter, request, sold, cleared, id, held, bought, renewed, ready, late,
                       named, seen, served>>
    PROVE  Kept
<1>1. Adapter!Rest /\ calls' = Adapter!Over(calls, "threw", {}) /\ op' = "none" /\ at' = "none"
  BY DEF Adapter!Throws, Adapter!Rest
<1>2. ListingInv'
  BY <1>1, ListingKeeps DEF AdapterInv
<1> QED  BY <1>1, <1>2, EndsKeeps

LEMMA ReturnsKeeps ==
    ASSUME AdapterInv, NEW C, op \in Paid => C \in SUBSET Spent(Len(calls)), Adapter!Returns(C),
           UNCHANGED <<adapter, request, sold, cleared, id, held, bought, renewed, ready, late,
                       named, seen, served>>
    PROVE  Kept
<1>1. Adapter!Rest /\ calls' = Adapter!Over(calls, "returned", C) /\ op' = "none" /\ at' = "none"
  BY DEF Adapter!Returns, Adapter!Rest
<1>2. ListingInv'
  BY <1>1, ListingKeeps DEF AdapterInv
<1> QED  BY <1>1, <1>2, EndsKeeps

\* A call that costs nothing goes on, to another request or to the same one.
LEMMA ReadsOn ==
    ASSUME AdapterInv, op \in {"preflight", "fetch", "read"}, op' = op,
           \/ at' = at
           \/ op = "preflight" /\ at' \in {"stock", "price"} /\ Fits
           \/ op = "fetch" /\ at' = "list"
           \/ op = "read" /\ at' = "countries",
           tries' \in 0..2, page' \in 1..MaxPages,
           UNCHANGED <<adapter, request, sold, cleared, id, held, left, done, failed, terms, calls,
                       bought, renewed, ready, late, named, seen, served>>
    PROVE  Kept
<1>0. op \notin Paid /\ op' \notin Paid /\ at' # "order"
  BY DEF Paid, Adapter!Paid, AdapterInv, ControlInv
<1>1. ControlInv'
  BY DEF AdapterInv, ControlInv
<1>2. FigureInv'
  <2>1. terms \in Asking
    BY DEF AdapterInv, FigureInv
  <2>2. \A l \in late' : l \in late
    OBVIOUS
  <2>3. /\ op' = "preflight" => ~cleared /\ Adapter!BodyAccepted(request) /\ adapter = "gpnip"
        /\ at' \in {"stock", "price"} => Fits
        /\ op' = "buy" => Placeable
        /\ op' = "renew" /\ at' # "preview" => Fine(terms')
    BY DEF AdapterInv, FigureInv, ControlInv
  <2> QED  BY <2>1, <2>2, <2>3, FigureKeeps DEF AdapterInv
<1>3. ListingInv'
  BY <1>0, ListingKeeps DEF AdapterInv
<1>4. CallsInv' /\ LateInv' /\ [Adapter!Contract!Next]_calls
  BY <1>0, QuietKeeps DEF AdapterInv
<1>5. OpenInv'
  BY <1>0, PaidIs DEF OpenInv
<1>6. SessionInv'
  BY SessionKeeps DEF AdapterInv
<1> QED  BY <1>1, <1>2, <1>3, <1>4, <1>5, <1>6 DEF AdapterInv, Kept

LEMMA GoesOn ==
    ASSUME AdapterInv, NEW next, Adapter!GoOn(next),
           \/ op = "preflight" /\ next \in {"stock", "price"} /\ Fits
           \/ op = "fetch" /\ next = "list"
           \/ op = "read" /\ next = "countries",
           UNCHANGED <<adapter, request, sold, cleared, id, held, bought, renewed, ready, late,
                       named, seen, served>>
    PROVE  Kept
<1>1. /\ op' = op /\ at' = next /\ tries' = 0
      /\ UNCHANGED <<page, left, done, failed, terms, calls>>
  BY DEF Adapter!GoOn
<1>2. page' \in 1..MaxPages /\ tries' \in 0..2
  BY <1>1 DEF AdapterInv, ControlInv
<1> QED  BY <1>1, <1>2, ReadsOn

\* A listing is handed out.
LEMMA ServeKeeps ==
    ASSUME AdapterInv, op = "fetch", NEW n \in Nat, n = 0 \/ (seen <= n /\ n <= ready),
           Adapter!Serve(n), UNCHANGED <<adapter, request, sold, cleared, id, calls, bought, renewed,
                                         ready, late, named, seen>>
    PROVE  Kept
<1>1. Adapter!Rest /\ served' = n /\ held' = IF n > 0 THEN n ELSE held
  BY DEF Adapter!Serve
<1>2. op' = "none" /\ at' = "none"
  BY <1>1, RestIs
<1>3. ListingInv'
  <2>1. MaxQuantity \in Nat
    BY AdapterNumbers
  <2>2. n \in 0..MaxQuantity /\ held' \in 0..MaxQuantity /\ held' <= ready
    BY <1>1, <2>1 DEF AdapterInv, ListingInv
  <2>3. id = "none" => held' = 0 /\ n = 0
    BY <1>1, <2>1 DEF AdapterInv, ListingInv
  <2> QED  BY <1>1, <1>2, <2>1, <2>2, <2>3 DEF AdapterInv, ListingInv
<1>4. calls' = Adapter!Over(calls, "returned", {}) /\ op \notin Paid
  BY DEF Adapter!Over, Paid, Adapter!Paid
<1> QED  BY <1>1, <1>3, <1>4, EndsKeeps

-----------------------------------------------------------------------------
(* The steps of a call that costs money.                                   *)

\* A request is one that may be given up, and what it asks for was billed.
LEMMA RequestFine ==
    ASSUME AdapterInv, op \in Paid, at # "preview", NEW U \in SUBSET Units
    PROVE  LET w == Adapter!Request(U) IN
           /\ w \in Given /\ w.call = Len(calls) /\ w.units = U /\ w.op = op /\ w.terms = terms
           /\ w.op = "buy" => Placeable
           /\ w.op = "renew" => Fine(w.terms)
<1>1. Len(calls) \in Nat /\ terms \in Asking
  BY DEF AdapterInv, CallsInv, FigureInv
<1>2. (op = "buy" => Placeable) /\ (op = "renew" => Fine(terms))
  BY DEF AdapterInv, FigureInv
<1> QED  BY <1>1, <1>2 DEF Adapter!Request, Given

\* The call under way ends.
LEMMA ClosesKeep ==
    ASSUME AdapterInv, Adapter!Rest, at # "preview", NEW U, NEW s, NEW C, NEW N, Ended(U, s, C, N),
           \A l \in N : (l.op = "buy" => Placeable) /\ (l.op = "renew" => Fine(l.terms)),
           UNCHANGED <<adapter, request, sold, cleared>>,
           \/ Adapter!NoEffect
           \/ \E w : /\ Adapter!Effect(w) /\ (w.op = "buy" => Placeable)
                     /\ w.op = "renew" => Fine(w.terms),
           ListingInv'
    PROVE  Kept
<1>1. ControlInv' /\ OpenInv' /\ op' = "none" /\ at' = "none" /\ op' \notin Paid /\ terms' \in Asking
  BY RestIs
<1>2. CallsInv' /\ LateInv' /\ [Adapter!Contract!Next]_calls
  BY EndedKeeps DEF AdapterInv
<1>3. FigureInv'
  <2>1. late' = late \cup N
    BY DEF Ended
  <2>2. \A l \in late' : l \in late \/ ((l.op = "buy" => Placeable) /\ (l.op = "renew" => Fine(l.terms)))
    BY <2>1
  <2>3. \/ bought' = bought /\ renewed' = renewed
        \/ \E w : /\ Adapter!Effect(w) /\ (w.op = "buy" => Placeable)
                  /\ w.op = "renew" => Fine(w.terms)
    BY DEF Adapter!NoEffect
  <2> QED  BY <1>1, <2>2, <2>3, FigureKeeps DEF AdapterInv
<1>4. SessionInv'
  BY SessionKeeps DEF AdapterInv
<1> QED  BY <1>1, <1>2, <1>3, <1>4, ListingInv' DEF AdapterInv, Kept

\* Which id the adapter makes of an answer (extractOrderId).
LEMMA PickIs ==
    ASSUME NEW ids \in Adapter!Answers
    PROVE  /\ Adapter!PickOrderId(ids) \in {"none", "usable", "unusable"}
           /\ (\E i \in 1..Len(ids) : ids[i] = "usable") \in BOOLEAN
           /\ (\E i \in 1..Len(ids) : ids[i] = "usable") => Adapter!PickOrderId(ids) = "usable"
<1>1. ids \in {<<>>, <<"usable">>, <<"unusable">>, <<"unusable", "usable">>}
  BY DEF Adapter!Answers
<1>2. \A i \in 1..Len(ids) : ids[i] \in {"usable", "unusable"}
  BY <1>1
<1>3. ids # <<>> => ids[1] \in {"usable", "unusable"}
  BY <1>1
<1>4. (\E i \in 1..Len(ids) : ids[i] = "usable") => ids # <<>> /\ "usable" \in {ids[i] : i \in 1..Len(ids)}
  BY <1>1
<1> QED  BY <1>3, <1>4 DEF Adapter!PickOrderId

LEMMA OrderKeeps ==
    ASSUME AdapterInv, NEW ids \in Adapter!Answers, Adapter!AnswerOrder(ids)
    PROVE  Kept
<1>0. /\ at = "order" /\ op = "buy" /\ op \in Paid /\ id = "none"
      /\ Spent(Len(calls)) = {} /\ {0} \in SUBSET Units
      /\ \A l \in late : l.call # Len(calls)
  <2>1. at = "order" /\ op = "buy"
    BY DEF Adapter!AnswerOrder, AdapterInv, ControlInv
  <2>2. op \in Paid
    BY <2>1 DEF Paid, Adapter!Paid
  <2>3. {0} \in SUBSET Units
    BY UnitsAre DEF AdapterInv
  <2> QED  BY <2>1, <2>2, <2>3 DEF AdapterInv, OpenInv, ListingInv
<1>1. /\ Adapter!Effect(Adapter!Request({0}))
      /\ id' = Adapter!PickOrderId(ids)
      /\ named' = (\E i \in 1..Len(ids) : ids[i] = "usable")
      /\ ready' = IF adapter \in Adapter!Immediate /\ id' # "none" THEN request.quantity ELSE 0
      /\ held' = ready'
      /\ UNCHANGED <<adapter, request, sold, cleared, late, seen, served>>
  BY DEF Adapter!AnswerOrder, Adapter!session
<1>2. CallsInv /\ SessionInv
  BY DEF AdapterInv
<1>3. /\ Adapter!Charged(calls, Len(calls), {0}) = Updated({0}, "open", {})
      /\ \A s, C : Adapter!Over(Adapter!Charged(calls, Len(calls), {0}), s, C) = Updated({0}, s, C)
  BY <1>0, <1>2, StepIs
<1>4. Adapter!Request({0}).op = "buy" /\ Placeable
  BY <1>0, RequestFine
<1>5. /\ id' \in {"none", "usable", "unusable"} /\ named' \in BOOLEAN /\ (named' => id' = "usable")
      /\ {held', ready'} \subseteq 0..MaxQuantity /\ ready' <= request.quantity /\ held' <= ready'
      /\ id' = "none" => held' = 0 /\ ready' = 0 /\ served' = 0 /\ ~named'
      /\ served' = 0 /\ seen' \in 0..MaxQuantity
  <2>1. request.quantity \in 1..MaxQuantity /\ MaxQuantity \in Nat
    BY <1>2, RequestIs, AdapterNumbers
  <2>2. served = 0 /\ seen \in 0..MaxQuantity
    BY <1>0 DEF AdapterInv, ListingInv
  <2>3. id' \in {"none", "usable", "unusable"} /\ named' \in BOOLEAN /\ (named' => id' = "usable")
    BY <1>1, PickIs
  <2> QED  BY <1>1, <2>1, <2>2, <2>3
<1>6. ASSUME op' # "fetch", at' # "order" PROVE ListingInv'
  <2>1. {held', ready', seen', served'} \subseteq 0..MaxQuantity
    BY <1>5, AdapterNumbers
  <2> QED  BY <1>1, <1>5, <1>6, <2>1 DEF ListingInv
<1>7. ASSUME Adapter!Rest, NEW s \in {"returned", "threw"}, NEW C \in SUBSET {0}, s = "threw" => C = {},
             calls' = Adapter!Over(Adapter!Charged(calls, Len(calls), {0}), s, C)
      PROVE  Kept
  <2>1. op' = "none" /\ at' = "none" /\ op' \notin Paid
    BY <1>7, RestIs
  <2>2. ListingInv'
    BY <1>6, <2>1
  <2>3. calls' = Updated({0}, s, C)
    BY <1>3, <1>7
  <2>4. Ended({0}, s, C, {})
    BY <1>0, <1>1, <1>7, <2>1, <2>3 DEF Ended
  <2> QED  BY <1>0, <1>1, <1>4, <1>7, <2>2, <2>4, ClosesKeep
<1>8. CASE id' = "none"
  BY <1>7, <1>8 DEF Adapter!AnswerOrder
<1>9. CASE id' # "none" /\ adapter = "omoproxy"
  <2>1. /\ at' = "attached" /\ calls' = Updated({0}, "open", {}) /\ op' = op
        /\ UNCHANGED <<tries, page, left, done, failed, terms>>
    BY <1>3, <1>9 DEF Adapter!AnswerOrder, Adapter!progress
  <2>2. ListingInv'
    BY <1>0, <1>6, <2>1
  <2>3. Ended({0}, "open", {}, {})
    BY <1>0, <1>1, <2>1, PaidIs DEF Ended
  <2>4. /\ CallsInv' /\ LateInv' /\ [Adapter!Contract!Next]_calls
        /\ Len(calls') = Len(calls) /\ Spent(Len(calls))' = Spent(Len(calls)) \cup {0}
    BY <2>3, EndedKeeps DEF AdapterInv
  <2>5. ControlInv'
    <3>1. left = {} /\ done = {} /\ tries \in 0..2 /\ page \in 1..MaxPages /\ failed \in BOOLEAN
      BY <1>0 DEF AdapterInv, ControlInv
    <3> QED  BY <1>0, <2>1, <3>1 DEF ControlInv
  <2>6. OpenInv'
    BY <1>0, <1>1, <2>1, <2>4 DEF OpenInv
  <2>7. FigureInv'
    <3>1. terms \in Asking
      BY DEF AdapterInv, FigureInv
    <3>2. \A l \in late' : l \in late
      BY <1>1
    <3>3. \E w : /\ Adapter!Effect(w) /\ (w.op = "buy" => Placeable)
                 /\ w.op = "renew" => Fine(w.terms)
      BY <1>1, <1>4
    <3> QED  BY <1>0, <1>1, <1>4, <2>1, <3>1, <3>2, <3>3, FigureKeeps DEF AdapterInv
  <2>8. SessionInv'
    BY <1>1, SessionKeeps DEF AdapterInv
  <2> QED  BY <2>2, <2>4, <2>5, <2>6, <2>7, <2>8 DEF AdapterInv, Kept
<1>10. CASE id' # "none" /\ adapter # "omoproxy"
  <2>1. {0} \in SUBSET {0}
    OBVIOUS
  <2> QED  BY <1>7, <1>10, <2>1 DEF Adapter!AnswerOrder
<1> QED  BY <1>8, <1>9, <1>10

LEMMA PartlyKeeps ==
    ASSUME AdapterInv, Adapter!AnswerOrderPartly
    PROVE  Kept
<1>1. /\ at = "order" /\ Adapter!Effect(Adapter!Request({0})) /\ Adapter!Rest
      /\ calls' = Adapter!Over(Adapter!Charged(calls, Len(calls), {0}), "threw", {})
      /\ UNCHANGED <<adapter, request, sold, cleared, id, held, ready, late, named, seen, served>>
  BY DEF Adapter!AnswerOrderPartly, Adapter!session, Adapter!order, Adapter!history
<1>2. /\ op = "buy" /\ op \in Paid /\ {0} \in SUBSET Units /\ Spent(Len(calls)) = {}
      /\ \A l \in late : l.call # Len(calls)
  <2>1. op = "buy"
    BY <1>1 DEF AdapterInv, ControlInv
  <2>2. op \in Paid
    BY <2>1 DEF Paid, Adapter!Paid
  <2>3. {0} \in SUBSET Units
    BY UnitsAre DEF AdapterInv
  <2> QED  BY <1>1, <2>1, <2>2, <2>3 DEF AdapterInv, OpenInv
<1>3. op' = "none" /\ at' = "none" /\ op' \notin Paid
  BY <1>1, RestIs
<1>4. Ended({0}, "threw", {}, {})
  <2>1. calls' = Updated({0}, "threw", {})
    BY <1>1, <1>2, StepIs DEF AdapterInv
  <2> QED  BY <1>1, <1>2, <1>3, <2>1 DEF Ended
<1>5. ListingInv'
  BY <1>1, <1>3, ListingKeeps DEF AdapterInv
<1>6. Adapter!Request({0}).op = "buy" /\ Placeable
  BY <1>1, <1>2, RequestFine
<1> QED  BY <1>1, <1>4, <1>5, <1>6, ClosesKeep

LEMMA AttachedKeeps ==
    ASSUME AdapterInv, Adapter!AnswerAttached
    PROVE  Kept
<1>1. /\ at = "attached" /\ held' = ready /\ Adapter!Rest
      /\ calls' = Adapter!Over(calls, "returned", {0})
      /\ UNCHANGED <<adapter, request, sold, cleared, id, bought, renewed, ready, late, named, seen,
                     served>>
  BY DEF Adapter!AnswerAttached, Adapter!Returns, Adapter!session, Adapter!remote, Adapter!history
<1>2. op \in Paid /\ {0} \in SUBSET Spent(Len(calls))
  <2>1. op \in Paid
    BY <1>1 DEF AdapterInv, ControlInv, Paid, Adapter!Paid
  <2> QED  BY <1>1, <2>1 DEF AdapterInv, OpenInv
<1>3. op' = "none" /\ at' = "none"
  BY <1>1, RestIs
<1>4. ListingInv'
  <2>1. MaxQuantity \in Nat
    BY AdapterNumbers
  <2>2. ready \in 0..MaxQuantity /\ ready <= ready /\ (id = "none" => ready = 0)
    BY <2>1 DEF AdapterInv, ListingInv
  <2> QED  BY <1>1, <1>3, <2>2 DEF AdapterInv, ListingInv
<1> QED  BY <1>1, <1>2, <1>4, EndsKeeps

\* What one request that costs money asks for.
LEMMA WholeIs ==
    ASSUME AdapterInv, at \in {"order", "commit"}
    PROVE  /\ op \in Paid /\ Adapter!Whole \in SUBSET Units /\ Adapter!Whole # {}
           /\ Spent(Len(calls)) = {} /\ \A l \in late : l.call # Len(calls)
<1>1. op \in Paid
  BY DEF AdapterInv, ControlInv, Paid, Adapter!Paid
<1>2. MaxQuantity \in Nat /\ held \in 0..MaxQuantity
  BY AdapterNumbers DEF AdapterInv, ListingInv
<1>3. 1..held \in SUBSET Units /\ {0} \in SUBSET Units
  BY UnitsAre DEF AdapterInv
<1>4. op = "renew" /\ adapter \notin Adapter!WholeOrder => 1..held # {}
  <2>1. op = "renew" /\ adapter \notin Adapter!WholeOrder => held > 0
    BY DEF AdapterInv, ControlInv
  <2>2. held > 0 => 1 \in 1..held
    BY <1>2
  <2> QED  BY <2>1, <2>2
<1>5. Adapter!Whole \in SUBSET Units /\ Adapter!Whole # {}
  BY <1>3, <1>4 DEF Adapter!Whole
<1> QED  BY <1>1, <1>5 DEF AdapterInv, OpenInv

LEMMA CommitAnswered ==
    ASSUME AdapterInv, Adapter!AnswerCommit
    PROVE  Kept
<1> DEFINE W == Adapter!Whole
<1>1. /\ at = "commit" /\ Adapter!Effect(Adapter!Request(W)) /\ Adapter!Rest
      /\ calls' = Adapter!Over(Adapter!Charged(calls, Len(calls), W), "returned", W)
      /\ UNCHANGED <<adapter, request, sold, cleared, id, held, ready, late, named, seen, served>>
  BY DEF Adapter!AnswerCommit, Adapter!session, Adapter!order, Adapter!history
<1>2. /\ op \in Paid /\ W \in SUBSET Units /\ Spent(Len(calls)) = {}
      /\ \A l \in late : l.call # Len(calls)
  BY <1>1, WholeIs
<1> HIDE DEF W
<1>3. op' = "none" /\ at' = "none" /\ op' \notin Paid
  BY <1>1, RestIs
<1>4. Ended(W, "returned", W, {})
  <2>1. calls' = Updated(W, "returned", W)
    BY <1>1, <1>2, StepIs DEF AdapterInv
  <2> QED  BY <1>1, <1>2, <1>3, <2>1 DEF Ended
<1>5. ListingInv'
  BY <1>1, <1>3, ListingKeeps DEF AdapterInv
<1>6. \E w : /\ Adapter!Effect(w) /\ (w.op = "buy" => Placeable)
             /\ w.op = "renew" => Fine(w.terms)
  BY <1>1, <1>2, RequestFine
<1> QED  BY <1>1, <1>4, <1>5, <1>6, ClosesKeep

LEMMA UndoneKeeps ==
    ASSUME AdapterInv, Adapter!AnswerUndone
    PROVE  Kept
<1>1. /\ Adapter!Returns({}) \/ Adapter!Throws
      /\ UNCHANGED <<adapter, request, sold, cleared, id, held, bought, renewed, ready, late, named,
                     seen, served>>
  BY DEF Adapter!AnswerUndone, Adapter!NoEffect, Adapter!session, Adapter!order, Adapter!history
<1> QED  BY <1>1, ReturnsKeeps, ThrowsKeeps

LEMMA LostWriteKeeps ==
    ASSUME AdapterInv, NEW arrived \in BOOLEAN, Adapter!LoseWrite(arrived)
    PROVE  Kept
<1> DEFINE W == Adapter!Whole
           w == Adapter!Request(W)
           charged == IF arrived THEN Adapter!Charged(calls, w.call, w.units) ELSE calls
           U == IF arrived THEN W ELSE {}
           N == late' \ late
<1>0. at \in {"order", "commit"}
  BY DEF Adapter!LoseWrite
<1>2. /\ op \in Paid /\ W \in SUBSET Units /\ W # {} /\ Spent(Len(calls)) = {}
      /\ \A l \in late : l.call # Len(calls)
  BY <1>0, WholeIs
<1>3. /\ w \in Given /\ w.call = Len(calls) /\ w.units = W
      /\ (w.op = "buy" => Placeable) /\ (w.op = "renew" => Fine(w.terms))
  BY <1>0, <1>2, RequestFine
<1>4. ~(tries < Adapter!Retries(at))
  <2>1. Adapter!Retries(at) = 0
    BY <1>0 DEF Adapter!Retries
  <2>2. tries \in 0..2
    BY DEF AdapterInv, ControlInv
  <2> QED  BY <2>1, <2>2
<1>1. /\ IF arrived THEN Adapter!Effect(w) ELSE Adapter!NoEffect
      /\ Adapter!Rest /\ calls' = Adapter!Over(charged, "threw", {})
      /\ late' = late \/ (late' = late \cup {w} /\ ~arrived)
      /\ UNCHANGED <<adapter, request, sold, cleared, id, held, ready, named, seen, served>>
  BY <1>4 DEF Adapter!LoseWrite, Adapter!session, Adapter!order, Adapter!history
<1> HIDE DEF W, w
<1>5. op' = "none" /\ at' = "none" /\ op' \notin Paid
  BY <1>1, RestIs
<1>6. calls' = Updated(U, "threw", {})
  <2>1. CASE arrived
    BY <1>1, <1>2, <1>3, <2>1, StepIs DEF AdapterInv
  <2>2. CASE ~arrived
    BY <1>1, <1>2, <2>2, StepIs DEF AdapterInv
  <2> QED  BY <2>1, <2>2
<1>7. N \in SUBSET {w} /\ late' = late \cup N /\ (arrived => N = {})
  BY <1>1
<1> HIDE DEF U, N
<1>8. Ended(U, "threw", {}, N)
  BY <1>2, <1>3, <1>5, <1>6, <1>7 DEF Ended, U
<1>9. ListingInv'
  BY <1>1, <1>5, ListingKeeps DEF AdapterInv
<1>10. \A l \in N : (l.op = "buy" => Placeable) /\ (l.op = "renew" => Fine(l.terms))
  BY <1>3, <1>7
<1>11. at # "preview" /\ UNCHANGED <<adapter, request, sold, cleared>>
  BY <1>0, <1>1
<1>12. \/ Adapter!NoEffect
       \/ \E v : /\ Adapter!Effect(v) /\ (v.op = "buy" => Placeable)
                 /\ v.op = "renew" => Fine(v.terms)
  BY <1>1, <1>3
<1> QED  BY <1>1, <1>8, <1>9, <1>10, <1>11, <1>12, ClosesKeep

-----------------------------------------------------------------------------
(* Renewal proxy by proxy, and in two steps.                               *)

LEMMA StillIs ==
    ASSUME CallsInv, op \in Paid
    PROVE  Updated({}, "open", {}) = calls
<1>0. /\ calls \in Seq(Called) /\ Len(calls) \in DOMAIN calls
      /\ Current \in Called /\ Current.state = "open" /\ Current.claimed = {}
  BY DEF CallsInv, Current
<1>1. [u \in Units |-> IF u \in {} THEN 1 ELSE Current.spent[u]] = Current.spent
  BY <1>0 DEF Called
<1>2. [state |-> "open", spent |-> Current.spent, claimed |-> {}] = Current
  BY <1>0 DEF Called
<1> QED  BY <1>0, <1>1, <1>2 DEF Updated, Current

\* A proxy's request is answered, refused or given up, and the next one's turn comes.
LEMMA HeardKeeps ==
    ASSUME AdapterInv, at \in {"one", "all"}, NEW p \in left, NEW ok \in BOOLEAN,
           NEW U \in {{}, {p}}, ok => U = {p},
           NEW N \in SUBSET {Adapter!Request({p})}, N # {} => U = {} /\ at = "one",
           late' = late \cup N,
           Adapter!Heard(p, ok, IF U = {} THEN calls ELSE Adapter!Charged(calls, Len(calls), {p})),
           IF U = {} THEN Adapter!NoEffect ELSE Adapter!Effect(Adapter!Request({p})),
           UNCHANGED <<adapter, request, sold, cleared, id, held, ready, named, seen, served>>
    PROVE  Kept
<1> DEFINE w == Adapter!Request({p})
           charged == IF U = {} THEN calls ELSE Adapter!Charged(calls, Len(calls), {p})
           good == IF ok THEN done \cup {p} ELSE done
<1>1. /\ op = "renew" /\ op \in Paid /\ left \in SUBSET (1..held) /\ done \in SUBSET (1..held)
      /\ left \cap done = {} /\ {p} \in SUBSET Units /\ U \in SUBSET Units
      /\ left \cap Spent(Len(calls)) = {} /\ done \subseteq Spent(Len(calls))
      /\ \A l \in late : l.call = Len(calls) => at = "one" /\ l.units \cap left = {}
  <2>1. op = "renew" /\ left \in SUBSET (1..held) /\ done \in SUBSET (1..held) /\ left \cap done = {}
    BY DEF AdapterInv, ControlInv
  <2>2. op \in Paid
    BY <2>1 DEF Paid, Adapter!Paid
  <2>3. 1..held \in SUBSET Units
    BY UnitsAre DEF AdapterInv
  <2> QED  BY <2>1, <2>2, <2>3 DEF AdapterInv, OpenInv
<1>2. U \cap Spent(Len(calls)) = {}
  BY <1>1
<1>3. /\ w \in Given /\ w.call = Len(calls) /\ w.units = {p}
      /\ (w.op = "buy" => Placeable) /\ (w.op = "renew" => Fine(w.terms))
  BY <1>1, RequestFine
<1> HIDE DEF w
<1>4. /\ charged = Updated(U, "open", {})
      /\ \A s, C : Adapter!Over(charged, s, C) = Updated(U, s, C)
  <2>1. CASE U = {}
    BY <1>1, <2>1, StepIs, StillIs DEF AdapterInv
  <2>2. CASE U = {p}
    BY <1>1, <1>2, <2>2, StepIs DEF AdapterInv
  <2> QED  BY <2>1, <2>2
<1>5. N \in SUBSET {w}
  BY DEF w
<1>6. ASSUME NEW s \in {"open", "returned", "threw"}, NEW C \in SUBSET (U \cup Spent(Len(calls))),
             s # "returned" => C = {}, calls' = Updated(U, s, C), op' \in Paid <=> s = "open"
      PROVE  Ended(U, s, C, N)
  <2>1. /\ N \in SUBSET Given
        /\ \A l \in N : /\ l.call = Len(calls) /\ l.units # {}
                        /\ l.units \cap (U \cup Spent(Len(calls))) = {}
        /\ \A l, m \in N : l # m => l.units \cap m.units = {}
    BY <1>1, <1>3, <1>5
  <2>2. \A l \in late : l.call = Len(calls) =>
          l.units \cap U = {} /\ \A m \in N : l.units \cap m.units = {}
    BY <1>1, <1>3, <1>5
  <2> QED  BY <1>1, <1>2, <1>6, <2>1, <2>2 DEF Ended
<1>7. \/ Adapter!NoEffect
      \/ \E v : /\ Adapter!Effect(v) /\ (v.op = "buy" => Placeable)
                /\ v.op = "renew" => Fine(v.terms)
  BY <1>3 DEF w
<1>8. \A l \in N : (l.op = "buy" => Placeable) /\ (l.op = "renew" => Fine(l.terms))
  BY <1>3, <1>5
<1>9. good \in SUBSET (U \cup Spent(Len(calls)))
  BY <1>1
<1>10. CASE left = {p}
  <2>1. Adapter!Rest /\ \/ calls' = Adapter!Over(charged, "returned", good)
                        \/ calls' = Adapter!Over(charged, "threw", {})
    BY <1>10 DEF Adapter!Heard
  <2>2. op' = "none" /\ at' = "none" /\ op' \notin Paid
    BY <2>1, RestIs
  <2>3. ListingInv'
    BY <2>2, ListingKeeps DEF AdapterInv
  <2>4. CASE calls' = Adapter!Over(charged, "returned", good)
    <3>1. Ended(U, "returned", good, N)
      BY <1>4, <1>6, <1>9, <2>2, <2>4
    <3> QED  BY <3>1, <1>7, <1>8, <2>1, <2>3, ClosesKeep
  <2>5. CASE calls' = Adapter!Over(charged, "threw", {})
    <3>1. {} \in SUBSET good
      OBVIOUS
    <3>2. Ended(U, "threw", {}, N)
      BY <1>4, <1>6, <1>9, <2>2, <2>5, <3>1
    <3> QED  BY <3>2, <1>7, <1>8, <2>1, <2>3, ClosesKeep
  <2> QED  BY <2>1, <2>4, <2>5
<1>11. CASE left # {p}
  <2>1. /\ left' = left \ {p} /\ done' = good /\ failed' = (failed \/ ~ok) /\ calls' = charged
        /\ op' = op /\ at' = at /\ tries' = tries /\ page' = page /\ terms' = terms
    BY <1>11 DEF Adapter!Heard
  <2>2. Ended(U, "open", {}, N)
    BY <1>1, <1>4, <1>6, <2>1
  <2>3. /\ CallsInv' /\ LateInv' /\ [Adapter!Contract!Next]_calls
        /\ Len(calls') = Len(calls) /\ Spent(Len(calls))' = Spent(Len(calls)) \cup U
    BY <2>2, EndedKeeps DEF AdapterInv
  <2>4. ControlInv'
    <3>1. left' \in SUBSET (1..held) /\ done' \in SUBSET (1..held) /\ left' \cap done' = {}
      BY <1>1, <2>1
    <3>2. failed' \in BOOLEAN
      BY <2>1 DEF AdapterInv, ControlInv
    <3>3. Adapter!WholeOrder' = Adapter!WholeOrder
      BY DEF Adapter!WholeOrder
    <3> QED  BY <2>1, <3>1, <3>2, <3>3 DEF AdapterInv, ControlInv
  <2>5. OpenInv'
    <3>1. \A l \in late' : l.call = Len(calls) => at = "one" /\ l.units \cap left' = {}
      BY <1>1, <1>3, <1>5, <2>1
    <3>2. left' \cap (Spent(Len(calls)) \cup U) = {} /\ done' \subseteq Spent(Len(calls)) \cup U
      BY <1>1, <2>1
    <3> QED  BY <2>1, <2>3, <3>1, <3>2, PaidIs DEF OpenInv
  <2>6. FigureInv'
    <3>1. terms \in Asking /\ Fine(terms)
      BY <1>1 DEF AdapterInv, FigureInv
    <3>2. \A l \in late' : l \in late \/ ((l.op = "buy" => Placeable) /\ (l.op = "renew" => Fine(l.terms)))
      BY <1>8
    <3>3. \/ bought' = bought /\ renewed' = renewed
          \/ \E v : /\ Adapter!Effect(v) /\ (v.op = "buy" => Placeable)
                    /\ v.op = "renew" => Fine(v.terms)
      BY <1>7 DEF Adapter!NoEffect
    <3> QED  BY <1>1, <2>1, <3>1, <3>2, <3>3, FigureKeeps DEF AdapterInv
  <2>7. ListingInv'
    BY <1>1, <2>1, ListingKeeps DEF AdapterInv
  <2>8. SessionInv'
    BY SessionKeeps DEF AdapterInv
  <2> QED  BY <2>3, <2>4, <2>5, <2>6, <2>7, <2>8 DEF AdapterInv, Kept
<1> QED  BY <1>10, <1>11

LEMMA ProxyAnswered ==
    ASSUME AdapterInv, NEW p, Adapter!AnswerProxy(p)
    PROVE  Kept
<1>1. /\ at \in {"one", "all"} /\ p \in left
      /\ Adapter!Effect(Adapter!Request({p}))
      /\ Adapter!Heard(p, TRUE, Adapter!Charged(calls, Len(calls), {p}))
      /\ UNCHANGED <<adapter, request, sold, cleared, id, held, ready, late, named, seen, served>>
  BY DEF Adapter!AnswerProxy, Adapter!InTurn, Adapter!session, Adapter!order, Adapter!history
<1>2. {p} # {} /\ {p} \in {{}, {p}} /\ {} \in SUBSET {Adapter!Request({p})} /\ late' = late \cup {}
  BY <1>1
<1> QED  BY <1>1, <1>2, HeardKeeps

LEMMA ProxyRefused ==
    ASSUME AdapterInv, NEW p, Adapter!RefuseProxy(p)
    PROVE  Kept
<1>1. /\ at \in {"one", "all"} /\ p \in left /\ Adapter!NoEffect
      /\ Adapter!Heard(p, FALSE, calls)
      /\ UNCHANGED <<adapter, request, sold, cleared, id, held, ready, late, named, seen, served>>
  BY DEF Adapter!RefuseProxy, Adapter!InTurn, Adapter!session, Adapter!order, Adapter!history
<1>2. {} \in {{}, {p}} /\ {} \in SUBSET {Adapter!Request({p})} /\ late' = late \cup {}
  BY <1>1
<1> QED  BY <1>1, <1>2, HeardKeeps

LEMMA ProxyLost ==
    ASSUME AdapterInv, NEW p, NEW arrived \in BOOLEAN, Adapter!LoseProxy(p, arrived)
    PROVE  Kept
<1> DEFINE charged == IF arrived THEN Adapter!Charged(calls, Len(calls), {p}) ELSE calls
           U == IF arrived THEN {p} ELSE {}
<1>1. /\ at \in {"one", "all"} /\ p \in left
      /\ IF arrived THEN Adapter!Effect(Adapter!Request({p})) ELSE Adapter!NoEffect
      /\ UNCHANGED <<adapter, request, sold, cleared, id, held, ready, named, seen, served>>
  BY DEF Adapter!LoseProxy, Adapter!InTurn, Adapter!session, Adapter!order, Adapter!history
<1>2. CASE at = "one"
  <2> DEFINE N == IF arrived THEN {} ELSE {Adapter!Request({p})}
  <2>1. Adapter!Heard(p, FALSE, charged)
    BY <1>2 DEF Adapter!LoseProxy
  <2>2. late' = late \cup {Adapter!Request({q}) : q \in {} \cup (IF arrived THEN {} ELSE {p})}
    BY <1>2 DEF Adapter!LoseProxy
  <2>3. {Adapter!Request({q}) : q \in {} \cup (IF arrived THEN {} ELSE {p})} = N
    OBVIOUS
  <2>4. late' = late \cup N /\ N \in SUBSET {Adapter!Request({p})}
    BY <2>2, <2>3
  <2>5. U \in {{}, {p}} /\ (U = {} <=> ~arrived)
    OBVIOUS
  <2>6. charged = IF U = {} THEN calls ELSE Adapter!Charged(calls, Len(calls), {p})
    BY <2>5
  <2>7. N # {} => ~arrived
    OBVIOUS
  <2> HIDE DEF N, U, charged
  <2> QED  BY <1>1, <1>2, <2>1, <2>4, <2>5, <2>6, <2>7, HeardKeeps
<1>3. CASE at = "all"
  <2> DEFINE others == (left \ {p}) \cup (IF arrived THEN {} ELSE {p})
             N == {Adapter!Request({q}) : q \in others}
  <2>1. /\ Adapter!Rest /\ calls' = Adapter!Over(charged, "threw", {})
        /\ late' = late \cup N
    BY <1>3 DEF Adapter!LoseProxy
  <2>2. /\ op = "renew" /\ op \in Paid /\ left \in SUBSET Units
        /\ left \cap Spent(Len(calls)) = {} /\ \A l \in late : l.call # Len(calls)
    <3>1. op = "renew" /\ left \in SUBSET (1..held)
      BY <1>3 DEF AdapterInv, ControlInv
    <3>2. op \in Paid
      BY <3>1 DEF Paid, Adapter!Paid
    <3>3. 1..held \in SUBSET Units
      BY UnitsAre DEF AdapterInv
    <3> QED  BY <1>3, <3>1, <3>2, <3>3 DEF AdapterInv, OpenInv
  <2>3. others \subseteq left /\ others \cap U = {} /\ U \subseteq left
    BY <1>1
  <2>4. \A q \in left : LET w == Adapter!Request({q}) IN
          /\ w \in Given /\ w.call = Len(calls) /\ w.units = {q}
          /\ (w.op = "buy" => Placeable) /\ (w.op = "renew" => Fine(w.terms))
    BY <1>3, <2>2, RequestFine
  <2>5. calls' = Updated(U, "threw", {})
    <3>1. CASE arrived
      BY <1>1, <2>1, <2>2, <3>1, StepIs DEF AdapterInv
    <3>2. CASE ~arrived
      BY <1>1, <2>1, <2>2, <3>2, StepIs DEF AdapterInv
    <3> QED  BY <3>1, <3>2
  <2>6. op' = "none" /\ at' = "none" /\ op' \notin Paid
    BY <2>1, RestIs
  <2> HIDE DEF U, others
  <2>7. Ended(U, "threw", {}, N)
    <3>0. \A l \in N : \E q \in others : l = Adapter!Request({q})
      OBVIOUS
    <3>1. N \in SUBSET Given
      BY <2>3, <2>4, <3>0
    <3>2. ASSUME NEW l \in N
          PROVE  /\ l.call = Len(calls) /\ l.units # {}
                 /\ l.units \cap (U \cup Spent(Len(calls))) = {}
      <4>1. PICK q \in others : l = Adapter!Request({q})
        BY <3>0
      <4>2. l.call = Len(calls) /\ l.units = {q} /\ q \in left
        BY <2>3, <2>4, <4>1
      <4> QED  BY <2>2, <2>3, <4>1, <4>2
    <3>3. ASSUME NEW l \in N, NEW m \in N, l # m PROVE l.units \cap m.units = {}
      <4>1. PICK q \in others, r \in others : l = Adapter!Request({q}) /\ m = Adapter!Request({r})
        BY <3>0
      <4>2. l.units = {q} /\ m.units = {r} /\ q # r
        BY <2>3, <2>4, <3>3, <4>1
      <4> QED  BY <4>2
    <3>4. U \in SUBSET Units /\ U \cap Spent(Len(calls)) = {}
      BY <2>2, <2>3
    <3> QED  BY <2>1, <2>2, <2>5, <2>6, <3>1, <3>2, <3>3, <3>4 DEF Ended
  <2>8. \A l \in N : (l.op = "buy" => Placeable) /\ (l.op = "renew" => Fine(l.terms))
    BY <2>3, <2>4
  <2>9. \/ Adapter!NoEffect
        \/ \E v : /\ Adapter!Effect(v) /\ (v.op = "buy" => Placeable)
                  /\ v.op = "renew" => Fine(v.terms)
    BY <1>1, <2>4
  <2>10. ListingInv'
    BY <1>1, <2>6, ListingKeeps DEF AdapterInv
  <2> HIDE DEF N
  <2> QED  BY <1>1, <1>3, <2>1, <2>7, <2>8, <2>9, <2>10, ClosesKeep
<1> QED  BY <1>1, <1>2, <1>3

\* A renewal in two steps, once its price or its period is known.
LEMMA CommitKeeps ==
    ASSUME AdapterInv, at \in {"preview", "reference"}, NEW n \in Int, Adapter!Commit(n),
           IF adapter = "omoproxy" THEN Adapter!CloseTo(n, terms.asked) ELSE n = terms.asked,
           UNCHANGED <<adapter, request, sold, cleared, id, held, bought, renewed, ready, late,
                       named, seen, served>>
    PROVE  Kept
<1>1. /\ at' = "commit" /\ terms' = [terms EXCEPT !.days = n]
      /\ UNCHANGED <<op, tries, page, left, done, failed, calls>>
  BY DEF Adapter!Commit
<1>2. op = "renew" /\ op \in Paid
  BY DEF AdapterInv, ControlInv, Paid, Adapter!Paid
<1>3. ControlInv'
  <2>1. Adapter!WholeOrder' = Adapter!WholeOrder
    BY DEF Adapter!WholeOrder
  <2> QED  BY <1>1, <1>2, <2>1 DEF AdapterInv, ControlInv
<1>4. FigureInv'
  <2>1. terms \in Asking
    BY DEF AdapterInv, FigureInv
  <2>2. terms' \in Asking /\ terms'.days = n /\ terms'.asked = terms.asked
    BY <1>1, <2>1 DEF Asking
  <2>3. Fine(terms')
    BY <2>2 DEF Fine
  <2>4. \A l \in late' : l \in late
    OBVIOUS
  <2> QED  BY <1>1, <1>2, <2>2, <2>3, <2>4, FigureKeeps DEF AdapterInv
<1>5. ListingInv'
  BY <1>1, <1>2, ListingKeeps DEF AdapterInv
<1>6. CallsInv' /\ LateInv' /\ [Adapter!Contract!Next]_calls
  BY <1>1, <1>2, QuietKeeps DEF AdapterInv
<1>7. OpenInv'
  <2>1. Spent(Len(calls))' = Spent(Len(calls))
    BY <1>1 DEF Spent, Units, Adapter!Units
  <2> QED  BY <1>1, <1>2, <2>1 DEF AdapterInv, OpenInv
<1>8. SessionInv'
  BY SessionKeeps DEF AdapterInv
<1> QED  BY <1>3, <1>4, <1>5, <1>6, <1>7, <1>8 DEF AdapterInv, Kept

\* The row of ProxySeller's catalogue that is settled on means the days asked (resolvePeriodId).
LEMMA SettledMeans ==
    ASSUME NEW n \in Nat, NEW rows \in [1..n -> Adapter!Rows], NEW d, Adapter!Settled(rows, d)
    PROVE  rows[CHOOSE i \in Adapter!Matches(rows, d) : TRUE].means = d
<1> DEFINE M == Adapter!Matches(rows, d)
           i == CHOOSE j \in M : TRUE
<1>1. PICK k \in M : M = {k} /\ rows[k].durations = {d}
  BY DEF Adapter!Settled
<1>2. i \in M
  BY <1>1
<1>3. rows \in Seq(Adapter!Rows) /\ Len(rows) = n
  OBVIOUS
<1>4. i \in 1..n
  BY <1>2, <1>3 DEF Adapter!Matches
<1>5. rows[i].durations = {d}
  BY <1>1, <1>2
<1>6. rows[i].durations # {} => rows[i].means \in rows[i].durations
  BY <1>4 DEF Adapter!Rows
<1> QED  BY <1>5, <1>6

LEMMA RenewalGoesOn ==
    ASSUME AdapterInv,
           \/ Adapter!AnswerPrices
           \/ \E n \in TierDays : Adapter!AnswerTier(n)
           \/ \E n \in 0..2 : \E rows \in [1..n -> Adapter!Rows] : Adapter!AnswerReference(rows)
    PROVE  Kept
<1>0. terms.asked \in Int /\ TierDays \subseteq Nat
  BY AdapterNumbers DEF AdapterInv, FigureInv, Asking
<1>1. CASE Adapter!AnswerPrices
  BY <1>0, <1>1, CommitKeeps DEF Adapter!AnswerPrices, Adapter!session, Adapter!order, Adapter!remote,
     Adapter!history
<1>2. ASSUME NEW n \in TierDays, Adapter!AnswerTier(n) PROVE Kept
  <2>1. /\ at = "preview" /\ adapter = "omoproxy"
        /\ IF Adapter!CloseTo(n, terms.asked) THEN Adapter!Commit(n) ELSE Adapter!Throws
        /\ UNCHANGED <<adapter, request, sold, cleared, id, held, bought, renewed, ready, late,
                       named, seen, served>>
    BY <1>2 DEF Adapter!AnswerTier, Adapter!session, Adapter!order, Adapter!remote, Adapter!history
  <2>2. n \in Int
    BY <1>0
  <2> QED  BY <2>1, <2>2, CommitKeeps, ThrowsKeeps
<1>3. ASSUME NEW n \in 0..2, NEW rows \in [1..n -> Adapter!Rows], Adapter!AnswerReference(rows)
      PROVE  Kept
  <2> DEFINE e == rows[CHOOSE i \in Adapter!Matches(rows, terms.asked) : TRUE]
  <2>1. /\ at = "reference" /\ adapter = "proxyseller"
        /\ IF Adapter!Settled(rows, terms.asked) THEN Adapter!Commit(e.means) ELSE Adapter!Throws
        /\ UNCHANGED <<adapter, request, sold, cleared, id, held, bought, renewed, ready, late,
                       named, seen, served>>
    BY <1>3 DEF Adapter!AnswerReference, Adapter!session, Adapter!order, Adapter!remote,
       Adapter!history, AdapterInv, ControlInv
  <2>2. n \in Nat
    OBVIOUS
  <2>3. Adapter!Settled(rows, terms.asked) => e.means = terms.asked
    BY <2>2, SettledMeans
  <2> QED  BY <1>0, <2>1, <2>3, CommitKeeps, ThrowsKeeps
<1> QED  BY <1>1, <1>2, <1>3

-----------------------------------------------------------------------------
(* Readings, listings and the preflight; refusals and losses; what happens *)
(* at the provider.                                                        *)

LEMMA PackageKeeps ==
    ASSUME AdapterInv, Adapter!AnswerPackage
    PROVE  Kept
<1>1. /\ at = "package" /\ IF Fits THEN Adapter!GoOn("stock") ELSE Adapter!Throws
      /\ UNCHANGED <<adapter, request, sold, cleared, id, held, bought, renewed, ready, late, named,
                     seen, served>>
  BY DEF Adapter!AnswerPackage, Fits, Adapter!session, Adapter!order, Adapter!remote, Adapter!history
<1>2. op = "preflight"
  BY <1>1 DEF AdapterInv, ControlInv
<1> QED  BY <1>1, <1>2, GoesOn, ThrowsKeeps

LEMMA StockKeeps ==
    ASSUME AdapterInv, NEW healthy, Adapter!AnswerStock(healthy)
    PROVE  Kept
<1>1. /\ Adapter!GoOn("price") \/ Adapter!Throws
      /\ UNCHANGED <<adapter, request, sold, cleared, id, held, bought, renewed, ready, late, named,
                     seen, served>>
  BY DEF Adapter!AnswerStock, Adapter!session, Adapter!order, Adapter!remote, Adapter!history
<1>2. at = "stock"
  BY DEF Adapter!AnswerStock
<1>3. op = "preflight" /\ Fits
  BY <1>2 DEF AdapterInv, ControlInv, FigureInv
<1> QED  BY <1>1, <1>3, GoesOn, ThrowsKeeps

\* The preflight passes, or fails: nothing was bought before it did.
LEMMA PriceKeeps ==
    ASSUME AdapterInv, NEW fair \in BOOLEAN, Adapter!AnswerPrice(fair)
    PROVE  Kept
<1>1. /\ at = "price"
      /\ cleared' = (fair /\ Adapter!QuoteFits(sold, Adapter!Body(request))) /\ Adapter!Rest
      /\ UNCHANGED <<adapter, request, sold, id, held, calls, bought, renewed, ready, late, named,
                     seen, served>>
  BY DEF Adapter!AnswerPrice, Adapter!session, Adapter!remote, Adapter!history
<1>2. /\ op = "preflight" /\ op \notin Paid /\ Fits /\ ~cleared /\ adapter = "gpnip"
      /\ Adapter!BodyAccepted(request)
  BY <1>1 DEF AdapterInv, ControlInv, FigureInv, Paid, Adapter!Paid
<1>3. ControlInv' /\ OpenInv' /\ op' = "none" /\ at' = "none" /\ op' \notin Paid /\ terms' \in Asking
  BY <1>1, RestIs
<1>4. ListingInv'
  BY <1>1, <1>3, ListingKeeps DEF AdapterInv
<1>5. CallsInv' /\ LateInv' /\ [Adapter!Contract!Next]_calls
  BY <1>1, <1>2, <1>3, QuietKeeps DEF AdapterInv
<1>6. SessionInv'
  BY <1>1, SessionKeeps DEF AdapterInv
<1>7. FigureInv'
  <2>1. ~Placeable
    BY <1>2 DEF Placeable
  <2>2. /\ bought = <<>> /\ (\A l \in late : l.op # "buy")
        /\ (\A l \in late : l.op = "renew" => Fine(l.terms)) /\ (\A t \in renewed : Fine(t))
    BY <2>1 DEF AdapterInv, FigureInv
  <2>3. cleared' \in BOOLEAN /\ (cleared' => Compared)
    <3>1. Adapter!QuoteFits(sold, Adapter!Body(request)) \in BOOLEAN
      BY DEF Adapter!QuoteFits
    <3>2. cleared' \in BOOLEAN
      BY <1>1, <3>1
    <3>3. cleared' => Adapter!QuoteFits(sold, Adapter!Body(request))
      BY <1>1
    <3> QED  BY <1>1, <1>2, <3>2, <3>3 DEF Compared
  <2>4. Compared' <=> Compared
    BY <1>1 DEF Compared, Fits
  <2>5. \A t : Fine(t)' <=> Fine(t)
    BY <1>1 DEF Fine
  <2>6. bought' \in Seq({Adapter!Asks(request)}') /\ bought' = <<>>
    BY <1>1, <2>2
  <2>7. \A l \in late' : (l.op = "buy" => Placeable') /\ (l.op = "renew" => Fine(l.terms)')
    BY <1>1, <2>2, <2>5
  <2> QED  BY <1>1, <1>3, <2>2, <2>3, <2>4, <2>5, <2>6, <2>7 DEF FigureInv
<1> QED  BY <1>3, <1>4, <1>5, <1>6, <1>7 DEF AdapterInv, Kept

LEMMA ReadingKeeps ==
    ASSUME AdapterInv, Adapter!AnswerReading
    PROVE  Kept
<1>1. /\ op = "read" /\ (Adapter!GoOn("countries") \/ Adapter!Returns({}))
      /\ UNCHANGED <<adapter, request, sold, cleared, id, held, bought, renewed, ready, late, named,
                     seen, served>>
  BY DEF Adapter!AnswerReading, Adapter!session, Adapter!order, Adapter!remote, Adapter!history
<1> QED  BY <1>1, GoesOn, ReturnsKeeps

\* The listings: nothing, or all that was there when it began.
LEMMA ListingsKeep ==
    ASSUME AdapterInv,
           \/ \E embedded \in BOOLEAN : Adapter!AnswerDetail(embedded)
           \/ Adapter!AnswerList \/ Adapter!AnswerPage
    PROVE  Kept
<1>0. /\ MaxQuantity \in Nat /\ MaxQuantity <= PageSize * MaxPages /\ PageSize \in Nat
      /\ MaxPages \in Nat \ {0}
  BY AdapterNumbers
<1>1. /\ op = "fetch" /\ ready \in 0..MaxQuantity /\ held \in 0..MaxQuantity /\ held <= ready
      /\ seen \in 0..MaxQuantity /\ seen <= ready /\ (adapter = "proxyvn" => seen <= held)
      /\ page \in 1..MaxPages /\ tries \in 0..2
  <2>1. op = "fetch"
    BY DEF Adapter!AnswerDetail, Adapter!AnswerList, Adapter!AnswerPage, AdapterInv, ControlInv
  <2> QED  BY <2>1 DEF AdapterInv, ListingInv, ControlInv
<1>2. ASSUME NEW n \in {0, ready, held}, n = held => seen <= held \/ n = 0 \/ n = ready, Adapter!Serve(n) PROVE Kept
  <2>1. n \in Nat /\ (n = 0 \/ (seen <= n /\ n <= ready))
    BY <1>0, <1>1, <1>2
  <2>2. UNCHANGED <<adapter, request, sold, cleared, id, calls, bought, renewed, ready, late, named, seen>>
    BY <1>2 DEF Adapter!Serve, Adapter!session, Adapter!remote
  <2> QED  BY <1>1, <1>2, <2>1, <2>2, ServeKeeps
<1>3. ASSUME NEW embedded \in BOOLEAN, Adapter!AnswerDetail(embedded) PROVE Kept
  <2>1. \/ Adapter!Serve(0) \/ Adapter!Serve(ready)
        \/ /\ Adapter!GoOn("list")
           /\ UNCHANGED <<adapter, request, sold, cleared, id, held, bought, renewed, ready, late,
                          named, seen, served>>
    BY <1>3 DEF Adapter!AnswerDetail, Adapter!session, Adapter!order, Adapter!remote, Adapter!history
  <2> QED  BY <1>1, <1>2, <2>1, GoesOn
<1>4. CASE Adapter!AnswerList
  BY <1>1, <1>2, <1>4 DEF Adapter!AnswerList
<1>5. CASE Adapter!AnswerPage
  <2>1. CASE page * PageSize < ready /\ page < MaxPages
    <3>1. /\ page' = page + 1
          /\ UNCHANGED <<adapter, request, sold, cleared, id, held, op, at, tries, left, done, failed,
                         terms, calls, bought, renewed, ready, late, named, seen, served>>
      BY <1>5, <2>1 DEF Adapter!AnswerPage, Adapter!session, Adapter!order, Adapter!remote, Adapter!history
    <3>2. page' \in 1..MaxPages
      BY <1>0, <1>1, <2>1, <3>1
    <3> QED  BY <1>1, <3>1, <3>2, ReadsOn
  <2>2. CASE ~(page * PageSize < ready /\ page < MaxPages)
    <3>1. Adapter!Serve(Adapter!LastListed)
      BY <1>5, <2>2 DEF Adapter!AnswerPage
    <3>2. ~(page * PageSize < ready)
      <4>1. CASE page = MaxPages
        <5>1. page * PageSize = PageSize * MaxPages
          BY <1>0, <4>1
        <5>2. page * PageSize \in Nat
          BY <1>0, <1>1
        <5> QED  BY <1>0, <1>1, <5>1, <5>2
      <4>2. CASE page # MaxPages
        BY <1>0, <1>1, <2>2, <4>2
      <4> QED  BY <4>1, <4>2
    <3>3. Adapter!LastListed = ready
      BY <3>2 DEF Adapter!LastListed
    <3> QED  BY <1>2, <3>1, <3>3
  <2> QED  BY <2>1, <2>2
<1> QED  BY <1>3, <1>4, <1>5

\* An answer that the adapter can do without.
LEMMA ExcusedKeeps ==
    ASSUME AdapterInv, Adapter!Excused,
           UNCHANGED <<adapter, request, sold, bought, renewed, ready, late, named, seen, served>>
    PROVE  Kept
<1>1. UNCHANGED <<cleared, id, held>>
  BY DEF Adapter!Excused, Adapter!order
<1>2. CASE at = "stock" /\ Adapter!GoOn("price")
  <2>1. op = "preflight" /\ Fits
    BY <1>2 DEF AdapterInv, ControlInv, FigureInv
  <2> QED  BY <1>1, <1>2, <2>1, GoesOn
<1>3. CASE at = "attached" /\ Adapter!Returns({0})
  <2>1. op \in Paid
    BY <1>3 DEF AdapterInv, ControlInv, Paid, Adapter!Paid
  <2>2. {0} \in SUBSET Spent(Len(calls))
    BY <1>3, <2>1 DEF AdapterInv, OpenInv
  <2> QED  BY <1>1, <1>3, <2>2, ReturnsKeeps
<1> QED  BY <1>2, <1>3 DEF Adapter!Excused

LEMMA RefusedKeeps ==
    ASSUME AdapterInv, Adapter!Refuse
    PROVE  Kept
<1>1. CASE at \in {"stock", "attached"}
  BY <1>1, ExcusedKeeps DEF Adapter!Refuse, Adapter!session, Adapter!remote, Adapter!history
<1>2. CASE at = "list" /\ adapter \in {"twoproxy", "proxyseller"}
  <2>1. Adapter!Serve(0)
    BY <1>2 DEF Adapter!Refuse
  <2>2. op = "fetch"
    BY <1>2 DEF AdapterInv, ControlInv
  <2> QED  BY <2>1, <2>2, ServeKeeps DEF Adapter!Serve, Adapter!session, Adapter!remote
<1>3. CASE at \notin {"stock", "attached"} /\ ~(at = "list" /\ adapter \in {"twoproxy", "proxyseller"})
  BY <1>3, ThrowsKeeps DEF Adapter!Refuse, Adapter!Gives, Adapter!session, Adapter!order,
     Adapter!remote, Adapter!history
<1> QED  BY <1>1, <1>2, <1>3

LEMMA LoseKeeps ==
    ASSUME AdapterInv, Adapter!Lose
    PROVE  Kept
<1>1. /\ op # "none"
      /\ UNCHANGED <<adapter, request, sold, bought, renewed, ready, late, named, seen, served>>
  BY DEF Adapter!Lose, Adapter!Single, Adapter!session, Adapter!remote, Adapter!history
<1>2. CASE tries < Adapter!Retries(at)
  <2>1. /\ tries' = tries + 1
        /\ UNCHANGED <<cleared, id, held, op, at, page, left, done, failed, terms, calls>>
    BY <1>2 DEF Adapter!Lose, Adapter!order
  <2>2. tries \in 0..2 /\ page \in 1..MaxPages
    BY DEF AdapterInv, ControlInv
  <2>3. at \in {"package", "stock", "price", "account", "packages"} /\ tries < 2
    BY <1>2, <2>2 DEF Adapter!Retries
  <2>4. op \in {"preflight", "fetch", "read"}
    BY <1>1, <2>3 DEF AdapterInv, ControlInv
  <2>5. tries' \in 0..2 /\ page' \in 1..MaxPages
    BY <2>1, <2>2, <2>3
  <2> QED  BY <1>1, <2>1, <2>4, <2>5, ReadsOn
<1>3. CASE ~(tries < Adapter!Retries(at))
  <2>1. Adapter!Excused \/ (Adapter!Throws /\ UNCHANGED <<cleared, id, held>>)
    BY <1>3 DEF Adapter!Lose, Adapter!Gives, Adapter!order
  <2> QED  BY <1>1, <2>1, ExcusedKeeps, ThrowsKeeps
<1> QED  BY <1>2, <1>3

\* The provider makes a proxy available.
LEMMA ProvisionKeeps ==
    ASSUME AdapterInv, Adapter!Provision
    PROVE  Kept
<1>1. /\ id # "none" /\ ready < request.quantity /\ ready' = ready + 1
      /\ UNCHANGED <<adapter, request, sold, cleared, id, held, op, at, tries, page, left, done,
                     failed, terms, bought, renewed, late, calls, named, seen, served>>
  BY DEF Adapter!Provision, Adapter!session, Adapter!order, Adapter!call, Adapter!progress,
     Adapter!history
<1>2. ControlInv'
  <2>1. Adapter!WholeOrder' = Adapter!WholeOrder
    BY DEF Adapter!WholeOrder
  <2> QED  BY <1>1, <2>1 DEF AdapterInv, ControlInv
<1>3. FigureInv'
  BY <1>1, FigureKeeps DEF AdapterInv, FigureInv
<1>4. ListingInv'
  <2>1. MaxQuantity \in Nat /\ request.quantity \in 1..MaxQuantity
    BY AdapterNumbers, RequestIs DEF AdapterInv
  <2>2. ready \in 0..MaxQuantity /\ held \in 0..MaxQuantity /\ seen \in 0..MaxQuantity
        /\ served \in 0..MaxQuantity
    BY DEF AdapterInv, ListingInv
  <2>3. ready' \in 0..MaxQuantity /\ ready' <= request.quantity /\ held <= ready'
        /\ (seen <= ready => seen <= ready') /\ (served <= ready => served <= ready')
    BY <1>1, <2>1, <2>2 DEF AdapterInv, ListingInv
  <2> QED  BY <1>1, <2>2, <2>3 DEF AdapterInv, ListingInv
<1>5. CallsInv' /\ LateInv' /\ [Adapter!Contract!Next]_calls
  BY <1>1, QuietKeeps DEF AdapterInv
<1>6. OpenInv'
  <2>1. Spent(Len(calls))' = Spent(Len(calls))
    BY <1>1 DEF Spent, Units, Adapter!Units
  <2> QED  BY <1>1, <2>1, PaidIs DEF AdapterInv, OpenInv
<1>7. SessionInv'
  BY <1>1, SessionKeeps DEF AdapterInv
<1> QED  BY <1>2, <1>3, <1>4, <1>5, <1>6, <1>7 DEF AdapterInv, Kept

\* A request that was given up reaches the provider, or is forgotten.
LEMMA LateKeeps ==
    ASSUME AdapterInv, NEW w \in late, Adapter!Arrive(w) \/ Adapter!Vanish(w)
    PROVE  Kept
<1>1. /\ late' = late \ {w}
      /\ UNCHANGED <<adapter, request, sold, cleared, id, held, op, at, tries, page, left, done,
                     failed, terms, ready, named, seen, served>>
  BY DEF Adapter!Arrive, Adapter!Vanish, Adapter!session, Adapter!order, Adapter!call,
     Adapter!progress, Adapter!remote, Adapter!history
<1>2. \/ Adapter!Effect(w) /\ calls' = Adapter!Charged(calls, w.call, w.units)
      \/ bought' = bought /\ renewed' = renewed /\ calls' = calls
  BY DEF Adapter!Arrive, Adapter!Vanish, Adapter!remote
<1>3. ControlInv'
  <2>1. Adapter!WholeOrder' = Adapter!WholeOrder
    BY DEF Adapter!WholeOrder
  <2> QED  BY <1>1, <2>1 DEF AdapterInv, ControlInv
<1>4. FigureInv'
  <2>1. (w.op = "buy" => Placeable) /\ (w.op = "renew" => Fine(w.terms))
    BY DEF AdapterInv, FigureInv
  <2>2. \A l \in late' : l \in late
    BY <1>1
  <2>3. /\ op' = "preflight" => ~cleared /\ Adapter!BodyAccepted(request) /\ adapter = "gpnip"
        /\ at' \in {"stock", "price"} => Fits
        /\ op' = "buy" => Placeable
        /\ terms' \in Asking /\ (op' = "renew" /\ at' # "preview" => Fine(terms'))
    BY <1>1 DEF AdapterInv, FigureInv
  <2>4. \/ bought' = bought /\ renewed' = renewed
        \/ \E v : /\ Adapter!Effect(v) /\ (v.op = "buy" => Placeable)
                  /\ v.op = "renew" => Fine(v.terms)
    BY <1>2, <2>1
  <2> QED  BY <1>1, <2>2, <2>3, <2>4, FigureKeeps DEF AdapterInv
<1>5. ListingInv'
  <2>1. ListingInv /\ (at' = "order" => id = "none")
    BY <1>1 DEF AdapterInv, ListingInv
  <2> QED  BY <1>1, <2>1, ListingKeeps
<1>6. SessionInv'
  BY <1>1, SessionKeeps DEF AdapterInv
<1>7. CASE calls' = calls
  <2>1. CallsInv' /\ LateInv' /\ [Adapter!Contract!Next]_calls
    BY <1>1, <1>7, QuietKeeps DEF AdapterInv
  <2>2. OpenInv'
    <3>1. Spent(Len(calls))' = Spent(Len(calls))
      BY <1>7 DEF Spent, Units, Adapter!Units
    <3>2. \A l \in late' : l \in late
      BY <1>1
    <3> QED  BY <1>1, <1>7, <3>1, <3>2, PaidIs DEF AdapterInv, OpenInv
  <2> QED  BY <1>3, <1>4, <1>5, <1>6, <2>1, <2>2 DEF AdapterInv, Kept
<1>8. CASE calls' = Adapter!Charged(calls, w.call, w.units)
  <2> DEFINE f == [u \in Units |-> IF u \in w.units THEN 1 ELSE calls[w.call].spent[u]]
             r == [calls[w.call] EXCEPT !.spent = f]
  <2>0. /\ w \in Given /\ w.units \in SUBSET Units /\ w.call \in DOMAIN calls /\ w.units # {}
        /\ w.units \cap Spent(w.call) = {} /\ calls \in Seq(Called)
        /\ \A l \in late : l # w /\ l.call = w.call => l.units \cap w.units = {}
    BY DEF AdapterInv, LateInv, Given, CallsInv
  <2>1. calls' = [calls EXCEPT ![w.call].spent = f]
    BY <1>8, <2>0, ChargedIs DEF AdapterInv
  <2>2. calls' = [calls EXCEPT ![w.call] = r]
    BY <2>0, <2>1
  <2>3. /\ calls[w.call] \in Called /\ calls[w.call].spent \in [Units -> {0, 1}]
        /\ \A u \in w.units : calls[w.call].spent[u] = 0
    BY <2>0, SpentIs DEF AdapterInv
  <2>4. f \in [Units -> {0, 1}] /\ {u \in Units : f[u] = 1} = Spent(w.call) \cup w.units
    BY <2>0, <2>3 DEF Spent
  <2>5. f = [u \in Adapter!Units |-> IF u \in w.units THEN 1 ELSE calls[w.call].spent[u]]
    BY DEF Units
  <2> HIDE DEF f
  <2>6. /\ r \in Called /\ r.spent = f /\ r.state = calls[w.call].state
        /\ r.claimed = calls[w.call].claimed
    <3>1. r = [state |-> calls[w.call].state, spent |-> f, claimed |-> calls[w.call].claimed]
      BY <2>3, CalledSpent, Zenon
    <3> QED  BY <2>3, <2>4, <3>1 DEF Called
  <2> HIDE DEF r
  <2>7. /\ calls' \in Seq(Called) /\ Len(calls') = Len(calls) /\ DOMAIN calls' = DOMAIN calls
        /\ \A i \in DOMAIN calls : calls'[i] = IF i = w.call THEN r ELSE calls[i]
    BY <2>0, <2>2, <2>6
  <2>8. \A i \in DOMAIN calls : Spent(i)' = IF i = w.call THEN Spent(i) \cup w.units ELSE Spent(i)
    <3> SUFFICES ASSUME NEW i \in DOMAIN calls
                 PROVE  Spent(i)' = IF i = w.call THEN Spent(i) \cup w.units ELSE Spent(i)
      OBVIOUS
    <3>1. Spent(i)' = {u \in Units : calls'[i].spent[u] = 1}
      BY DEF Spent, Units, Adapter!Units
    <3>2. CASE i = w.call
      <4>1. calls'[i].spent = f
        BY <2>6, <2>7, <3>2
      <4> QED  BY <2>4, <3>1, <3>2, <4>1
    <3>3. CASE i # w.call
      <4>1. calls'[i] = calls[i]
        BY <2>7, <3>3
      <4> QED  BY <3>1, <3>3, <4>1 DEF Spent
    <3> QED  BY <3>2, <3>3
  <2>9. CallsInv'
    <3>1. calls # <<>> => calls' # <<>>
      BY <2>0, <2>7
    <3>2. \A i \in DOMAIN calls : calls'[i].state = calls[i].state /\ calls'[i].claimed = calls[i].claimed
      BY <2>6, <2>7
    <3> QED  BY <1>1, <2>7, <3>1, <3>2, PaidIs DEF AdapterInv, CallsInv, Called
  <2>10. LateInv'
    <3>1. Given' = Given
      BY PaidIs DEF Given, Asking
    <3>2. ASSUME NEW l \in late'
          PROVE  l.call \in DOMAIN calls' /\ l.units # {} /\ l.units \cap Spent(l.call)' = {}
      <4>1. /\ l \in late /\ l # w /\ l.call \in DOMAIN calls /\ l.units # {}
            /\ l.units \cap Spent(l.call) = {}
        BY <1>1 DEF AdapterInv, LateInv
      <4>2. Spent(l.call)' = IF l.call = w.call THEN Spent(l.call) \cup w.units ELSE Spent(l.call)
        BY <2>8, <4>1
      <4> QED  BY <2>0, <2>7, <4>1, <4>2
    <3>3. late' \in SUBSET Given /\ \A l, m \in late' : l # m /\ l.call = m.call => l.units \cap m.units = {}
      BY <1>1 DEF AdapterInv, LateInv
    <3> QED  BY <3>1, <3>2, <3>3 DEF LateInv
  <2>11. OpenInv'
    <3> SUFFICES ASSUME op \in Paid PROVE OpenInv'
      BY <1>1, PaidIs DEF OpenInv
    <3>1. Len(calls) \in DOMAIN calls
      BY DEF AdapterInv, CallsInv
    <3>2. /\ w.call = Len(calls) => at = "one" /\ w.units \cap left = {}
          /\ \A l \in late' : l.call = Len(calls) => at = "one" /\ l.units \cap left = {}
      BY <1>1 DEF AdapterInv, OpenInv
    <3>3. Spent(Len(calls))' = IF Len(calls) = w.call THEN Spent(Len(calls)) \cup w.units
                               ELSE Spent(Len(calls))
      BY <2>7, <2>8, <3>1
    <3> QED  BY <1>1, <2>7, <3>2, <3>3, PaidIs DEF AdapterInv, OpenInv
  <2>12. [Adapter!Contract!Next]_calls
    <3>1. w.units \in (SUBSET Adapter!Units) \ {{}}
      BY <2>0 DEF Units
    <3>2. Adapter!Contract!Spend(w.call)
      BY <2>1, <2>3, <2>5, <3>1 DEF Adapter!Contract!Spend
    <3>3. w.call \in 1..Len(calls)
      BY <2>0
    <3> QED  BY <3>2, <3>3 DEF Adapter!Contract!Next
  <2> QED  BY <1>3, <1>4, <1>5, <1>6, <2>9, <2>10, <2>11, <2>12 DEF AdapterInv, Kept
<1> QED  BY <1>2, <1>7, <1>8

-----------------------------------------------------------------------------
(* The adapters' theorems.                                                 *)

LEMMA AdapterStarts ==
    ASSUME Adapter!Init
    PROVE  AdapterInv /\ calls = <<>>
<1>0. MaxQuantity \in Nat \ {0} /\ MaxPages \in Nat \ {0} /\ MaxCalls \in Nat \ {0}
  BY AdapterNumbers
<1>1. /\ adapter \in Adapters /\ request \in Adapter!Requests(adapter) /\ cleared = FALSE
      /\ sold \in IF adapter = "gpnip" THEN Adapter!Packages ELSE {Adapter!NoPackage}
      /\ id = "none" /\ held = 0 /\ op = "none" /\ at = "none" /\ tries = 0 /\ page = 1
      /\ left = {} /\ done = {} /\ failed = FALSE /\ terms = [asked |-> 0, days |-> 0]
      /\ bought = <<>> /\ renewed = {} /\ ready = 0 /\ late = {} /\ calls = <<>>
      /\ named = FALSE /\ seen = 0 /\ served = 0
  BY DEF Adapter!Init, Adapter!NoTerms
<1>2. SessionInv
  BY <1>1 DEF SessionInv
<1>3. ControlInv
  <2>1. 0 \in 0..2 /\ 1 \in 1..MaxPages
    BY <1>0
  <2> QED  BY <1>1, <2>1 DEF ControlInv
<1>4. FigureInv
  <2>1. terms \in Asking
    BY <1>1 DEF Asking
  <2>2. bought \in Seq({Adapter!Asks(request)})
    BY <1>1
  <2> QED  BY <1>1, <2>1, <2>2 DEF FigureInv
<1>5. ListingInv
  <2>1. 0 \in 0..MaxQuantity /\ request.quantity \in 1..MaxQuantity
    BY <1>0, <1>2, RequestIs
  <2>2. 0 <= request.quantity
    BY <1>0, <2>1
  <2>3. {held, ready, seen, served} \subseteq 0..MaxQuantity
    BY <1>1, <2>1
  <2>4. ready <= request.quantity /\ held <= ready /\ served = 0 /\ ready = 0 /\ held = 0
    BY <1>1, <2>2
  <2>5. /\ id = "none" /\ named \in BOOLEAN /\ ~named /\ op # "fetch"
    BY <1>1
  <2> QED  BY <2>3, <2>4, <2>5 DEF ListingInv
<1>6. op \notin Paid
  BY <1>1 DEF Paid, Adapter!Paid
<1>7. CallsInv
  BY <1>0, <1>1, <1>6 DEF CallsInv
<1>8. LateInv /\ OpenInv
  BY <1>1, <1>6 DEF LateInv, OpenInv
<1> QED  BY <1>1, <1>2, <1>3, <1>4, <1>5, <1>7, <1>8 DEF AdapterInv

LEMMA AdapterKeeps ==
    ASSUME AdapterInv, Adapter!Next
    PROVE  Kept
<1>1. CASE \/ Adapter!Preflight \/ Adapter!Buy
           \/ Adapter!FetchDetail \/ Adapter!FetchPages \/ Adapter!FetchList
           \/ Adapter!FetchOrNone \/ Adapter!FetchByIds
           \/ \E d \in Days : \/ Adapter!RenewPriced(d) \/ Adapter!RenewByTier(d)
                              \/ Adapter!RenewByPeriod(d) \/ Adapter!RenewTogether(d)
                              \/ Adapter!RenewInTurn(d) \/ Adapter!RenewAtOnce(d)
                              \/ Adapter!RenewOrder(d)
           \/ Adapter!Extend \/ Adapter!ChangePassword \/ Adapter!SetAllowedIps
           \/ Adapter!Rotate \/ Adapter!Cancel
           \/ Adapter!CheckConnection \/ Adapter!ListPackages \/ Adapter!ListProviderOrders
           \/ Adapter!ListCountries \/ Adapter!FetchUsage \/ Adapter!FetchGeo
  BY <1>1, BeginningsKeep
<1>2. CASE Adapter!AnswerPackage \/ \E ok \in BOOLEAN : Adapter!AnswerStock(ok) \/ Adapter!AnswerPrice(ok)
  BY <1>2, PackageKeeps, StockKeeps, PriceKeeps
<1>3. CASE \/ Adapter!AnswerOrderPartly \/ Adapter!AnswerAttached
           \/ \E ids \in Adapter!Answers : Adapter!AnswerOrder(ids)
  BY <1>3, PartlyKeeps, AttachedKeeps, OrderKeeps
<1>4. CASE \/ Adapter!AnswerList \/ Adapter!AnswerPage
           \/ \E b \in BOOLEAN : Adapter!AnswerDetail(b)
  BY <1>4, ListingsKeep
<1>5. CASE \/ Adapter!AnswerPrices \/ \E n \in TierDays : Adapter!AnswerTier(n)
           \/ \E n \in 0..2 : \E rows \in [1..n -> Adapter!Rows] : Adapter!AnswerReference(rows)
  BY <1>5, RenewalGoesOn
<1>6. CASE Adapter!AnswerCommit \/ Adapter!AnswerUndone \/ \E b \in BOOLEAN : Adapter!LoseWrite(b)
  BY <1>6, CommitAnswered, UndoneKeeps, LostWriteKeeps
<1>7. CASE \E p \in Adapter!Units : \/ Adapter!AnswerProxy(p) \/ Adapter!RefuseProxy(p)
                                    \/ \E b \in BOOLEAN : Adapter!LoseProxy(p, b)
  BY <1>7, ProxyAnswered, ProxyRefused, ProxyLost
<1>8. CASE Adapter!AnswerReading \/ Adapter!Refuse \/ Adapter!Lose
  BY <1>8, ReadingKeeps, RefusedKeeps, LoseKeeps
<1>9. CASE Adapter!Provision \/ \E w \in late : Adapter!Arrive(w) \/ Adapter!Vanish(w)
  BY <1>9, ProvisionKeeps, LateKeeps
<1> QED  BY <1>1, <1>2, <1>3, <1>4, <1>5, <1>6, <1>7, <1>8, <1>9 DEF Adapter!Next

LEMMA AdapterRests ==
    ASSUME AdapterInv, UNCHANGED Adapter!vars
    PROVE  Kept
<1>1. UNCHANGED <<adapter, request, sold, cleared, id, held, op, at, tries, page, left, done, failed,
                  terms, bought, renewed, ready, late, calls, named, seen, served>>
  BY DEF Adapter!vars, Adapter!session, Adapter!order, Adapter!call, Adapter!progress, Adapter!remote,
     Adapter!history
<1>2. ControlInv'
  <2>1. Adapter!WholeOrder' = Adapter!WholeOrder
    BY DEF Adapter!WholeOrder
  <2> QED  BY <1>1, <2>1 DEF AdapterInv, ControlInv
<1>3. FigureInv'
  BY <1>1, FigureKeeps DEF AdapterInv, FigureInv
<1>4. ListingInv'
  BY <1>1 DEF AdapterInv, ListingInv
<1>5. CallsInv' /\ LateInv' /\ [Adapter!Contract!Next]_calls
  BY <1>1, QuietKeeps DEF AdapterInv
<1>6. OpenInv'
  <2>1. Spent(Len(calls))' = Spent(Len(calls))
    BY <1>1 DEF Spent, Units, Adapter!Units
  <2> QED  BY <1>1, <2>1, PaidIs DEF AdapterInv, OpenInv
<1>7. SessionInv'
  BY <1>1, SessionKeeps DEF AdapterInv
<1> QED  BY <1>2, <1>3, <1>4, <1>5, <1>6, <1>7 DEF AdapterInv, Kept

LEMMA AdapterAlways == Adapter!Spec => []AdapterInv
<1>1. AdapterInv /\ [Adapter!Next]_(Adapter!vars) => AdapterInv'
  BY AdapterKeeps, AdapterRests DEF Kept
<1> QED  BY <1>1, AdapterStarts, PTL DEF Adapter!Spec

\* Every adapter implements the contract that its callers are modelled with.
THEOREM ContractIsKept == Adapter!Spec => Adapter!KeepsContract
<1>1. Adapter!Init => Adapter!Contract!Init
  BY AdapterStarts DEF Adapter!Contract!Init
<1>2. AdapterInv /\ [Adapter!Next]_(Adapter!vars) => [Adapter!Contract!Next]_calls
  BY AdapterKeeps, AdapterRests DEF Kept
<1> QED  BY <1>1, <1>2, AdapterAlways, PTL
         DEF Adapter!Spec, Adapter!KeepsContract, Adapter!Contract!Spec

LEMMA AdapterTypes ==
    ASSUME AdapterInv
    PROVE  Adapter!TypeOK
<1>1. sold \in Adapter!Statics
  <2> DEFINE Bare == Adapter!NoPackage
             A == {[Bare EXCEPT !.mode = m] : m \in {"tiered_per_gb", "per_ip", "time", "other"}}
             B == {[Bare EXCEPT !.mode = "fixed", !.days = d] : d \in Days}
             C == [mode : {"time"}, static : {TRUE}, days : {0}, periods : (SUBSET Days) \ {{}},
                   listed : BOOLEAN]
  <2>1. sold \in ((A \cup B) \cup C) \cup {Bare}
    BY DEF SessionInv, AdapterInv, Adapter!Packages
  <2>2. Bare \in Adapter!Statics
    BY DEF Adapter!NoPackage, Adapter!Statics
  <2>3. ASSUME sold \in A PROVE sold \in Adapter!Statics
    <3>1. PICK m \in {"tiered_per_gb", "per_ip", "time", "other"} : sold = [Bare EXCEPT !.mode = m]
      BY <2>3
    <3> QED  BY <3>1 DEF Adapter!NoPackage, Adapter!Statics
  <2>4. ASSUME sold \in B PROVE sold \in Adapter!Statics
    <3>1. PICK d \in Days : sold = [Bare EXCEPT !.mode = "fixed", !.days = d]
      BY <2>4
    <3>2. sold = [mode |-> "fixed", static |-> FALSE, days |-> d, periods |-> {}, listed |-> FALSE]
      BY <3>1 DEF Adapter!NoPackage
    <3> QED  BY <3>2 DEF Adapter!Statics
  <2>5. ASSUME sold \in C PROVE sold \in Adapter!Statics
    BY <2>5 DEF Adapter!Statics
  <2> HIDE DEF A, B, C, Bare
  <2> QED  BY <2>1, <2>2, <2>3, <2>4, <2>5
<1>2. left \in SUBSET Units /\ done \in SUBSET Units
  <2>1. left \in SUBSET (1..held) /\ done \in SUBSET (1..held)
    BY DEF AdapterInv, ControlInv
  <2> QED  BY <2>1, UnitsAre DEF AdapterInv
<1>3. Len(calls) <= MaxCalls /\ \A l \in late : l.call \in 1..Len(calls) /\ l.units \subseteq Units
  BY DEF AdapterInv, CallsInv, LateInv, Given
<1>4. /\ adapter \in Adapters /\ request \in Adapter!Requests(adapter)
      /\ cleared \in BOOLEAN /\ named \in BOOLEAN /\ failed \in BOOLEAN
      /\ id \in {"none", "usable", "unusable"}
      /\ {held, ready, seen, served} \subseteq 0..MaxQuantity
      /\ tries \in 0..2 /\ page \in 1..MaxPages
  BY DEF AdapterInv, SessionInv, FigureInv, ListingInv, ControlInv
<1> QED  BY <1>1, <1>2, <1>3, <1>4 DEF Adapter!TypeOK, Units

LEMMA AdapterBills ==
    ASSUME AdapterInv
    PROVE  Adapter!BilledIsDone
<1>1. Adapter!BilledIsBought
  <2> SUFFICES ASSUME NEW i \in DOMAIN bought
               PROVE  LET o == bought[i] IN
                      /\ ~Adapter!Decided => o.quantity = request.quantity
                      /\ ~Adapter!Decided /\ Adapter!TemplateFits => o.days = request.days
                      /\ request.mode = "bandwidth" => o.gb = request.gb
                      /\ request.configured /\ Adapter!TemplateFits => o.country = request.country
    <3>1. DOMAIN bought = 1..Len(bought)
      BY DEF AdapterInv, FigureInv
    <3> QED  BY <3>1 DEF Adapter!BilledIsBought
  <2>1. bought[i] = Adapter!Asks(request) /\ Placeable /\ (cleared => Compared)
    BY DEF AdapterInv, FigureInv
  <2> QED  BY <2>1, AskedIsBilled DEF AdapterInv
<1>2. Adapter!RenewedAsBilled
  BY DEF AdapterInv, FigureInv, Fine, Adapter!RenewedAsBilled
<1> QED  BY <1>1, <1>2, AdapterTypes DEF Adapter!BilledIsDone

LEMMA AdapterLists ==
    ASSUME AdapterInv
    PROVE  Adapter!OrdersReachable
  BY DEF AdapterInv, ListingInv, Adapter!OrdersReachable, Adapter!ListedWhole,
     Adapter!StaysReachable, Adapter!Reachable

-----------------------------------------------------------------------------
(* The three beside each other: each acts on its own variables.            *)

LEMMA SuppliesApart == Supply => Spec /\ Adapter!Spec /\ Catalogue!Spec
<1>1. SupplyInit => Init /\ Adapter!Init /\ Catalogue!Init
  BY DEF SupplyInit
<1>2. UNCHANGED AdapterVars => UNCHANGED Adapter!vars
  BY DEF AdapterVars, Adapter!vars, Adapter!session, Adapter!order, Adapter!call, Adapter!progress,
     Adapter!remote, Adapter!history
<1>3. UNCHANGED CatalogueVars => UNCHANGED Catalogue!vars
  BY DEF CatalogueVars, Catalogue!vars
<1>4. [SupplyNext]_<<vars, AdapterVars, CatalogueVars, acting>>
        => [Next]_vars /\ [Adapter!Next]_(Adapter!vars) /\ [Catalogue!Next]_(Catalogue!vars)
  BY <1>2, <1>3 DEF SupplyNext
<1> QED  BY <1>1, <1>4, PTL DEF Supply, Spec, Adapter!Spec, Catalogue!Spec

\* Promotions: no two programmes are in force at one moment, whichever administrators edit them
\* at once, and neither undoes the other's edit.
THEOREM CatalogueStays == Supply => []CatalogueHolds
<1>1. Catalogue!CatalogueHolds => CatalogueHolds
  BY DEF CatalogueHolds
<1> QED  BY <1>1, SuppliesApart, CatalogueIsKept, PTL

\* ProviderAdapters: what is bought and renewed at the provider is what was billed, the days and
\* the country of a purchase where GPNIP's template is one for that kind of package.
THEOREM BilledAreDone == Supply => []BilledIsDone
<1>1. AdapterInv => BilledIsDone
  BY AdapterBills DEF BilledIsDone
<1> QED  BY <1>1, SuppliesApart, AdapterAlways, PTL

\* ProviderAdapters: what was bought can be fetched, whole.
THEOREM BoughtAreReachable == Supply => []OrdersReachable
<1>1. AdapterInv => OrdersReachable
  BY AdapterLists DEF OrdersReachable
<1> QED  BY <1>1, SuppliesApart, AdapterAlways, PTL

\* ProviderAdapters: the detailed calls are those of the contract.
THEOREM CallsKeepContract == Supply => KeepsContract
  BY SuppliesApart, ContractIsKept, PTL DEF KeepsContract

\* Procurement: what the provider was asked for is what the checkout resolved, and the country
\* list was checked against it.
THEOREM CheckoutsHold == Supply => []CheckedIsBought /\ CountryIsCovered
  BY SuppliesApart, CheckedAreBought, CountriesAreCovered, PTL

\* Procurement: prices are those displayed, in any table of tiers.
THEOREM QuotesHold == Supply => []QuotedAsSold
  BY SuppliesApart, QuotesAreSold, PTL
=============================================================================
