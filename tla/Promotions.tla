----------------------------- MODULE Promotions -----------------------------
(***************************************************************************)
(* The catalogue of deposit promotions: one document that administrators   *)
(* edit under its revision, and from which a deposit takes the promotion   *)
(* in force (src/src/deposit-promotions/deposit-promotions.service.ts).    *)
(*                                                                         *)
(* One action is one call of the database.  Names, tiers and caps of a     *)
(* programme are left out; what they make of an amount is in DepositCredit.*)
(***************************************************************************)
EXTENDS Integers

CONSTANTS
    Programs,    \* identifiers, old and new
    Editors,     \* requests of administrators under way
    Horizon,     \* moments at which programmes may start and end
    MaxTries,    \* attempts of edit()
    MaxEdits     \* bound on the requests

PromotionAssumption == Horizon \in Nat \ {0} /\ MaxTries \in Nat \ {0} /\ MaxEdits \in Nat

VARIABLES
    catalog,     \* deposit_promotion_catalogs, the one document, or Absent
    issued,      \* identifiers that have been given out
    at, task,    \* executions: where they stand, what they are to do
    edits,       \* requests so far
    granted      \* history: the programmes as the accepted edits left them

vars == <<catalog, issued, at, task, edits, granted>>

\* A programme whose body save() accepts.
Terms == {t \in [status: {"draft", "active", "paused"}, start: 0..Horizon, end: 0..Horizon] :
            t.start < t.end}

NoTerms == [status |-> "none", start |-> 0, end |-> 0]

Programmes == UNION {[ids -> Terms] : ids \in SUBSET Programs}

Catalogs == [revision: Nat \cup {-1}, programs: Programmes]

NoProgrammes == [id \in {} |-> NoTerms]

Absent == [revision |-> -1, programs |-> NoProgrammes]

NoTask == [does |-> "nothing"]

Tasks == {t \in [does: {"save", "remove"}, id: Programs, known: BOOLEAN,
                 terms: Terms \cup {NoTerms}, seen: Catalogs, tries: 0..(MaxTries - 1)] :
            t.does = "save" => t.terms \in Terms}

\* known: the request names an existing programme; seen: the catalogue read last.
Task(does, id, known, terms) ==
    [does |-> does, id |-> id, known |-> known, terms |-> terms, seen |-> Absent, tries |-> 0]

TypeOK ==
    /\ catalog \in Catalogs /\ granted \in Programmes
    /\ issued \subseteq Programs
    /\ at \in [Editors -> {"idle", "create", "read", "write"}]
    /\ task \in [Editors -> Tasks \cup {NoTask}]
    /\ \A a \in Editors : at[a] # "idle" => task[a] # NoTask /\ task[a].id \in issued

Init ==
    /\ catalog = Absent /\ issued = {} /\ granted = NoProgrammes
    /\ at = [a \in Editors |-> "idle"] /\ task = [a \in Editors |-> NoTask]
    /\ edits = 0

Move(a, to, t) == at' = [at EXCEPT ![a] = to] /\ task' = [task EXCEPT ![a] = t]

-----------------------------------------------------------------------------
(* The change an edit makes of the programmes it read.                     *)

Overlap(t, u) == t.start < u.end /\ u.start < t.end

Clashes(programs, id, terms) ==
    /\ terms.status = "active"
    /\ \E q \in DOMAIN programs \ {id} :
         programs[q].status = "active" /\ Overlap(programs[q], terms)

\* change() returns; otherwise it throws, NotFound or Conflict.
Accepts(t, programs) ==
    /\ t.known => t.id \in DOMAIN programs
    /\ t.does = "save" => ~Clashes(programs, t.id, t.terms)

Changed(t, programs) ==
    LET others == DOMAIN programs \ {t.id}
    IN [q \in IF t.does = "save" THEN others \cup {t.id} ELSE others |->
          IF q = t.id THEN t.terms ELSE programs[q]]

-----------------------------------------------------------------------------

Request(a, t) ==
    /\ at[a] = "idle" /\ edits < MaxEdits
    /\ edits' = edits + 1
    /\ Move(a, "create", t)
    /\ UNCHANGED <<catalog, granted>>

\* save() without an id: the programme gets a new one.
Add(a) ==
    \E id \in Programs \ issued, terms \in Terms :
        /\ Request(a, Task("save", id, FALSE, terms))
        /\ issued' = issued \cup {id}

Save(a) ==
    \E id \in issued, terms \in Terms :
        Request(a, Task("save", id, TRUE, terms)) /\ UNCHANGED issued

Remove(a) ==
    \E id \in issued :
        Request(a, Task("remove", id, TRUE, NoTerms)) /\ UNCHANGED issued

\* $setOnInsert: of several first edits one creates the document.
Create(a) ==
    /\ at[a] = "create"
    /\ catalog' = IF catalog = Absent THEN [catalog EXCEPT !.revision = 0] ELSE catalog
    /\ Move(a, "read", task[a])
    /\ UNCHANGED <<issued, edits, granted>>

Read(a) ==
    /\ at[a] = "read"
    /\ IF Accepts(task[a], catalog.programs)
       THEN Move(a, "write", [task[a] EXCEPT !.seen = catalog])
       ELSE Move(a, "idle", NoTask)
    /\ UNCHANGED <<catalog, issued, edits, granted>>

\* Mutant: the update does not name the revision that was read.
IsCurrent_Unchecked(a) == catalog # Absent

\* The filter of the update: nobody has changed the catalogue since.
IsCurrent(a) == catalog.revision = task[a].seen.revision

Write(a) ==
    /\ at[a] = "write"
    /\ LET t == task[a] IN
       IF IsCurrent(a)
       THEN /\ catalog' = [revision |-> catalog.revision + 1,
                           programs |-> Changed(t, t.seen.programs)]
            /\ granted' = Changed(t, granted)
            /\ Move(a, "idle", NoTask)
       ELSE /\ IF t.tries + 1 < MaxTries
               THEN Move(a, "read", [t EXCEPT !.tries = @ + 1])
               ELSE Move(a, "idle", NoTask)
            /\ UNCHANGED <<catalog, granted>>
    /\ UNCHANGED <<issued, edits>>

Next ==
    \E a \in Editors : Add(a) \/ Save(a) \/ Remove(a) \/ Create(a) \/ Read(a) \/ Write(a)

Spec == Init /\ [][Next]_vars

-----------------------------------------------------------------------------
(* Properties.                                                             *)

\* The programmes quote() and createIntent() find at moment m.
InForce(m) ==
    {q \in DOMAIN catalog.programs :
       LET t == catalog.programs[q] IN t.status = "active" /\ t.start <= m /\ m < t.end}

\* Whoever edits at the same time, list().find() has no choice: one programme at
\* most is in force at any moment, also where one ends as the next begins.
OneInForce == \A m \in 0..Horizon : \A q, r \in InForce(m) : q = r

\* No accepted edit is lost to another one that read the catalogue before it.
EditsKept == catalog.programs = granted

\* The two together, on well-typed states (save, remove, edit).
CatalogueHolds == TypeOK /\ OneInForce /\ EditsKept
=============================================================================
