-------------------------------- MODULE Relations --------------------------------
(***************************************************************************)
(* Who holds one stored relation on one object, while it is written and    *)
(* read by several: replace() and the writes it races (permissions/        *)
(* replace.ts, engine.ts), the transactions the adapters write it with     *)
(* (janus-drizzle and janus-mongo, relations/writes.ts), and holders(),    *)
(* which pages it (permissions/holders.ts).                                *)
(*                                                                         *)
(* The tuples of one relation on one object differ by their subject, so    *)
(* the relation is the set of its subjects.                                *)
(***************************************************************************)
EXTENDS Naturals, FiniteSets, RelationStore

CONSTANTS
    Subjects,       \* entities and subject sets that may be stored
    Admitted,       \* those the model admits: what grant() and replace() write
    Rank,           \* their order, by type then id, which pages and locks follow
    Callers,        \* concurrent calls of replace()
    Adapters,       \* among "memory", "drizzle" and "mongo"
    Limits,         \* page sizes asked of holders()
    ScanLimits,     \* scan budgets asked with a predicate
    Predicates,     \* the sets of subjects a predicate passes
    MAX_PAGE_SIZE,
    MaxReplaces,    \* bound: replace() calls
    MaxWrites,      \* bound: other writes
    MaxFaults,      \* bound: failed store calls
    MaxPages,       \* bound: pages of holders() asked
    None

ASSUME RelationsAssumption ==
    /\ Admitted \subseteq Subjects
    /\ IsFiniteSet(Subjects)
    /\ \A s \in Subjects : Rank[s] \in Nat
    /\ \A s, t \in Subjects : Rank[s] = Rank[t] => s = t
    /\ MAX_PAGE_SIZE \in Nat \ {0}
    /\ Limits \subseteq Nat \ {0} /\ ScanLimits \subseteq Nat \ {0}
    /\ Predicates \subseteq SUBSET Subjects
    /\ None \notin Subjects

VARIABLES
    adapter,   \* which store is behind the port
    stored,    \* the subjects whose tuple is committed
    job,       \* each caller's replace(): what it read, and how far its write got
    scan,      \* one reader paging holders()
    group,     \* history: what the replaces overlapping each other wanted
    writes, replaces, faults

vars == <<adapter, stored, job, scan, group, writes, replaces, faults>>

Idle ==
    [phase |-> "idle", wanted |-> {}, unread |-> {}, held |-> {},
     remove |-> {}, add |-> {}, deleted |-> {}, inserted |-> {}, snapshot |-> {},
     several |-> FALSE]

IsEntity(s) == s.relation = Entity
Entities    == {s \in Subjects : IsEntity(s)}

Active(c)   == job[c].phase # "idle"
NoneActive  == \A c \in Callers : ~Active(c)

-----------------------------------------------------------------------------
(* What another call's open transaction holds.                             *)

DeletedBy(c)  == UNION {job[d].deleted : d \in Callers \ {c}}
InsertedBy(c) == UNION {job[d].inserted : d \in Callers \ {c}}

\* PostgreSQL, read committed: a delete sees the committed row, and waits for
\* whoever is deleting it; an insert meets the unique constraint, and waits for
\* whoever is inserting or deleting the row.
DeleteWaits(c, s) == s \in stored /\ s \in DeletedBy(c)
InsertWaits(c, s) == s \in DeletedBy(c) \cup InsertedBy(c)

\* The next tuple of a write: removals first, then additions, each in order.
Lowest(S) == CHOOSE s \in S : \A t \in S : Rank[s] <= Rank[t]
NextOf(c) == IF job[c].remove # {} THEN Lowest(job[c].remove) ELSE Lowest(job[c].add)

Waits(c) ==
    /\ adapter = "drizzle" /\ job[c].phase = "writing"
    /\ \/ job[c].remove # {} /\ DeleteWaits(c, NextOf(c))
       \/ job[c].remove = {} /\ job[c].add # {} /\ InsertWaits(c, NextOf(c))

WaitsFor(c, d) ==
    /\ c # d /\ Waits(c)
    /\ NextOf(c) \in job[d].deleted \cup job[d].inserted

\* With two writers, a cycle of waits is a pair waiting for each other.
InDeadlock(c) == \E d \in Callers : WaitsFor(c, d) /\ WaitsFor(d, c)

\* MongoDB: a transaction touching what another open one wrote, or what was
\* committed since its snapshot, conflicts; a single tuple is one driver call,
\* which the server retries.
Conflicts(c, s) ==
    \/ s \in DeletedBy(c) \cup InsertedBy(c)
    \/ job[c].several /\ (s \in stored) # (s \in job[c].snapshot)

-----------------------------------------------------------------------------
(* The history of overlapping replaces.                                    *)

Wrote(clean) == group' = [group EXCEPT !.clean = @ /\ clean]

\* Every change of stored is seen by a scan in progress.
Stores(new) ==
    /\ stored' = new
    /\ scan' = [scan EXCEPT !.throughout = @ \cap new]

-----------------------------------------------------------------------------
\* A reader that asks nothing, and one about to page with its options: a page
\* size, and with a predicate what it passes and the budget of one call.
NoScan ==
    [phase |-> "idle", after |-> None, cursor |-> None, limit |-> 0,
     budget |-> 0, passes |-> Entities, judged |-> FALSE, kept |-> {},
     scanned |-> 0, returned |-> {}, twice |-> FALSE, throughout |-> {},
     pages |-> 0]

Paging(limit) == [NoScan EXCEPT !.phase = "between", !.limit = limit]

Judging(limit, budget, passes) ==
    [Paging(limit) EXCEPT !.judged = TRUE, !.budget = budget, !.passes = passes]

\* It begins: these are held, and pass.
From(held, reader) == [reader EXCEPT !.throughout = held \cap Entities \cap reader.passes]

Scans(held) ==
    {From(held, Paging(limit)) : limit \in Limits}
      \cup {From(held, Judging(limit, budget, passes)) :
              limit \in Limits, budget \in ScanLimits, passes \in Predicates}

Init ==
    /\ adapter \in Adapters
    /\ stored \in SUBSET Subjects
    /\ job = [c \in Callers |-> Idle]
    /\ scan \in {NoScan} \cup Scans(stored)
    /\ group = [wants |-> {}, clean |-> TRUE]
    /\ writes = 0 /\ replaces = 0 /\ faults = 0

\* A single tuple is one statement: it waits for an open transaction that holds
\* the row, and commits at once.
Free(s) == \A c \in Callers : s \notin job[c].deleted \cup job[c].inserted

Grant(s) ==
    /\ writes < MaxWrites
    /\ adapter = "memory" \/ Free(s)
    /\ Stores(stored \cup {s})
    /\ writes' = writes + 1
    /\ Wrote(FALSE)
    /\ UNCHANGED <<adapter, job, replaces, faults>>

Revoke(s) ==
    /\ writes < MaxWrites
    /\ adapter = "memory" \/ Free(s)
    /\ Stores(stored \ {s})
    /\ writes' = writes + 1
    /\ Wrote(FALSE)
    /\ UNCHANGED <<adapter, job, replaces, faults>>

\* The entity is deleted: its own tuple goes, and those of its subject sets.
DeleteEntity(e) ==
    LET named == {s \in Subjects : EntityOf(s) = e} IN
    /\ writes < MaxWrites
    /\ \A s \in named : adapter = "memory" \/ Free(s)
    /\ Stores(stored \ named)
    /\ writes' = writes + 1
    /\ Wrote(FALSE)
    /\ UNCHANGED <<adapter, job, replaces, faults>>

-----------------------------------------------------------------------------
(* replace(): both reads, in any order, then one write of the difference.  *)

\* The lists replace() takes: every subject is read first, as grant() reads it,
\* so a refusal writes nothing.
WantedLists == SUBSET Admitted

Replace(c, wanted) ==
    /\ ~Active(c) /\ replaces < MaxReplaces
    /\ job' = [job EXCEPT ![c] = [Idle EXCEPT !.phase = "reading", !.wanted = wanted,
                                              !.unread = {"entities", "sets"}]]
    /\ group' = IF NoneActive THEN [wants |-> {wanted}, clean |-> TRUE]
                ELSE [group EXCEPT !.wants = @ \cup {wanted}]
    /\ replaces' = replaces + 1
    /\ UNCHANGED <<adapter, stored, scan, writes, faults>>

(* Mutant: only the single entities are taken for holders.                 *)
FoundEntities(which) == IF which = "entities" THEN stored \cap Entities ELSE {}

\* What one of the two reads answers.
FoundBy(which) ==
    IF which = "entities" THEN stored \cap Entities ELSE stored \ Entities

ReadHolders(c, which) ==
    /\ job[c].phase = "reading" /\ which \in job[c].unread
    /\ job' = [job EXCEPT ![c].unread = @ \ {which},
                          ![c].held = @ \cup FoundBy(which)]
    /\ UNCHANGED <<adapter, stored, scan, group, writes, replaces, faults>>

\* No write when nothing is to change; else the write of both lists begins.
BeginWrite(c) ==
    LET add    == job[c].wanted \ job[c].held
        remove == job[c].held \ job[c].wanted
    IN  /\ job[c].phase = "reading" /\ job[c].unread = {}
        /\ job' = [job EXCEPT ![c] =
             IF add = {} /\ remove = {} THEN Idle
             ELSE [@ EXCEPT !.phase = "writing", !.add = add, !.remove = remove,
                            !.several = Cardinality(add \cup remove) > 1,
                            !.snapshot = IF adapter = "mongo" THEN stored ELSE {}]]
        /\ UNCHANGED <<adapter, stored, scan, group, writes, replaces, faults>>

\* The memory store checks nothing it could fail on half-way.
WriteAtOnce(c) ==
    /\ adapter = "memory" /\ job[c].phase = "writing"
    /\ Stores(Written(stored, job[c].remove, job[c].add))
    /\ job' = [job EXCEPT ![c] = Idle]
    /\ UNCHANGED <<adapter, group, writes, replaces, faults>>

\* The rows a removal deletes: a subject set is not its entity.
Matching(s) == {s}

DeleteRow(c) ==
    LET s == NextOf(c) IN
    /\ adapter # "memory" /\ job[c].phase = "writing" /\ job[c].remove # {}
    /\ IF adapter = "mongo" THEN ~Conflicts(c, s) ELSE ~Waits(c)
    /\ job' = [job EXCEPT ![c].remove = @ \ {s},
                              ![c].deleted = @ \cup (Matching(s) \cap stored)]
    /\ UNCHANGED <<adapter, stored, scan, group, writes, replaces, faults>>

\* A stored tuple meets the constraint, and is a no-op.
InsertRow(c) ==
    LET s == NextOf(c) IN
    /\ adapter # "memory" /\ job[c].phase = "writing"
    /\ job[c].remove = {} /\ job[c].add # {}
    /\ IF adapter = "mongo" THEN ~Conflicts(c, s) ELSE ~Waits(c)
    /\ job' = [job EXCEPT ![c].add = @ \ {s},
                          ![c].inserted = IF s \in stored THEN @ ELSE @ \cup {s}]
    /\ UNCHANGED <<adapter, stored, scan, group, writes, replaces, faults>>

Commit(c) ==
    /\ adapter # "memory" /\ job[c].phase = "writing"
    /\ job[c].remove = {} /\ job[c].add = {}
    /\ Stores(Written(stored, job[c].deleted, job[c].inserted))
    /\ job' = [job EXCEPT ![c] = Idle]
    /\ UNCHANGED <<adapter, group, writes, replaces, faults>>

\* The store could not answer a read or the write: an open transaction is
\* rolled back, and replace() throws.
Fails(c) ==
    /\ Active(c) /\ faults < MaxFaults
    /\ job' = [job EXCEPT ![c] = Idle]
    /\ faults' = faults + 1
    /\ Wrote(FALSE)
    /\ UNCHANGED <<adapter, stored, scan, writes, replaces>>

\* The answer to a commit is lost: the caller reads a failure of what was done.
CommitUnheard(c) ==
    /\ job[c].phase = "writing" /\ faults < MaxFaults
    /\ adapter # "memory" /\ job[c].remove = {} /\ job[c].add = {}
    /\ Stores(Written(stored, job[c].deleted, job[c].inserted))
    /\ job' = [job EXCEPT ![c] = Idle]
    /\ faults' = faults + 1
    /\ Wrote(FALSE)
    /\ UNCHANGED <<adapter, writes, replaces>>

\* The database breaks a deadlock, or refuses a conflicting transaction: it is
\* rolled back, not retried, and replace() throws.
Aborted(c) ==
    /\ job[c].phase = "writing"
    /\ \/ adapter = "drizzle" /\ InDeadlock(c)
       \/ /\ adapter = "mongo" /\ job[c].several /\ job[c].remove \cup job[c].add # {}
          /\ Conflicts(c, NextOf(c))
    /\ job' = [job EXCEPT ![c] = Idle]
    /\ Wrote(FALSE)
    /\ UNCHANGED <<adapter, stored, scan, writes, replaces, faults>>

-----------------------------------------------------------------------------
(* holders(): pages of the entities, with or without a predicate the store *)
(* cannot see.                                                             *)

Page(after, size) == PageOf(stored \cap Entities, Rank, after, size, None)

FirstOf(S, n)  == {s \in S : Cardinality({t \in S : Rank[t] < Rank[s]}) < n}
LastOf(S)      == CHOOSE s \in S : \A t \in S : Rank[t] <= Rank[s]

\* A page is answered, and the caller goes on from its cursor.
Answer(items, next) ==
    scan' = [scan EXCEPT !.phase = IF next = None THEN "done" ELSE "between",
                         !.after = next, !.returned = @ \cup items,
                         !.twice = @ \/ items \cap scan.returned # {},
                         !.kept = {}, !.scanned = 0]

AskPage ==
    /\ scan.phase = "between" /\ scan.pages < MaxPages
    /\ scan' = [scan EXCEPT !.phase = "reading", !.cursor = scan.after,
                            !.pages = @ + 1]
    /\ UNCHANGED <<adapter, stored, job, group, writes, replaces, faults>>

ReadPage ==
    /\ scan.phase = "reading" /\ ~scan.judged
    /\ LET page == Page(scan.cursor, scan.limit) IN Answer(page.items, page.next)
    /\ UNCHANGED <<adapter, stored, job, group, writes, replaces, faults>>

(* Mutant: a page the budget cut short is not gone back to.                 *)
ResumePast(page, visible) == page.next

\* Where the next call goes on when the budget cut a page short: after the last
\* holder that was judged.
Resume(page, visible) == LastOf(visible)

\* One read of the largest page, and the judging of what the budget lets see.
ScanHolders ==
    LET page    == Page(scan.cursor, MAX_PAGE_SIZE)
        room    == IF scan.budget > scan.scanned THEN scan.budget - scan.scanned ELSE 0
        visible == FirstOf(page.items, room)
        kept    == scan.kept \cup (visible \cap scan.passes)
        scanned == scan.scanned + Cardinality(visible)
    IN  /\ scan.phase = "reading" /\ scan.judged
        /\ IF Cardinality(kept) > scan.limit
             THEN LET items == FirstOf(kept, scan.limit) IN Answer(items, LastOf(items))
           ELSE IF visible # page.items THEN Answer(kept, Resume(page, visible))
           ELSE IF page.next = None THEN Answer(kept, None)
           ELSE IF scanned >= scan.budget THEN Answer(kept, page.next)
           ELSE scan' = [scan EXCEPT !.cursor = page.next, !.kept = kept,
                                     !.scanned = scanned]
        /\ UNCHANGED <<adapter, stored, job, group, writes, replaces, faults>>

Next ==
    \/ \E s \in Admitted : Grant(s)
    \/ \E s \in Subjects : Revoke(s) \/ DeleteEntity(EntityOf(s))
    \/ \E c \in Callers :
         \/ \E wanted \in WantedLists : Replace(c, wanted)
         \/ \E which \in {"entities", "sets"} : ReadHolders(c, which)
         \/ BeginWrite(c) \/ WriteAtOnce(c)
         \/ DeleteRow(c) \/ InsertRow(c) \/ Commit(c)
         \/ Fails(c) \/ CommitUnheard(c) \/ Aborted(c)
    \/ AskPage \/ ReadPage \/ ScanHolders

Spec == Init /\ [][Next]_vars

-----------------------------------------------------------------------------
JobType ==
    [phase : {"idle", "reading", "writing"}, wanted : SUBSET Admitted,
     unread : SUBSET {"entities", "sets"}, held : SUBSET Subjects,
     remove : SUBSET Subjects, add : SUBSET Subjects,
     deleted : SUBSET Subjects, inserted : SUBSET Subjects,
     snapshot : SUBSET Subjects, several : BOOLEAN]

TypeOK ==
    /\ adapter \in Adapters
    /\ stored \in SUBSET Subjects
    /\ job \in [Callers -> JobType]
    /\ group \in [wants : SUBSET SUBSET Admitted, clean : BOOLEAN]
    /\ scan.returned \subseteq Entities /\ scan.throughout \subseteq Entities
    /\ {writes, replaces, faults} \subseteq Nat

\* When replaces that overlapped each other, and nothing else, have written, a
\* subject every one of them wanted is held and one that none wanted is not:
\* on every adapter, whatever the order of their reads and of the rows their
\* transactions write.  A replace that overlapped none leaves what it wanted.
ReplacesBetween ==
    (NoneActive /\ group.clean /\ group.wants # {}) =>
       /\ \A s \in Admitted : (\A w \in group.wants : s \in w) => s \in stored
       /\ stored \subseteq UNION group.wants

\* Paging holders() while the relation is written answers no holder twice,
\* keeps to the page size, and by its last page has answered every holder that
\* passes the predicate and was held from the first page on.
HoldersPaged ==
    /\ ~scan.twice
    /\ Cardinality(scan.kept) <= scan.limit
    /\ scan.phase = "done" => scan.throughout \subseteq scan.returned

\* The comment of janus-drizzle's write (relations/writes.ts:24): writes touch
\* their tuples in one order, so two of them never deadlock.
NeverDeadlock == \A c \in Callers : ~InDeadlock(c)
=============================================================================
