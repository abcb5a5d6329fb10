-------------------------- MODULE RelationsProofs --------------------------
(***************************************************************************)
(* Theorems about Relations for any number of calls of replace(), any      *)
(* adapter, any writes beside them, and any pages asked of holders().      *)
(*                                                                         *)
(* ReplacesBetween is about the end of replaces that overlap; before it,   *)
(* what decides is that none of them has finished while a subject they all *)
(* want is missing, and none while one that nobody wants is there          *)
(* (WantedAhead, UnwantedAhead).                                           *)
(*                                                                         *)
(* HoldersPaged rests on the cursor: everything answered is behind it, and *)
(* everything held from the start is answered, kept for the page or still  *)
(* ahead of it (Paged).                                                    *)
(***************************************************************************)
EXTENDS Relations, FiniteSetTheorems, WellFoundedInduction, TLAPS

-----------------------------------------------------------------------------
(* Orders: the first and the last of a set of subjects.                    *)

LEMMA Constants ==
  /\ Admitted \subseteq Subjects /\ IsFiniteSet(Subjects)
  /\ \A s \in Subjects : Rank[s] \in Nat
  /\ \A s, t \in Subjects : Rank[s] = Rank[t] => s = t
  /\ MAX_PAGE_SIZE \in Nat \ {0} /\ None \notin Subjects
  /\ Limits \subseteq Nat \ {0} /\ ScanLimits \subseteq Nat \ {0}
  /\ Predicates \subseteq SUBSET Subjects
  BY RelationsAssumption

LEMMA FiniteSome ==
  ASSUME NEW S \in SUBSET Subjects
  PROVE  IsFiniteSet(S) /\ Cardinality(S) \in Nat
  BY Constants, FS_Subset, FS_CardinalityType

(* Of the subsets of S that f gives, none is strictly inside this one.     *)
LEMMA Smallest ==
  ASSUME NEW S \in SUBSET Subjects, S # {}, NEW f \in [S -> SUBSET S]
  PROVE  \E s \in S : \A t \in S : f[t] \subseteq f[s] => f[t] = f[s]
<1>1. PICK F : F = {f[s] : s \in S}
  OBVIOUS
<1>2. F \subseteq SUBSET S /\ F # {}
  BY <1>1
<1>3. IsWellFoundedOn(StrictSubsetOrdering(S), FiniteSubsetsOf(S))
  BY FS_StrictSubsetOrderingWellFounded
<1>4. FiniteSubsetsOf(S) = SUBSET S
  BY FiniteSome, FS_FiniteSubsetsOfFinite
<1>5. \E T \in F : \A U \in F : ~ (<<U, T>> \in StrictSubsetOrdering(S))
  BY <1>2, <1>3, <1>4, WFMin
<1>6. PICK T \in F : \A U \in F : ~ (<<U, T>> \in StrictSubsetOrdering(S))
  BY <1>5
<1>7. PICK s \in S : T = f[s]
  BY <1>1, <1>6
<1>8. ASSUME NEW t \in S, f[t] \subseteq f[s] PROVE f[t] = f[s]
  <2>1. f[t] \in F /\ f[t] \in SUBSET S /\ f[s] \in SUBSET S
    BY <1>1
  <2>2. ~ (<<f[t], f[s]>> \in StrictSubsetOrdering(S))
    BY <1>6, <1>7, <2>1
  <2> QED
    BY <1>8, <2>1, <2>2 DEF StrictSubsetOrdering
<1> QED
  BY <1>8

LEMMA HasLowest ==
  ASSUME NEW S \in SUBSET Subjects, S # {}
  PROVE  \E s \in S : \A t \in S : Rank[s] <= Rank[t]
<1>1. PICK under : under = [s \in S |-> {t \in S : Rank[t] < Rank[s]}]
  OBVIOUS
<1>2. under \in [S -> SUBSET S]
  BY <1>1
<1>3. PICK s \in S : \A t \in S : under[t] \subseteq under[s] => under[t] = under[s]
  BY <1>2, Smallest
<1>4. ASSUME NEW t \in S PROVE Rank[s] <= Rank[t]
  <2>1. Rank[s] \in Nat /\ Rank[t] \in Nat /\ \A u \in S : Rank[u] \in Nat
    BY Constants
  <2>2. CASE Rank[t] < Rank[s]
    <3>1. under[t] \subseteq under[s] /\ t \in under[s] /\ t \notin under[t]
      BY <1>1, <2>1, <2>2
    <3> QED
      BY <1>3, <3>1
  <2> QED
    BY <2>1, <2>2
<1> QED
  BY <1>4

LEMMA HasHighest ==
  ASSUME NEW S \in SUBSET Subjects, S # {}
  PROVE  \E s \in S : \A t \in S : Rank[t] <= Rank[s]
<1>1. PICK over : over = [s \in S |-> {t \in S : Rank[s] < Rank[t]}]
  OBVIOUS
<1>2. over \in [S -> SUBSET S]
  BY <1>1
<1>3. PICK s \in S : \A t \in S : over[t] \subseteq over[s] => over[t] = over[s]
  BY <1>2, Smallest
<1>4. ASSUME NEW t \in S PROVE Rank[t] <= Rank[s]
  <2>1. Rank[s] \in Nat /\ Rank[t] \in Nat /\ \A u \in S : Rank[u] \in Nat
    BY Constants
  <2>2. CASE Rank[s] < Rank[t]
    <3>1. over[t] \subseteq over[s] /\ t \in over[s] /\ t \notin over[t]
      BY <1>1, <2>1, <2>2
    <3> QED
      BY <1>3, <3>1
  <2> QED
    BY <2>1, <2>2
<1> QED
  BY <1>4

LEMMA LowestOf ==
  ASSUME NEW S \in SUBSET Subjects, S # {}
  PROVE  Lowest(S) \in S
  BY HasLowest DEF Lowest

LEMMA LastIsLast ==
  ASSUME NEW S \in SUBSET Subjects, S # {}
  PROVE  LastOf(S) \in S /\ \A t \in S : Rank[t] <= Rank[LastOf(S)]
  BY HasHighest DEF LastOf

(* The first n: none is skipped, and there is one unless S is empty.       *)
LEMMA FirstAreFirst ==
  ASSUME NEW S \in SUBSET Subjects, NEW n \in Nat
  PROVE  /\ FirstOf(S, n) \subseteq S
         /\ \A s \in S, t \in FirstOf(S, n) : s \notin FirstOf(S, n) => Rank[t] < Rank[s]
         /\ S # {} /\ n # 0 => FirstOf(S, n) # {}
<1>1. \A s \in S : Rank[s] \in Nat
  BY Constants
<1>2. PICK under : under = [s \in S |-> {t \in S : Rank[t] < Rank[s]}]
  OBVIOUS
<1>3. FirstOf(S, n) = {s \in S : Cardinality(under[s]) < n}
  BY <1>2 DEF FirstOf
<1>4. \A s \in S : IsFiniteSet(under[s]) /\ Cardinality(under[s]) \in Nat
  BY <1>2, FiniteSome
<1>5. ASSUME NEW s \in S, NEW t \in FirstOf(S, n), s \notin FirstOf(S, n)
      PROVE  Rank[t] < Rank[s]
  <2>1. t \in S
    BY <1>3
  <2>2. ASSUME Rank[s] <= Rank[t] PROVE FALSE
    <3>1. under[s] \in SUBSET under[t]
      BY <1>1, <1>2, <2>1, <2>2
    <3>2. Cardinality(under[s]) <= Cardinality(under[t])
      BY <1>4, <2>1, <3>1, FS_Subset
    <3>3. Cardinality(under[t]) < n /\ ~ (Cardinality(under[s]) < n)
      BY <1>3, <1>5
    <3> QED
      BY <1>4, <2>1, <3>2, <3>3
  <2> QED
    BY <1>1, <2>1, <2>2
<1>6. ASSUME S # {}, n # 0 PROVE FirstOf(S, n) # {}
  <2>1. PICK s \in S : \A t \in S : Rank[s] <= Rank[t]
    BY <1>6, HasLowest
  <2>2. under[s] = {}
    BY <1>1, <1>2, <2>1
  <2>3. Cardinality(under[s]) < n
    BY <1>6, <2>2, FS_EmptySet
  <2> QED
    BY <1>3, <2>3
<1> QED
  BY <1>3, <1>5, <1>6

-----------------------------------------------------------------------------
(* The invariant of replace().                                             *)

Typed ==
  /\ adapter \in Adapters
  /\ stored \in SUBSET Subjects
  /\ job \in [Callers -> JobType]
  /\ group \in [wants : SUBSET SUBSET Admitted, clean : BOOLEAN]
  /\ {writes, replaces, faults} \subseteq Nat

(* How far a call is: what a write still has to do and what it did are of  *)
(* what it wants to come and of what it wants to go.                       *)
JobShape(c) ==
  /\ Active(c) => job[c].wanted \in group.wants
  /\ job[c].phase # "writing" => job[c].deleted = {} /\ job[c].inserted = {}
  /\ adapter = "memory" => job[c].deleted = {} /\ job[c].inserted = {}
  /\ job[c].phase = "writing" =>
       /\ job[c].add \cup job[c].inserted \subseteq job[c].wanted
       /\ (job[c].remove \cup job[c].deleted) \cap job[c].wanted = {}

Replacing == group.clean /\ group.wants # {}

AllWant(s) == \A w \in group.wants : s \in w
NoneWants(s) == \A w \in group.wants : s \notin w

WillAdd(c, s) ==
  /\ s \notin job[c].held \/ job[c].phase # "reading"
  /\ job[c].phase = "writing" => s \in job[c].add \cup job[c].inserted

ReadOf(s) == IF IsEntity(s) THEN "entities" ELSE "sets"

WillRemove(c, s) ==
  /\ job[c].phase = "reading" => s \in job[c].held \/ ReadOf(s) \in job[c].unread
  /\ job[c].phase = "writing" => s \in job[c].remove \cup job[c].deleted

(* A subject all of them want is there, or none of the replaces has        *)
(* finished, and each of them will add it.                                 *)
WantedAhead ==
  Replacing => \A s \in Admitted : AllWant(s) /\ s \notin stored =>
    ~ NoneActive /\ \A c \in Callers : Active(c) => WillAdd(c, s)

(* One that nobody wants is gone, or none has finished, and each of them   *)
(* will remove it.                                                         *)
UnwantedAhead ==
  Replacing => \A s \in Subjects : NoneWants(s) /\ s \in stored =>
    ~ NoneActive /\ \A c \in Callers : Active(c) => WillRemove(c, s)

RInv == Typed /\ (\A c \in Callers : JobShape(c)) /\ WantedAhead /\ UnwantedAhead

LEMMA RInvGives == RInv => ReplacesBetween
<1> SUFFICES ASSUME RInv, NoneActive, group.clean, group.wants # {}
             PROVE  /\ \A s \in Admitted : (\A w \in group.wants : s \in w) => s \in stored
                    /\ stored \subseteq UNION group.wants
  BY DEF ReplacesBetween
<1>1. ASSUME NEW s \in Admitted, \A w \in group.wants : s \in w PROVE s \in stored
  BY <1>1 DEF RInv, WantedAhead, Replacing, AllWant
<1>2. ASSUME NEW s \in stored PROVE s \in UNION group.wants
  <2>1. s \in Subjects
    BY DEF RInv, Typed
  <2> QED
    BY <2>1 DEF RInv, UnwantedAhead, Replacing, NoneWants
<1> QED
  BY <1>1, <1>2

LEMMA RInit == Init => RInv
<1> SUFFICES ASSUME Init PROVE RInv
  OBVIOUS
<1>1. Idle \in JobType
  BY DEF Idle, JobType
<1>2. Typed
  BY <1>1 DEF Init, Typed
<1>3. \A c \in Callers : JobShape(c)
  BY DEF Init, JobShape, Active, Idle
<1>4. WantedAhead /\ UnwantedAhead
  BY DEF Init, WantedAhead, UnwantedAhead, Replacing
<1> QED
  BY <1>2, <1>3, <1>4 DEF RInv

-----------------------------------------------------------------------------
(* What each step does to the calls.                                       *)

(* One call moves on, or none.                                             *)
Only(c) == \A d \in Callers \ {c} : job'[d] = job[d]

(* A step of somebody else, or one that fails: the history says so.        *)
Spoils ==
  /\ ~ group.clean'
  /\ group'.wants = group.wants
  /\ \A d \in Callers : job'[d] = job[d] \/ job'[d] = Idle

LEMMA JobFields ==
  ASSUME NEW j \in JobType
  PROVE  /\ j.phase \in {"idle", "reading", "writing"} /\ j.wanted \subseteq Admitted
         /\ j.unread \subseteq {"entities", "sets"}
         /\ j.held \subseteq Subjects /\ j.remove \subseteq Subjects /\ j.add \subseteq Subjects
         /\ j.deleted \subseteq Subjects /\ j.inserted \subseteq Subjects
         /\ j.snapshot \subseteq Subjects /\ j.several \in BOOLEAN
  BY DEF JobType

LEMMA IdleTyped == Idle \in JobType
  BY DEF Idle, JobType

LEMMA NextIs ==
  ASSUME RInv, NEW c \in Callers, job[c].phase = "writing"
  PROVE  /\ job[c].remove # {} => NextOf(c) \in job[c].remove
         /\ job[c].remove = {} /\ job[c].add # {} => NextOf(c) \in job[c].add
<1>1. job[c].remove \in SUBSET Subjects /\ job[c].add \in SUBSET Subjects
  BY JobFields DEF RInv, Typed
<1> QED
  BY <1>1, LowestOf DEF NextOf

(* The writes of one tuple or one entity, and the steps that fail.         *)
LEMMA SpoilsKeeps ==
  ASSUME RInv, Spoils, Typed', adapter' = adapter
  PROVE  RInv'
<1>1. ASSUME NEW c \in Callers PROVE JobShape(c)'
  <2>1. CASE job'[c] = job[c]
    BY <1>1, <2>1 DEF RInv, Spoils, JobShape, Active
  <2>2. CASE job'[c] = Idle
    BY <2>2 DEF JobShape, Active, Idle
  <2> QED
    BY <2>1, <2>2 DEF Spoils
<1>2. ~ Replacing'
  BY DEF Spoils, Replacing
<1> QED
  BY <1>1, <1>2 DEF RInv, WantedAhead, UnwantedAhead

(* A call that neither finishes nor changes what is stored.                *)
Proceeds(c) ==
  /\ stored' = stored /\ adapter' = adapter /\ group' = group
  /\ Only(c) /\ Active(c) /\ job'[c].phase # "idle"

LEMMA ProceedsKeeps ==
  ASSUME RInv, NEW c \in Callers, Proceeds(c), Typed', JobShape(c)',
         \A s \in Subjects :
           s \notin stored /\ s \in job[c].wanted /\ WillAdd(c, s) => WillAdd(c, s)',
         \A s \in Subjects :
           s \in stored /\ s \notin job[c].wanted /\ WillRemove(c, s) => WillRemove(c, s)'
  PROVE  RInv'
<1>0. job[c].wanted \in group.wants
  BY DEF RInv, JobShape, Proceeds
<1>1. ASSUME NEW d \in Callers PROVE JobShape(d)'
  <2>1. CASE d # c
    BY <1>1, <2>1 DEF RInv, Proceeds, Only, JobShape, Active
  <2> QED
    BY <2>1
<1>2. \A d \in Callers : Active(d)' <=> Active(d)
  BY DEF Proceeds, Only, Active
<1>3. ~ NoneActive /\ ~ NoneActive'
  BY <1>2 DEF Proceeds, NoneActive
<1>4. \A d \in Callers, s \in Subjects :
        AllWant(s) /\ s \notin stored /\ WillAdd(d, s) => WillAdd(d, s)'
  BY <1>0 DEF Proceeds, Only, WillAdd, AllWant
<1>5. \A d \in Callers, s \in Subjects :
        NoneWants(s) /\ s \in stored /\ WillRemove(d, s) => WillRemove(d, s)'
  BY <1>0 DEF Proceeds, Only, WillRemove, NoneWants
<1>6. WantedAhead'
  <2> SUFFICES ASSUME Replacing', NEW s \in Admitted, AllWant(s)', s \notin stored'
               PROVE  \A d \in Callers : Active(d)' => WillAdd(d, s)'
    BY <1>3 DEF WantedAhead
  <2>1. Replacing /\ AllWant(s) /\ s \notin stored /\ s \in Subjects
    BY Constants DEF Proceeds, Replacing, AllWant
  <2>2. \A d \in Callers : Active(d) => WillAdd(d, s)
    BY <2>1 DEF RInv, WantedAhead
  <2> QED
    BY <1>2, <1>4, <2>1, <2>2
<1>7. UnwantedAhead'
  <2> SUFFICES ASSUME Replacing', NEW s \in Subjects, NoneWants(s)', s \in stored'
               PROVE  \A d \in Callers : Active(d)' => WillRemove(d, s)'
    BY <1>3 DEF UnwantedAhead
  <2>1. Replacing /\ NoneWants(s) /\ s \in stored
    BY DEF Proceeds, Replacing, NoneWants
  <2>2. \A d \in Callers : Active(d) => WillRemove(d, s)
    BY <2>1 DEF RInv, UnwantedAhead
  <2> QED
    BY <1>2, <1>5, <2>1, <2>2
<1> QED
  BY <1>1, <1>6, <1>7 DEF RInv

(* A call that finishes: what it wanted is there, and what it read of the  *)
(* rest is gone.                                                           *)
Finishes(c) ==
  /\ adapter' = adapter /\ group' = group /\ Only(c) /\ Active(c) /\ job'[c] = Idle
  /\ stored \cap job[c].wanted \subseteq stored'
  /\ stored' \subseteq stored \cup job[c].wanted
  /\ \A s \in Subjects : s \notin stored /\ s \in job[c].wanted /\ WillAdd(c, s) => s \in stored'
  /\ \A s \in Subjects : s \in stored /\ s \notin job[c].wanted /\ WillRemove(c, s) => s \notin stored'

LEMMA FinishesKeeps ==
  ASSUME RInv, NEW c \in Callers, Finishes(c), Typed'
  PROVE  RInv'
<1>1. ASSUME NEW d \in Callers PROVE JobShape(d)'
  <2>1. CASE d # c
    BY <1>1, <2>1 DEF RInv, Finishes, Only, JobShape, Active
  <2>2. CASE d = c
    BY <2>2 DEF Finishes, JobShape, Active, Idle
  <2> QED
    BY <2>1, <2>2
<1>2. job[c].wanted \in group.wants
  BY DEF RInv, JobShape, Finishes
<1>3. WantedAhead'
  <2> SUFFICES ASSUME Replacing', NEW s \in Admitted, AllWant(s)', s \notin stored'
               PROVE  FALSE
    BY DEF WantedAhead
  <2>1. Replacing /\ AllWant(s) /\ s \in Subjects
    BY Constants DEF Finishes, Replacing, AllWant
  <2>2. s \in job[c].wanted
    BY <1>2, <2>1 DEF AllWant
  <2>3. s \notin stored
    BY <2>2 DEF Finishes
  <2>4. WillAdd(c, s)
    BY <2>1, <2>3 DEF RInv, WantedAhead, Finishes
  <2> QED
    BY <2>1, <2>2, <2>3, <2>4 DEF Finishes
<1>4. UnwantedAhead'
  <2> SUFFICES ASSUME Replacing', NEW s \in Subjects, NoneWants(s)', s \in stored'
               PROVE  FALSE
    BY DEF UnwantedAhead
  <2>1. Replacing /\ NoneWants(s)
    BY DEF Finishes, Replacing, NoneWants
  <2>2. s \notin job[c].wanted
    BY <1>2, <2>1 DEF NoneWants
  <2>3. s \in stored
    BY <2>2 DEF Finishes
  <2>4. WillRemove(c, s)
    BY <2>1, <2>3 DEF RInv, UnwantedAhead, Finishes
  <2> QED
    BY <2>2, <2>3, <2>4 DEF Finishes
<1> QED
  BY <1>1, <1>3, <1>4 DEF RInv

-----------------------------------------------------------------------------
(* The steps of a call of replace().                                       *)

LEMMA ReplaceKeeps ==
  ASSUME RInv, NEW c \in Callers, NEW wanted \in WantedLists, Replace(c, wanted)
  PROVE  RInv'
<1>1. PICK j : j = [Idle EXCEPT !.phase = "reading", !.wanted = wanted,
                                !.unread = {"entities", "sets"}]
  OBVIOUS
<1>2. /\ j.phase = "reading" /\ j.wanted = wanted /\ j.unread = {"entities", "sets"}
      /\ j.held = {} /\ j.deleted = {} /\ j.inserted = {}
  BY <1>1 DEF Idle
<1>3. j \in JobType
  BY <1>1, Constants DEF Idle, JobType, WantedLists
<1>4. job' = [job EXCEPT ![c] = j] /\ job'[c] = j /\ Only(c)
  BY <1>1 DEF Replace, RInv, Typed, Only
<1>5. UNCHANGED <<adapter, stored, scan, writes, faults>> /\ ~ Active(c)
  BY DEF Replace
<1>6. /\ wanted \in group'.wants
      /\ NoneActive => group' = [wants |-> {wanted}, clean |-> TRUE]
      /\ ~ NoneActive => /\ group'.wants = group.wants \cup {wanted}
                         /\ group'.clean = group.clean
  BY DEF Replace, RInv, Typed
<1>7. Typed'
  <2>1. group' \in [wants : SUBSET SUBSET Admitted, clean : BOOLEAN]
    BY DEF Replace, RInv, Typed, WantedLists
  <2>2. replaces' \in Nat
    BY DEF Replace, RInv, Typed
  <2> QED
    BY <1>3, <1>4, <1>5, <2>1, <2>2 DEF RInv, Typed
<1>8. ASSUME NEW d \in Callers PROVE JobShape(d)'
  <2>1. CASE d = c
    BY <1>2, <1>4, <1>6, <2>1 DEF JobShape, Active
  <2>2. CASE d # c
    <3>1. job'[d] = job[d]
      BY <1>4, <2>2 DEF Only
    <3>2. Active(d) => job[d].wanted \in group'.wants
      BY <1>6 DEF NoneActive, RInv, JobShape
    <3> QED
      BY <1>5, <3>1, <3>2 DEF RInv, JobShape, Active
  <2> QED
    BY <2>1, <2>2
<1>9. ~ NoneActive' /\ (\A d \in Callers \ {c} : Active(d)' <=> Active(d))
  BY <1>2, <1>4 DEF NoneActive, Active, Only
<1>10. \A s \in Subjects : WillAdd(c, s)' /\ WillRemove(c, s)'
  BY <1>2, <1>4 DEF WillAdd, WillRemove, ReadOf
<1>11. \A d \in Callers \ {c}, s \in Subjects :
         /\ WillAdd(d, s) => WillAdd(d, s)'
         /\ WillRemove(d, s) => WillRemove(d, s)'
  BY <1>4 DEF Only, WillAdd, WillRemove
<1>12. WantedAhead'
  <2> SUFFICES ASSUME Replacing', NEW s \in Admitted, AllWant(s)', s \notin stored',
                      NEW d \in Callers, Active(d)', d # c
               PROVE  WillAdd(d, s)'
    BY <1>9, <1>10, Constants DEF WantedAhead
  <2>1. Active(d) /\ ~ NoneActive
    BY <1>9 DEF NoneActive
  <2>2. group.clean /\ group.wants # {} /\ AllWant(s) /\ s \notin stored
    BY <1>5, <1>6, <2>1 DEF Replacing, AllWant, RInv, JobShape
  <2> QED
    BY <1>11, <2>1, <2>2, Constants DEF RInv, WantedAhead, Replacing
<1>13. UnwantedAhead'
  <2> SUFFICES ASSUME Replacing', NEW s \in Subjects, NoneWants(s)', s \in stored',
                      NEW d \in Callers, Active(d)', d # c
               PROVE  WillRemove(d, s)'
    BY <1>9, <1>10 DEF UnwantedAhead
  <2>1. Active(d) /\ ~ NoneActive
    BY <1>9 DEF NoneActive
  <2>2. group.clean /\ group.wants # {} /\ NoneWants(s) /\ s \in stored
    BY <1>5, <1>6, <2>1 DEF Replacing, NoneWants, RInv, JobShape
  <2> QED
    BY <1>11, <2>1, <2>2 DEF RInv, UnwantedAhead, Replacing
<1> QED
  BY <1>7, <1>8, <1>12, <1>13 DEF RInv

LEMMA ReadKeeps ==
  ASSUME RInv, NEW c \in Callers, NEW which \in {"entities", "sets"}, ReadHolders(c, which)
  PROVE  RInv'
<1>1. PICK unread, held : /\ unread = job[c].unread \ {which}
                          /\ held = job[c].held \cup FoundBy(which)
  OBVIOUS
<1>2. job' = [job EXCEPT ![c] = [job[c] EXCEPT !.unread = unread, !.held = held]]
  BY <1>1 DEF ReadHolders, RInv, Typed
<1>3. job[c] \in JobType /\ job[c].phase = "reading"
  BY DEF RInv, Typed, ReadHolders
<1>4. FoundBy(which) \subseteq stored /\ stored \subseteq Subjects
  BY DEF FoundBy, RInv, Typed
<1>5. unread \subseteq {"entities", "sets"} /\ held \subseteq Subjects
  BY <1>1, <1>3, <1>4, JobFields
<1>6. PICK j : j = [job[c] EXCEPT !.unread = unread, !.held = held]
  OBVIOUS
<1>7. /\ j \in JobType /\ j.phase = "reading" /\ j.unread = unread /\ j.held = held
      /\ j.wanted = job[c].wanted /\ j.deleted = job[c].deleted /\ j.inserted = job[c].inserted
  BY <1>3, <1>5, <1>6 DEF JobType
<1>8. job' = [job EXCEPT ![c] = j] /\ job'[c] = j /\ Only(c)
  BY <1>2, <1>6 DEF RInv, Typed, Only
<1>9. UNCHANGED <<adapter, stored, scan, group, writes, replaces, faults>>
  BY DEF ReadHolders
<1>10. Typed'
  BY <1>7, <1>8, <1>9 DEF RInv, Typed
<1>11. Proceeds(c)
  BY <1>3, <1>7, <1>8, <1>9 DEF Proceeds, Active
<1>12. JobShape(c)'
  BY <1>3, <1>7, <1>8, <1>9 DEF RInv, JobShape, Active
<1>13. ASSUME NEW s \in Subjects, s \notin stored, WillAdd(c, s) PROVE WillAdd(c, s)'
  BY <1>1, <1>3, <1>4, <1>7, <1>8, <1>13 DEF WillAdd
<1>14. ASSUME NEW s \in Subjects, s \in stored, WillRemove(c, s) PROVE WillRemove(c, s)'
  <2>1. ReadOf(s) = which => s \in FoundBy(which)
    BY <1>14 DEF ReadOf, FoundBy, Entities
  <2>2. s \in held \/ ReadOf(s) \in unread
    BY <1>1, <1>3, <1>14, <2>1 DEF WillRemove
  <2> QED
    BY <1>7, <1>8, <2>2 DEF WillRemove, ReadOf
<1> QED
  BY <1>10, <1>11, <1>12, <1>13, <1>14, ProceedsKeeps

LEMMA BeginWriteKeeps ==
  ASSUME RInv, NEW c \in Callers, BeginWrite(c)
  PROVE  RInv'
<1>1. PICK add, remove : /\ add = job[c].wanted \ job[c].held
                         /\ remove = job[c].held \ job[c].wanted
  OBVIOUS
<1>2. PICK several, snapshot : /\ several = (Cardinality(add \cup remove) > 1)
                               /\ snapshot = IF adapter = "mongo" THEN stored ELSE {}
  OBVIOUS
<1>3. PICK j : j = [job[c] EXCEPT !.phase = "writing", !.add = add, !.remove = remove,
                                  !.several = several, !.snapshot = snapshot]
  OBVIOUS
<1>4. /\ job[c].phase = "reading" /\ job[c].unread = {} /\ job[c] \in JobType
      /\ job[c].deleted = {} /\ job[c].inserted = {}
  BY DEF BeginWrite, RInv, Typed, JobShape
<1>5. UNCHANGED <<adapter, stored, scan, group, writes, replaces, faults>>
  BY DEF BeginWrite
<1>6. Only(c) /\ job'[c] = IF add = {} /\ remove = {} THEN Idle ELSE j
  BY <1>1, <1>2, <1>3 DEF BeginWrite, RInv, Typed, Only
<1>7. add \subseteq Subjects /\ remove \subseteq Subjects /\ snapshot \subseteq Subjects
  BY <1>1, <1>2, <1>4, JobFields, Constants DEF RInv, Typed
<1>8. several \in BOOLEAN
  BY <1>2
<1>9. /\ j \in JobType /\ j.phase = "writing" /\ j.add = add /\ j.remove = remove
      /\ j.deleted = {} /\ j.inserted = {} /\ j.wanted = job[c].wanted
  BY <1>3, <1>4, <1>7, <1>8 DEF JobType
<1>10. Typed'
  <2>1. job' \in [Callers -> JobType]
    BY <1>1, <1>2, <1>3, <1>4, <1>9, IdleTyped DEF BeginWrite, RInv, Typed
  <2> QED
    BY <1>5, <2>1 DEF RInv, Typed
<1>11. CASE add = {} /\ remove = {}
  <2>1. Finishes(c)
    <3>1. job[c].held = job[c].wanted
      BY <1>1, <1>11
    <3> QED
      BY <1>4, <1>5, <1>6, <1>11, <3>1 DEF Finishes, Active, WillAdd, WillRemove
  <2> QED
    BY <1>10, <2>1, FinishesKeeps
<1>12. CASE ~ (add = {} /\ remove = {})
  <2>1. Proceeds(c) /\ job'[c] = j
    BY <1>4, <1>5, <1>6, <1>9, <1>12 DEF Proceeds, Active
  <2>2. JobShape(c)'
    BY <1>1, <1>4, <1>5, <1>9, <2>1 DEF RInv, JobShape, Active
  <2>3. \A s \in Subjects :
          s \notin stored /\ s \in job[c].wanted /\ WillAdd(c, s) => WillAdd(c, s)'
    BY <1>1, <1>4, <1>9, <2>1 DEF WillAdd
  <2>4. \A s \in Subjects :
          s \in stored /\ s \notin job[c].wanted /\ WillRemove(c, s) => WillRemove(c, s)'
    BY <1>1, <1>4, <1>9, <2>1 DEF WillRemove
  <2> QED
    BY <1>10, <2>1, <2>2, <2>3, <2>4, ProceedsKeeps
<1> QED
  BY <1>11, <1>12

LEMMA WriteKeeps ==
  ASSUME RInv, NEW c \in Callers, WriteAtOnce(c)
  PROVE  RInv'
<1>1. /\ stored' = (stored \ job[c].remove) \cup job[c].add
      /\ job' = [job EXCEPT ![c] = Idle]
      /\ UNCHANGED <<adapter, group, writes, replaces, faults>>
      /\ job[c].phase = "writing" /\ adapter = "memory"
  BY DEF WriteAtOnce, Stores, Written
<1>2. Only(c) /\ job'[c] = Idle
  BY <1>1 DEF RInv, Typed, Only
<1>3. job[c].add \subseteq Subjects
  BY JobFields DEF RInv, Typed
<1>4. Typed'
  BY <1>1, <1>3, IdleTyped DEF RInv, Typed
<1>5. /\ job[c].add \subseteq job[c].wanted /\ job[c].remove \cap job[c].wanted = {}
      /\ job[c].inserted = {} /\ job[c].deleted = {}
  BY <1>1 DEF RInv, JobShape
<1>6. Finishes(c)
  BY <1>1, <1>2, <1>5 DEF Finishes, Active, WillAdd, WillRemove
<1> QED
  BY <1>4, <1>6, FinishesKeeps

(* A transaction commits, heard or not.                                    *)
LEMMA CommitWrites ==
  ASSUME RInv, NEW c \in Callers, job[c].phase = "writing",
         job[c].remove = {}, job[c].add = {},
         Stores(Written(stored, job[c].deleted, job[c].inserted)),
         job' = [job EXCEPT ![c] = Idle]
  PROVE  /\ Only(c) /\ job'[c] = Idle /\ job' \in [Callers -> JobType]
         /\ stored' = (stored \ job[c].deleted) \cup job[c].inserted
         /\ stored' \subseteq Subjects
<1>1. stored' = (stored \ job[c].deleted) \cup job[c].inserted
  BY DEF Stores, Written
<1>2. job[c].inserted \subseteq Subjects /\ stored \subseteq Subjects
  BY JobFields DEF RInv, Typed
<1>3. Only(c) /\ job'[c] = Idle /\ job' \in [Callers -> JobType]
  BY IdleTyped DEF RInv, Typed, Only
<1> QED
  BY <1>1, <1>2, <1>3

LEMMA CommitKeeps ==
  ASSUME RInv, NEW c \in Callers, Commit(c)
  PROVE  RInv'
<1>1. /\ job[c].phase = "writing" /\ job[c].remove = {} /\ job[c].add = {}
      /\ UNCHANGED <<adapter, group, writes, replaces, faults>>
  BY DEF Commit
<1>2. /\ Only(c) /\ job'[c] = Idle /\ job' \in [Callers -> JobType]
      /\ stored' = (stored \ job[c].deleted) \cup job[c].inserted
      /\ stored' \subseteq Subjects
  BY <1>1, CommitWrites DEF Commit
<1>3. Typed'
  BY <1>1, <1>2 DEF RInv, Typed
<1>4. job[c].inserted \subseteq job[c].wanted /\ job[c].deleted \cap job[c].wanted = {}
  BY <1>1 DEF RInv, JobShape
<1>5. Finishes(c)
  BY <1>1, <1>2, <1>4 DEF Finishes, Active, WillAdd, WillRemove
<1> QED
  BY <1>3, <1>5, FinishesKeeps

LEMMA DeleteRowKeeps ==
  ASSUME RInv, NEW c \in Callers, DeleteRow(c)
  PROVE  RInv'
<1>1. PICK s : s = NextOf(c)
  OBVIOUS
<1>2. /\ adapter # "memory" /\ job[c].phase = "writing" /\ job[c].remove # {}
      /\ UNCHANGED <<adapter, stored, scan, group, writes, replaces, faults>>
  BY DEF DeleteRow
<1>3. s \in job[c].remove
  BY <1>1, <1>2, NextIs
<1>4. PICK remove, deleted : /\ remove = job[c].remove \ {s}
                             /\ deleted = job[c].deleted \cup (Matching(s) \cap stored)
  OBVIOUS
<1>5. job' = [job EXCEPT ![c] = [job[c] EXCEPT !.remove = remove, !.deleted = deleted]]
  BY <1>1, <1>4 DEF DeleteRow, RInv, Typed
<1>6. job[c] \in JobType /\ stored \subseteq Subjects
  BY DEF RInv, Typed
<1>7. remove \subseteq Subjects /\ deleted \subseteq Subjects
  BY <1>4, <1>6, JobFields
<1>8. PICK j : j = [job[c] EXCEPT !.remove = remove, !.deleted = deleted]
  OBVIOUS
<1>9. /\ j \in JobType /\ j.phase = "writing" /\ j.remove = remove /\ j.deleted = deleted
      /\ j.wanted = job[c].wanted /\ j.add = job[c].add /\ j.inserted = job[c].inserted
  BY <1>2, <1>6, <1>7, <1>8 DEF JobType
<1>10. job' = [job EXCEPT ![c] = j] /\ job'[c] = j /\ Only(c)
  BY <1>5, <1>8 DEF RInv, Typed, Only
<1>11. Typed'
  BY <1>2, <1>9, <1>10 DEF RInv, Typed
<1>12. Proceeds(c)
  BY <1>2, <1>9, <1>10 DEF Proceeds, Active
<1>13. JobShape(c)'
  <2>1. JobShape(c)
    BY DEF RInv
  <2> QED
    BY <1>2, <1>3, <1>4, <1>9, <1>10, <2>1 DEF JobShape, Active, Matching
<1>14. \A t \in Subjects :
         t \notin stored /\ t \in job[c].wanted /\ WillAdd(c, t) => WillAdd(c, t)'
  BY <1>2, <1>9, <1>10 DEF WillAdd
<1>15. \A t \in Subjects :
         t \in stored /\ t \notin job[c].wanted /\ WillRemove(c, t) => WillRemove(c, t)'
  BY <1>2, <1>4, <1>9, <1>10 DEF WillRemove, Matching
<1> QED
  BY <1>11, <1>12, <1>13, <1>14, <1>15, ProceedsKeeps

LEMMA InsertRowKeeps ==
  ASSUME RInv, NEW c \in Callers, InsertRow(c)
  PROVE  RInv'
<1>1. PICK s : s = NextOf(c)
  OBVIOUS
<1>2. /\ adapter # "memory" /\ job[c].phase = "writing" /\ job[c].remove = {} /\ job[c].add # {}
      /\ UNCHANGED <<adapter, stored, scan, group, writes, replaces, faults>>
  BY DEF InsertRow
<1>3. s \in job[c].add
  BY <1>1, <1>2, NextIs
<1>4. PICK add, inserted :
        /\ add = job[c].add \ {s}
        /\ inserted = IF s \in stored THEN job[c].inserted ELSE job[c].inserted \cup {s}
  OBVIOUS
<1>5. job' = [job EXCEPT ![c] = [job[c] EXCEPT !.add = add, !.inserted = inserted]]
  BY <1>1, <1>4 DEF InsertRow, RInv, Typed
<1>6. job[c] \in JobType
  BY DEF RInv, Typed
<1>7. add \subseteq Subjects /\ inserted \subseteq Subjects
  BY <1>3, <1>4, <1>6, JobFields
<1>8. PICK j : j = [job[c] EXCEPT !.add = add, !.inserted = inserted]
  OBVIOUS
<1>9. /\ j \in JobType /\ j.phase = "writing" /\ j.add = add /\ j.inserted = inserted
      /\ j.wanted = job[c].wanted /\ j.remove = job[c].remove /\ j.deleted = job[c].deleted
  BY <1>2, <1>6, <1>7, <1>8 DEF JobType
<1>10. job' = [job EXCEPT ![c] = j] /\ job'[c] = j /\ Only(c)
  BY <1>5, <1>8 DEF RInv, Typed, Only
<1>11. Typed'
  BY <1>2, <1>9, <1>10 DEF RInv, Typed
<1>12. Proceeds(c)
  BY <1>2, <1>9, <1>10 DEF Proceeds, Active
<1>13. JobShape(c)'
  <2>1. JobShape(c)
    BY DEF RInv
  <2> QED
    BY <1>2, <1>3, <1>4, <1>9, <1>10, <2>1 DEF JobShape, Active
<1>14. \A t \in Subjects :
         t \notin stored /\ t \in job[c].wanted /\ WillAdd(c, t) => WillAdd(c, t)'
  BY <1>2, <1>4, <1>9, <1>10 DEF WillAdd
<1>15. \A t \in Subjects :
         t \in stored /\ t \notin job[c].wanted /\ WillRemove(c, t) => WillRemove(c, t)'
  BY <1>2, <1>9, <1>10 DEF WillRemove
<1> QED
  BY <1>11, <1>12, <1>13, <1>14, <1>15, ProceedsKeeps

(* The writes beside the replaces, and the steps that fail.                *)
LEMMA OthersKeep ==
  ASSUME RInv,
         \/ \E s \in Admitted : Grant(s)
         \/ \E s \in Subjects : Revoke(s) \/ DeleteEntity(EntityOf(s))
         \/ \E c \in Callers : Fails(c) \/ CommitUnheard(c) \/ Aborted(c)
  PROVE  RInv'
<1>1. /\ adapter' = adapter /\ ~ group'.clean /\ group'.wants = group.wants
      /\ group' \in [wants : SUBSET SUBSET Admitted, clean : BOOLEAN]
  BY DEF Grant, Revoke, DeleteEntity, Fails, CommitUnheard, Aborted, Wrote, RInv, Typed
<1>2. {writes', replaces', faults'} \subseteq Nat
  <2>1. writes \in Nat /\ replaces \in Nat /\ faults \in Nat
    BY DEF RInv, Typed
  <2>2. /\ writes' = writes + 1 \/ writes' = writes
        /\ replaces' = replaces
        /\ faults' = faults + 1 \/ faults' = faults
    BY DEF Grant, Revoke, DeleteEntity, Fails, CommitUnheard, Aborted
  <2>3. writes' \in Nat /\ replaces' \in Nat /\ faults' \in Nat
    BY <2>1, <2>2
  <2> QED
    BY <2>3
<1>3. stored \subseteq Subjects /\ job \in [Callers -> JobType]
  BY DEF RInv, Typed
<1>4. stored' \subseteq Subjects
  <2>1. CASE \E s \in Admitted : Grant(s)
    BY <1>3, <2>1, Constants DEF Grant, Stores
  <2>2. CASE \E s \in Subjects : Revoke(s) \/ DeleteEntity(EntityOf(s))
    BY <1>3, <2>2 DEF Revoke, DeleteEntity, Stores
  <2>3. CASE \E c \in Callers : Fails(c) \/ Aborted(c)
    BY <1>3, <2>3 DEF Fails, Aborted
  <2>4. CASE \E c \in Callers : CommitUnheard(c)
    BY <2>4, CommitWrites DEF CommitUnheard
  <2> QED
    BY <2>1, <2>2, <2>3, <2>4
<1>5. \/ job' = job
      \/ \E c \in Callers : job' = [job EXCEPT ![c] = Idle]
  BY DEF Grant, Revoke, DeleteEntity, Fails, CommitUnheard, Aborted
<1>6. job' \in [Callers -> JobType] /\ \A d \in Callers : job'[d] = job[d] \/ job'[d] = Idle
  BY <1>3, <1>5, IdleTyped
<1>7. Typed'
  BY <1>1, <1>2, <1>4, <1>6 DEF RInv, Typed
<1> QED
  BY <1>1, <1>6, <1>7, SpoilsKeeps DEF Spoils

LEMMA RUnchanged ==
  ASSUME RInv, UNCHANGED <<adapter, stored, job, group, writes, replaces, faults>>
  PROVE  RInv'
BY DEF RInv, Typed, JobShape, Active, WantedAhead, UnwantedAhead, Replacing, AllWant,
       NoneWants, WillAdd, WillRemove, NoneActive

LEMMA RStep == RInv /\ [Next]_vars => RInv'
<1> SUFFICES ASSUME RInv, [Next]_vars PROVE RInv'
  OBVIOUS
<1>1. CASE UNCHANGED vars
  BY <1>1, RUnchanged DEF vars
<1>2. CASE AskPage \/ ReadPage \/ ScanHolders
  BY <1>2, RUnchanged DEF AskPage, ReadPage, ScanHolders
<1>3. CASE \/ \E s \in Admitted : Grant(s)
           \/ \E s \in Subjects : Revoke(s) \/ DeleteEntity(EntityOf(s))
           \/ \E c \in Callers : Fails(c) \/ CommitUnheard(c) \/ Aborted(c)
  BY <1>3, OthersKeep
<1>4. ASSUME NEW c \in Callers, NEW wanted \in WantedLists, Replace(c, wanted) PROVE RInv'
  BY <1>4, ReplaceKeeps
<1>5. ASSUME NEW c \in Callers, NEW which \in {"entities", "sets"}, ReadHolders(c, which)
      PROVE  RInv'
  BY <1>5, ReadKeeps
<1>6. ASSUME NEW c \in Callers, BeginWrite(c) \/ WriteAtOnce(c) PROVE RInv'
  BY <1>6, BeginWriteKeeps, WriteKeeps
<1>7. ASSUME NEW c \in Callers, DeleteRow(c) \/ InsertRow(c) \/ Commit(c) PROVE RInv'
  BY <1>7, DeleteRowKeeps, InsertRowKeeps, CommitKeeps
<1> QED
  BY <1>1, <1>2, <1>3, <1>4, <1>5, <1>6, <1>7 DEF Next

-----------------------------------------------------------------------------
(* The invariant of holders().                                             *)

ScanType ==
  [phase : {"idle", "between", "reading", "done"}, after : Subjects \cup {None},
   cursor : Subjects \cup {None}, limit : Nat, budget : Nat, passes : SUBSET Subjects,
   judged : BOOLEAN, kept : SUBSET Entities, scanned : Nat, returned : SUBSET Entities,
   twice : BOOLEAN, throughout : SUBSET Entities, pages : Nat]

(* A page that goes on from this cursor has this subject behind it.        *)
Behind(s, at) == at # None /\ Rank[s] <= Rank[at]

(* The cursor of the page under way is not before the caller's.            *)
Onward(from, at) == from # None => Behind(from, at)

(* What a page under way has kept is between the cursor it began at and    *)
(* the one it has come to.                                                 *)
KeptBetween ==
  scan.phase = "reading" =>
    /\ Onward(scan.after, scan.cursor)
    /\ \A s \in scan.kept : Behind(s, scan.cursor) /\ ~ Behind(s, scan.after)

AnsweredBehind ==
  scan.phase \in {"between", "reading"} => \A s \in scan.returned : Behind(s, scan.after)

Position == IF scan.phase = "reading" THEN scan.cursor ELSE scan.after

(* Who was held from the first page on was answered, is kept for this one, *)
(* or comes after the cursor.                                              *)
NobodyMissed ==
  \A s \in scan.throughout :
    /\ s \in stored
    /\ scan.judged => s \in scan.passes
    /\ s \in scan.returned \cup scan.kept \/ (scan.phase # "done" /\ ~ Behind(s, Position))

ScanShape ==
  /\ ~ scan.twice
  /\ scan.phase # "reading" \/ ~ scan.judged => scan.kept = {}
  /\ scan.phase \in {"between", "reading"} => scan.limit # 0
  /\ scan.phase \in {"between", "reading"} /\ scan.judged => scan.scanned < scan.budget
  /\ Cardinality(scan.kept) <= scan.limit

Paged == scan \in ScanType /\ ScanShape /\ KeptBetween /\ AnsweredBehind /\ NobodyMissed

LEMMA EntitiesAre == Entities \subseteq Subjects
  BY DEF Entities

LEMMA ScanFields ==
  ASSUME scan \in ScanType
  PROVE  /\ scan.after \in Subjects \cup {None} /\ scan.cursor \in Subjects \cup {None}
         /\ scan.limit \in Nat /\ scan.budget \in Nat /\ scan.passes \subseteq Subjects
         /\ scan.judged \in BOOLEAN /\ scan.kept \subseteq Entities /\ scan.scanned \in Nat
         /\ scan.returned \subseteq Entities /\ scan.twice \in BOOLEAN
         /\ scan.throughout \subseteq Entities /\ scan.pages \in Nat
         /\ scan.phase \in {"idle", "between", "reading", "done"}
  BY DEF ScanType

LEMMA PagedGives == Paged => HoldersPaged
<1> SUFFICES ASSUME Paged PROVE HoldersPaged
  OBVIOUS
<1>1. scan.phase = "done" => scan.throughout \subseteq scan.returned
  BY DEF Paged, NobodyMissed, ScanShape
<1> QED
  BY <1>1 DEF Paged, ScanShape, HoldersPaged

LEMMA PagedInit == Init => Paged
<1> SUFFICES ASSUME Init PROVE Paged
  OBVIOUS
<1>1. stored \subseteq Subjects /\ Entities \subseteq Subjects
  BY EntitiesAre DEF Init
<1>2. /\ NoScan \in ScanType /\ NoScan.phase = "idle" /\ ~ NoScan.twice /\ NoScan.kept = {}
      /\ NoScan.returned = {} /\ NoScan.throughout = {} /\ NoScan.limit = 0
      /\ ~ NoScan.judged /\ NoScan.after = None
  BY <1>1 DEF NoScan, ScanType
<1>3. CASE scan = NoScan
  BY <1>2, <1>3, FS_EmptySet DEF Paged, ScanShape, KeptBetween, AnsweredBehind, NobodyMissed
<1>4. ASSUME NEW limit \in Limits, scan = From(stored, Paging(limit)) PROVE Paged
  <2>1. limit \in Nat \ {0}
    BY Constants
  <2>2. PICK reader : reader = Paging(limit)
    OBVIOUS
  <2>3. /\ reader \in ScanType /\ reader.phase = "between" /\ ~ reader.twice /\ reader.kept = {}
        /\ reader.returned = {} /\ reader.passes = Entities /\ reader.limit = limit
        /\ ~ reader.judged /\ reader.after = None
    BY <1>2, <2>1, <2>2 DEF NoScan, Paging, ScanType
  <2>4. PICK throughout : throughout = stored \cap Entities \cap reader.passes
    OBVIOUS
  <2>5. scan = [reader EXCEPT !.throughout = throughout]
    BY <1>4, <2>2, <2>4 DEF From
  <2>6. /\ scan \in ScanType /\ scan.phase = "between" /\ ~ scan.twice /\ scan.kept = {}
        /\ scan.returned = {} /\ scan.throughout = throughout /\ scan.limit = limit
        /\ ~ scan.judged /\ scan.after = None
    BY <2>3, <2>4, <2>5 DEF ScanType
  <2>7. NobodyMissed
    BY <2>4, <2>6 DEF NobodyMissed, Behind, Position
  <2> QED
    BY <2>1, <2>6, <2>7, FS_EmptySet DEF Paged, ScanShape, KeptBetween, AnsweredBehind
<1>5. ASSUME NEW limit \in Limits, NEW budget \in ScanLimits, NEW passes \in Predicates,
             scan = From(stored, Judging(limit, budget, passes))
      PROVE  Paged
  <2>1. limit \in Nat \ {0} /\ budget \in Nat \ {0} /\ passes \subseteq Subjects
    BY Constants
  <2>2. PICK reader : reader = Judging(limit, budget, passes)
    OBVIOUS
  <2>3. /\ reader \in ScanType /\ reader.phase = "between" /\ ~ reader.twice /\ reader.kept = {}
        /\ reader.returned = {} /\ reader.passes = passes /\ reader.limit = limit
        /\ reader.judged /\ reader.after = None /\ reader.budget = budget /\ reader.scanned = 0
    BY <1>2, <2>1, <2>2 DEF NoScan, Paging, Judging, ScanType
  <2>4. PICK throughout : throughout = stored \cap Entities \cap reader.passes
    OBVIOUS
  <2>5. scan = [reader EXCEPT !.throughout = throughout]
    BY <1>5, <2>2, <2>4 DEF From
  <2>6. /\ scan \in ScanType /\ scan.phase = "between" /\ ~ scan.twice /\ scan.kept = {}
        /\ scan.returned = {} /\ scan.throughout = throughout /\ scan.limit = limit
        /\ scan.judged /\ scan.after = None /\ scan.passes = passes
        /\ scan.scanned = 0 /\ scan.budget = budget
    BY <2>3, <2>4, <2>5 DEF ScanType
  <2>7. NobodyMissed
    BY <2>3, <2>4, <2>6 DEF NobodyMissed, Behind, Position
  <2> QED
    BY <2>1, <2>6, <2>7, FS_EmptySet DEF Paged, ScanShape, KeptBetween, AnsweredBehind
<1>6. scan = NoScan \/ scan \in Scans(stored)
  BY DEF Init
<1> QED
  BY <1>3, <1>4, <1>5, <1>6 DEF Scans

(* Writes beside it only take away what must be answered.                  *)
LEMMA StoresKeepsPaged ==
  ASSUME Paged, NEW new, Stores(new), stored' = new
  PROVE  Paged'
<1>1. PICK throughout : throughout = scan.throughout \cap new
  OBVIOUS
<1>2. scan' = [scan EXCEPT !.throughout = throughout] /\ scan \in ScanType
  BY <1>1 DEF Stores, Paged
<1>3. throughout \subseteq Entities
  BY <1>1, <1>2, ScanFields
<1>4. /\ scan' \in ScanType /\ scan'.phase = scan.phase /\ scan'.after = scan.after
      /\ scan'.cursor = scan.cursor /\ scan'.limit = scan.limit /\ scan'.budget = scan.budget
      /\ scan'.passes = scan.passes /\ scan'.judged = scan.judged /\ scan'.kept = scan.kept
      /\ scan'.scanned = scan.scanned /\ scan'.returned = scan.returned
      /\ scan'.twice = scan.twice /\ scan'.throughout = throughout
  BY <1>2, <1>3 DEF ScanType
<1>5. NobodyMissed'
  BY <1>1, <1>4 DEF Paged, NobodyMissed, Behind, Position
<1> QED
  BY <1>4, <1>5 DEF Paged, ScanShape, KeptBetween, AnsweredBehind, Behind, Onward

LEMMA AskKeeps ==
  ASSUME Paged, AskPage
  PROVE  Paged'
<1>0. PICK pages : pages = scan.pages + 1
  OBVIOUS
<1>1. /\ scan.phase = "between" /\ scan \in ScanType
      /\ scan' = [scan EXCEPT !.phase = "reading", !.cursor = scan.after, !.pages = pages]
      /\ stored' = stored /\ pages \in Nat
  BY <1>0, ScanFields DEF AskPage, Paged
<1>2. /\ scan' \in ScanType /\ scan'.phase = "reading" /\ scan'.after = scan.after
      /\ scan'.cursor = scan.after /\ scan'.limit = scan.limit /\ scan'.budget = scan.budget
      /\ scan'.passes = scan.passes /\ scan'.judged = scan.judged /\ scan'.kept = scan.kept
      /\ scan'.scanned = scan.scanned /\ scan'.returned = scan.returned
      /\ scan'.twice = scan.twice /\ scan'.throughout = scan.throughout
  BY <1>1 DEF ScanType
<1>3. scan.kept = {} /\ (scan.after # None => Rank[scan.after] \in Nat)
  BY <1>1, ScanFields, Constants DEF Paged, ScanShape
<1>4. NobodyMissed'
  BY <1>1, <1>2 DEF Paged, NobodyMissed, Behind, Position
<1>5. KeptBetween'
  BY <1>2, <1>3 DEF KeptBetween, Behind, Onward
<1>6. AnsweredBehind'
  BY <1>1, <1>2 DEF Paged, AnsweredBehind, Behind
<1>7. ScanShape'
  BY <1>1, <1>2, <1>3 DEF Paged, ScanShape
<1> QED
  BY <1>2, <1>4, <1>5, <1>6, <1>7 DEF Paged

(* A page holds, of what is stored, what comes after the cursor up to the  *)
(* next one: all of it when there is none.                                 *)
LEMMA PageGives ==
  ASSUME stored \subseteq Subjects, NEW after \in Subjects \cup {None}, NEW size \in Nat \ {0},
         NEW page, page = Page(after, size)
  PROVE  /\ page.items \subseteq stored \cap Entities
         /\ \A s \in page.items : ~ Behind(s, after)
         /\ page.next = None =>
              \A s \in stored \cap Entities : ~ Behind(s, after) => s \in page.items
         /\ page.next # None =>
              /\ page.next \in page.items
              /\ \A s \in page.items : Behind(s, page.next)
              /\ \A s \in stored \cap Entities :
                   ~ Behind(s, after) /\ s \notin page.items => ~ Behind(s, page.next)
<1>1. PICK rest : rest = {s \in stored \cap Entities : after = None \/ Rank[s] > Rank[after]}
  OBVIOUS
<1>2. PICK items : items = FirstOf(rest, size)
  OBVIOUS
<1>3. rest \subseteq Subjects /\ (\A s \in Subjects : Rank[s] \in Nat)
  BY <1>1, Constants
<1>4. /\ page.items = items
      /\ page.next = IF rest = items \/ items = {} THEN None ELSE LastOf(items)
  BY <1>1, <1>2 DEF Page, PageOf, FirstOf, LastOf
<1>5. /\ items \subseteq rest
      /\ \A s \in rest, t \in items : s \notin items => Rank[t] < Rank[s]
      /\ rest # {} => items # {}
  BY <1>2, <1>3, FirstAreFirst
<1>6. \A s \in stored \cap Entities : ~ Behind(s, after) <=> s \in rest
  BY <1>1, <1>3, Constants DEF Behind
<1>7. CASE rest = items
  BY <1>1, <1>4, <1>6, <1>7
<1>8. CASE rest # items
  <2>1. items # {} /\ items \subseteq Subjects
    BY <1>3, <1>5, <1>8
  <2>2. LastOf(items) \in items /\ \A t \in items : Rank[t] <= Rank[LastOf(items)]
    BY <2>1, LastIsLast
  <2>3. page.next = LastOf(items) /\ page.next # None
    BY <1>4, <1>8, <2>1, <2>2, Constants
  <2>4. ASSUME NEW s \in stored \cap Entities, ~ Behind(s, after), s \notin items
        PROVE  ~ Behind(s, page.next)
    <3>1. s \in rest /\ s \in Subjects /\ page.next \in Subjects
      BY <1>3, <1>6, <2>1, <2>2, <2>3, <2>4
    <3>2. Rank[page.next] < Rank[s]
      BY <1>5, <2>2, <2>3, <2>4, <3>1
    <3> QED
      BY <1>3, <3>1, <3>2 DEF Behind
  <2> QED
    BY <1>1, <1>4, <1>5, <1>6, <2>2, <2>3, <2>4 DEF Behind
<1> QED
  BY <1>7, <1>8

(* A page may be answered that repeats nobody, ends at its cursor, and     *)
(* leaves nobody behind it.                                                *)
LEMMA AnswerKeeps ==
  ASSUME Paged, scan.phase = "reading", stored' = stored,
         NEW items \in SUBSET Entities, NEW next \in Subjects \cup {None}, Answer(items, next),
         \A s \in items : ~ Behind(s, scan.after),
         next # None => Onward(scan.after, next) /\ \A s \in items : Behind(s, next),
         \A s \in scan.throughout :
           s \in scan.returned \cup items \/ (next # None /\ ~ Behind(s, next))
  PROVE  Paged'
<1>1. PICK phase, returned, twice :
        /\ phase = IF next = None THEN "done" ELSE "between"
        /\ returned = scan.returned \cup items
        /\ twice = (scan.twice \/ items \cap scan.returned # {})
  OBVIOUS
<1>2. /\ scan' = [scan EXCEPT !.phase = phase, !.after = next, !.returned = returned,
                              !.twice = twice, !.kept = {}, !.scanned = 0]
      /\ scan \in ScanType
  BY <1>1 DEF Answer, Paged
<1>3. returned \subseteq Entities /\ ~ scan.twice
  BY <1>1, <1>2, ScanFields DEF Paged, ScanShape
<1>4. ~ twice
  BY <1>1, <1>3 DEF Paged, AnsweredBehind
<1>5. /\ scan' \in ScanType /\ scan'.phase = phase /\ scan'.after = next
      /\ scan'.limit = scan.limit /\ scan'.budget = scan.budget
      /\ scan'.passes = scan.passes /\ scan'.judged = scan.judged /\ scan'.kept = {}
      /\ scan'.scanned = 0 /\ scan'.returned = returned
      /\ scan'.twice = twice /\ scan'.throughout = scan.throughout
  BY <1>1, <1>2, <1>3, <1>4 DEF ScanType
<1>6. \A s \in Subjects : Rank[s] \in Nat
  BY Constants
<1>7. scan.returned \subseteq Subjects /\ scan.after \in Subjects \cup {None}
  BY <1>2, ScanFields, EntitiesAre
<1>8. AnsweredBehind'
  <2> SUFFICES ASSUME next # None, NEW s \in returned PROVE Behind(s, next)
    BY <1>1, <1>5 DEF AnsweredBehind, Behind
  <2>1. CASE s \in items
    BY <2>1
  <2>2. CASE s \in scan.returned
    <3>1. Behind(s, scan.after) /\ Behind(scan.after, next) /\ s \in Subjects
      BY <1>7, <2>2 DEF Paged, AnsweredBehind, Onward, Behind
    <3> QED
      BY <1>6, <1>7, <3>1 DEF Behind
  <2> QED
    BY <1>1, <2>1, <2>2
<1>9. KeptBetween'
  BY <1>1, <1>5 DEF KeptBetween
<1>10. NobodyMissed'
  BY <1>1, <1>5 DEF Paged, NobodyMissed, Behind, Position
<1>11. ScanShape'
  <2>1. scan.limit \in Nat /\ scan.scanned \in Nat /\ scan.budget \in Nat
    BY <1>2, ScanFields
  <2>2. scan.limit # 0 /\ (scan.judged => scan.scanned < scan.budget)
    BY DEF Paged, ScanShape
  <2> QED
    BY <1>1, <1>4, <1>5, <2>1, <2>2, FS_EmptySet DEF ScanShape
<1> QED
  BY <1>5, <1>8, <1>9, <1>10, <1>11 DEF Paged

LEMMA ReadPageKeeps ==
  ASSUME Paged, ReadPage, stored \subseteq Subjects
  PROVE  Paged'
<1>1. PICK page : page = Page(scan.cursor, scan.limit)
  OBVIOUS
<1>2. /\ scan.phase = "reading" /\ ~ scan.judged /\ stored' = stored
      /\ Answer(page.items, page.next)
  BY <1>1 DEF ReadPage
<1>3. /\ scan.cursor \in Subjects \cup {None} /\ scan.after \in Subjects \cup {None}
      /\ scan.limit \in Nat \ {0} /\ scan.kept = {} /\ scan.throughout \subseteq Entities
  BY <1>2, ScanFields DEF Paged, ScanShape
<1>4. /\ page.items \subseteq stored \cap Entities
      /\ \A s \in page.items : ~ Behind(s, scan.cursor)
      /\ page.next = None =>
           \A s \in stored \cap Entities : ~ Behind(s, scan.cursor) => s \in page.items
      /\ page.next # None =>
           /\ page.next \in page.items
           /\ \A s \in page.items : Behind(s, page.next)
           /\ \A s \in stored \cap Entities :
                ~ Behind(s, scan.cursor) /\ s \notin page.items => ~ Behind(s, page.next)
  BY <1>1, <1>3, PageGives
<1>5. \A s \in Subjects : Rank[s] \in Nat
  BY Constants
<1>6. page.items \subseteq Subjects /\ page.next \in Subjects \cup {None}
  BY <1>4, EntitiesAre
<1>7. \A s \in page.items : ~ Behind(s, scan.after)
  BY <1>2, <1>3, <1>4, <1>5, <1>6 DEF Paged, KeptBetween, Onward, Behind
<1>8. page.next # None => Onward(scan.after, page.next)
  BY <1>3, <1>4, <1>5, <1>6, <1>7 DEF Onward, Behind
<1>9. \A s \in scan.throughout :
        s \in scan.returned \cup page.items \/ (page.next # None /\ ~ Behind(s, page.next))
  <2>1. \A s \in scan.throughout :
          s \in stored \cap Entities /\ (s \in scan.returned \/ ~ Behind(s, scan.cursor))
    BY <1>2, <1>3 DEF Paged, NobodyMissed, Position
  <2> QED
    BY <1>4, <2>1
<1> QED
  BY <1>2, <1>4, <1>6, <1>7, <1>8, <1>9, AnswerKeeps

(* One read of a scan: what it sees comes after its cursor, nobody before  *)
(* the last of them is left out, and who passes is kept.                   *)
LEMMA ScanKeeps ==
  ASSUME Paged, ScanHolders, stored \subseteq Subjects
  PROVE  Paged'
<1>1. PICK page, room : /\ page = Page(scan.cursor, MAX_PAGE_SIZE)
                        /\ room = IF scan.budget > scan.scanned THEN scan.budget - scan.scanned
                                  ELSE 0
  OBVIOUS
<1>2. PICK visible : visible = FirstOf(page.items, room)
  OBVIOUS
<1>3. PICK kept, scanned : /\ kept = scan.kept \cup (visible \cap scan.passes)
                           /\ scanned = scan.scanned + Cardinality(visible)
  OBVIOUS
<1>4. /\ scan.phase = "reading" /\ scan.judged /\ stored' = stored /\ scan \in ScanType
      /\ IF Cardinality(kept) > scan.limit
           THEN LET items == FirstOf(kept, scan.limit) IN Answer(items, LastOf(items))
         ELSE IF visible # page.items THEN Answer(kept, Resume(page, visible))
         ELSE IF page.next = None THEN Answer(kept, None)
         ELSE IF scanned >= scan.budget THEN Answer(kept, page.next)
         ELSE scan' = [scan EXCEPT !.cursor = page.next, !.kept = kept,
                                   !.scanned = scanned]
  BY <1>1, <1>2, <1>3 DEF ScanHolders, Paged
<1>5. /\ scan.cursor \in Subjects \cup {None} /\ scan.after \in Subjects \cup {None}
      /\ scan.limit \in Nat \ {0} /\ scan.kept \subseteq Entities
      /\ scan.throughout \subseteq Entities
      /\ scan.budget \in Nat /\ scan.scanned \in Nat /\ scan.scanned < scan.budget
  BY <1>4, ScanFields DEF Paged, ScanShape
<1>6. /\ page.items \subseteq stored \cap Entities
      /\ \A s \in page.items : ~ Behind(s, scan.cursor)
      /\ page.next = None =>
           \A s \in stored \cap Entities : ~ Behind(s, scan.cursor) => s \in page.items
      /\ page.next # None =>
           /\ page.next \in page.items
           /\ \A s \in page.items : Behind(s, page.next)
           /\ \A s \in stored \cap Entities :
                ~ Behind(s, scan.cursor) /\ s \notin page.items => ~ Behind(s, page.next)
  BY <1>1, <1>5, PageGives, Constants
<1>7. room \in Nat \ {0}
  BY <1>1, <1>5
<1>8. /\ visible \subseteq page.items
      /\ \A s \in page.items, t \in visible : s \notin visible => Rank[t] < Rank[s]
      /\ page.items # {} => visible # {}
  <2>1. page.items \in SUBSET Subjects
    BY <1>6
  <2> QED
    BY <1>2, <1>7, <2>1, FirstAreFirst
<1>9. /\ \A s \in Subjects : Rank[s] \in Nat
      /\ page.items \subseteq Subjects /\ page.next \in Subjects \cup {None}
      /\ visible \subseteq Subjects /\ scan.kept \subseteq Subjects
      /\ None \notin Subjects /\ kept \subseteq Entities /\ kept \subseteq Subjects
  BY <1>3, <1>5, <1>6, <1>8, EntitiesAre, Constants
<1>10. /\ Onward(scan.after, scan.cursor)
       /\ \A s \in scan.kept : Behind(s, scan.cursor) /\ ~ Behind(s, scan.after)
  BY <1>4 DEF Paged, KeptBetween
<1>11. \A s \in kept : ~ Behind(s, scan.after)
  BY <1>3, <1>5, <1>6, <1>8, <1>9, <1>10 DEF Onward, Behind
<1>12. \A s \in kept : Onward(scan.after, s) /\ s # None
  BY <1>5, <1>9, <1>11 DEF Onward, Behind
<1>13. \A s \in scan.throughout :
         \/ s \in scan.returned \cup kept
         \/ s \in stored \cap Entities /\ ~ Behind(s, scan.cursor) /\ s \notin visible
  BY <1>3, <1>4, <1>5 DEF Paged, NobodyMissed, Position
(* Who was not seen comes after everybody who was, and who was kept.       *)
<1>14. \A s \in stored \cap Entities, t \in kept \cup visible :
         ~ Behind(s, scan.cursor) /\ s \notin visible => ~ Behind(s, t)
  <2> SUFFICES ASSUME NEW s \in stored \cap Entities, NEW t \in kept \cup visible,
                      ~ Behind(s, scan.cursor), s \notin visible
               PROVE  Rank[t] < Rank[s]
    BY <1>9 DEF Behind
  <2>1. s \in Subjects /\ t \in Subjects
    BY <1>9
  <2>2. CASE t \in scan.kept
    <3>1. Behind(t, scan.cursor)
      BY <1>10, <2>2
    <3> QED
      BY <1>5, <1>9, <2>1, <3>1 DEF Behind
  <2>3. CASE t \in visible /\ s \in page.items
    BY <1>8, <2>3
  <2>4. CASE t \in visible /\ s \notin page.items
    <3>1. page.next # None /\ ~ Behind(s, page.next) /\ Behind(t, page.next)
      BY <1>6, <1>8, <2>4
    <3> QED
      BY <1>9, <2>1, <3>1 DEF Behind
  <2> QED
    BY <1>3, <2>2, <2>3, <2>4
<1>15. CASE Cardinality(kept) > scan.limit
  <2>1. PICK items : items = FirstOf(kept, scan.limit)
    OBVIOUS
  <2>2. PICK next : next = LastOf(items)
    OBVIOUS
  <2>3. Answer(items, next)
    BY <1>4, <1>15, <2>1, <2>2
  <2>4. kept # {}
    BY <1>5, <1>15, FS_EmptySet
  <2>5. /\ items \subseteq kept /\ items # {}
        /\ \A s \in kept, t \in items : s \notin items => Rank[t] < Rank[s]
    BY <1>5, <1>9, <2>1, <2>4, FirstAreFirst
  <2>6. next \in items /\ \A t \in items : Rank[t] <= Rank[next]
    BY <1>9, <2>2, <2>5, LastIsLast
  <2>7. next \in Subjects /\ next # None /\ next \in kept
    BY <1>9, <2>5, <2>6
  <2>8. \A s \in items : Behind(s, next)
    BY <2>6, <2>7 DEF Behind
  <2>9. \A s \in scan.throughout :
          s \in scan.returned \cup items \/ (next # None /\ ~ Behind(s, next))
    <3>1. \A s \in kept : s \in items \/ ~ Behind(s, next)
      BY <1>9, <2>5, <2>6, <2>7 DEF Behind
    <3> QED
      BY <1>13, <1>14, <2>7, <3>1
  <2>10. items \in SUBSET Entities /\ (\A s \in items : ~ Behind(s, scan.after))
    BY <1>9, <1>11, <2>5
  <2>11. Onward(scan.after, next)
    BY <1>12, <2>7
  <2> QED
    BY <1>4, <2>3, <2>7, <2>8, <2>9, <2>10, <2>11, AnswerKeeps
<1>16. CASE ~ (Cardinality(kept) > scan.limit) /\ visible # page.items
  <2>1. PICK next : next = LastOf(visible)
    OBVIOUS
  <2>2. Answer(kept, next)
    BY <1>4, <1>16, <2>1 DEF Resume
  <2>3. visible # {}
    BY <1>8, <1>16
  <2>4. next \in visible /\ \A t \in visible : Rank[t] <= Rank[next]
    BY <1>9, <2>1, <2>3, LastIsLast
  <2>5. next \in Subjects /\ next # None /\ ~ Behind(next, scan.cursor)
    BY <1>6, <1>8, <1>9, <2>4
  <2>6. \A s \in kept : Behind(s, next)
    <3>1. \A s \in scan.kept : Behind(s, next)
      BY <1>5, <1>9, <1>10, <2>5 DEF Behind
    <3> QED
      BY <1>3, <2>4, <2>5, <3>1 DEF Behind
  <2>7. Onward(scan.after, next)
    BY <1>5, <1>9, <1>10, <2>5 DEF Onward, Behind
  <2>8. \A s \in scan.throughout :
          s \in scan.returned \cup kept \/ (next # None /\ ~ Behind(s, next))
    BY <1>13, <1>14, <2>4, <2>5
  <2> QED
    BY <1>4, <1>9, <1>11, <2>2, <2>5, <2>6, <2>7, <2>8, AnswerKeeps
<1>17. CASE /\ ~ (Cardinality(kept) > scan.limit) /\ visible = page.items
            /\ page.next = None
  <2>1. Answer(kept, None)
    BY <1>4, <1>17
  <2>2. \A s \in scan.throughout : s \in scan.returned \cup kept
    BY <1>6, <1>13, <1>17
  <2> QED
    BY <1>4, <1>9, <1>11, <2>1, <2>2, AnswerKeeps
<1>18. CASE /\ ~ (Cardinality(kept) > scan.limit) /\ visible = page.items
            /\ page.next # None
  <2>1. page.next \in visible /\ page.next \in Subjects
    BY <1>6, <1>9, <1>18
  <2>2. \A s \in kept : Behind(s, page.next)
    <3>1. \A s \in scan.kept : Behind(s, page.next)
      BY <1>5, <1>6, <1>9, <1>10, <1>18, <2>1 DEF Behind
    <3> QED
      BY <1>3, <1>6, <1>18, <3>1
  <2>3. Onward(scan.after, page.next)
    BY <1>5, <1>6, <1>9, <1>10, <1>18, <2>1 DEF Onward, Behind
  <2>4. \A s \in scan.throughout :
          s \in scan.returned \cup kept \/ (page.next # None /\ ~ Behind(s, page.next))
    BY <1>13, <1>14, <1>18, <2>1
  <2>5. CASE scanned >= scan.budget
    <3>1. Answer(kept, page.next)
      BY <1>4, <1>18, <2>5
    <3> QED
      BY <1>4, <1>9, <1>11, <2>2, <2>3, <2>4, <3>1, AnswerKeeps
  <2>6. CASE ~ (scanned >= scan.budget)
    <3>1. scan' = [scan EXCEPT !.cursor = page.next, !.kept = kept, !.scanned = scanned]
      BY <1>4, <1>18, <2>6
    <3>2. scanned \in Nat /\ Cardinality(kept) \in Nat
      BY <1>3, <1>5, <1>9, FiniteSome
    <3>3. PICK next : next = page.next
      OBVIOUS
    <3>4. /\ scan' \in ScanType /\ scan'.phase = "reading" /\ scan'.after = scan.after
          /\ scan'.cursor = next /\ scan'.limit = scan.limit /\ scan'.budget = scan.budget
          /\ scan'.passes = scan.passes /\ scan'.judged = scan.judged /\ scan'.kept = kept
          /\ scan'.scanned = scanned /\ scan'.returned = scan.returned
          /\ scan'.twice = scan.twice /\ scan'.throughout = scan.throughout
      BY <1>4, <1>9, <3>1, <3>2, <3>3 DEF ScanType
    <3>5. KeptBetween'
      BY <1>11, <2>2, <2>3, <3>3, <3>4 DEF KeptBetween, Behind, Onward
    <3>6. AnsweredBehind'
      BY <1>4, <3>4 DEF Paged, AnsweredBehind, Behind
    <3>7. NobodyMissed'
      BY <1>4, <2>4, <3>3, <3>4 DEF Paged, NobodyMissed, Behind, Position
    <3>8. ScanShape'
      BY <1>4, <1>5, <1>18, <2>6, <3>2, <3>4 DEF Paged, ScanShape
    <3> QED
      BY <3>4, <3>5, <3>6, <3>7, <3>8 DEF Paged
  <2> QED
    BY <2>5, <2>6
<1> QED
  BY <1>15, <1>16, <1>17, <1>18

LEMMA PagedStep == RInv /\ Paged /\ [Next]_vars => Paged'
<1> SUFFICES ASSUME RInv, Paged, [Next]_vars PROVE Paged'
  OBVIOUS
<1>1. stored \subseteq Subjects
  BY DEF RInv, Typed
<1>2. CASE scan' = scan /\ stored' = stored
  BY <1>2 DEF Paged, ScanShape, KeptBetween, AnsweredBehind, NobodyMissed, Behind, Onward, Position
<1>3. CASE \E new : Stores(new)
  BY <1>3, StoresKeepsPaged DEF Stores
<1>4. CASE AskPage \/ ReadPage \/ ScanHolders
  BY <1>1, <1>4, AskKeeps, ReadPageKeeps, ScanKeeps
<1>5. ASSUME \/ \E s \in Admitted : Grant(s)
             \/ \E s \in Subjects : Revoke(s) \/ DeleteEntity(EntityOf(s))
      PROVE  \E new : Stores(new)
  BY <1>5 DEF Grant, Revoke, DeleteEntity
<1>6. ASSUME NEW c \in Callers, WriteAtOnce(c) \/ Commit(c) \/ CommitUnheard(c)
      PROVE  \E new : Stores(new)
  BY <1>6 DEF WriteAtOnce, Commit, CommitUnheard
<1>7. ASSUME NEW c \in Callers,
             \/ \E wanted \in WantedLists : Replace(c, wanted)
             \/ \E which \in {"entities", "sets"} : ReadHolders(c, which)
             \/ BeginWrite(c) \/ DeleteRow(c) \/ InsertRow(c) \/ Fails(c) \/ Aborted(c)
      PROVE  scan' = scan /\ stored' = stored
  BY <1>7 DEF Replace, ReadHolders, BeginWrite, DeleteRow, InsertRow, Fails, Aborted
<1>8. UNCHANGED vars => scan' = scan /\ stored' = stored
  BY DEF vars
<1> QED
  BY <1>2, <1>3, <1>4, <1>5, <1>6, <1>7, <1>8 DEF Next

-----------------------------------------------------------------------------
(* Every state of the tuples, of the calls of replace() and of the reader  *)
(* is well typed.                                                          *)
THEOREM TypeCorrect == Spec => []TypeOK
<1>1. RInv /\ Paged => TypeOK
  BY ScanFields DEF RInv, Typed, Paged, TypeOK
<1> QED
  BY <1>1, RInit, RStep, PagedInit, PagedStep, PTL DEF Spec

(* When replaces that overlapped have all answered, and nothing else wrote *)
(* or failed meanwhile, whom all of them wanted is a holder and whom none  *)
(* wanted is not: in memory, and through the transactions of PostgreSQL    *)
(* and MongoDB, whichever rows they locked first (permissions/replace.ts,  *)
(* relations/writes.ts of the adapters).                                   *)
THEOREM BetweenWanted == Spec => []ReplacesBetween
<1> QED
  BY RInit, RStep, RInvGives, PTL DEF Spec

(* The pages of holders() name nobody twice and miss nobody who was a      *)
(* holder all along, whatever is written between two of them and wherever  *)
(* the scan's budget cuts one (permissions/holders.ts).                    *)
THEOREM PagedOnce == Spec => []HoldersPaged
<1> QED
  BY RInit, RStep, PagedInit, PagedStep, PagedGives, PTL DEF Spec

=============================================================================
