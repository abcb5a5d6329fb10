------------------------------ MODULE MCRelations ------------------------------
(***************************************************************************)
(* The stores a deployment chooses among, for TLC, asked in two ways: the  *)
(* relation store while replaces, writes and pages of holders race         *)
(* (Relations), and every store by its conformance suite and by races of   *)
(* its methods (Conformance), one case at a time.  The values are a        *)
(* document's viewers, among two users, a team and the set of that team's  *)
(* members, and one subject an older model stored.                         *)
(***************************************************************************)
EXTENDS Relations

CONSTANTS
    Backends,     \* the adapters the suites are run against
    Crowd,        \* bound: calls at once, for twenty
    UserId, Type, Login, LoginRank, SessionId, Hash, Kind, Address,
    TypeRank, Clock,
    Failure, Empty

ASSUME StoresAssumption ==
    /\ Crowd \in Nat \ {0, 1}
    /\ Empty # None /\ Failure # None

VARIABLES backend, kept, calls, fails, number, position, heard, opened, dropped

Suite == INSTANCE Conformance WITH Rank <- LoginRank, Now <- Clock

suiteVars == <<backend, kept, calls, fails, number, position, heard, opened, dropped>>
storeVars == <<vars, suiteVars>>

NoCase ==
    /\ backend = "none" /\ number = 0 /\ position = 0 /\ dropped = FALSE
    /\ kept = <<>> /\ calls = <<>> /\ fails = "nothing" /\ heard = <<>> /\ opened = <<>>

\* Beside a suite nobody asks the relation store anything.
NobodyAsks ==
    /\ adapter = "memory" /\ stored = {} /\ scan = NoScan
    /\ job = [c \in Callers |-> Idle]
    /\ group = [wants |-> {}, clean |-> TRUE]
    /\ writes = 0 /\ replaces = 0 /\ faults = 0

StoresInit == (Init /\ NoCase) \/ (NobodyAsks /\ Suite!SuiteInit)

StoresNext ==
    \/ number = 0 /\ Next /\ UNCHANGED suiteVars
    \/ number # 0 /\ Suite!SuiteNext /\ UNCHANGED vars

StoresSpec == StoresInit /\ [][StoresNext]_storeVars

-----------------------------------------------------------------------------
\* A case of the suites of stores, tuples or deliveries (conformance/cases,
\* relations/cases and the queue's) is answered as it asks, by each adapter that
\* provides its port, whatever the order of its calls' statements: the encodings
\* lose nothing, a refusal names what the case expects, an outage is an outage.
CasesPass == Suite!SuitePasses

\* Calls made at once of one user, one token or one session answer, and leave
\* the store, as some order of the port's atomic methods (port/memory) would,
\* though their statements interleave: the rows, locks and rereads of
\* janus-drizzle, the documents of janus-mongo one by one.  One at most fails,
\* where the adapter says it may.
Linearises == Suite!RacesSerial

-----------------------------------------------------------------------------
(* The values TLC is given.                                                *)

U1 == AnEntity("user", "u1")
U2 == AnEntity("user", "u2")
T1 == AnEntity("team", "t1")
M1 == [type |-> "team", id |-> "t1", relation |-> "member"]

MCSubjects == {T1, M1, U1, U2}
MCAdmitted == {M1, U1, U2}      \* an older model admitted the team itself
MCRank     == [s \in MCSubjects |->
                 CASE s = T1 -> 1 [] s = M1 -> 2 [] s = U1 -> 3 [] s = U2 -> 4]

MCLocked     == {U1, U2}

MCPredicates == {{U1, T1}, {U2}, {U1, U2, T1}}

\* The suites' logins, in byte order, and types of entities.
MCLogins    == <<"Ada", "ada", "bob", "contested", "edge", "moved", "nobody">>
MCTypes     == <<"folder", "patient", "record", "staff", "team">>
Order(seq)  == [x \in {seq[i] : i \in DOMAIN seq} |-> CHOOSE i \in DOMAIN seq : seq[i] = x]
MCLogin     == DOMAIN Order(MCLogins)
MCLoginRank == Order(MCLogins)
MCTypeRank  == Order(MCTypes)
MCUserId    == 1..5

\* A reader pages while single tuples are written, or replaces race: the rows a
\* replace changes are no different to a page from those a grant changes.
PagesOrReplaces == replaces = 0 \/ scan.phase = "idle"
=============================================================================
