---------------------------- MODULE AccountsProofs ----------------------------
(***************************************************************************)
(* What holds of Accounts for any users, calls and scenes: the index is    *)
(* what the records say, whoever is found holds the key, no landed write   *)
(* is lost, an e-mail is verified only by its own inbox, and a link left   *)
(* behind by a move is dead.                                               *)
(*                                                                         *)
(* An id is minted once (Made), a landed write raises the version, so a    *)
(* record read under the version there is, is the one there is (ReadThen); *)
(* what a call writes is the record it read with its own change (Writes),  *)
(* and marks it verified only if the address in it was proved.  A call's   *)
(* part of the invariant is Kept.                                          *)
(***************************************************************************)
EXTENDS Accounts, TLAPS

Stored(u) == users[u] # None

(* Whose id was minted: it is never minted again.                          *)
Made(u) == ~ (u \in Create \cap scene.calls /\ call[u].pc \in {"idle", "insert"})

Proved(u, email) == email # None => <<u, normalized(email)>> \in proved

IsOut(l) == call[l].pc \in {"spendOthers", "sent"}

WorldTyped ==
  /\ scene \in SceneRecord
  /\ scene.login = "email" => \A fields \in scene.inputs : fields.email # None
  /\ users \in Users
  /\ byLogin \in Index
  /\ tokens \in Store
  /\ proved \subseteq UserId \X Login
  /\ left \subseteq Link
  /\ call \in [Call -> CallRecord]

(* A record of the store, or one that is to be written there.              *)
Whole(record) ==
  /\ record \in UserRecord
  /\ scene.login = "email" => record.fields.email # None
  /\ record.logins = loginsOf(scene.login, record.fields)

UsersKept ==
  \A u \in UserId : Stored(u) =>
    /\ Whole(users[u])
    /\ Made(u)
    /\ users[u].verified => Proved(u, users[u].fields.email)
    /\ \A login \in users[u].logins : byLogin[login] = u

IndexKept ==
  \A login \in Login : byLogin[login] # None =>
    Stored(byLogin[login]) /\ login \in users[byLogin[login]].logins

-----------------------------------------------------------------------------
(* What is so of each call.                                                *)

(* Whose call it is was made.                                              *)
Names(c) == call[c].user \in UserId /\ Made(call[c].user)

(* The record read is the one there is, or an older one.                   *)
ReadThen(c) ==
  /\ Names(c) /\ Whole(call[c].read)
  /\ call[c].read.verified => Proved(call[c].user, call[c].read.fields.email)
  /\ Stored(call[c].user) =>
       /\ call[c].read.version <= users[call[c].user].version
       /\ call[c].read.version = users[call[c].user].version => call[c].read = users[call[c].user]

(* What a call of each flow writes in the record it read.                  *)
Changes(c) ==
  LET read == call[c].read
      next == call[c].next
      flow == call[c].flow
  IN  /\ flow = "name" => next.fields.name = call[c].value
      /\ flow = "email" => next.fields.email = call[c].value
      /\ flow # "name" => next.fields.name = read.fields.name
      /\ flow \notin {"email", "changeEmail"} => next.fields.email = read.fields.email
      /\ flow # "active" => next.active = read.active

Writes(c) ==
  /\ Whole(call[c].next)
  /\ call[c].next.version = call[c].read.version + 1
  /\ call[c].next.verified => Proved(call[c].user, call[c].next.fields.email)
  /\ Changes(c)

Reading(c) ==
  c \in Confirm \cup Update \cup Prove =>
    /\ call[c].pc \in {"prove", "write", "readAgain"} => ReadThen(c)
    /\ call[c].pc \in {"prove", "readAgain"} => Proved(call[c].user, call[c].read.fields.email)
    /\ call[c].pc = "write" => Writes(c)

FlowsFit(c) ==
  /\ c \in Update /\ call[c].pc # "idle" => call[c].flow \in {"name", "email", "active"}
  /\ c \in Confirm /\ call[c].pc # "idle" =>
       call[c].flow \in {"changeEmail", "verifyEmail", "firstProof"}
  /\ c \in Prove /\ call[c].pc # "idle" => call[c].flow = "proveFirst"
  /\ c \in Prove /\ call[c].pc = "write" => Proved(call[c].user, call[c].read.fields.email)
  /\ c \in Confirm /\ call[c].pc = "write" /\ call[c].flow = "firstProof" =>
       Proved(call[c].user, call[c].read.fields.email)
  /\ c \in Create /\ call[c].pc \in {"taken", "takenEmail", "created"} =>
       call[c].flow = "signUp"
  /\ c \in Create /\ call[c].pc = "again" => call[c].flow = "findOrCreate"
  /\ c \in Create /\ call[c].pc \in {"insert", "again", "taken", "takenEmail", "created", "done"} =>
       /\ call[c].flow \in {"create", "findOrCreate", "signUp"}
       /\ call[c].flow # "create" => call[c].value \in Spelled
       /\ call[c].flow = "signUp" => scene.login = "email"

(* The address of a link that was opened is proved.                        *)
Opened(c) ==
  c \in Confirm /\ call[c].pc \in {"owner", "read", "prove", "write"} =>
    LET l == call[c].link
    IN  /\ l \in Link /\ IsOut(l) /\ Names(c)
        /\ call[l].value \in Spelled
        /\ <<call[c].user, Normal[call[l].value]>> \in proved
        /\ call[c].flow = "changeEmail" <=> call[l].flow = "changeEmail"

(* A link, and its token.                                                  *)
Linked(l) ==
  l \in Link =>
    /\ call[l].pc # "idle" =>
         /\ Names(l) /\ call[l].value \in Spelled
         /\ call[l].flow \in Kind
    /\ call[l].pc \in {"idle", "issue", "spendOthers", "sent"}
    /\ tokens[l] # None <=> IsOut(l)
    /\ IsOut(l) => tokens[l].kind = call[l].flow /\ tokens[l].userId = call[l].user

(* A user just created, whose link is not out yet.                         *)
Creates(c) ==
  /\ c \in Create /\ call[c].pc = "insert" => c \in scene.calls
  /\ c \in Create /\ call[c].pc = "created" =>
       call[c].read \in UserRecord /\ call[c].read.fields.email # None

Found(c) ==
  c \in Create /\ call[c].pc \in {"created", "done"} /\ call[c].flow # "create" =>
    LET byEmail == normalized(call[c].read.fields.email) = Normal[call[c].value]
        byLoginField == NormalName[call[c].value] \in call[c].read.logins
    IN  IF call[c].flow = "signUp" THEN byLoginField \/ byEmail
        ELSE IF scene.login = "none" THEN byEmail ELSE byLoginField

(* A landed write, and a later one.                                        *)
Landed(d) == d \in Update \cup Confirm /\ call[d].pc \in {"spend", "done", "failed"}

LandedLater(m, flows) ==
  \E d \in Update \cup Confirm :
    /\ Landed(d) /\ call[d].flow \in flows /\ call[d].user = call[m].user
    /\ call[d].next.version > call[m].next.version

StillThere(m) ==
  LET user == users[call[m].user]
  IN  /\ call[m].flow = "name" =>
           user.fields.name = call[m].value \/ LandedLater(m, {"name"})
      /\ call[m].flow = "email" =>
           user.fields.email = call[m].value \/ LandedLater(m, {"email", "changeEmail"})
      /\ call[m].flow = "active" =>
           user.active = call[m].next.active \/ LandedLater(m, {"active"})

Lasting(m) ==
  m \in Update /\ Landed(m) =>
    /\ Names(m) /\ call[m].next \in UserRecord
    /\ Stored(call[m].user) =>
         call[m].next.version <= users[call[m].user].version /\ StillThere(m)

Kept(c) ==
  /\ Reading(c) /\ FlowsFit(c) /\ Opened(c) /\ Linked(c) /\ Creates(c) /\ Found(c)

CallsKept == \A c \in Call : Kept(c)

AllLasting == \A m \in Update : Lasting(m)

LeftSpent == \A l \in left : tokens[l] # None /\ tokens[l].spentAt # None

AInv ==
  /\ WorldTyped /\ UsersKept /\ IndexKept
  /\ CallsKept /\ AllLasting
  /\ LeftSpent /\ LeftLinksDead
-----------------------------------------------------------------------------
(* Names, logins and records.                                              *)

LEMMA Apart ==
  /\ Hash = Link /\ Kind = {"changeEmail", "verifyEmail"} /\ Create \subseteq UserId
  /\ \A c \in Call : c \in Link => c \notin Create \cup Confirm \cup Update \cup Prove
  /\ \A c \in Call : c \in Create => c \notin Link \cup Confirm \cup Update \cup Prove
  /\ \A c \in Call : c \in Confirm => c \notin Link \cup Create \cup Update \cup Prove
  /\ \A c \in Call : c \in Update => c \notin Link \cup Create \cup Confirm \cup Prove
  /\ \A c \in Call : c \in Prove => c \notin Link \cup Create \cup Confirm \cup Update
  /\ Create \subseteq Call /\ Link \subseteq Call /\ Confirm \subseteq Call
  /\ Update \subseteq Call /\ Prove \subseteq Call
BY AccountsAssumption DEF Call

LEMMA NoNames ==
  /\ None \notin UserRecord /\ None \notin UserId /\ None \notin Login /\ None \notin Spelled
  /\ None \notin Link /\ None \notin TokenRecord /\ None \notin Nat
  /\ \A address \in Spelled : Normal[address] \in Login /\ NormalName[address] \in Login
BY NoUserAssumption, TokenStoreAssumption, UserStoreAssumption, AccountsAssumption DEF Spelled

LEMMA LoginsTyped ==
  ASSUME NEW login \in {"name", "email", "none"}, NEW fields \in Fields,
         login = "email" => fields.email # None
  PROVE  loginsOf(login, fields) \in SUBSET Login
<1>1. fields.name \in Spelled /\ fields.email \in Spelled \cup {None}
  BY DEF Fields
<1> QED
  BY <1>1, NoNames DEF loginsOf

LEMMA PatchedIs ==
  ASSUME WorldTyped, NEW record \in UserRecord, NEW fields \in Fields,
         scene.login = "email" => fields.email # None,
         NEW active \in BOOLEAN, NEW verified \in BOOLEAN
  PROVE  /\ Whole(Patched(record, fields, active, verified))
         /\ Patched(record, fields, active, verified).fields = fields
         /\ Patched(record, fields, active, verified).active = active
         /\ Patched(record, fields, active, verified).verified = verified
         /\ Patched(record, fields, active, verified).version = record.version + 1
<1>1. scene.login \in {"name", "email", "none"}
  BY DEF WorldTyped, SceneRecord
<1>2. loginsOf(scene.login, fields) \in SUBSET Login
  BY <1>1, LoginsTyped
<1>3. record.version + 1 \in Nat
  BY DEF UserRecord
<1> QED
  BY <1>2, <1>3 DEF Patched, Whole, UserRecord

(* The record as it is marked verified.                                    *)
LEMMA MarkedIs ==
  ASSUME WorldTyped, NEW record \in UserRecord, NEW fields \in Fields,
         scene.login = "email" => fields.email # None
  PROVE  /\ Whole(Patched(record, fields, record.active, TRUE))
         /\ Patched(record, fields, record.active, TRUE).fields = fields
         /\ Patched(record, fields, record.active, TRUE).active = record.active
         /\ Patched(record, fields, record.active, TRUE).version = record.version + 1
<1>1. record.active \in BOOLEAN
  BY DEF UserRecord
<1>2. \A verified \in BOOLEAN :
        /\ Whole(Patched(record, fields, record.active, verified))
        /\ Patched(record, fields, record.active, verified).fields = fields
        /\ Patched(record, fields, record.active, verified).active = record.active
        /\ Patched(record, fields, record.active, verified).version = record.version + 1
  BY <1>1, PatchedIs
<1> QED
  BY <1>2

LEMMA NewUserIs ==
  ASSUME WorldTyped, NEW fields \in Fields, scene.login = "email" => fields.email # None
  PROVE  /\ Whole(NewUser(fields)) /\ NewUser(fields).fields = fields
         /\ ~ NewUser(fields).verified
         /\ NewUser(fields).logins = loginsOf(scene.login, fields)
<1>1. scene.login \in {"name", "email", "none"}
  BY DEF WorldTyped, SceneRecord
<1>2. loginsOf(scene.login, fields) \in SUBSET Login
  BY <1>1, LoginsTyped
<1> QED
  BY <1>2 DEF NewUser, Whole, UserRecord

-----------------------------------------------------------------------------
(* What a step leaves of the calls it is not of.                           *)

(* What a step may do to one call.                                         *)
Fits(c) ==
  /\ call'[c] \in CallRecord
  /\ call'[c].pc \in {"idle", "insert"} => call[c].pc \in {"idle", "insert"}
  /\ c \in Link /\ IsOut(c) =>
       /\ IsOut(c)' /\ call'[c].value = call[c].value
       /\ call'[c].user = call[c].user /\ call'[c].flow = call[c].flow
  /\ c \in Update \cup Confirm /\ Landed(c) =>
       /\ Landed(c)' /\ call'[c].value = call[c].value /\ call'[c].next = call[c].next
       /\ call'[c].user = call[c].user /\ call'[c].flow = call[c].flow
  /\ c \in Confirm /\ call'[c].late => call'[c].pc = "refused"

SceneStays ==
  /\ scene' \in SceneRecord /\ scene'.login = scene.login /\ scene'.calls = scene.calls
  /\ scene'.inputs = scene.inputs

(* Of the records, a step leaves one as it was, drops it, writes the next  *)
(* version or makes one never made before.                                 *)
UsersMove ==
  \A u \in UserId : users'[u] # None =>
    \/ users'[u] = users[u]
    \/ ~ Made(u)
    \/ Stored(u) /\ users'[u].version = users[u].version + 1

TokensMove(A) ==
  /\ tokens' \in Store
  /\ \A l \in Link :
       /\ tokens[l] # None =>
            /\ tokens'[l] # None /\ tokens'[l].kind = tokens[l].kind
            /\ tokens'[l].userId = tokens[l].userId
            /\ tokens[l].spentAt # None => tokens'[l].spentAt # None
       /\ l \notin A /\ tokens[l] = None => tokens'[l] = None

Moves(A) ==
  /\ call' \in [Call -> CallRecord]
  /\ \A c \in Call \ A : call'[c] = call[c]
  /\ \A c \in A : Fits(c)
  /\ SceneStays
  /\ proved \subseteq proved' /\ proved' \subseteq UserId \X Login
  /\ TokensMove(A)

LEMMA AllFit ==
  ASSUME AInv, NEW A \in SUBSET Call, Moves(A), NEW c \in Call
  PROVE  Fits(c)
<1>1. CASE c \in A
  BY <1>1 DEF Moves
<1>2. CASE c \notin A
  <2>1. call'[c] = call[c] /\ call'[c] \in CallRecord
    BY <1>2 DEF Moves
  <2>2. c \in Confirm /\ call[c].late => call[c].pc = "refused"
    BY DEF AInv, LeftLinksDead
  <2> QED
    BY <2>1, <2>2 DEF Fits, IsOut, Landed
<1> QED
  BY <1>1, <1>2

LEMMA StillMade ==
  ASSUME AInv, NEW A \in SUBSET Call, Moves(A)
  PROVE  \A u : Made(u) => Made(u)'
<1> SUFFICES ASSUME NEW u, Made(u) PROVE Made(u)'
  OBVIOUS
<1>1. CASE u \in Create /\ u \in scene.calls
  <2>1. u \in Call
    BY <1>1, Apart
  <2>2. Fits(u)
    BY <2>1, AllFit
  <2> QED
    BY <2>2 DEF Made, Fits, Moves, SceneStays
<1>2. CASE ~ (u \in Create /\ u \in scene.calls)
  BY <1>2 DEF Made, Moves, SceneStays
<1> QED
  BY <1>1, <1>2

LEMMA StillWhole ==
  ASSUME SceneStays
  PROVE  \A record : Whole(record) => Whole(record)'
BY DEF SceneStays, Whole

LEMMA StillProved ==
  ASSUME NEW A \in SUBSET Call, Moves(A)
  PROVE  \A u, email : Proved(u, email) => Proved(u, email)'
BY DEF Moves, Proved

LEMMA StillReadThen ==
  ASSUME AInv, NEW A \in SUBSET Call, Moves(A), UsersMove, NEW c \in Call, ReadThen(c),
         call'[c].user = call[c].user, call'[c].read = call[c].read
  PROVE  ReadThen(c)'
<1> DEFINE u == call[c].user
           read == call[c].read
<1>1. u \in UserId /\ Made(u) /\ Whole(read)
  BY DEF ReadThen, Names
<1>3. Names(c)'
  BY <1>1, StillMade DEF Names, Made
<1>4. Whole(call[c].read)'
  BY <1>1, StillWhole DEF Moves, Whole
<1>5. read.verified => Proved(call[c].user, call[c].read.fields.email)'
  BY StillProved DEF ReadThen, Proved
<1>6. users'[u] # None =>
        /\ read.version <= users'[u].version
        /\ read.version = users'[u].version => read = users'[u]
  <2> SUFFICES ASSUME users'[u] # None
               PROVE  /\ read.version <= users'[u].version
                      /\ read.version = users'[u].version => read = users'[u]
    OBVIOUS
  <2>1. CASE users'[u] = users[u]
    BY <2>1 DEF ReadThen, Stored
  <2>2. CASE Stored(u) /\ users'[u].version = users[u].version + 1
    <3>1. users[u].version \in Int /\ read.version \in Int
      BY <1>1, <2>2 DEF AInv, WorldTyped, Users, Stored, UserRecord, Whole
    <3>2. read.version <= users[u].version
      BY <2>2 DEF ReadThen
    <3> HIDE DEF read
    <3> QED
      BY <2>2, <3>1, <3>2
  <2> QED
    BY <1>1, <2>1, <2>2 DEF UsersMove
<1>0. call'[c].user = u /\ call'[c].read = read
  OBVIOUS
<1>7. Whole(call[c].read)' /\ Names(c)'
  BY <1>3, <1>4
<1>8. (call[c].read.verified => Proved(call[c].user, call[c].read.fields.email))'
  BY <1>5 DEF Proved
<1>9. (Stored(call[c].user) =>
         /\ call[c].read.version <= users[call[c].user].version
         /\ call[c].read.version = users[call[c].user].version
              => call[c].read = users[call[c].user])'
  <2> HIDE DEF u, read
  <2> QED
    BY <1>0, <1>6 DEF Stored
<1> QED
  BY <1>7, <1>8, <1>9 DEF ReadThen

LEMMA StillKept ==
  ASSUME AInv, NEW A \in SUBSET Call, Moves(A), UsersMove, NEW c \in Call \ A
  PROVE  Kept(c)'
<1>1. call'[c] = call[c] /\ SceneStays /\ Kept(c) /\ c \in Call
  BY DEF Moves, AInv, CallsKept
<1>2. Reading(c)'
  <2>1. ReadThen(c) => ReadThen(c)'
    BY <1>1, StillReadThen
  <2>2. Writes(c) => Writes(c)'
    <3> SUFFICES ASSUME Writes(c) PROVE Writes(c)'
      OBVIOUS
    <3>1. Whole(call[c].next)'
      BY <1>1, StillWhole DEF Writes, Whole
    <3>2. call[c].next.verified => Proved(call[c].user, call[c].next.fields.email)'
      BY <1>1, StillProved DEF Writes, Proved
    <3> QED
      BY <1>1, <3>1, <3>2 DEF Writes, Changes, Whole, Proved
  <2>3. Proved(call[c].user, call[c].read.fields.email)
          => Proved(call[c].user, call[c].read.fields.email)'
    BY <1>1, StillProved DEF Proved
  <2> QED
    BY <1>1, <2>1, <2>2, <2>3 DEF Reading, Kept
<1>3. FlowsFit(c)'
  <2>1. Proved(call[c].user, call[c].read.fields.email)
          => Proved(call[c].user, call[c].read.fields.email)'
    BY <1>1, StillProved DEF Proved
  <2> QED
    BY <1>1, <2>1 DEF FlowsFit, Kept, SceneStays
<1>4. Opened(c)'
  <2> SUFFICES ASSUME c \in Confirm, call[c].pc \in {"owner", "read", "prove", "write"}
               PROVE  Opened(c)'
    BY <1>1 DEF Opened
  <2> DEFINE l == call[c].link
  <2>1. /\ l \in Link /\ IsOut(l) /\ Names(c) /\ call[l].value \in Spelled
        /\ <<call[c].user, Normal[call[l].value]>> \in proved
        /\ call[c].flow = "changeEmail" <=> call[l].flow = "changeEmail"
    BY <1>1 DEF Kept, Opened
  <2>2. /\ IsOut(l)' /\ call'[l].value = call[l].value /\ call'[l].user = call[l].user
        /\ call'[l].flow = call[l].flow
    <3>1. Fits(l)
      BY <2>1, Apart, AllFit
    <3> QED
      BY <2>1, <3>1 DEF Fits
  <2>3. Names(c)'
    BY <1>1, <2>1, StillMade DEF Names, Made
  <2> QED
    BY <1>1, <2>1, <2>2, <2>3 DEF Opened, Moves
<1>5. Linked(c)'
  <2> SUFFICES ASSUME c \in Link PROVE Linked(c)'
    BY DEF Linked
  <2>1. Linked(c) /\ (Names(c) => Names(c)')
    BY <1>1, StillMade DEF Kept, Names, Made
  <2>2. /\ tokens[c] # None => tokens'[c] # None /\ tokens'[c].kind = tokens[c].kind
                               /\ tokens'[c].userId = tokens[c].userId
        /\ tokens[c] = None => tokens'[c] = None
    BY DEF Moves, TokensMove
  <2> QED
    BY <1>1, <2>1, <2>2 DEF Linked, IsOut
<1>6. Creates(c)' /\ Found(c)'
  BY <1>1 DEF Kept, Creates, Found, SceneStays
<1> QED
  BY <1>2, <1>3, <1>4, <1>5, <1>6 DEF Kept

(* A later write stays one.                                                *)
LEMMA StillLater ==
  ASSUME AInv, NEW A \in SUBSET Call, Moves(A), NEW m \in Update, Landed(m), NEW flows,
         LandedLater(m, flows)
  PROVE  LandedLater(m, flows)'
<1>1. PICK d \in Update \cup Confirm :
        /\ Landed(d) /\ call[d].flow \in flows /\ call[d].user = call[m].user
        /\ call[d].next.version > call[m].next.version
  BY DEF LandedLater
<1>2. Fits(d) /\ Fits(m)
  BY Apart, AllFit
<1> QED
  BY <1>1, <1>2 DEF Fits, LandedLater

(* A call whose user is not written, or dropped, lasts as it did.          *)
LEMMA StillLasting ==
  ASSUME AInv, NEW A \in SUBSET Call, Moves(A), NEW m \in Update, Landed(m),
         users'[call[m].user] # None => users'[call[m].user] = users[call[m].user]
  PROVE  Lasting(m)'
<1>1. Lasting(m) /\ Names(m) /\ call[m].next \in UserRecord
  BY DEF AInv, AllLasting, Lasting
<1>2. Fits(m)
  BY Apart, AllFit
<1>3. /\ call'[m].value = call[m].value /\ call'[m].next = call[m].next
      /\ call'[m].user = call[m].user /\ call'[m].flow = call[m].flow
  BY <1>2 DEF Fits
<1>4. Names(m)'
  BY <1>1, <1>3, StillMade DEF Names, Made
<1>5. ASSUME users'[call[m].user] # None
      PROVE  /\ call[m].next.version <= users'[call[m].user].version
             /\ StillThere(m)'
  <2>1. users'[call[m].user] = users[call[m].user] /\ Stored(call[m].user)
    BY <1>5 DEF Stored
  <2>2. call[m].next.version <= users[call[m].user].version /\ StillThere(m)
    BY <1>1, <2>1 DEF Lasting
  <2>3. \A flows : LandedLater(m, flows) => LandedLater(m, flows)'
    BY StillLater
  <2> QED
    BY <1>3, <2>1, <2>2, <2>3 DEF StillThere
<1> QED
  BY <1>1, <1>3, <1>4, <1>5 DEF Lasting, Stored

LEMMA StillSpent ==
  ASSUME AInv, NEW A \in SUBSET Call, Moves(A), UNCHANGED left
  PROVE  LeftSpent'
BY DEF AInv, LeftSpent, Moves, TokensMove, WorldTyped

LEMMA StillDead ==
  ASSUME AInv, NEW A \in SUBSET Call, Moves(A)
  PROVE  LeftLinksDead'
<1> SUFFICES ASSUME NEW c \in Confirm, call'[c].late PROVE call'[c].pc = "refused"
  BY DEF LeftLinksDead
<1>1. Fits(c)
  BY Apart, AllFit
<1> QED
  BY <1>1 DEF Fits

(* A step that leaves the user store as it is.                             *)
LEMMA QuietStep ==
  ASSUME AInv, NEW A \in SUBSET Call, Moves(A), UNCHANGED userStore,
         left' \subseteq Link, LeftSpent',
         \A c \in A : Kept(c)' /\ (c \in Update => Lasting(c)')
  PROVE  AInv'
<1>1. users' = users /\ byLogin' = byLogin
  BY DEF userStore
<1>2. UsersMove
  BY <1>1 DEF UsersMove
<1>3. WorldTyped'
  BY <1>1 DEF AInv, WorldTyped, Moves, SceneStays, TokensMove
<1>4. UsersKept'
  <2>1. \A u \in UserId : Stored(u) =>
          /\ Whole(users[u])' /\ Made(u)'
          /\ users[u].verified => Proved(u, users[u].fields.email)'
          /\ \A login \in users[u].logins : byLogin[login] = u
    BY <1>1, StillWhole, StillMade, StillProved
       DEF AInv, UsersKept, Moves, Whole, Made, Proved
  <2> QED
    BY <1>1, <2>1 DEF UsersKept, Stored, Whole, Made, Proved
<1>5. IndexKept'
  BY <1>1 DEF AInv, IndexKept, Stored
<1>6. CallsKept'
  BY <1>2, StillKept DEF CallsKept
<1>7. AllLasting'
  <2> SUFFICES ASSUME NEW m \in Update PROVE Lasting(m)'
    BY DEF AllLasting
  <2>1. m \in Call
    BY Apart
  <2>2. CASE m \in A
    BY <2>2
  <2>3. CASE m \notin A /\ Landed(m)
    BY <1>1, <2>3, StillLasting
  <2>4. CASE m \notin A /\ ~ Landed(m)
    BY <2>1, <2>4 DEF Lasting, Landed, Moves
  <2> QED
    BY <2>2, <2>3, <2>4
<1>8. LeftLinksDead'
  BY StillDead
<1> QED
  BY <1>3, <1>4, <1>5, <1>6, <1>7, <1>8 DEF AInv
-----------------------------------------------------------------------------
(* The moves of the token store.                                           *)

LEMMA TokensStay ==
  ASSUME WorldTyped, NEW A \in SUBSET Call, UNCHANGED tokens
  PROVE  TokensMove(A)
BY DEF WorldTyped, TokensMove

LEMMA TokenTyped ==
  ASSUME WorldTyped, NEW l \in Link
  PROVE  tokens[l] \in TokenRecord \cup {None}
BY AccountsAssumption DEF WorldTyped, Store

LEMMA SpentIs ==
  ASSUME NEW token \in TokenRecord
  PROVE  LET spent == [token EXCEPT !.spentAt = 0]
         IN  /\ spent \in TokenRecord /\ spent.kind = token.kind
             /\ spent.userId = token.userId /\ spent.spentAt = 0
BY DEF TokenRecord

LEMMA InsertMoves ==
  ASSUME WorldTyped, NEW A \in SUBSET Call, NEW l \in Link \cap A, NEW token \in TokenRecord,
         tokens[l] = None, tokens' = insertToken(tokens, l, token)
  PROVE  TokensMove(A) /\ tokens'[l] = token
<1>1. tokens \in [Link -> TokenRecord \cup {None}] /\ Hash = Link
  BY AccountsAssumption DEF WorldTyped, Store
<1>2. tokens' = [tokens EXCEPT ![l] = token]
  BY DEF insertToken
<1> QED
  BY <1>1, <1>2, NoNames DEF TokensMove, Store

LEMMA ConsumeMoves ==
  ASSUME WorldTyped, NEW A \in SUBSET Call, NEW l \in Link, tokens[l] # None,
         tokens' = consumeToken(tokens, l, tokens[l].kind, 0)
  PROVE  TokensMove(A)
<1>1. tokens \in [Link -> TokenRecord \cup {None}] /\ Hash = Link /\ tokens[l] \in TokenRecord
  BY AccountsAssumption DEF WorldTyped, Store
<1> DEFINE spent == [tokens[l] EXCEPT !.spentAt = 0]
<1>2. CASE tokens' = tokens
  BY <1>2, TokensStay
<1>3. CASE tokens' = [tokens EXCEPT ![l] = spent]
  <2>1. /\ spent \in TokenRecord /\ spent.kind = tokens[l].kind
        /\ spent.userId = tokens[l].userId /\ spent.spentAt = 0
    BY <1>1, SpentIs
  <2>2. 0 # None
    BY NoNames
  <2> HIDE DEF spent
  <2> QED
    BY <1>1, <1>3, <2>1, <2>2, NoNames DEF TokensMove, Store
<1> QED
  BY <1>1, <1>2, <1>3 DEF consumeToken

LEMMA SpendMoves ==
  ASSUME WorldTyped, NEW A \in SUBSET Call, NEW u, NEW kind, NEW except,
         tokens' = spendUserTokens(tokens, u, kind, 0, except)
  PROVE  /\ TokensMove(A)
         /\ \A l \in Link :
              /\ tokens[l] # None /\ tokens[l].userId = u /\ tokens[l].kind = kind
              /\ l \notin except
              => tokens'[l].spentAt # None
<1>1. tokens \in [Link -> TokenRecord \cup {None}] /\ Hash = Link
  BY AccountsAssumption DEF WorldTyped, Store
<1> DEFINE Hit(l) == /\ Unspent(tokens[l]) /\ tokens[l].userId = u
                     /\ tokens[l].kind = kind /\ l \notin except
           spent(l) == [tokens[l] EXCEPT !.spentAt = 0]
<1>2. tokens' = [l \in Link |-> IF Hit(l) THEN spent(l) ELSE tokens[l]]
  BY <1>1 DEF spendUserTokens
<1>3. 0 # None
  BY NoNames
<1>4. ASSUME NEW l \in Link
      PROVE  /\ tokens'[l] \in TokenRecord \cup {None}
             /\ tokens[l] = None => tokens'[l] = None
             /\ tokens[l] # None =>
                  /\ tokens'[l] # None /\ tokens'[l].kind = tokens[l].kind
                  /\ tokens'[l].userId = tokens[l].userId
                  /\ tokens[l].spentAt # None => tokens'[l].spentAt # None
                  /\ Hit(l) => tokens'[l].spentAt # None
  <2>1. CASE Hit(l)
    <3>1. tokens'[l] = spent(l) /\ tokens[l] \in TokenRecord
      BY <1>1, <1>2, <2>1 DEF Unspent
    <3>2. /\ spent(l) \in TokenRecord /\ spent(l).kind = tokens[l].kind
          /\ spent(l).userId = tokens[l].userId /\ spent(l).spentAt = 0
      BY <3>1, SpentIs
    <3> HIDE DEF spent
    <3>3. tokens[l] # None
      BY <2>1 DEF Unspent
    <3> QED
      BY <1>3, <3>1, <3>2, <3>3, NoNames
  <2>2. CASE ~ Hit(l)
    <3>1. tokens'[l] = tokens[l]
      BY <1>2, <2>2
    <3> QED
      BY <1>1, <2>2, <3>1
  <2> QED
    BY <2>1, <2>2
<1>5. tokens' \in Store
  BY <1>1, <1>2, <1>4 DEF Store
<1> QED
  BY <1>4, <1>5 DEF TokensMove, Unspent

-----------------------------------------------------------------------------
(* A step of one call.                                                     *)

(* What a call may become.                                                 *)
Becomes(c, record) ==
  /\ call' = [call EXCEPT ![c] = record]
  /\ record \in CallRecord
  /\ record.pc \in {"idle", "insert"} => call[c].pc \in {"idle", "insert"}
  /\ c \in Link /\ IsOut(c) =>
       /\ record.pc \in {"spendOthers", "sent"} /\ record.value = call[c].value
       /\ record.user = call[c].user /\ record.flow = call[c].flow
  /\ c \in Update \cup Confirm /\ Landed(c) =>
       /\ record.pc \in {"spend", "done", "failed"}
       /\ record.value = call[c].value /\ record.next = call[c].next
       /\ record.user = call[c].user /\ record.flow = call[c].flow
  /\ c \in Confirm /\ record.late => record.pc = "refused"

LEMMA OneMoves ==
  ASSUME AInv, NEW c \in Call, NEW record, Becomes(c, record), SceneStays,
         proved \subseteq proved', proved' \subseteq UserId \X Login, TokensMove({c})
  PROVE  Moves({c}) /\ call'[c] = record
<1>1. call \in [Call -> CallRecord]
  BY DEF AInv, WorldTyped
<1>2. /\ call' \in [Call -> CallRecord] /\ call'[c] = record
      /\ \A d \in Call \ {c} : call'[d] = call[d]
  BY <1>1 DEF Becomes
<1>3. Fits(c)
  BY <1>2 DEF Fits, Becomes, IsOut, Landed
<1> QED
  BY <1>2, <1>3 DEF Moves

LEMMA SceneSame ==
  ASSUME AInv, UNCHANGED scene
  PROVE  SceneStays
BY DEF AInv, WorldTyped, SceneStays

(* A step of one call that only asks.                                      *)
LEMMA Asks ==
  ASSUME AInv, NEW c \in Call, NEW record, Becomes(c, record), UNCHANGED <<scene, tokens, proved>>
  PROVE  Moves({c}) /\ call'[c] = record
<1>1. SceneStays
  BY SceneSame
<1>2. TokensMove({c})
  BY TokensStay DEF AInv
<1>3. proved \subseteq proved' /\ proved' \subseteq UserId \X Login
  BY DEF AInv, WorldTyped
<1> QED
  BY <1>1, <1>2, <1>3, OneMoves

(* What is asked of a call, by what it is.                                 *)
LEMMA KeptIs ==
  ASSUME NEW c \in Call
  PROVE  /\ c \in Create /\ FlowsFit(c)' /\ Creates(c)' /\ Found(c)' => Kept(c)'
         /\ c \in Link /\ Linked(c)' => Kept(c)'
         /\ c \in Confirm /\ Reading(c)' /\ FlowsFit(c)' /\ Opened(c)' => Kept(c)'
         /\ c \in Update \cup Prove /\ Reading(c)' /\ FlowsFit(c)' => Kept(c)'
<1>1. c \notin Create => Creates(c)' /\ Found(c)'
  BY DEF Creates, Found
<1>2. c \notin Link => Linked(c)'
  BY DEF Linked
<1>3. c \notin Confirm => Opened(c)'
  BY DEF Opened
<1>4. c \notin Confirm \cup Update \cup Prove => Reading(c)'
  BY DEF Reading
<1>5. c \notin Create \cup Confirm \cup Update \cup Prove => FlowsFit(c)'
  BY DEF FlowsFit
<1> QED
  BY <1>1, <1>2, <1>3, <1>4, <1>5, Apart DEF Kept

(* A call that is over, refused, asks nothing.                             *)
LEMMA RefusedIsKept ==
  ASSUME AInv, NEW c \in Call \ Link, UNCHANGED <<scene, userStore, tokens, proved, left>>,
         Goes(c, "refused"), ~ (c \in Update \cup Confirm /\ Landed(c)), call[c].pc # "idle"
  PROVE  AInv'
<1> DEFINE record == [call[c] EXCEPT !.pc = "refused"]
<1>1. /\ record \in CallRecord /\ record.pc = "refused" /\ record.flow = call[c].flow
      /\ call' = [call EXCEPT ![c] = record]
  BY DEF AInv, WorldTyped, CallRecord, Goes
<1>2. Becomes(c, record)
  BY <1>1 DEF Becomes
<1>3. Moves({c}) /\ call'[c] = record
  BY <1>2, Asks
<1> HIDE DEF record
<1>4. Kept(c)'
  <2>1. FlowsFit(c)
    BY DEF AInv, CallsKept, Kept
  <2>2. FlowsFit(c)'
    BY <1>1, <1>3, <2>1 DEF FlowsFit
  <2>3. Reading(c)' /\ Opened(c)' /\ Creates(c)' /\ Found(c)' /\ Linked(c)'
    BY <1>1, <1>3 DEF Reading, Opened, Creates, Found, Linked
  <2> QED
    BY <2>2, <2>3 DEF Kept
<1>5. Lasting(c)'
  BY <1>1, <1>3 DEF Lasting, Landed
<1>6. LeftSpent' /\ left' \subseteq Link
  BY <1>3, StillSpent DEF AInv, WorldTyped
<1> QED
  BY <1>3, <1>4, <1>5, <1>6, QuietStep
-----------------------------------------------------------------------------
(* create, findOrCreate and signUp.send.                                   *)

(* A step of one call that leaves all else but what it proves and spends.  *)
LEMMA OneStep ==
  ASSUME AInv, NEW c \in Call, Moves({c}), UNCHANGED userStore, UNCHANGED left,
         Kept(c)', c \in Update => Lasting(c)'
  PROVE  AInv'
<1>1. LeftSpent' /\ left' \subseteq Link
  BY StillSpent DEF AInv, WorldTyped
<1> QED
  BY <1>1, QuietStep

LEMMA ValuesSpelled ==
  ASSUME AInv
  PROVE  /\ scene.values \subseteq Spelled /\ scene.inputs \subseteq Fields
         /\ scene.login \in {"name", "email", "none"}
         /\ \A fields \in scene.inputs : scene.login = "email" => fields.email # None
BY DEF AInv, WorldTyped, SceneRecord

(* The record of a user there is.                                          *)
LEMMA RecordIs ==
  ASSUME AInv, NEW u \in UserId, Stored(u)
  PROVE  /\ users[u] \in UserRecord /\ Whole(users[u]) /\ Made(u)
         /\ users[u].verified => Proved(u, users[u].fields.email)
         /\ \A login \in users[u].logins : byLogin[login] = u
         /\ users[u].fields \in Fields
BY DEF AInv, UsersKept, Whole, UserRecord

LEMMA HeldBy ==
  ASSUME AInv, NEW login \in Login, byLogin[login] # None
  PROVE  /\ byLogin[login] \in UserId /\ Stored(byLogin[login])
         /\ users[byLogin[login]] \in UserRecord /\ login \in users[byLogin[login]].logins
<1>1. byLogin[login] \in UserId /\ Stored(byLogin[login]) /\ login \in users[byLogin[login]].logins
  BY DEF AInv, WorldTyped, Index, IndexKept
<1> QED
  BY <1>1, RecordIs

LEMMA HolderOfEmailIs ==
  ASSUME AInv, NEW key \in Spelled
  PROVE  LET u == holderOfEmail(users, byLogin, key)
         IN  u # None =>
               /\ u \in UserId /\ Stored(u) /\ users[u] \in UserRecord
               /\ normalized(users[u].fields.email) = Normal[key]
<1>1. Normal[key] \in Login
  BY NoNames
<1> QED
  BY <1>1, HeldBy DEF holderOfEmail

(* Who a key names has it.                                                 *)
LEMMA HolderIs ==
  ASSUME AInv, NEW key \in Spelled, Holder(key) # None
  PROVE  LET u == Holder(key)
         IN  /\ u \in UserId /\ Stored(u) /\ users[u] \in UserRecord
             /\ IF scene.login = "none" THEN normalized(users[u].fields.email) = Normal[key]
                ELSE NormalName[key] \in users[u].logins
<1>1. CASE scene.login = "none"
  BY <1>1, HolderOfEmailIs DEF Holder
<1>2. CASE scene.login # "none"
  <2>1. NormalName[key] \in Login
    BY NoNames
  <2> QED
    BY <1>2, <2>1, HeldBy DEF Holder
<1> QED
  BY <1>1, <1>2

(* A call of create that is asked, or answers.                             *)
LEMMA CreateMoves ==
  ASSUME AInv, NEW c \in Create, NEW record \in CallRecord,
         call' = [call EXCEPT ![c] = record],
         record.pc \in {"insert", "again", "taken", "takenEmail", "done", "refused"},
         record.pc = "insert" => c \in scene.calls /\ call[c].pc = "idle",
         record.pc \in {"taken", "takenEmail"} => record.flow = "signUp",
         record.pc = "again" => record.flow = "findOrCreate",
         record.flow \in {"create", "findOrCreate", "signUp"},
         record.flow # "create" => record.value \in Spelled,
         record.flow = "signUp" => scene.login = "email",
         record.pc = "done" /\ record.flow # "create" =>
           LET byEmail == normalized(record.read.fields.email) = Normal[record.value]
               byLoginField == NormalName[record.value] \in record.read.logins
           IN  IF record.flow = "signUp" THEN byLoginField \/ byEmail
               ELSE IF scene.login = "none" THEN byEmail ELSE byLoginField,
         UNCHANGED <<scene, userStore, tokens, proved, left>>
  PROVE  AInv'
<1>1. c \in Call /\ c \notin Link \cup Update \cup Confirm \cup Prove
  BY Apart
<1>2. Becomes(c, record)
  BY <1>1 DEF Becomes
<1>3. Moves({c}) /\ call'[c] = record
  BY <1>1, <1>2, Asks
<1>4. FlowsFit(c)' /\ Creates(c)' /\ Found(c)'
  BY <1>1, <1>3 DEF FlowsFit, Creates, Found
<1> QED
  BY <1>1, <1>3, <1>4, KeptIs, OneStep

LEMMA AnswersKeep ==
  ASSUME AInv, NEW c \in Create, NEW u \in UserId, Stored(u), Answers(c, u),
         call[c].pc \in {"again", "taken", "takenEmail"},
         LET byEmail == normalized(users[u].fields.email) = Normal[call[c].value]
             byLoginField == NormalName[call[c].value] \in users[u].logins
         IN  IF call[c].flow = "signUp" THEN byLoginField \/ byEmail
             ELSE IF scene.login = "none" THEN byEmail ELSE byLoginField,
         UNCHANGED <<scene, userStore, tokens, proved, left>>
  PROVE  AInv'
<1> DEFINE record == [call[c] EXCEPT !.pc = "done", !.user = u, !.read = users[u]]
<1>1. call[c] \in CallRecord /\ users[u] \in UserRecord
  BY Apart, RecordIs DEF AInv, WorldTyped
<1>2. /\ record \in CallRecord /\ record.pc = "done" /\ record.user = u
      /\ record.read = users[u] /\ record.flow = call[c].flow /\ record.value = call[c].value
  BY <1>1 DEF CallRecord
<1>3. call' = [call EXCEPT ![c] = record]
  BY DEF Answers
<1>4. FlowsFit(c)
  BY Apart DEF AInv, CallsKept, Kept
<1> HIDE DEF record
<1> QED
  BY <1>2, <1>3, <1>4, CreateMoves DEF FlowsFit

LEMMA FindHolderKeeps ==
  ASSUME AInv, NEW c, NEW key \in scene.values, FindHolder(c, key)
  PROVE  AInv'
<1>1. c \in Create /\ c \in scene.calls /\ call[c].pc = "idle" /\ call[c] \in CallRecord
  BY Apart DEF FindHolder, Begins, AInv, WorldTyped
<1>2. key \in Spelled
  BY ValuesSpelled
<1>3. UNCHANGED <<scene, userStore, tokens, proved, left>>
  BY DEF FindHolder
<1>4. CASE Holder(key) # None
  <2> DEFINE record == [call[c] EXCEPT !.pc = "done", !.flow = "findOrCreate", !.value = key,
                                       !.user = Holder(key), !.read = users[Holder(key)]]
  <2>1. /\ Holder(key) \in UserId /\ users[Holder(key)] \in UserRecord
        /\ IF scene.login = "none" THEN normalized(users[Holder(key)].fields.email) = Normal[key]
           ELSE NormalName[key] \in users[Holder(key)].logins
    BY <1>2, <1>4, HolderIs
  <2>2. /\ record \in CallRecord /\ record.pc = "done" /\ record.flow = "findOrCreate"
        /\ record.value = key /\ record.read = users[Holder(key)]
    BY <1>1, <1>2, <2>1 DEF CallRecord
  <2>3. call' = [call EXCEPT ![c] = record]
    BY <1>4 DEF FindHolder
  <2> HIDE DEF record
  <2> QED
    BY <1>1, <1>2, <1>3, <2>1, <2>2, <2>3, CreateMoves
<1>5. CASE Holder(key) = None
  <2> DEFINE record == [call[c] EXCEPT !.pc = "insert", !.flow = "findOrCreate", !.value = key]
  <2>1. /\ record \in CallRecord /\ record.pc = "insert" /\ record.flow = "findOrCreate"
        /\ record.value = key
    BY <1>1, <1>2 DEF CallRecord
  <2>2. call' = [call EXCEPT ![c] = record]
    BY <1>5 DEF FindHolder
  <2> HIDE DEF record
  <2> QED
    BY <1>1, <1>2, <1>3, <2>1, <2>2, CreateMoves
<1> QED
  BY <1>4, <1>5

LEMMA BeginInsertKeeps ==
  ASSUME AInv, NEW c, NEW flow, NEW value, BeginInsert(c, flow, value),
         (flow = "create" /\ value = None) \/ (flow = "signUp" /\ value \in scene.values)
  PROVE  AInv'
<1> DEFINE record == [call[c] EXCEPT !.pc = "insert", !.flow = flow, !.value = value]
<1>1. c \in Create /\ c \in scene.calls /\ call[c].pc = "idle" /\ call[c] \in CallRecord
  BY Apart DEF BeginInsert, Begins, AInv, WorldTyped
<1>2. (flow = "create" /\ value = None) \/ (flow = "signUp" /\ value \in Spelled)
  BY ValuesSpelled
<1>3. /\ UNCHANGED <<scene, userStore, tokens, proved, left>>
      /\ flow = "signUp" => scene.login = "email"
  BY DEF BeginInsert
<1>4. /\ record \in CallRecord /\ record.pc = "insert" /\ record.flow = flow
      /\ record.value = value
  BY <1>1, <1>2 DEF CallRecord
<1>5. call' = [call EXCEPT ![c] = record]
  BY DEF BeginInsert
<1> HIDE DEF record
<1> QED
  BY <1>1, <1>2, <1>3, <1>4, <1>5, CreateMoves

LEMMA FindAgainKeeps ==
  ASSUME AInv, NEW c, FindAgain(c)
  PROVE  AInv'
<1> DEFINE u == Holder(call[c].value)
<1>1. /\ c \in Create /\ call[c].pc = "again"
      /\ UNCHANGED <<scene, userStore, tokens, proved, left>>
      /\ IF u = None THEN Goes(c, "refused") ELSE Answers(c, u)
  BY DEF FindAgain, FoundAgain
<1>2. call[c].value \in Spelled /\ call[c].flow = "findOrCreate"
  <2>1. FlowsFit(c)
    BY <1>1, Apart DEF AInv, CallsKept, Kept
  <2> QED
    BY <1>1, <2>1 DEF FlowsFit
<1>3. CASE u = None
  <2>1. c \in Call \ Link /\ c \notin Update \cup Confirm
    BY <1>1, Apart
  <2> QED
    BY <1>1, <1>3, <2>1, RefusedIsKept
<1>4. CASE u # None
  <2>1. /\ u \in UserId /\ Stored(u)
        /\ IF scene.login = "none" THEN normalized(users[u].fields.email) = Normal[call[c].value]
           ELSE NormalName[call[c].value] \in users[u].logins
    BY <1>2, <1>4, HolderIs
  <2>2. Answers(c, u)
    BY <1>1, <1>4
  <2> HIDE DEF u
  <2> QED
    BY <1>1, <1>2, <2>1, <2>2, AnswersKeep
<1> QED
  BY <1>3, <1>4

(* On to the next question.                                                *)
LEMMA CreateGoes ==
  ASSUME AInv, NEW c \in Create, NEW pc \in {"again", "taken", "takenEmail", "refused"},
         Goes(c, pc), call[c].pc \in {"insert", "taken"},
         pc = "again" => call[c].flow = "findOrCreate",
         pc \in {"taken", "takenEmail"} => call[c].flow = "signUp",
         UNCHANGED <<scene, userStore, tokens, proved, left>>
  PROVE  AInv'
<1> DEFINE record == [call[c] EXCEPT !.pc = pc]
<1>1. FlowsFit(c) /\ call[c] \in CallRecord
  BY Apart DEF AInv, CallsKept, Kept, WorldTyped
<1>2. /\ record \in CallRecord /\ record.pc = pc /\ record.flow = call[c].flow
      /\ record.value = call[c].value
  BY <1>1 DEF CallRecord
<1>3. call' = [call EXCEPT ![c] = record]
  BY DEF Goes
<1> HIDE DEF record
<1> QED
  BY <1>1, <1>2, <1>3, CreateMoves DEF FlowsFit

LEMMA FindTakenKeeps ==
  ASSUME AInv, NEW c, FindTaken(c)
  PROVE  AInv'
<1> DEFINE u == byLogin[NormalName[call[c].value]]
<1>1. /\ c \in Create /\ call[c].pc = "taken"
      /\ UNCHANGED <<scene, userStore, tokens, proved, left>>
      /\ IF u = None THEN Goes(c, "takenEmail") ELSE Answers(c, u)
  BY DEF FindTaken
<1>2. call[c].value \in Spelled /\ call[c].flow = "signUp"
  <2>1. FlowsFit(c)
    BY <1>1, Apart DEF AInv, CallsKept, Kept
  <2> QED
    BY <1>1, <2>1 DEF FlowsFit
<1>3. CASE u = None
  BY <1>1, <1>2, <1>3, CreateGoes
<1>4. CASE u # None
  <2>1. /\ u \in UserId /\ Stored(u) /\ NormalName[call[c].value] \in users[u].logins
    BY <1>2, <1>4, NoNames, HeldBy
  <2>2. Answers(c, u)
    BY <1>1, <1>4
  <2> HIDE DEF u
  <2> QED
    BY <1>1, <1>2, <2>1, <2>2, AnswersKeep
<1> QED
  BY <1>3, <1>4

LEMMA FindTakenEmailKeeps ==
  ASSUME AInv, NEW c, FindTakenEmail(c)
  PROVE  AInv'
<1> DEFINE u == holderOfEmail(users, byLogin, call[c].value)
<1>1. /\ c \in Create /\ call[c].pc = "takenEmail"
      /\ UNCHANGED <<scene, userStore, tokens, proved, left>>
      /\ IF u = None THEN Goes(c, "refused") ELSE Answers(c, u)
  BY DEF FindTakenEmail
<1>2. call[c].value \in Spelled /\ call[c].flow = "signUp"
  <2>1. FlowsFit(c)
    BY <1>1, Apart DEF AInv, CallsKept, Kept
  <2> QED
    BY <1>1, <2>1 DEF FlowsFit
<1>3. CASE u = None
  <2>1. c \in Call \ Link /\ c \notin Update \cup Confirm
    BY <1>1, Apart
  <2> QED
    BY <1>1, <1>3, <2>1, RefusedIsKept
<1>4. CASE u # None
  <2>1. u \in UserId /\ Stored(u) /\ normalized(users[u].fields.email) = Normal[call[c].value]
    BY <1>2, <1>4, HolderOfEmailIs
  <2>2. Answers(c, u)
    BY <1>1, <1>4
  <2> HIDE DEF u
  <2> QED
    BY <1>1, <1>2, <2>1, <2>2, AnswersKeep
<1> QED
  BY <1>3, <1>4
-----------------------------------------------------------------------------
(* A user is created.                                                      *)

(* A step that writes the user store.                                      *)
LEMMA LoudStep ==
  ASSUME AInv, NEW A \in SUBSET Call, Moves(A), UsersMove,
         users' \in Users, byLogin' \in Index, UsersKept', IndexKept',
         left' \subseteq Link, LeftSpent',
         \A c \in A : Kept(c)',
         \A m \in Update : Landed(m)' => Lasting(m)'
  PROVE  AInv'
<1>1. WorldTyped'
  BY DEF AInv, WorldTyped, Moves, SceneStays, TokensMove
<1>2. CallsKept'
  BY StillKept DEF CallsKept
<1>3. AllLasting'
  BY DEF AllLasting, Lasting
<1>4. LeftLinksDead'
  BY StillDead
<1> QED
  BY <1>1, <1>2, <1>3, <1>4 DEF AInv

(* The users a step does not write are kept.                               *)
LEMMA OtherUsers ==
  ASSUME AInv, NEW A \in SUBSET Call, Moves(A), NEW u \in UserId, Stored(u), users'[u] = users[u],
         \A login \in users[u].logins : byLogin'[login] = u
  PROVE  /\ Whole(users[u])' /\ Made(u)'
         /\ (users[u].verified => Proved(u, users[u].fields.email))'
         /\ (\A login \in users[u].logins : byLogin[login] = u)'
<1>1. SceneStays
  BY DEF Moves
<1>2. /\ Whole(users[u]) /\ Made(u)
      /\ users[u].verified => Proved(u, users[u].fields.email)
  BY DEF AInv, UsersKept
<1>3. Whole(users[u])'
  BY <1>1, <1>2, StillWhole DEF Whole
<1>4. Made(u)'
  BY <1>2, StillMade
<1>5. users[u].verified => Proved(u, users[u].fields.email)'
  BY <1>2, StillProved DEF Proved
<1> QED
  BY <1>3, <1>4, <1>5 DEF Proved, Whole, Made

LEMMA InsertUserLands ==
  ASSUME AInv, NEW c \in Create, NEW fields \in scene.inputs, call[c].pc = "insert",
         call[c].flow # "create" => NamesKey(fields, call[c].value),
         NEW record, record = NewUser(fields), ~ takenBy(byLogin, record.logins, c),
         users' = insertUser(users, c, record),
         byLogin' = indexLogins(byLogin, c, record.logins),
         call' = [call EXCEPT ![c] =
                    [@ EXCEPT !.pc = IF call[c].flow = "signUp" THEN "created" ELSE "done",
                              !.user = c, !.read = record]],
         UNCHANGED <<scene, tokens, proved, left>>
  PROVE  AInv'
<1> DEFINE after == [call[c] EXCEPT !.pc = IF call[c].flow = "signUp" THEN "created" ELSE "done",
                                    !.user = c, !.read = record]
<1>1. /\ c \in Call /\ c \in UserId /\ c \notin Link \cup Update \cup Confirm \cup Prove
      /\ call[c] \in CallRecord /\ Kept(c)
  BY Apart DEF AInv, CallsKept, WorldTyped
<1>2. fields \in Fields /\ (scene.login = "email" => fields.email # None)
  BY ValuesSpelled
<1>3. /\ Whole(record) /\ record.fields = fields /\ ~ record.verified
      /\ record.logins = loginsOf(scene.login, fields) /\ record \in UserRecord
  BY <1>2, NewUserIs DEF AInv, Whole
<1>4. /\ after \in CallRecord /\ after.pc \in {"created", "done"} /\ after.user = c
      /\ after.read = record /\ after.flow = call[c].flow /\ after.value = call[c].value
      /\ after.pc = "created" <=> call[c].flow = "signUp"
  BY <1>1, <1>3 DEF CallRecord
<1>5. call' = [call EXCEPT ![c] = after]
  OBVIOUS
<1> HIDE DEF after
<1>6. Becomes(c, after)
  BY <1>1, <1>4, <1>5 DEF Becomes
<1>7. Moves({c}) /\ call'[c] = after
  BY <1>1, <1>6, Asks
<1>8. ~ Made(c) /\ users[c] = None
  <2>1. c \in scene.calls
    BY <1>1 DEF Kept, Creates
  <2>2. ~ Made(c)
    BY <2>1 DEF Made
  <2> QED
    BY <1>1, <2>2 DEF AInv, UsersKept, Stored
<1>9. users' = [users EXCEPT ![c] = record] /\ users \in Users
  BY <1>8 DEF insertUser, AInv, WorldTyped
<1>10. users' \in Users /\ users'[c] = record /\ \A u \in UserId \ {c} : users'[u] = users[u]
  BY <1>1, <1>3, <1>9 DEF Users
<1>11. /\ byLogin' \in Index
       /\ \A login \in Login :
            byLogin'[login] = IF login \in record.logins THEN c ELSE byLogin[login]
  BY <1>1 DEF indexLogins, Index, AInv, WorldTyped
<1>12. \A login \in record.logins : login \in Login /\ byLogin[login] \in {None, c}
  BY <1>3 DEF takenBy, UserRecord
<1>13. UsersMove
  BY <1>8, <1>10 DEF UsersMove
<1>14. UsersKept'
  <2> SUFFICES ASSUME NEW u \in UserId, users'[u] # None
               PROVE  /\ Whole(users[u])' /\ Made(u)'
                      /\ (users[u].verified => Proved(u, users[u].fields.email))'
                      /\ (\A login \in users[u].logins : byLogin[login] = u)'
    BY DEF UsersKept, Stored
  <2>1. CASE u = c
    <3>1. Whole(record)'
      BY <1>3, <1>7, StillWhole DEF Moves, Whole
    <3>2. Made(c)'
      BY <1>4, <1>7 DEF Made
    <3> QED
      BY <1>3, <1>10, <1>11, <1>12, <2>1, <3>1, <3>2 DEF Whole, Made
  <2>2. CASE u # c
    <3>1. users'[u] = users[u] /\ Stored(u)
      BY <1>10, <2>2 DEF Stored
    <3>2. \A login \in users[u].logins : byLogin'[login] = u
      BY <1>11, <1>12, <2>2, <3>1, RecordIs, NoNames DEF UserRecord
    <3> QED
      BY <1>1, <1>7, <3>1, <3>2, OtherUsers
  <2> QED
    BY <2>1, <2>2
<1>15. IndexKept'
  <2> SUFFICES ASSUME NEW login \in Login, byLogin'[login] # None
               PROVE  users'[byLogin'[login]] # None /\ login \in users'[byLogin'[login]].logins
    BY DEF IndexKept, Stored
  <2>1. CASE login \in record.logins
    BY <1>3, <1>10, <1>11, <2>1, NoNames
  <2>2. CASE login \notin record.logins
    <3>1. byLogin'[login] = byLogin[login]
      BY <1>11, <2>2
    <3>2. byLogin[login] # c
      BY <1>8, <2>2, <3>1, HeldBy DEF Stored
    <3> QED
      BY <1>10, <3>1, <3>2, HeldBy DEF Stored
  <2> QED
    BY <2>1, <2>2
<1>16. Kept(c)'
  <2>1. FlowsFit(c)' /\ Creates(c)'
    BY <1>1, <1>2, <1>3, <1>4, <1>7 DEF Kept, FlowsFit, Creates
  <2>2. Found(c)'
    <3> SUFFICES ASSUME call[c].flow # "create"
                 PROVE  LET byEmail == normalized(record.fields.email) = Normal[call[c].value]
                            byLoginField == NormalName[call[c].value] \in record.logins
                        IN  IF call[c].flow = "signUp" THEN byLoginField \/ byEmail
                            ELSE IF scene.login = "none" THEN byEmail ELSE byLoginField
      BY <1>4, <1>7 DEF Found
    <3>1. NamesKey(fields, call[c].value) /\ scene.login \in {"name", "email", "none"}
      BY ValuesSpelled
    <3>2. call[c].flow = "signUp" => scene.login = "email"
      BY <1>1 DEF Kept, FlowsFit
    <3>3. CASE scene.login = "none"
      BY <1>3, <3>1, <3>2, <3>3 DEF NamesKey, normalized
    <3>4. CASE scene.login # "none"
      BY <1>3, <3>1, <3>2, <3>4 DEF NamesKey, loginsOf
    <3> QED
      BY <3>3, <3>4
  <2> QED
    BY <1>1, <2>1, <2>2, KeptIs
<1>17. ASSUME NEW m \in Update, Landed(m)' PROVE Lasting(m)'
  <2>1. m \in Call /\ m # c /\ Landed(m)
    BY <1>1, <1>7, <1>17, Apart DEF Moves, Landed
  <2>2. call[m].user \in UserId /\ call[m].user # c
    BY <1>8, <2>1 DEF AInv, AllLasting, Lasting, Names
  <2>3. users'[call[m].user] = users[call[m].user]
    BY <1>10, <2>2
  <2> QED
    BY <1>1, <1>7, <2>1, <2>3, StillLasting
<1>18. LeftSpent' /\ left' \subseteq Link
  BY <1>1, <1>7, StillSpent DEF AInv, WorldTyped
<1> QED
  BY <1>1, <1>7, <1>10, <1>11, <1>13, <1>14, <1>15, <1>16, <1>17, <1>18, LoudStep

LEMMA InsertUserKeeps ==
  ASSUME AInv, NEW c, NEW fields \in scene.inputs, InsertUser(c, fields)
  PROVE  AInv'
<1> DEFINE record == NewUser(fields)
           taken == takenBy(byLogin, record.logins, c)
           refused == call[c].flow = "findOrCreate" /\ ~NamesKey(fields, call[c].value)
<1>1. /\ c \in Create /\ call[c].pc = "insert" /\ UNCHANGED <<scene, tokens, proved, left>>
      /\ call[c].flow = "signUp" => NamesKey(fields, call[c].value)
  BY DEF InsertUser
<1>2. call[c].flow \in {"create", "findOrCreate", "signUp"}
  <2>1. FlowsFit(c)
    BY <1>1, Apart DEF AInv, CallsKept, Kept
  <2> QED
    BY <1>1, <2>1 DEF FlowsFit
<1>3. CASE refused \/ taken
  <2> DEFINE pc == IF refused \/ call[c].flow = "create" THEN "refused"
                   ELSE IF call[c].flow = "findOrCreate" THEN "again" ELSE "taken"
  <2>1. Goes(c, pc) /\ UNCHANGED userStore
    BY <1>3 DEF InsertUser
  <2>2. /\ pc \in {"again", "taken", "takenEmail", "refused"}
        /\ pc = "again" => call[c].flow = "findOrCreate"
        /\ pc \in {"taken", "takenEmail"} => call[c].flow = "signUp"
    BY <1>2
  <2> HIDE DEF pc
  <2> QED
    BY <1>1, <2>1, <2>2, CreateGoes
<1>4. CASE ~ (refused \/ taken)
  <2>1. /\ users' = insertUser(users, c, record)
        /\ byLogin' = indexLogins(byLogin, c, record.logins)
        /\ call' = [call EXCEPT ![c] =
                      [@ EXCEPT !.pc = IF call[c].flow = "signUp" THEN "created" ELSE "done",
                                !.user = c, !.read = record]]
    BY <1>4 DEF InsertUser
  <2>2. /\ ~ takenBy(byLogin, record.logins, c)
        /\ call[c].flow # "create" => NamesKey(fields, call[c].value)
    BY <1>1, <1>2, <1>4
  <2>3. PICK made : made = record
    OBVIOUS
  <2> HIDE DEF record
  <2>4. made = NewUser(fields)
    BY <2>3 DEF record
  <2> QED
    BY <1>1, <2>1, <2>2, <2>3, <2>4, InsertUserLands
<1> QED
  BY <1>3, <1>4
-----------------------------------------------------------------------------
(* Links.                                                                  *)

LEMMA LinkedNow ==
  ASSUME AInv, NEW l \in Link
  PROVE  /\ Linked(l) /\ l \in Call /\ call[l] \in CallRecord
         /\ l \notin Create \cup Confirm \cup Update \cup Prove
BY Apart DEF AInv, CallsKept, Kept, WorldTyped

(* A link is asked for, of a user there is.                                *)
LEMMA SendsKeeps ==
  ASSUME AInv, NEW l \in Link, Begins(l), NEW flow \in Kind, NEW u \in UserId, Stored(u),
         NEW address \in Spelled, Sends(l, flow, u, address),
         UNCHANGED <<scene, userStore, tokens, proved, left>>
  PROVE  AInv'
<1> DEFINE record == [call[l] EXCEPT !.pc = "issue", !.flow = flow, !.user = u,
                                     !.value = address, !.read = users[u]]
<1>1. /\ Linked(l) /\ l \in Call /\ call[l] \in CallRecord /\ call[l].pc = "idle"
      /\ l \notin Create \cup Confirm \cup Update \cup Prove
  BY LinkedNow DEF Begins
<1>2. users[u] \in UserRecord /\ Made(u)
  BY RecordIs
<1>3. /\ record \in CallRecord /\ record.pc = "issue" /\ record.flow = flow
      /\ record.user = u /\ record.value = address
  BY <1>1, <1>2, Apart DEF CallRecord
<1>4. call' = [call EXCEPT ![l] = record]
  BY DEF Sends
<1> HIDE DEF record
<1>5. Becomes(l, record)
  BY <1>1, <1>3, <1>4 DEF Becomes, IsOut
<1>6. Moves({l}) /\ call'[l] = record
  BY <1>1, <1>5, Asks
<1>7. Linked(l)'
  <2>1. Names(l)'
    BY <1>1, <1>2, <1>3, <1>6, StillMade DEF Names, Made
  <2> QED
    BY <1>1, <1>3, <1>6, <2>1 DEF Linked, IsOut
<1> QED
  BY <1>1, <1>6, <1>7, KeptIs, OneStep

LEMMA SendVerifyKeeps ==
  ASSUME AInv, NEW l \in Link, NEW u \in UserId, SendVerify(l, u)
  PROVE  AInv'
<1>1. /\ Begins(l) /\ Stored(u) /\ users[u].fields.email # None
      /\ Sends(l, "verifyEmail", u, users[u].fields.email)
      /\ UNCHANGED <<scene, userStore, tokens, proved, left>>
  BY DEF SendVerify, Stored
<1>2. users[u].fields.email \in Spelled
  BY <1>1, RecordIs DEF Fields
<1> QED
  BY <1>1, <1>2, Apart, SendsKeeps

LEMMA SendPreparedKeeps ==
  ASSUME AInv, NEW l \in Link, NEW email \in scene.values, SendPrepared(l, email)
  PROVE  AInv'
<1> DEFINE u == holderOfEmail(users, byLogin, email)
<1>1. /\ Begins(l) /\ u # None
      /\ Sends(l, "verifyEmail", u, users[u].fields.email)
      /\ UNCHANGED <<scene, userStore, tokens, proved, left>>
  BY DEF SendPrepared
<1>2. email \in Spelled /\ Normal[email] \in Login
  BY ValuesSpelled, NoNames
<1>3. u \in UserId /\ Stored(u) /\ normalized(users[u].fields.email) = Normal[email]
  BY <1>1, <1>2, HolderOfEmailIs
<1> HIDE DEF u
<1>4. users[u].fields.email \in Spelled
  BY <1>2, <1>3, RecordIs, NoNames DEF Fields, normalized
<1> QED
  BY <1>1, <1>3, <1>4, Apart, SendsKeeps

LEMMA SendChangeKeeps ==
  ASSUME AInv, NEW l \in Link, NEW u \in UserId, NEW address \in scene.values,
         SendChange(l, u, address)
  PROVE  AInv'
<1>1. /\ Begins(l) /\ Stored(u) /\ Sends(l, "changeEmail", u, address)
      /\ UNCHANGED <<scene, userStore, tokens, proved, left>>
  BY DEF SendChange, Stored
<1>2. address \in Spelled
  BY ValuesSpelled
<1> QED
  BY <1>1, <1>2, Apart, SendsKeeps

LEMMA IssuedIs ==
  ASSUME NEW kind \in Kind, NEW u \in UserId, NEW address \in Spelled
  PROVE  LET token == [kind |-> kind, userId |-> u, address |-> address,
                       attempts |-> 0, expiresAt |-> 1, spentAt |-> None]
         IN  token \in TokenRecord /\ token # None
BY TokenStoreAssumption DEF TokenRecord, Spelled

LEMMA IssueKeeps ==
  ASSUME AInv, NEW l \in Link, Issue(l)
  PROVE  AInv'
<1> DEFINE record == [call[l] EXCEPT !.pc = IF call[l].flow = "changeEmail"
                                              THEN "spendOthers" ELSE "sent"]
<1>1. /\ Linked(l) /\ l \in Call /\ call[l] \in CallRecord /\ call[l].pc = "issue"
      /\ l \notin Create \cup Confirm \cup Update \cup Prove
      /\ UNCHANGED <<scene, userStore, proved, left>>
      /\ tokens' = insertToken(tokens, l, Token(l))
      /\ call' = [call EXCEPT ![l] = record]
  BY LinkedNow DEF Issue, Goes
<1>2. /\ Names(l) /\ call[l].value \in Spelled /\ call[l].flow \in Kind /\ tokens[l] = None
  BY <1>1 DEF Linked, IsOut
<1>3. /\ Token(l) \in TokenRecord /\ Token(l) # None
      /\ Token(l).kind = call[l].flow /\ Token(l).userId = call[l].user
  BY <1>2, IssuedIs DEF Token, Names
<1>4. TokensMove({l}) /\ tokens'[l] = Token(l)
  BY <1>1, <1>2, <1>3, InsertMoves DEF AInv
<1>5. /\ record \in CallRecord /\ record.pc \in {"spendOthers", "sent"}
      /\ record.flow = call[l].flow
      /\ record.user = call[l].user /\ record.value = call[l].value
  BY <1>1 DEF CallRecord
<1> HIDE DEF record
<1>6. Becomes(l, record)
  BY <1>1, <1>5 DEF Becomes, IsOut
<1>7. SceneStays /\ proved \subseteq proved' /\ proved' \subseteq UserId \X Login
  BY <1>1, SceneSame DEF AInv, WorldTyped
<1>8. Moves({l}) /\ call'[l] = record
  BY <1>1, <1>4, <1>6, <1>7, OneMoves
<1>9. Linked(l)'
  <2>1. Names(l)'
    BY <1>1, <1>2, <1>5, <1>8, StillMade DEF Names, Made
  <2> QED
    BY <1>1, <1>2, <1>3, <1>4, <1>5, <1>8, <2>1 DEF Linked, IsOut
<1> QED
  BY <1>1, <1>8, <1>9, KeptIs, OneStep

LEMMA SpendOthersKeeps ==
  ASSUME AInv, NEW l \in Link, SpendOthers(l)
  PROVE  AInv'
<1> DEFINE record == [call[l] EXCEPT !.pc = "sent"]
<1>1. /\ Linked(l) /\ l \in Call /\ call[l] \in CallRecord /\ call[l].pc = "spendOthers"
      /\ l \notin Create \cup Confirm \cup Update \cup Prove
      /\ UNCHANGED <<scene, userStore, proved, left>>
      /\ tokens' = spendUserTokens(tokens, call[l].user, "changeEmail", 0, {l})
      /\ call' = [call EXCEPT ![l] = record]
  BY LinkedNow DEF SpendOthers, Goes
<1>2. TokensMove({l}) /\ TokensMove({})
  BY <1>1, SpendMoves DEF AInv
<1>3. /\ record \in CallRecord /\ record.pc = "sent" /\ record.flow = call[l].flow
      /\ record.user = call[l].user /\ record.value = call[l].value
  BY <1>1 DEF CallRecord
<1> HIDE DEF record
<1>4. Becomes(l, record)
  BY <1>1, <1>3 DEF Becomes, IsOut
<1>5. SceneStays /\ proved \subseteq proved' /\ proved' \subseteq UserId \X Login
  BY <1>1, SceneSame DEF AInv, WorldTyped
<1>6. Moves({l}) /\ call'[l] = record
  BY <1>1, <1>2, <1>4, <1>5, OneMoves
<1>7. Linked(l)'
  <2>1. Names(l) /\ call[l].value \in Spelled /\ call[l].flow \in Kind
    BY <1>1 DEF Linked
  <2>2. Names(l)'
    BY <1>1, <1>3, <1>6, <2>1, StillMade DEF Names, Made
  <2>3. tokens'[l] # None /\ tokens'[l].kind = call[l].flow /\ tokens'[l].userId = call[l].user
    BY <1>1, <1>2 DEF Linked, IsOut, TokensMove
  <2> QED
    BY <1>1, <1>3, <1>6, <2>1, <2>2, <2>3 DEF Linked, IsOut
<1> QED
  BY <1>1, <1>6, <1>7, KeptIs, OneStep

(* signUp sends its link: the call and the link both move.                 *)
LEMMA IssueOnSignUpKeeps ==
  ASSUME AInv, NEW c, NEW l \in Link, IssueOnSignUp(c, l)
  PROVE  AInv'
<1> DEFINE email == call[c].read.fields.email
           ended == [call[c] EXCEPT !.pc = "done"]
           sent == [NewCall EXCEPT !.pc = "sent", !.flow = "verifyEmail", !.user = c,
                                   !.value = email, !.read = call[c].read]
           token == [kind |-> "verifyEmail", userId |-> c, address |-> email,
                     attempts |-> 0, expiresAt |-> 1, spentAt |-> None]
<1>1. /\ c \in Create /\ call[c].pc = "created" /\ call[l].pc = "idle"
      /\ UNCHANGED <<scene, userStore, proved, left>>
      /\ call' = [call EXCEPT ![c].pc = "done", ![l] = sent]
      /\ tokens' = insertToken(tokens, l, [token EXCEPT !.address = sent.value])
  BY DEF IssueOnSignUp, Begins
<1>2. /\ c \in Call /\ c \in UserId /\ call[c] \in CallRecord /\ Kept(c) /\ c # l
      /\ c \notin Link \cup Confirm \cup Update \cup Prove
      /\ Linked(l) /\ l \in Call /\ l \notin Create \cup Confirm \cup Update \cup Prove
  BY <1>1, Apart, LinkedNow DEF AInv, CallsKept, WorldTyped
<1>3. call[c].read \in UserRecord /\ email \in Spelled
  BY <1>1, <1>2 DEF Kept, Creates, UserRecord, Fields
<1>4. sent.value = email /\ sent \in CallRecord
  BY <1>2, <1>3 DEF NewCall, CallRecord
<1>5. sent.pc = "sent" /\ sent.flow = "verifyEmail" /\ sent.user = c
  BY DEF NewCall
<1>6. /\ ended \in CallRecord /\ ended.pc = "done" /\ ended.flow = call[c].flow
      /\ ended.read = call[c].read /\ ended.value = call[c].value
  BY <1>2 DEF CallRecord
<1>7. token \in TokenRecord /\ token # None
  BY <1>2, <1>3, Apart, IssuedIs
<1>8. tokens' = insertToken(tokens, l, token)
  BY <1>1, <1>4
<1>9. tokens[l] = None
  BY <1>1, <1>2 DEF Linked, IsOut
<1>10. TokensMove({c, l}) /\ tokens'[l] = token
  BY <1>2, <1>7, <1>8, <1>9, InsertMoves DEF AInv
<1>11. token.kind = "verifyEmail" /\ token.userId = c
  OBVIOUS
<1> HIDE DEF sent, ended, token
<1>12. /\ call' \in [Call -> CallRecord] /\ call'[c] = ended /\ call'[l] = sent
       /\ \A d \in Call \ {c, l} : call'[d] = call[d]
  <2>1. call' = [call EXCEPT ![c] = ended, ![l] = sent]
    BY <1>1, <1>2 DEF ended
  <2> QED
    BY <1>2, <1>4, <1>6, <2>1 DEF AInv, WorldTyped
<1>13. Fits(c) /\ Fits(l)
  BY <1>1, <1>2, <1>4, <1>5, <1>6, <1>12 DEF Fits, IsOut, Landed
<1>14. Moves({c, l})
  <2>1. SceneStays /\ proved \subseteq proved' /\ proved' \subseteq UserId \X Login
    BY <1>1, SceneSame DEF AInv, WorldTyped
  <2> QED
    BY <1>10, <1>12, <1>13, <2>1 DEF Moves
<1>15. Kept(c)'
  <2>1. FlowsFit(c) /\ Creates(c) /\ Found(c)
    BY <1>2 DEF Kept
  <2>2. FlowsFit(c)'
    BY <1>1, <1>2, <1>6, <1>12, <2>1 DEF FlowsFit
  <2>3. Creates(c)' /\ Found(c)'
    BY <1>1, <1>2, <1>6, <1>12, <2>1 DEF Creates, Found
  <2> QED
    BY <1>1, <1>2, <2>2, <2>3, KeptIs
<1>16. Kept(l)'
  <2>1. Made(c)'
    BY <1>6, <1>12 DEF Made
  <2>2. Linked(l)'
    BY <1>2, <1>3, <1>4, <1>5, <1>7, <1>10, <1>11, <1>12, <2>1, Apart
       DEF Linked, IsOut, Names, Made
  <2> QED
    BY <1>2, <2>2, KeptIs
<1>17. LeftSpent' /\ left' \subseteq Link
  BY <1>1, <1>2, <1>14, StillSpent DEF AInv, WorldTyped
<1> QED
  BY <1>1, <1>2, <1>14, <1>15, <1>16, <1>17, QuietStep
-----------------------------------------------------------------------------
(* Confirmations and proofs, until they write.                             *)

LEMMA ConfirmNow ==
  ASSUME AInv, NEW c \in Confirm
  PROVE  /\ c \in Call /\ call[c] \in CallRecord /\ Kept(c)
         /\ c \notin Create \cup Link \cup Update \cup Prove
BY Apart DEF AInv, CallsKept, WorldTyped

LEMMA SpendLinkKeeps ==
  ASSUME AInv, NEW c, NEW l \in Link, NEW firstProof \in BOOLEAN, SpendLink(c, l, firstProof)
  PROVE  AInv'
<1> DEFINE pc == IF Unspent(tokens[l]) THEN "owner" ELSE "refused"
           flow == IF firstProof THEN "firstProof" ELSE call[l].flow
           late == l \in left
           record == [call[c] EXCEPT !.pc = pc, !.flow = flow, !.user = call[l].user,
                                     !.link = l, !.late = late]
<1>1. /\ c \in Confirm /\ call[c].pc = "idle" /\ tokens[l] # None
      /\ firstProof => call[l].flow = "verifyEmail"
      /\ UNCHANGED <<scene, userStore, left>>
      /\ tokens' = consumeToken(tokens, l, tokens[l].kind, 0)
      /\ call' = [call EXCEPT ![c] = record]
      /\ proved' = IF Unspent(tokens[l])
                     THEN proved \cup {<<call[l].user, Normal[call[l].value]>>} ELSE proved
  BY DEF SpendLink, Begins
<1>2. /\ c \in Call /\ call[c] \in CallRecord /\ Kept(c) /\ c # l
      /\ c \notin Create \cup Link \cup Update \cup Prove
      /\ Linked(l) /\ l \in Call
  BY <1>1, ConfirmNow, LinkedNow
<1>3. /\ IsOut(l) /\ Names(l) /\ call[l].value \in Spelled
      /\ call[l].flow \in {"changeEmail", "verifyEmail"}
  BY <1>1, <1>2, Apart DEF Linked, IsOut
<1>4. /\ late \in BOOLEAN /\ pc \in {"owner", "refused"} /\ call[l].user \in UserId
      /\ flow \in {"changeEmail", "verifyEmail", "firstProof"}
      /\ flow = "changeEmail" <=> call[l].flow = "changeEmail"
  BY <1>1, <1>3 DEF Names
<1>5. late => pc = "refused"
  BY DEF AInv, LeftSpent, Unspent
<1>6. pc = "owner" => proved' = proved \cup {<<call[l].user, Normal[call[l].value]>>}
  BY <1>1
<1> HIDE DEF pc, flow, late
<1>7. /\ record \in CallRecord /\ record.pc = pc /\ record.flow = flow /\ record.late = late
      /\ record.user = call[l].user /\ record.link = l
  <2>1. record.pc = pc /\ record.flow = flow /\ record.user = call[l].user /\ record.link = l
    BY <1>2 DEF CallRecord
  <2>2. record.late = late
    BY <1>2, Zenon DEF CallRecord
  <2>3. record \in CallRecord
    BY <1>2, <1>4 DEF CallRecord
  <2> QED
    BY <2>1, <2>2, <2>3
<1> HIDE DEF record
<1>8. Becomes(c, record)
  BY <1>1, <1>2, <1>4, <1>5, <1>7 DEF Becomes, Landed
<1>9. proved \subseteq proved' /\ proved' \subseteq UserId \X Login
  <2>1. Normal[call[l].value] \in Login
    BY <1>3, NoNames
  <2> QED
    BY <1>1, <1>4, <2>1 DEF AInv, WorldTyped
<1>10. Moves({c}) /\ call'[c] = record
  <2>1. TokensMove({c}) /\ SceneStays
    BY <1>1, <1>2, ConsumeMoves, SceneSame DEF AInv
  <2> QED
    BY <1>2, <1>8, <1>9, <2>1, OneMoves
<1>11. call'[l] = call[l]
  BY <1>2, <1>10 DEF Moves
<1>12. Reading(c)' /\ FlowsFit(c)'
  BY <1>2, <1>4, <1>7, <1>10 DEF Reading, FlowsFit
<1>13. Opened(c)'
  <2> SUFFICES ASSUME pc = "owner" PROVE Opened(c)'
    BY <1>4, <1>7, <1>10 DEF Opened
  <2>1. Names(c)'
    BY <1>2, <1>3, <1>7, <1>10, StillMade DEF Names, Made
  <2>2. <<call'[c].user, Normal[call'[l].value]>> \in proved'
    BY <1>6, <1>7, <1>10, <1>11
  <2> QED
    BY <1>3, <1>4, <1>7, <1>10, <1>11, <2>1, <2>2 DEF Opened, IsOut
<1> QED
  BY <1>1, <1>2, <1>10, <1>12, <1>13, KeptIs, OneStep

(* A confirmation that goes on with a record of its user.                  *)
LEMMA OpenedStays ==
  ASSUME AInv, NEW c \in Confirm, call[c].pc \in {"owner", "read", "prove", "write"},
         Moves({c}), call'[c].link = call[c].link, call'[c].user = call[c].user,
         call'[c].flow = call[c].flow
  PROVE  Opened(c)'
<1>1. c \in Call /\ Kept(c)
  BY ConfirmNow
<1> DEFINE l == call[c].link
<1>2. /\ l \in Link /\ l \in Call /\ l # c /\ IsOut(l) /\ Names(c) /\ call[l].value \in Spelled
      /\ <<call[c].user, Normal[call[l].value]>> \in proved
      /\ call[c].flow = "changeEmail" <=> call[l].flow = "changeEmail"
  BY <1>1, Apart DEF Kept, Opened
<1>3. call'[l] = call[l]
  BY <1>2 DEF Moves
<1>4. Names(c)'
  BY <1>1, <1>2, StillMade DEF Names, Made
<1> QED
  BY <1>2, <1>3, <1>4 DEF Opened, IsOut, Moves

(* A record read now is the one there is.                                  *)
LEMMA ReadNow ==
  ASSUME AInv, NEW A \in SUBSET Call, Moves(A), UsersMove, UNCHANGED users,
         NEW c \in Call, NEW u \in UserId, Stored(u),
         call'[c].user = u, call'[c].read = users[u]
  PROVE  ReadThen(c)'
<1>1. /\ Whole(users[u]) /\ Made(u) /\ users[u] \in UserRecord
      /\ users[u].verified => Proved(u, users[u].fields.email)
  BY RecordIs
<1>2. Names(c)'
  BY <1>1, StillMade DEF Names, Made
<1>3. Whole(call[c].read)'
  BY <1>1, StillWhole DEF Whole, Moves
<1>4. (call[c].read.verified => Proved(call[c].user, call[c].read.fields.email))'
  BY <1>1, StillProved DEF Proved
<1>5. users[u].version \in Nat /\ users[u].version <= users[u].version
  BY <1>1 DEF UserRecord
<1> HIDE DEF Moves
<1> QED
  BY <1>2, <1>3, <1>4, <1>5 DEF ReadThen, Stored

(* An e-mail that is another's spelling is proved as it is.                *)
LEMMA ProvedAlike ==
  ASSUME NEW u, NEW email \in Spelled \cup {None}, NEW address \in Spelled \cup {None},
         normalized(email) = normalized(address), Proved(u, address)
  PROVE  Proved(u, email)
BY NoNames DEF Proved, normalized

LEMMA OwnerProved ==
  ASSUME AInv, NEW c \in Confirm, call[c].pc \in {"owner", "read"}, NEW record \in UserRecord,
         ~ Stale(call[c].link, record)
  PROVE  /\ call[c].flow # "changeEmail" => Proved(call[c].user, record.fields.email)
         /\ call[c].link \in Link /\ call[call[c].link].value \in Spelled
         /\ Proved(call[c].user, call[call[c].link].value)
         /\ call[c].user \in UserId /\ Made(call[c].user)
<1> DEFINE l == call[c].link
<1>1. /\ l \in Link /\ IsOut(l) /\ Names(c) /\ call[l].value \in Spelled
      /\ <<call[c].user, Normal[call[l].value]>> \in proved
      /\ call[c].flow = "changeEmail" <=> call[l].flow = "changeEmail"
  BY ConfirmNow DEF Kept, Opened
<1>2. Proved(call[c].user, call[l].value)
  BY <1>1, NoNames DEF Proved, normalized
<1>3. call[c].flow # "changeEmail" => normalized(record.fields.email) = Normal[call[l].value]
  BY <1>1 DEF Stale
<1>4. call[c].flow # "changeEmail" => Proved(call[c].user, record.fields.email)
  BY <1>1, <1>3 DEF Proved
<1> QED
  BY <1>1, <1>2, <1>4 DEF Names

LEMMA FindOwnerKeeps ==
  ASSUME AInv, NEW c, FindOwner(c)
  PROVE  AInv'
<1> DEFINE u == call[c].user
           user == users[u]
           pc == IF call[c].flow = "firstProof" /\ ~user.verified THEN "prove" ELSE "read"
           record == [call[c] EXCEPT !.pc = pc, !.read = user]
<1>1. /\ c \in Confirm /\ call[c].pc = "owner"
      /\ UNCHANGED <<scene, userStore, tokens, proved, left>>
  BY DEF FindOwner
<1>2. /\ c \in Call /\ call[c] \in CallRecord /\ Kept(c)
      /\ c \notin Create \cup Link \cup Update \cup Prove
  BY <1>1, ConfirmNow
<1>3. CASE Refuses(c, user)
  <2>1. Goes(c, "refused")
    BY <1>3 DEF FindOwner
  <2> QED
    BY <1>1, <1>2, <2>1, RefusedIsKept DEF Landed
<1>4. CASE ~ Refuses(c, user)
  <2>1. u \in UserId /\ Stored(u) /\ ~ Stale(call[c].link, user)
    BY <1>1, <1>2, <1>4 DEF Refuses, Kept, Opened, Names, Stored
  <2>2. user \in UserRecord
    BY <2>1, RecordIs
  <2>3. call[c].flow # "changeEmail" => Proved(u, user.fields.email)
    BY <1>1, <2>1, <2>2, OwnerProved
  <2>4. pc \in {"prove", "read"} /\ (pc = "prove" => call[c].flow = "firstProof")
    OBVIOUS
  <2>5. call' = [call EXCEPT ![c] = record]
    BY <1>4 DEF FindOwner
  <2> HIDE DEF pc
  <2>6. /\ record \in CallRecord /\ record.pc = pc /\ record.flow = call[c].flow
        /\ record.late = call[c].late /\ record.user = u /\ record.link = call[c].link
        /\ record.read = user
    BY <1>2, <2>2, <2>4 DEF CallRecord
  <2> HIDE DEF record
  <2>7. Becomes(c, record)
    <3>1. ~ call[c].late
      BY <1>1 DEF AInv, LeftLinksDead
    <3> QED
      BY <1>1, <1>2, <2>4, <2>5, <2>6, <3>1 DEF Becomes, Landed
  <2>8. Moves({c}) /\ call'[c] = record
    BY <1>1, <1>2, <2>7, Asks
  <2>9. users' = users /\ UsersMove
    BY <1>1 DEF userStore, UsersMove
  <2>10. ReadThen(c)'
    BY <1>2, <2>1, <2>6, <2>8, <2>9, ReadNow
  <2>11. pc = "prove" => Proved(call[c].user, call[c].read.fields.email)'
    BY <1>2, <2>3, <2>4, <2>6, <2>8, StillProved DEF Proved
  <2>12. Reading(c)'
    BY <2>4, <2>6, <2>8, <2>10, <2>11 DEF Reading
  <2>13. FlowsFit(c)'
    BY <1>1, <1>2, <2>4, <2>6, <2>8 DEF FlowsFit, Kept
  <2>14. Opened(c)'
    BY <1>1, <2>6, <2>8, OpenedStays
  <2> QED
    BY <1>1, <1>2, <2>8, <2>12, <2>13, <2>14, KeptIs, OneStep
<1> QED
  BY <1>3, <1>4

(* What a confirmation is to write.                                        *)
LEMMA ConfirmedIs ==
  ASSUME AInv, NEW c \in Confirm, call[c].pc = "read", NEW record, Whole(record),
         ~ Stale(call[c].link, record)
  PROVE  LET next == Confirmed(c, record)
         IN  /\ Whole(next) /\ next.version = record.version + 1
             /\ Proved(call[c].user, next.fields.email)
             /\ next.fields.name = record.fields.name /\ next.active = record.active
             /\ call[c].flow # "changeEmail" => next.fields.email = record.fields.email
<1> DEFINE address == call[call[c].link].value
           moved == [record.fields EXCEPT !.email = address]
<1>1. record \in UserRecord /\ record.fields \in Fields /\ record.active \in BOOLEAN
  BY DEF Whole, UserRecord
<1>2. /\ call[c].flow # "changeEmail" => Proved(call[c].user, record.fields.email)
      /\ address \in Spelled /\ Proved(call[c].user, address)
  BY <1>1, OwnerProved
<1>3. moved \in Fields /\ moved.email = address /\ moved.name = record.fields.name
  BY <1>1, <1>2 DEF Fields
<1> HIDE DEF moved
<1>4. address # None /\ (scene.login = "email" => record.fields.email # None) /\ WorldTyped
  BY <1>2, NoNames DEF Whole, AInv
<1>5. CASE call[c].flow = "changeEmail"
  <2>1. Confirmed(c, record) = Patched(record, moved, record.active, TRUE)
    BY <1>5 DEF Confirmed, moved
  <2>2. /\ Whole(Patched(record, moved, record.active, TRUE))
        /\ Patched(record, moved, record.active, TRUE).fields = moved
        /\ Patched(record, moved, record.active, TRUE).active = record.active
        /\ Patched(record, moved, record.active, TRUE).version = record.version + 1
    <3>1. scene.login = "email" => moved.email # None
      BY <1>3, <1>4
    <3> QED
      BY <1>1, <1>3, <1>4, <3>1, MarkedIs
  <2> QED
    BY <1>2, <1>3, <1>5, <2>1, <2>2
<1>6. CASE call[c].flow # "changeEmail"
  <2>1. Confirmed(c, record) = Patched(record, record.fields, record.active, TRUE)
    BY <1>6 DEF Confirmed
  <2>2. /\ Whole(Patched(record, record.fields, record.active, TRUE))
        /\ Patched(record, record.fields, record.active, TRUE).fields = record.fields
        /\ Patched(record, record.fields, record.active, TRUE).active = record.active
        /\ Patched(record, record.fields, record.active, TRUE).version = record.version + 1
    BY <1>1, <1>4, MarkedIs
  <2> QED
    BY <1>2, <1>6, <2>1, <2>2
<1> QED
  BY <1>5, <1>6

(* A call that has what it is to write.                                    *)
LEMMA WritesNow ==
  ASSUME AInv, NEW c \in Call, Moves({c}), NEW next, Whole(next),
         call'[c].next = next, next.version = call'[c].read.version + 1,
         next.verified => Proved(call'[c].user, next.fields.email),
         Changes(c)'
  PROVE  Writes(c)'
<1>1. Whole(call[c].next)'
  BY StillWhole DEF Moves, Whole
<1>2. (call[c].next.verified => Proved(call[c].user, call[c].next.fields.email))'
  BY StillProved DEF Proved
<1> QED
  BY <1>1, <1>2 DEF Writes

LEMMA ReadToConfirmKeeps ==
  ASSUME AInv, NEW c, ReadToConfirm(c)
  PROVE  AInv'
<1> DEFINE u == call[c].user
           user == users[u]
           next == Confirmed(c, user)
           record == [call[c] EXCEPT !.pc = "write", !.read = user, !.next = next]
<1>1. /\ c \in Confirm /\ call[c].pc = "read"
      /\ UNCHANGED <<scene, userStore, tokens, proved, left>>
  BY DEF ReadToConfirm
<1>2. /\ c \in Call /\ call[c] \in CallRecord /\ Kept(c)
      /\ c \notin Create \cup Link \cup Update \cup Prove
  BY <1>1, ConfirmNow
<1>3. CASE RefusesAgain(c, user)
  <2>1. Goes(c, "refused")
    BY <1>3 DEF ReadToConfirm
  <2> QED
    BY <1>1, <1>2, <2>1, RefusedIsKept DEF Landed
<1>4. CASE ~ RefusesAgain(c, user)
  <2>1. u \in UserId /\ Stored(u) /\ ~ Stale(call[c].link, user)
    BY <1>1, <1>2, <1>4 DEF RefusesAgain, Kept, Opened, Names, Stored
  <2>2. user \in UserRecord /\ Whole(user)
    BY <2>1, RecordIs
  <2>3. call[c].flow # "changeEmail" => Proved(u, user.fields.email)
    BY <1>1, <2>1, <2>2, OwnerProved
  <2>4. /\ Whole(next) /\ next.version = user.version + 1
        /\ Proved(u, next.fields.email)
        /\ next.fields.name = user.fields.name /\ next.active = user.active
        /\ call[c].flow # "changeEmail" => next.fields.email = user.fields.email
    BY <1>1, <2>1, <2>2, ConfirmedIs
  <2>5. call' = [call EXCEPT ![c] = record]
    BY <1>4 DEF ReadToConfirm
  <2> HIDE DEF next
  <2>6. /\ record \in CallRecord /\ record.pc = "write" /\ record.flow = call[c].flow
        /\ record.late = call[c].late /\ record.user = u /\ record.link = call[c].link
        /\ record.read = user /\ record.next = next
    BY <1>2, <2>2, <2>4 DEF CallRecord, Whole
  <2> HIDE DEF record
  <2>7. Becomes(c, record)
    <3>1. ~ call[c].late
      BY <1>1 DEF AInv, LeftLinksDead
    <3> QED
      BY <1>1, <1>2, <2>5, <2>6, <3>1 DEF Becomes, Landed
  <2>8. Moves({c}) /\ call'[c] = record
    BY <1>1, <1>2, <2>7, Asks
  <2>9. users' = users /\ UsersMove
    BY <1>1 DEF userStore, UsersMove
  <2>10. ReadThen(c)'
    BY <1>2, <2>1, <2>6, <2>8, <2>9, ReadNow
  <2>11. call[c].flow \in {"changeEmail", "verifyEmail", "firstProof"}
    BY <1>1, <1>2 DEF Kept, FlowsFit
  <2>12. Writes(c)'
    <3>1. Changes(c)'
      BY <2>4, <2>6, <2>8, <2>11 DEF Changes
    <3> QED
      BY <1>2, <2>4, <2>6, <2>8, <3>1, WritesNow
  <2>13. Reading(c)'
    BY <2>6, <2>8, <2>10, <2>12 DEF Reading
  <2>14. FlowsFit(c)'
    <3>1. call[c].flow = "firstProof" => Proved(call[c].user, call[c].read.fields.email)'
      BY <1>2, <2>3, <2>6, <2>8, StillProved DEF Proved
    <3> QED
      BY <1>1, <1>2, <2>6, <2>8, <2>11, <3>1 DEF FlowsFit
  <2>15. Opened(c)'
    BY <1>1, <2>6, <2>8, OpenedStays
  <2> QED
    BY <1>1, <1>2, <2>8, <2>13, <2>14, <2>15, KeptIs, OneStep
<1> QED
  BY <1>3, <1>4
-----------------------------------------------------------------------------
(* proveFirst and the reads of an update.                                  *)

LEMMA ReadActiveKeeps ==
  ASSUME AInv, NEW p \in Prove, NEW u \in UserId, NEW value \in scene.values \cup {None},
         ReadActive(p, u, value)
  PROVE  AInv'
<1> DEFINE user == users[u]
           held == IF value = None THEN user.fields.email ELSE value
           refused == \/ user = None \/ ~user.active
                      \/ value # None /\ normalized(user.fields.email) # Normal[value]
           pc == IF refused THEN "refused" ELSE IF user.verified THEN "done" ELSE "prove"
           record == [call[p] EXCEPT !.pc = pc, !.flow = "proveFirst", !.user = u,
                                     !.value = value, !.read = user]
<1>1. /\ call[p].pc = "idle" /\ Stored(u)
      /\ UNCHANGED <<scene, userStore, tokens, left>>
      /\ call' = [call EXCEPT ![p] = record]
      /\ proved' = IF held = None THEN proved ELSE proved \cup {<<u, Normal[held]>>}
  BY DEF ReadActive, Begins, Stored
<1>2. /\ p \in Call /\ call[p] \in CallRecord
      /\ p \notin Create \cup Link \cup Update \cup Confirm
  BY Apart DEF AInv, WorldTyped
<1>3. /\ user \in UserRecord /\ user.fields.email \in Spelled \cup {None}
      /\ value \in Spelled \cup {None}
  BY <1>1, RecordIs, ValuesSpelled DEF Fields
<1>4. pc \in {"refused", "done", "prove"}
  OBVIOUS
<1>5. pc = "prove" => (user.fields.email # None => <<u, normalized(user.fields.email)>> \in proved')
  <2> SUFFICES ASSUME value # None => normalized(user.fields.email) = Normal[value],
                      user.fields.email # None
               PROVE  <<u, normalized(user.fields.email)>> \in proved'
    OBVIOUS
  <2>1. CASE value = None
    BY <1>1, <2>1 DEF normalized
  <2>2. CASE value # None
    BY <1>1, <2>2
  <2> QED
    BY <2>1, <2>2
<1> HIDE DEF pc
<1>6. /\ record \in CallRecord /\ record.pc = pc /\ record.flow = "proveFirst"
      /\ record.user = u /\ record.read = user
  BY <1>2, <1>3, <1>4 DEF CallRecord
<1> HIDE DEF record
<1>7. Becomes(p, record)
  BY <1>1, <1>2, <1>4, <1>6 DEF Becomes
<1>8. proved \subseteq proved' /\ proved' \subseteq UserId \X Login
  <2>1. held # None => Normal[held] \in Login
    BY <1>3, NoNames
  <2> HIDE DEF held
  <2> QED
    BY <1>1, <2>1 DEF AInv, WorldTyped
<1>9. Moves({p}) /\ call'[p] = record
  <2>1. TokensMove({p}) /\ SceneStays
    BY <1>1, <1>2, TokensStay, SceneSame DEF AInv
  <2> QED
    BY <1>2, <1>7, <1>8, <2>1, OneMoves
<1>10. users' = users /\ UsersMove
  BY <1>1 DEF userStore, UsersMove
<1>11. ReadThen(p)'
  BY <1>1, <1>2, <1>6, <1>9, <1>10, ReadNow
<1>12. pc = "prove" => Proved(call[p].user, call[p].read.fields.email)'
  BY <1>5, <1>6, <1>9 DEF Proved
<1>13. Reading(p)' /\ FlowsFit(p)'
  BY <1>2, <1>4, <1>6, <1>9, <1>11, <1>12 DEF Reading, FlowsFit
<1> QED
  BY <1>1, <1>2, <1>9, <1>13, KeptIs, OneStep

LEMMA ProverNow ==
  ASSUME AInv, NEW p \in Prove \cup Confirm
  PROVE  /\ p \in Call /\ call[p] \in CallRecord /\ Kept(p) /\ p \notin Create \cup Link \cup Update
         /\ p \in Confirm <=> p \notin Prove
BY Apart DEF AInv, CallsKept, WorldTyped

(* A proof goes to write, to read again or nowhere.                        *)
LEMMA ProverMoves ==
  ASSUME AInv, NEW p \in Prove \cup Confirm, call[p].pc \in {"prove", "readAgain", "write"},
         NEW record \in CallRecord, call' = [call EXCEPT ![p] = record],
         record.pc \in {"prove", "write", "readAgain", "done", "refused"},
         record.pc = "readAgain" => p \in Prove,
         p \in Confirm => call[p].pc # "readAgain" /\ record.pc # "done",
         record.flow = call[p].flow, record.user = call[p].user, record.link = call[p].link,
         record.late = call[p].late,
         UNCHANGED <<scene, userStore, tokens, proved, left>>
  PROVE  /\ Moves({p}) /\ call'[p] = record /\ UsersMove /\ users' = users
         /\ ((record.pc \in {"prove", "write", "readAgain"} =>
                ReadThen(p)' /\ Proved(call[p].user, call[p].read.fields.email)')
             /\ (record.pc = "write" => Writes(p)') => AInv')
<1>1. /\ p \in Call /\ Kept(p) /\ p \notin Create \cup Link \cup Update
      /\ p \in Confirm <=> p \notin Prove
  BY ProverNow
<1>2. p \in Confirm => ~ call[p].late
  BY DEF AInv, LeftLinksDead
<1>3. Becomes(p, record)
  BY <1>1, <1>2 DEF Becomes, Landed
<1>4. Moves({p}) /\ call'[p] = record
  BY <1>1, <1>3, Asks
<1>5. UsersMove /\ users' = users
  BY DEF userStore, UsersMove
<1>6. ASSUME record.pc \in {"prove", "write", "readAgain"} =>
               ReadThen(p)' /\ Proved(call[p].user, call[p].read.fields.email)',
             record.pc = "write" => Writes(p)'
      PROVE  AInv'
  <2>1. Reading(p)'
    BY <1>1, <1>4, <1>6 DEF Reading
  <2>2. FlowsFit(p)'
    <3>1. FlowsFit(p)
      BY <1>1 DEF Kept
    <3> QED
      BY <1>1, <1>4, <1>6, <3>1 DEF FlowsFit
  <2>3. p \in Confirm => Opened(p)'
    <3> SUFFICES ASSUME p \in Confirm, record.pc \in {"prove", "write"} PROVE Opened(p)'
      BY <1>4 DEF Opened
    <3> QED
      BY <1>4, OpenedStays
  <2>4. Kept(p)'
    BY <1>1, <2>1, <2>2, <2>3, KeptIs
  <2> QED
    BY <1>1, <1>4, <2>4, OneStep
<1> QED
  BY <1>4, <1>5, <1>6

LEMMA ProofPatch ==
  ASSUME AInv, NEW record, Whole(record)
  PROVE  LET next == Patched(record, record.fields, record.active, TRUE)
         IN  /\ Whole(next) /\ next.version = record.version + 1
             /\ next.fields = record.fields /\ next.active = record.active
<1>1. /\ record \in UserRecord /\ record.fields \in Fields /\ WorldTyped
      /\ scene.login = "email" => record.fields.email # None
  BY DEF Whole, UserRecord, AInv
<1> QED
  BY <1>1, MarkedIs

LEMMA ReadToProveKeeps ==
  ASSUME AInv, NEW p \in Prove \cup Confirm, ReadToProve(p)
  PROVE  AInv'
<1> DEFINE u == call[p].user
           user == users[u]
           next == Patched(user, user.fields, user.active, TRUE)
           record == [call[p] EXCEPT !.pc = "write", !.next = next]
<1>1. call[p].pc = "prove" /\ UNCHANGED <<scene, userStore, tokens, proved, left>>
  BY DEF ReadToProve
<1>2. /\ p \in Call /\ call[p] \in CallRecord /\ Kept(p) /\ p \notin Create \cup Link \cup Update
      /\ p \in Confirm <=> p \notin Prove
  BY ProverNow
<1>3. /\ ReadThen(p) /\ Proved(u, call[p].read.fields.email)
      /\ u \in UserId /\ Whole(call[p].read)
  BY <1>1, <1>2 DEF Kept, Reading, ReadThen, Names
<1>4. CASE user = None
  <2>1. Goes(p, "refused")
    BY <1>4 DEF ReadToProve
  <2> QED
    BY <1>1, <1>2, <2>1, RefusedIsKept DEF Landed
<1>5. CASE user # None /\ user.version # call[p].read.version
  <2> DEFINE again == [call[p] EXCEPT !.pc = Conflicts(p)]
  <2>1. call' = [call EXCEPT ![p] = again]
    BY <1>5 DEF ReadToProve, Goes
  <2>2. Conflicts(p) \in {"readAgain", "refused"} /\ (Conflicts(p) = "readAgain" => p \in Prove)
    <3>1. p \in Confirm => call[p].flow # "proveFirst"
      BY <1>1, <1>2 DEF Kept, FlowsFit
    <3> QED
      BY <1>2, <3>1 DEF Conflicts
  <2>3. /\ again \in CallRecord /\ again.pc = Conflicts(p) /\ again.flow = call[p].flow
        /\ again.user = u /\ again.link = call[p].link /\ again.late = call[p].late
        /\ again.read = call[p].read
    BY <1>2, <2>2 DEF CallRecord
  <2> HIDE DEF again
  <2>4. /\ Moves({p}) /\ call'[p] = again /\ UsersMove
        /\ ReadThen(p)' /\ Proved(call[p].user, call[p].read.fields.email)' => AInv'
    <3>1. p \in Confirm => call[p].pc # "readAgain" /\ again.pc # "done"
      BY <1>1, <2>2, <2>3
    <3>2. again.pc \in {"readAgain", "refused"} /\ (again.pc = "readAgain" => p \in Prove)
      BY <2>2, <2>3
    <3> QED
      BY <1>1, <2>1, <2>3, <3>1, <3>2, ProverMoves
  <2>5. ReadThen(p)'
    BY <1>2, <1>3, <2>3, <2>4, StillReadThen
  <2>6. Proved(call[p].user, call[p].read.fields.email)'
    BY <1>2, <1>3, <2>3, <2>4, StillProved DEF Proved
  <2> QED
    BY <2>4, <2>5, <2>6
<1>6. CASE user # None /\ user.version = call[p].read.version
  <2>1. user = call[p].read
    BY <1>3, <1>6 DEF ReadThen, Stored
  <2>2. /\ Whole(next) /\ next.version = user.version + 1
        /\ next.fields = user.fields /\ next.active = user.active
    BY <1>3, <2>1, ProofPatch
  <2>3. call' = [call EXCEPT ![p] = record]
    BY <1>6 DEF ReadToProve
  <2> HIDE DEF next
  <2>4. /\ record \in CallRecord /\ record.pc = "write" /\ record.flow = call[p].flow
        /\ record.user = u /\ record.link = call[p].link /\ record.late = call[p].late
        /\ record.read = call[p].read /\ record.next = next
    BY <1>2, <2>2 DEF CallRecord, Whole
  <2> HIDE DEF record
  <2>5. Moves({p}) /\ call'[p] = record /\ UsersMove
    BY <1>1, <2>3, <2>4, ProverMoves
  <2>6. ReadThen(p)'
    BY <1>2, <1>3, <2>4, <2>5, StillReadThen
  <2>7. Proved(call[p].user, call[p].read.fields.email)'
    BY <1>2, <1>3, <2>4, <2>5, StillProved DEF Proved
  <2>8. Writes(p)'
    <3>1. call[p].flow \in {"changeEmail", "verifyEmail", "firstProof", "proveFirst"}
      BY <1>1, <1>2 DEF Kept, FlowsFit
    <3>2. Changes(p)'
      BY <2>1, <2>2, <2>4, <2>5, <3>1 DEF Changes
    <3>3. next.verified => Proved(u, next.fields.email)
      BY <1>3, <2>1, <2>2
    <3> QED
      BY <1>2, <2>1, <2>2, <2>4, <2>5, <3>2, <3>3, WritesNow
  <2> QED
    BY <1>1, <2>3, <2>4, <2>6, <2>7, <2>8, ProverMoves
<1> QED
  BY <1>4, <1>5, <1>6

LEMMA ReadActiveAgainKeeps ==
  ASSUME AInv, NEW p \in Prove, ReadActiveAgain(p)
  PROVE  AInv'
<1> DEFINE u == call[p].user
           user == users[u]
           pc == IF user.verified THEN "done" ELSE "prove"
           record == [call[p] EXCEPT !.pc = pc, !.read = user, !.retried = TRUE]
<1>1. call[p].pc = "readAgain" /\ UNCHANGED <<scene, userStore, tokens, proved, left>>
  BY DEF ReadActiveAgain
<1>2. /\ p \in Call /\ call[p] \in CallRecord /\ Kept(p) /\ p \notin Create \cup Link \cup Update
      /\ p \notin Confirm
  BY ProverNow, Apart
<1>3. /\ ReadThen(p) /\ Proved(u, call[p].read.fields.email)
      /\ u \in UserId /\ Whole(call[p].read)
  BY <1>1, <1>2 DEF Kept, Reading, ReadThen, Names
<1>4. CASE ~ SameEmail(p, user)
  <2>1. Goes(p, "refused")
    BY <1>4 DEF ReadActiveAgain
  <2> QED
    BY <1>1, <1>2, <2>1, RefusedIsKept DEF Landed
<1>5. CASE SameEmail(p, user)
  <2>1. /\ Stored(u) /\ user \in UserRecord
        /\ normalized(user.fields.email) = normalized(call[p].read.fields.email)
    BY <1>3, <1>5, RecordIs DEF SameEmail, Stored, emailChanged
  <2>2. Proved(u, user.fields.email)
    <3>1. /\ user.fields.email \in Spelled \cup {None}
          /\ call[p].read.fields.email \in Spelled \cup {None}
      BY <1>3, <2>1 DEF Whole, UserRecord, Fields
    <3> QED
      BY <1>3, <2>1, <3>1, ProvedAlike
  <2>3. pc \in {"done", "prove"}
    OBVIOUS
  <2>4. call' = [call EXCEPT ![p] = record]
    BY <1>5 DEF ReadActiveAgain
  <2> HIDE DEF pc
  <2>5. /\ record \in CallRecord /\ record.pc = pc /\ record.flow = call[p].flow
        /\ record.user = u /\ record.link = call[p].link /\ record.late = call[p].late
        /\ record.read = user
    BY <1>2, <2>1, <2>3 DEF CallRecord
  <2> HIDE DEF record
  <2>6. Moves({p}) /\ call'[p] = record /\ UsersMove /\ users' = users
    BY <1>1, <1>2, <2>3, <2>4, <2>5, ProverMoves
  <2>7. ReadThen(p)'
    BY <1>2, <1>3, <2>1, <2>5, <2>6, ReadNow
  <2>8. Proved(call[p].user, call[p].read.fields.email)'
    BY <1>2, <2>2, <2>5, <2>6, StillProved DEF Proved
  <2> QED
    BY <1>1, <1>2, <2>3, <2>4, <2>5, <2>7, <2>8, ProverMoves
<1> QED
  BY <1>4, <1>5
-----------------------------------------------------------------------------
(* An update reads, and makes of the record what it writes.                *)

LEMMA ChangeIs ==
  ASSUME AInv, NEW u \in UserId, NEW record, Whole(record),
         record.verified => Proved(u, record.fields.email),
         NEW flow \in {"name", "email", "active"}, NEW value \in Spelled
  PROVE  LET next == Change(flow, record, value)
         IN  /\ Whole(next) /\ next.version = record.version + 1
             /\ next.verified => Proved(u, next.fields.email)
             /\ flow = "name" => next.fields.name = value
             /\ flow = "email" => next.fields.email = value
             /\ flow # "name" => next.fields.name = record.fields.name
             /\ flow # "email" => next.fields.email = record.fields.email
             /\ flow # "active" => next.active = record.active
<1> DEFINE named == [record.fields EXCEPT !.name = value]
           moved == [record.fields EXCEPT !.email = value]
<1>1. /\ record \in UserRecord /\ record.fields \in Fields
      /\ record.active \in BOOLEAN /\ record.verified \in BOOLEAN
      /\ scene.login = "email" => record.fields.email # None
      /\ WorldTyped /\ value # None
  BY NoNames DEF Whole, UserRecord, AInv
<1>2. /\ named \in Fields /\ named.name = value /\ named.email = record.fields.email
      /\ moved \in Fields /\ moved.email = value /\ moved.name = record.fields.name
  BY <1>1 DEF Fields
<1> HIDE DEF named, moved
<1>3. ASSUME NEW fields \in Fields, scene.login = "email" => fields.email # None
      PROVE  LET next == FieldsPatch(record, fields)
             IN  /\ Whole(next) /\ next.version = record.version + 1
                 /\ next.fields = fields /\ next.active = record.active
                 /\ next.verified => Proved(u, fields.email)
  <2> DEFINE verified == record.verified /\ ~ emailChanged(record.fields, fields)
  <2>1. verified \in BOOLEAN
    OBVIOUS
  <2>2. verified => Proved(u, fields.email)
    <3> SUFFICES ASSUME verified PROVE Proved(u, fields.email)
      OBVIOUS
    <3>1. record.fields.email \in Spelled \cup {None} /\ fields.email \in Spelled \cup {None}
      BY <1>1 DEF Fields
    <3>2. normalized(fields.email) = normalized(record.fields.email)
      BY DEF emailChanged
    <3> QED
      BY <3>1, <3>2, ProvedAlike
  <2>3. FieldsPatch(record, fields) = Patched(record, fields, record.active, verified)
    BY DEF FieldsPatch
  <2> HIDE DEF verified
  <2>4. LET next == Patched(record, fields, record.active, verified)
        IN  /\ Whole(next) /\ next.version = record.version + 1
            /\ next.fields = fields /\ next.active = record.active /\ next.verified = verified
    BY <1>1, <1>3, <2>1, PatchedIs
  <2> QED
    BY <2>2, <2>3, <2>4
<1>4. CASE flow = "name"
  <2>1. Change(flow, record, value) = FieldsPatch(record, named)
    BY <1>4 DEF Change, named
  <2>2. scene.login = "email" => named.email # None
    BY <1>1, <1>2
  <2> QED
    BY <1>2, <1>3, <1>4, <2>1, <2>2
<1>5. CASE flow = "email"
  <2>1. Change(flow, record, value) = FieldsPatch(record, moved)
    BY <1>5 DEF Change, moved
  <2>2. scene.login = "email" => moved.email # None
    BY <1>1, <1>2
  <2> QED
    BY <1>2, <1>3, <1>5, <2>1, <2>2
<1>6. CASE flow = "active"
  <2> DEFINE active == ~ record.active
  <2>1. Change(flow, record, value) = Patched(record, record.fields, active, record.verified)
    BY <1>6 DEF Change
  <2>2. active \in BOOLEAN
    OBVIOUS
  <2> HIDE DEF active
  <2>3. LET next == Patched(record, record.fields, active, record.verified)
        IN  /\ Whole(next) /\ next.version = record.version + 1
            /\ next.fields = record.fields /\ next.verified = record.verified
    BY <1>1, <2>2, PatchedIs
  <2> QED
    BY <1>6, <2>1, <2>3
<1> QED
  BY <1>4, <1>5, <1>6

LEMMA UpdateNow ==
  ASSUME AInv, NEW m \in Update
  PROVE  /\ m \in Call /\ call[m] \in CallRecord /\ Kept(m)
         /\ m \notin Create \cup Link \cup Confirm \cup Prove
BY Apart DEF AInv, CallsKept, WorldTyped

LEMMA ReadToUpdateKeeps ==
  ASSUME AInv, NEW m \in Update, NEW u \in UserId, NEW flow \in {"name", "email", "active"},
         NEW value \in scene.values, ReadToUpdate(m, u, flow, value)
  PROVE  AInv'
<1> DEFINE user == users[u]
           next == Change(flow, user, value)
           record == [call[m] EXCEPT !.pc = "write", !.flow = flow, !.user = u, !.value = value,
                                     !.read = user, !.next = next]
<1>1. /\ call[m].pc = "idle" /\ Stored(u)
      /\ UNCHANGED <<scene, userStore, tokens, proved, left>>
      /\ call' = [call EXCEPT ![m] = record]
  BY DEF ReadToUpdate, Begins, Stored
<1>2. /\ m \in Call /\ call[m] \in CallRecord /\ m \notin Create \cup Link \cup Confirm \cup Prove
  BY UpdateNow
<1>3. value \in Spelled
  BY ValuesSpelled
<1>4. user \in UserRecord /\ Whole(user) /\ (user.verified => Proved(u, user.fields.email))
  BY <1>1, RecordIs
<1>5. /\ Whole(next) /\ next.version = user.version + 1
      /\ next.verified => Proved(u, next.fields.email)
      /\ flow = "name" => next.fields.name = value
      /\ flow = "email" => next.fields.email = value
      /\ flow # "name" => next.fields.name = user.fields.name
      /\ flow # "email" => next.fields.email = user.fields.email
      /\ flow # "active" => next.active = user.active
  <2> HIDE DEF user
  <2> QED
    BY <1>3, <1>4, ChangeIs
<1> HIDE DEF next
<1>6. /\ record \in CallRecord /\ record.pc = "write" /\ record.flow = flow /\ record.user = u
      /\ record.value = value /\ record.read = user /\ record.next = next
  BY <1>2, <1>3, <1>4, <1>5 DEF CallRecord, Whole
<1> HIDE DEF record
<1>7. Becomes(m, record)
  BY <1>1, <1>2, <1>6 DEF Becomes, Landed
<1>8. Moves({m}) /\ call'[m] = record
  BY <1>1, <1>2, <1>7, Asks
<1>9. users' = users /\ UsersMove
  BY <1>1 DEF userStore, UsersMove
<1>10. ReadThen(m)'
  BY <1>1, <1>2, <1>6, <1>8, <1>9, ReadNow
<1>11. Writes(m)'
  <2>1. Changes(m)'
    BY <1>5, <1>6, <1>8 DEF Changes
  <2>2. next.version = call'[m].read.version + 1
    BY <1>5, <1>6, <1>8
  <2>3. next.verified => Proved(call'[m].user, next.fields.email)
    BY <1>5, <1>6, <1>8
  <2> QED
    BY <1>2, <1>5, <1>6, <1>8, <2>1, <2>2, <2>3, WritesNow
<1>12. Reading(m)' /\ FlowsFit(m)'
  BY <1>2, <1>6, <1>8, <1>10, <1>11 DEF Reading, FlowsFit
<1>13. Lasting(m)'
  BY <1>6, <1>8 DEF Lasting, Landed
<1> QED
  BY <1>1, <1>2, <1>8, <1>12, <1>13, KeptIs, OneStep

-----------------------------------------------------------------------------
(* A write lands: the record read is the one there is, and what landed     *)
(* before is in it, or was changed again.                                  *)

LEMMA LandsOn ==
  ASSUME AInv, NEW c \in Update \cup Confirm \cup Prove, call[c].pc = "write", Lands(c)
  PROVE  LET u == call[c].user
         IN  /\ u \in UserId /\ Stored(u) /\ call[c].read = users[u] /\ Made(u)
             /\ Writes(c)
             /\ \A login \in call[c].next.logins : byLogin[login] \in {None, u}
<1>1. c \in Call /\ Kept(c)
  BY Apart DEF AInv, CallsKept
<1>2. ReadThen(c) /\ Writes(c) /\ Names(c)
  BY <1>1 DEF Kept, Reading, ReadThen
<1> QED
  BY <1>2 DEF Lands, writable, takenBy, ReadThen, Names, Stored

LEMMA LandedIsKept ==
  ASSUME AInv, NEW c \in Update \cup Confirm \cup Prove, call[c].pc = "write",
         NEW record, Moves({c}), call'[c] = record,
         record.pc \in {"spend", "done", "refused"}, record.flow = call[c].flow
  PROVE  Kept(c)'
<1>1. c \in Call /\ Kept(c) /\ c \notin Create \cup Link
  BY Apart DEF AInv, CallsKept
<1>2. Reading(c)' /\ Opened(c)'
  BY DEF Reading, Opened
<1>3. FlowsFit(c)'
  BY <1>1 DEF Kept, FlowsFit
<1> QED
  BY <1>1, <1>2, <1>3, KeptIs

(* What landed before is in the record the next one writes.                *)
LEMMA LastsThrough ==
  ASSUME AInv, NEW A \in SUBSET Call, Moves(A),
         NEW c \in Update \cup Confirm \cup Prove, call[c].pc = "write", Lands(c),
         Landed(c)' \/ c \in Prove,
         call'[c].user = call[c].user, call'[c].next = call[c].next, call'[c].flow = call[c].flow,
         users'[call[c].user] = call[c].next,
         NEW m \in Update, m # c, Landed(m), call[m].user = call[c].user
  PROVE  Lasting(m)'
<1> DEFINE u == call[c].user
           next == call[c].next
           flow == call[c].flow
<1>1. /\ u \in UserId /\ Stored(u) /\ call[c].read = users[u] /\ Made(u)
      /\ Writes(c)
  BY LandsOn
<1>2. /\ Lasting(m) /\ Names(m) /\ call[m].next \in UserRecord
      /\ call[m].next.version <= users[u].version /\ StillThere(m)
  BY <1>1 DEF AInv, AllLasting, Lasting
<1>3. Fits(m) /\ Landed(m)'
  BY Apart, AllFit DEF Fits
<1>4. /\ call'[m].value = call[m].value /\ call'[m].next = call[m].next
      /\ call'[m].user = u /\ call'[m].flow = call[m].flow
  BY <1>3 DEF Fits
<1>5. Names(m)'
  BY <1>1, <1>4, StillMade DEF Names, Made
<1>6. /\ next \in UserRecord /\ next.version = users[u].version + 1 /\ Changes(c)
  BY <1>1 DEF Writes, Whole
<1>7. next.version > call[m].next.version /\ call[m].next.version <= next.version
  <2>1. users[u].version \in Int /\ call[m].next.version \in Int /\ next.version \in Int
    BY <1>1, <1>2, <1>6, RecordIs DEF UserRecord
  <2> QED
    BY <1>2, <1>6, <2>1
<1>8. \A flows : flow \in flows /\ c \notin Prove => LandedLater(m, flows)'
  BY <1>4, <1>7 DEF LandedLater
<1>9. \A flows : LandedLater(m, flows) => LandedLater(m, flows)'
  BY StillLater
<1>10. /\ flow \in {"name", "email", "active", "changeEmail", "verifyEmail", "firstProof",
                    "proveFirst"}
       /\ flow \in {"name", "email", "active", "changeEmail"} => c \notin Prove
  <2>1. FlowsFit(c)
    BY Apart DEF AInv, CallsKept, Kept
  <2> QED
    BY <2>1, Apart DEF FlowsFit
<1>11. /\ flow # "name" => next.fields.name = users[u].fields.name
       /\ flow \notin {"email", "changeEmail"} => next.fields.email = users[u].fields.email
       /\ flow # "active" => next.active = users[u].active
  BY <1>1, <1>6 DEF Changes
<1>12. StillThere(m)'
  <2>1. /\ call[m].flow = "name" =>
             users[u].fields.name = call[m].value \/ LandedLater(m, {"name"})
        /\ call[m].flow = "email" =>
             users[u].fields.email = call[m].value \/ LandedLater(m, {"email", "changeEmail"})
        /\ call[m].flow = "active" =>
             users[u].active = call[m].next.active \/ LandedLater(m, {"active"})
    BY <1>2 DEF StillThere
  <2>2. call[m].flow = "name" =>
          next.fields.name = call[m].value \/ LandedLater(m, {"name"})'
    BY <1>8, <1>9, <1>10, <1>11, <2>1
  <2>3. call[m].flow = "email" =>
          next.fields.email = call[m].value \/ LandedLater(m, {"email", "changeEmail"})'
    BY <1>8, <1>9, <1>10, <1>11, <2>1
  <2>4. call[m].flow = "active" =>
          next.active = call[m].next.active \/ LandedLater(m, {"active"})'
    BY <1>8, <1>9, <1>10, <1>11, <2>1
  <2> HIDE DEF next
  <2>5. users'[call'[m].user] = next
    BY <1>4 DEF next
  <2> QED
    BY <1>4, <2>2, <2>3, <2>4, <2>5 DEF StillThere
<1> HIDE DEF next
<1>13. users'[call'[m].user] = next
  BY <1>4 DEF next
<1> QED
  BY <1>2, <1>4, <1>5, <1>7, <1>12, <1>13 DEF Lasting

LEMMA WriteLands ==
  ASSUME AInv, NEW c \in Update \cup Confirm \cup Prove, call[c].pc = "write", Lands(c), Write(c),
         NEW pc \in {"spend", "done"}, Goes(c, pc), UNCHANGED <<scene, tokens, proved, left>>
  PROVE  AInv'
<1> DEFINE u == call[c].user
           next == call[c].next
           before == users[u]
           record == [call[c] EXCEPT !.pc = pc]
<1>1. /\ u \in UserId /\ Stored(u) /\ call[c].read = before /\ Made(u)
      /\ Writes(c)
      /\ \A login \in next.logins : byLogin[login] \in {None, u}
  BY LandsOn
<1>2. /\ c \in Call /\ call[c] \in CallRecord /\ c \notin Create \cup Link
  BY Apart DEF AInv, WorldTyped
<1>3. /\ Whole(next) /\ next \in UserRecord /\ next.version = before.version + 1
      /\ next.verified => Proved(u, next.fields.email)
  BY <1>1 DEF Writes, Whole
<1>4. /\ users' = [users EXCEPT ![u] = next]
      /\ byLogin' = reindex(byLogin, u, before.logins, next.logins)
  BY DEF Write
<1>5. /\ record \in CallRecord /\ record.pc = pc /\ record.flow = call[c].flow
      /\ record.user = u /\ record.value = call[c].value /\ record.next = next
      /\ record.late = call[c].late
  BY <1>2 DEF CallRecord
<1>6. call' = [call EXCEPT ![c] = record]
  BY DEF Goes
<1> HIDE DEF record
<1>7. Becomes(c, record)
  <2>1. c \in Confirm => ~ call[c].late
    BY DEF AInv, LeftLinksDead
  <2> QED
    BY <1>2, <1>5, <1>6, <2>1 DEF Becomes, Landed
<1>8. Moves({c}) /\ call'[c] = record
  BY <1>2, <1>7, Asks
<1>9. /\ users' \in Users /\ users'[u] = next
      /\ \A v \in UserId \ {u} : users'[v] = users[v]
  BY <1>1, <1>3, <1>4 DEF AInv, WorldTyped, Users
<1>10. /\ byLogin' \in Index
       /\ \A login \in Login :
            byLogin'[login] = IF login \in next.logins THEN u
                              ELSE IF login \in before.logins THEN None ELSE byLogin[login]
  BY <1>1, <1>4 DEF reindex, indexLogins, dropLogins, AInv, WorldTyped, Index
<1>11. UsersMove
  BY <1>1, <1>3, <1>9 DEF UsersMove
<1>12. before.logins \subseteq Login /\ next.logins \subseteq Login
  BY <1>1, <1>3, RecordIs DEF UserRecord
<1>13. UsersKept'
  <2> SUFFICES ASSUME NEW v \in UserId, users'[v] # None
               PROVE  /\ Whole(users[v])' /\ Made(v)'
                      /\ (users[v].verified => Proved(v, users[v].fields.email))'
                      /\ (\A login \in users[v].logins : byLogin[login] = v)'
    BY DEF UsersKept, Stored
  <2>1. CASE v = u
    <3>1. PICK after : after = next
      OBVIOUS
    <3>2. Whole(after)'
      BY <1>2, <1>3, <1>8, <3>1, StillWhole DEF Moves, Whole
    <3>3. Made(v)'
      BY <1>1, <1>2, <1>8, <2>1, StillMade
    <3>4. (after.verified => Proved(v, after.fields.email))'
      BY <1>2, <1>3, <1>8, <2>1, <3>1, StillProved DEF Proved
    <3>5. \A login \in after.logins : byLogin'[login] = v
      BY <1>10, <1>12, <2>1, <3>1
    <3> HIDE DEF u, next
    <3>6. users'[v] = after
      BY <1>9, <2>1, <3>1
    <3> QED
      BY <3>2, <3>3, <3>4, <3>5, <3>6 DEF Whole, Proved
  <2>2. CASE v # u
    <3>1. users'[v] = users[v] /\ Stored(v)
      BY <1>9, <2>2 DEF Stored
    <3>2. \A login \in users[v].logins : byLogin'[login] = v
      <4> SUFFICES ASSUME NEW login \in users[v].logins PROVE byLogin'[login] = v
        OBVIOUS
      <4>1. login \in Login /\ byLogin[login] = v
        BY <3>1, RecordIs DEF UserRecord
      <4>2. login \notin before.logins
        BY <1>1, <2>2, <4>1, RecordIs
      <4>3. login \notin next.logins
        BY <1>1, <2>2, <4>1, NoNames
      <4> QED
        BY <1>10, <4>1, <4>2, <4>3
    <3> QED
      BY <1>2, <1>8, <3>1, <3>2, OtherUsers
  <2> QED
    BY <2>1, <2>2
<1>14. IndexKept'
  <2> SUFFICES ASSUME NEW login \in Login, byLogin'[login] # None
               PROVE  users'[byLogin'[login]] # None /\ login \in users'[byLogin'[login]].logins
    BY DEF IndexKept, Stored
  <2>1. CASE login \in next.logins
    BY <1>3, <1>9, <1>10, <2>1, NoNames
  <2>2. CASE login \notin next.logins
    <3>1. byLogin'[login] = byLogin[login] /\ login \notin before.logins
      BY <1>10, <2>2
    <3>2. byLogin[login] # u
      BY <2>2, <3>1, HeldBy
    <3> QED
      BY <1>9, <3>1, <3>2, HeldBy DEF Stored
  <2> QED
    BY <2>1, <2>2
<1>15. ASSUME NEW m \in Update, Landed(m)' PROVE Lasting(m)'
  <2>1. CASE m = c
    <3>1. Names(c)'
      BY <1>1, <1>2, <1>5, <1>8, StillMade DEF Names, Made
    <3>2. next.version <= next.version
      BY <1>3 DEF UserRecord
    <3>3. Changes(c)
      BY <1>1 DEF Writes
    <3>4. call'[c].user = u /\ call'[c].next = next /\ call'[c].flow = call[c].flow
          /\ call'[c].value = call[c].value
      BY <1>5, <1>8
    <3>5. users'[call'[c].user] = next
      BY <1>9, <3>4
    <3> HIDE DEF u, next
    <3>6. StillThere(c)'
      BY <3>3, <3>4, <3>5 DEF StillThere, Changes, next
    <3> QED
      BY <1>3, <2>1, <3>1, <3>2, <3>4, <3>5, <3>6 DEF Lasting
  <2>2. CASE m # c
    <3>1. m \in Call /\ Landed(m)
      BY <1>8, <1>15, <2>2, Apart DEF Moves, Landed
    <3>2. CASE call[m].user = u
      <4>1. Landed(c)' \/ c \in Prove
        BY <1>5, <1>8 DEF Landed
      <4>2. /\ call'[c].user = call[c].user /\ call'[c].next = call[c].next
            /\ call'[c].flow = call[c].flow
        BY <1>5, <1>8
      <4> QED
        BY <1>2, <1>8, <1>9, <2>2, <3>1, <3>2, <4>1, <4>2, LastsThrough
    <3>3. CASE call[m].user # u
      <4>1. call[m].user \in UserId
        BY <3>1 DEF AInv, AllLasting, Lasting, Names
      <4>2. users'[call[m].user] = users[call[m].user]
        BY <1>9, <3>3, <4>1
      <4> QED
        BY <1>2, <1>8, <3>1, <4>2, StillLasting
    <3> QED
      BY <3>2, <3>3
  <2> QED
    BY <2>1, <2>2
<1>16. Kept(c)'
  BY <1>5, <1>8, LandedIsKept
<1>17. LeftSpent' /\ left' \subseteq Link
  BY <1>2, <1>8, StillSpent DEF AInv, WorldTyped
<1> QED
  BY <1>2, <1>8, <1>9, <1>10, <1>11, <1>13, <1>14, <1>15, <1>16, <1>17, LoudStep
-----------------------------------------------------------------------------
(* The writes, what a move spends, and a deletion.                         *)

(* A write that is refused ends its call.                                  *)
LEMMA WriteRefused ==
  ASSUME AInv, NEW c \in Update \cup Confirm \cup Prove, call[c].pc = "write",
         ~ Lands(c), Write(c), Goes(c, "refused"), UNCHANGED <<scene, tokens, proved, left>>
  PROVE  AInv'
<1>1. UNCHANGED userStore /\ c \in Call \ Link
  BY Apart DEF Write
<1> QED
  BY <1>1, RefusedIsKept DEF Landed

LEMMA WriteConfirmedKeeps ==
  ASSUME AInv, NEW c \in Confirm, WriteConfirmed(c)
  PROVE  AInv'
<1>1. call[c].pc = "write" /\ Write(c) /\ UNCHANGED <<scene, tokens, proved, left>>
  BY DEF WriteConfirmed
<1>2. CASE Lands(c)
  <2>1. Goes(c, "done")
    BY <1>2 DEF WriteConfirmed
  <2> QED
    BY <1>1, <1>2, <2>1, WriteLands
<1>3. CASE ~ Lands(c)
  <2>1. Goes(c, "refused")
    BY <1>3 DEF WriteConfirmed
  <2> QED
    BY <1>1, <1>3, <2>1, WriteRefused
<1> QED
  BY <1>2, <1>3

LEMMA WriteUpdateKeeps ==
  ASSUME AInv, NEW m \in Update, WriteUpdate(m)
  PROVE  AInv'
<1>1. call[m].pc = "write" /\ Write(m) /\ UNCHANGED <<scene, tokens, proved, left>>
  BY DEF WriteUpdate
<1>2. CASE Lands(m)
  <2>1. Goes(m, "spend") \/ Goes(m, "done")
    BY <1>2 DEF WriteUpdate
  <2> QED
    BY <1>1, <1>2, <2>1, WriteLands
<1>3. CASE ~ Lands(m)
  <2>1. Goes(m, "refused")
    BY <1>3 DEF WriteUpdate
  <2> QED
    BY <1>1, <1>3, <2>1, WriteRefused
<1> QED
  BY <1>2, <1>3

LEMMA WriteProofKeeps ==
  ASSUME AInv, NEW p \in Prove \cup Confirm, WriteProof(p)
  PROVE  AInv'
<1> DEFINE u == call[p].user
           again == [call[p] EXCEPT !.pc = "readAgain"]
<1>1. /\ call[p].pc = "write" /\ Write(p) /\ UNCHANGED <<scene, tokens, proved, left>>
      /\ Goes(p, IF Lands(p) THEN "done"
                 ELSE IF users[u] = None THEN "refused" ELSE Conflicts(p))
  BY DEF WriteProof
<1>2. /\ p \in Call /\ call[p] \in CallRecord /\ Kept(p) /\ p \notin Create \cup Link \cup Update
      /\ p \in Confirm <=> p \notin Prove
  BY ProverNow
<1>3. CASE Lands(p)
  <2>1. Goes(p, "done")
    BY <1>1, <1>3
  <2> QED
    BY <1>1, <1>3, <2>1, WriteLands
<1>4. CASE ~ Lands(p) /\ Goes(p, "refused")
  BY <1>1, <1>4, WriteRefused
<1>5. CASE ~ Lands(p) /\ Goes(p, "readAgain") /\ Conflicts(p) = "readAgain"
  <2>1. call[p].flow = "proveFirst" /\ p \in Prove
    <3>1. call[p].flow = "proveFirst"
      BY <1>5 DEF Conflicts
    <3>2. p \in Confirm => call[p].flow # "proveFirst"
      BY <1>1, <1>2 DEF Kept, FlowsFit
    <3> QED
      BY <1>2, <3>1, <3>2
  <2>2. UNCHANGED userStore
    BY <1>1, <1>5 DEF Write
  <2>3. call' = [call EXCEPT ![p] = again]
    BY <1>5 DEF Goes
  <2>4. /\ again \in CallRecord /\ again.pc = "readAgain" /\ again.flow = call[p].flow
        /\ again.user = u /\ again.link = call[p].link /\ again.late = call[p].late
        /\ again.read = call[p].read
    BY <1>2 DEF CallRecord
  <2> HIDE DEF again
  <2>5. /\ Moves({p}) /\ call'[p] = again /\ UsersMove
        /\ ReadThen(p)' /\ Proved(call[p].user, call[p].read.fields.email)' => AInv'
    <3>1. p \in Confirm => call[p].pc # "readAgain" /\ again.pc # "done"
      BY <1>2, <2>1
    <3> QED
      BY <1>1, <2>1, <2>2, <2>3, <2>4, <3>1, ProverMoves
  <2>6. ReadThen(p) /\ Proved(u, call[p].read.fields.email)
    BY <1>1, <1>2, <2>1 DEF Kept, Reading, FlowsFit
  <2>7. ReadThen(p)'
    BY <1>2, <2>4, <2>5, <2>6, StillReadThen
  <2>8. Proved(call[p].user, call[p].read.fields.email)'
    BY <1>2, <2>4, <2>5, <2>6, StillProved DEF Proved
  <2> QED
    BY <2>5, <2>7, <2>8
<1> QED
  BY <1>1, <1>3, <1>4, <1>5 DEF Conflicts

LEMMA SpendKeeps ==
  ASSUME AInv, NEW m \in Update, Spend(m)
  PROVE  AInv'
<1> DEFINE u == call[m].user
           Record(pc) == [call[m] EXCEPT !.pc = pc]
<1>1. call[m].pc = "spend" /\ UNCHANGED <<userStore, proved>>
  BY DEF Spend
<1>2. /\ m \in Call /\ call[m] \in CallRecord /\ Kept(m)
      /\ m \notin Create \cup Link \cup Confirm \cup Prove
  BY UpdateNow
<1>3. users' = users /\ Landed(m)
  BY <1>1 DEF userStore, Landed
<1>4. ASSUME NEW pc \in {"done", "failed"}, Goes(m, pc), SceneStays, TokensMove({m})
      PROVE  Moves({m}) /\ Kept(m)' /\ Lasting(m)'
  <2>1. /\ Record(pc) \in CallRecord /\ Record(pc).pc = pc /\ Record(pc).flow = call[m].flow
        /\ Record(pc).user = u /\ Record(pc).value = call[m].value
        /\ Record(pc).next = call[m].next
    BY <1>2, <1>4 DEF CallRecord
  <2>2. call' = [call EXCEPT ![m] = Record(pc)]
    BY <1>4 DEF Goes
  <2> HIDE DEF Record
  <2>3. Becomes(m, Record(pc))
    BY <1>2, <1>4, <2>1, <2>2 DEF Becomes
  <2>4. proved \subseteq proved' /\ proved' \subseteq UserId \X Login
    BY <1>1 DEF AInv, WorldTyped
  <2>5. Moves({m}) /\ call'[m] = Record(pc)
    BY <1>2, <1>4, <2>3, <2>4, OneMoves
  <2>6. Reading(m)' /\ FlowsFit(m)'
    BY <1>1, <1>2, <1>4, <2>1, <2>5 DEF Reading, FlowsFit, Kept
  <2>7. Lasting(m)'
    BY <1>2, <1>3, <2>5, StillLasting
  <2> QED
    BY <1>2, <2>5, <2>6, <2>7, KeptIs
<1>5. CASE /\ tokens' = SpendChangeLinks(m) /\ Goes(m, "done") /\ UNCHANGED scene
           /\ left' = left \cup Out(u)
  <2>1. /\ TokensMove({m})
        /\ \A l \in Link :
             /\ tokens[l] # None /\ tokens[l].userId = u /\ tokens[l].kind = "changeEmail"
             => tokens'[l].spentAt # None
    BY <1>2, <1>5, SpendMoves DEF SpendChangeLinks, AInv
  <2>2. Moves({m}) /\ Kept(m)' /\ Lasting(m)'
    BY <1>4, <1>5, <2>1, SceneSame
  <2>3. \A l \in Out(u) : l \in Link /\ tokens'[l] # None /\ tokens'[l].spentAt # None
    <3> SUFFICES ASSUME NEW l \in Out(u)
                 PROVE  l \in Link /\ tokens'[l] # None /\ tokens'[l].spentAt # None
      OBVIOUS
    <3>1. l \in Link /\ call[l].pc = "sent" /\ call[l].flow = "changeEmail" /\ call[l].user = u
      BY DEF Out
    <3>2. tokens[l] # None /\ tokens[l].kind = "changeEmail" /\ tokens[l].userId = u
      BY <3>1, LinkedNow DEF Linked, IsOut
    <3> QED
      BY <2>1, <3>1, <3>2 DEF TokensMove
  <2>4. \A l \in left : l \in Link /\ tokens'[l] # None /\ tokens'[l].spentAt # None
    BY <2>1 DEF AInv, LeftSpent, WorldTyped, TokensMove
  <2>5. left' \subseteq Link /\ LeftSpent'
    <3>1. left \subseteq Link
      BY DEF AInv, WorldTyped
    <3> HIDE DEF u
    <3> QED
      BY <1>5, <2>3, <2>4, <3>1 DEF LeftSpent
  <2> QED
    BY <1>1, <1>2, <2>2, <2>5, QuietStep
<1>6. CASE /\ scene.failures > 0 /\ scene' = [scene EXCEPT !.failures = @ - 1]
           /\ tokens' \in {tokens, SpendChangeLinks(m)} /\ Goes(m, "failed") /\ UNCHANGED left
  <2>1. TokensMove({m})
    <3>1. CASE tokens' = tokens
      BY <1>2, <3>1, TokensStay DEF AInv
    <3>2. CASE tokens' = SpendChangeLinks(m)
      BY <1>2, <3>2, SpendMoves DEF SpendChangeLinks, AInv
    <3> QED
      BY <1>6, <3>1, <3>2
  <2>2. SceneStays
    <3>1. scene \in SceneRecord
      BY DEF AInv, WorldTyped
    <3> QED
      BY <1>6, <3>1 DEF SceneRecord, SceneStays
  <2>3. Moves({m}) /\ Kept(m)' /\ Lasting(m)'
    BY <1>4, <1>6, <2>1, <2>2
  <2> QED
    BY <1>1, <1>2, <1>6, <2>3, OneStep
<1> QED
  BY <1>5, <1>6 DEF Spend

LEMMA DeleteUserKeeps ==
  ASSUME AInv, NEW u \in UserId, DeleteUser(u)
  PROVE  AInv'
<1>1. /\ Stored(u) /\ scene' = [scene EXCEPT !.deletions = @ - 1] /\ scene.deletions > 0
      /\ users' = [users EXCEPT ![u] = None]
      /\ byLogin' = dropLogins(byLogin, users[u].logins)
      /\ UNCHANGED <<tokens, call, proved, left>>
  BY DEF DeleteUser, Stored
<1>2. Moves({})
  <2>1. SceneStays
    BY <1>1 DEF AInv, WorldTyped, SceneRecord, SceneStays
  <2>2. TokensMove({})
    BY <1>1, TokensStay DEF AInv
  <2> QED
    BY <1>1, <2>1, <2>2 DEF Moves, AInv, WorldTyped
<1>3. users' \in Users /\ users'[u] = None /\ \A v \in UserId \ {u} : users'[v] = users[v]
  BY <1>1 DEF AInv, WorldTyped, Users
<1>4. /\ byLogin' \in Index
      /\ \A login \in Login :
           byLogin'[login] = IF login \in users[u].logins THEN None ELSE byLogin[login]
  BY <1>1 DEF dropLogins, AInv, WorldTyped, Index
<1>5. UsersMove
  BY <1>3 DEF UsersMove
<1>6. UsersKept'
  <2> SUFFICES ASSUME NEW v \in UserId, users'[v] # None
               PROVE  /\ Whole(users[v])' /\ Made(v)'
                      /\ (users[v].verified => Proved(v, users[v].fields.email))'
                      /\ (\A login \in users[v].logins : byLogin[login] = v)'
    BY DEF UsersKept, Stored
  <2>1. v # u /\ users'[v] = users[v] /\ Stored(v)
    BY <1>3 DEF Stored
  <2>2. \A login \in users[v].logins : byLogin'[login] = v
    <3> SUFFICES ASSUME NEW login \in users[v].logins PROVE byLogin'[login] = v
      OBVIOUS
    <3>1. login \in Login /\ byLogin[login] = v
      BY <2>1, RecordIs DEF UserRecord
    <3>2. login \notin users[u].logins
      BY <1>1, <2>1, <3>1, RecordIs
    <3> QED
      BY <1>4, <3>1, <3>2
  <2> QED
    BY <1>2, <2>1, <2>2, OtherUsers
<1>7. IndexKept'
  <2> SUFFICES ASSUME NEW login \in Login, byLogin'[login] # None
               PROVE  users'[byLogin'[login]] # None /\ login \in users'[byLogin'[login]].logins
    BY DEF IndexKept, Stored
  <2>1. byLogin'[login] = byLogin[login] /\ login \notin users[u].logins
    BY <1>4
  <2> QED
    BY <1>3, <2>1, HeldBy DEF Stored
<1>8. ASSUME NEW m \in Update, Landed(m)' PROVE Lasting(m)'
  <2>1. Landed(m)
    BY <1>1, <1>8 DEF Landed
  <2>2. call[m].user \in UserId
    BY <2>1 DEF AInv, AllLasting, Lasting, Names
  <2>3. users'[call[m].user] # None => users'[call[m].user] = users[call[m].user]
    BY <1>3, <2>2
  <2> QED
    BY <1>2, <2>1, <2>3, StillLasting
<1>9. LeftSpent' /\ left' \subseteq Link
  BY <1>1, <1>2, StillSpent DEF AInv, WorldTyped
<1> QED
  BY <1>2, <1>3, <1>4, <1>5, <1>6, <1>7, <1>8, <1>9, LoudStep

-----------------------------------------------------------------------------
(* The invariant, and what it gives.                                       *)

LEMMA InitAInv == Init => AInv
<1> SUFFICES ASSUME Init PROVE AInv
  OBVIOUS
<1>1. /\ scene \in Scene /\ tokens = [l \in Link |-> None]
      /\ call = [c \in Call |-> NewCall] /\ left = {}
  BY DEF Init
<1>2. PICK fields \in [scene.start -> scene.inputs], verified \in BOOLEAN :
        /\ \A u, v \in scene.start :
             u # v => loginsOf(scene.login, fields[u]) \cap loginsOf(scene.login, fields[v]) = {}
        /\ users = [u \in UserId |->
                      IF u \in scene.start
                        THEN [NewUser(fields[u]) EXCEPT
                                !.verified = verified /\ fields[u].email # None]
                        ELSE None]
        /\ byLogin = [login \in Login |->
                        LET holder == {u \in scene.start :
                                         login \in loginsOf(scene.login, fields[u])}
                        IN  IF holder = {} THEN None ELSE CHOOSE u \in holder : TRUE]
        /\ proved = {p \in UserId \X Login :
                       /\ p[1] \in scene.start /\ verified
                       /\ normalized(fields[p[1]].email) = p[2]}
  BY Zenon DEF Init
<1>3. /\ scene \in SceneRecord /\ scene.start \subseteq UserId /\ scene.inputs \subseteq Fields
      /\ scene.start \cap Create \cap scene.calls = {}
      /\ scene.login = "email" => \A f \in scene.inputs : f.email # None
      /\ scene.login \in {"name", "email", "none"}
  BY <1>1, AccountsAssumption DEF SceneRecord
<1>4. \A c \in Call : /\ call[c] = NewCall /\ NewCall.pc = "idle" /\ ~ NewCall.late
                      /\ NewCall \in CallRecord
  BY <1>1 DEF NewCall, CallRecord
<1> DEFINE Logins(u) == loginsOf(scene.login, fields[u])
           made(u) == verified /\ fields[u].email # None
           Start(u) == [NewUser(fields[u]) EXCEPT !.verified = made(u)]
<1>5. ASSUME NEW u \in scene.start
      PROVE  /\ u \in UserId /\ fields[u] \in Fields
             /\ scene.login = "email" => fields[u].email # None
             /\ Logins(u) \in SUBSET Login
             /\ users[u] = Start(u)
             /\ Start(u) \in UserRecord /\ Start(u).fields = fields[u]
             /\ Start(u).logins = Logins(u) /\ Start(u).verified = made(u)
  <2>1. u \in UserId /\ fields[u] \in Fields /\ (scene.login = "email" => fields[u].email # None)
    BY <1>2, <1>3
  <2>2. Logins(u) \in SUBSET Login
    BY <1>3, <2>1, LoginsTyped
  <2>3. users[u] = Start(u)
    BY <1>2, <2>1
  <2>4. made(u) \in BOOLEAN
    OBVIOUS
  <2> HIDE DEF made
  <2>5. /\ Start(u).fields = fields[u] /\ Start(u).logins = Logins(u)
        /\ Start(u) \in UserRecord
    BY <2>1, <2>2, <2>4 DEF NewUser, UserRecord
  <2>6. Start(u).verified = made(u)
    BY Zenon DEF NewUser
  <2> QED
    BY <2>1, <2>2, <2>3, <2>5, <2>6
<1>6. \A u \in UserId : u \notin scene.start => users[u] = None
  BY <1>2
<1> HIDE DEF Start, made
<1>7. users \in Users
  <2> DEFINE f(u) == IF u \in scene.start THEN Start(u) ELSE None
  <2>1. users = [u \in UserId |-> f(u)]
    BY <1>2 DEF Start, made
  <2>2. \A u \in UserId : f(u) \in UserRecord \cup {None}
    BY <1>5
  <2> HIDE DEF f
  <2> QED
    BY <2>1, <2>2 DEF Users
<1>8. ASSUME NEW login \in Login
      PROVE  /\ byLogin[login] = None => \A u \in scene.start : login \notin Logins(u)
             /\ byLogin[login] # None =>
                  byLogin[login] \in scene.start /\ login \in Logins(byLogin[login])
  <2> DEFINE holder == {u \in scene.start : login \in Logins(u)}
  <2>1. byLogin[login] = IF holder = {} THEN None ELSE CHOOSE u \in holder : TRUE
    BY <1>2
  <2>2. holder # {} => byLogin[login] \in holder
    BY <2>1
  <2>3. holder # {} => byLogin[login] # None
    BY <1>3, <2>2, NoNames
  <2> QED
    BY <2>1, <2>2, <2>3
<1>9. byLogin \in Index
  <2> DEFINE g(login) == LET holder == {u \in scene.start :
                                          login \in loginsOf(scene.login, fields[u])}
                         IN  IF holder = {} THEN None ELSE CHOOSE u \in holder : TRUE
  <2>1. byLogin = [login \in Login |-> g(login)]
    BY <1>2
  <2>2. \A login \in Login : byLogin[login] \in UserId \cup {None}
    BY <1>3, <1>8
  <2> HIDE DEF g
  <2> QED
    BY <2>1, <2>2 DEF Index
<1>10. WorldTyped
  <2>1. tokens \in Store
    BY <1>1, AccountsAssumption DEF Store
  <2>2. proved \subseteq UserId \X Login /\ left \subseteq Link
    BY <1>1, <1>2
  <2>3. call \in [Call -> CallRecord]
    BY <1>1, <1>4
  <2> QED
    BY <1>3, <1>7, <1>9, <2>1, <2>2, <2>3 DEF WorldTyped
<1>11. UsersKept
  <2> SUFFICES ASSUME NEW u \in UserId, Stored(u)
               PROVE  /\ Whole(users[u]) /\ Made(u)
                      /\ users[u].verified => Proved(u, users[u].fields.email)
                      /\ \A login \in users[u].logins : byLogin[login] = u
    BY DEF UsersKept
  <2>1. u \in scene.start
    BY <1>6 DEF Stored
  <2>2. Whole(users[u])
    BY <1>5, <2>1 DEF Whole
  <2>3. Made(u)
    BY <1>3, <2>1 DEF Made
  <2>4. users[u].verified => Proved(u, users[u].fields.email)
    <3> SUFFICES ASSUME made(u) PROVE Proved(u, fields[u].email)
      BY <1>5, <2>1
    <3>1. verified /\ fields[u].email \in Spelled
      BY <1>5, <2>1 DEF made, Fields
    <3>2. normalized(fields[u].email) \in Login
      BY <3>1, NoNames DEF normalized
    <3>3. <<u, normalized(fields[u].email)>> \in proved
      BY <1>2, <2>1, <3>1, <3>2
    <3> QED
      BY <3>3 DEF Proved
  <2>5. ASSUME NEW login \in users[u].logins PROVE byLogin[login] = u
    <3>1. login \in Login /\ login \in Logins(u)
      BY <1>5, <2>1
    <3>2. byLogin[login] \in scene.start /\ login \in Logins(byLogin[login])
      BY <1>8, <2>1, <3>1
    <3> QED
      BY <1>2, <2>1, <3>1, <3>2
  <2> QED
    BY <2>2, <2>3, <2>4, <2>5
<1>12. IndexKept
  <2> SUFFICES ASSUME NEW login \in Login, byLogin[login] # None
               PROVE  Stored(byLogin[login]) /\ login \in users[byLogin[login]].logins
    BY DEF IndexKept
  <2>1. byLogin[login] \in scene.start /\ login \in Logins(byLogin[login])
    BY <1>8
  <2> QED
    BY <1>5, <2>1, NoNames DEF Stored
<1>13. CallsKept
  <2> SUFFICES ASSUME NEW c \in Call PROVE Kept(c)
    BY DEF CallsKept
  <2>1. call[c].pc = "idle"
    BY <1>4
  <2>2. c \in Link => tokens[c] = None
    BY <1>1
  <2>3. Reading(c) /\ FlowsFit(c) /\ Opened(c) /\ Creates(c) /\ Found(c)
    BY <2>1 DEF Reading, FlowsFit, Opened, Creates, Found
  <2>4. Linked(c)
    BY <2>1, <2>2 DEF Linked, IsOut
  <2> QED
    BY <2>3, <2>4 DEF Kept
<1>14. AllLasting /\ LeftSpent /\ LeftLinksDead
  BY <1>1, <1>4, Apart DEF AllLasting, Lasting, Landed, LeftSpent, LeftLinksDead
<1> QED
  BY <1>10, <1>11, <1>12, <1>13, <1>14 DEF AInv

LEMMA StutterKeeps == AInv /\ UNCHANGED vars => AInv'
<1> SUFFICES ASSUME AInv, UNCHANGED vars PROVE AInv'
  OBVIOUS
<1>1. UNCHANGED <<scene, userStore, tokens, call, proved, left>>
  BY DEF vars, userStore
<1>2. Moves({})
  <2>1. SceneStays /\ TokensMove({})
    BY <1>1, SceneSame, TokensStay DEF AInv
  <2> QED
    BY <1>1, <2>1 DEF Moves, AInv, WorldTyped
<1>3. LeftSpent' /\ left' \subseteq Link
  BY <1>1, <1>2, StillSpent DEF AInv, WorldTyped
<1> QED
  BY <1>1, <1>2, <1>3, QuietStep

LEMMA NextAInv == AInv /\ [Next]_vars => AInv'
<1> SUFFICES ASSUME AInv, [Next]_vars PROVE AInv'
  OBVIOUS
<1>1. CASE UNCHANGED vars
  BY <1>1, StutterKeeps
<1>2. ASSUME NEW c \in Create,
             \/ \E key \in scene.values : FindHolder(c, key) \/ BeginInsert(c, "signUp", key)
             \/ BeginInsert(c, "create", None)
             \/ \E fields \in scene.inputs : InsertUser(c, fields)
             \/ FindAgain(c) \/ FindTaken(c) \/ FindTakenEmail(c)
             \/ \E l \in Link : IssueOnSignUp(c, l)
      PROVE  AInv'
  <2>1. ASSUME NEW key \in scene.values, FindHolder(c, key) PROVE AInv'
    BY <2>1, FindHolderKeeps
  <2>2. ASSUME NEW key \in scene.values, BeginInsert(c, "signUp", key) PROVE AInv'
    BY <2>2, BeginInsertKeeps
  <2>3. ASSUME BeginInsert(c, "create", None) PROVE AInv'
    <3>1. ("create" = "create" /\ None = None) \/ ("create" = "signUp" /\ None \in scene.values)
      OBVIOUS
    <3> QED
      BY <2>3, <3>1, BeginInsertKeeps
  <2>4. ASSUME NEW fields \in scene.inputs, InsertUser(c, fields) PROVE AInv'
    BY <2>4, InsertUserKeeps
  <2>5. ASSUME FindAgain(c) \/ FindTaken(c) \/ FindTakenEmail(c) PROVE AInv'
    BY <2>5, FindAgainKeeps, FindTakenKeeps, FindTakenEmailKeeps
  <2>6. ASSUME NEW l \in Link, IssueOnSignUp(c, l) PROVE AInv'
    BY <2>6, IssueOnSignUpKeeps
  <2> QED
    BY <1>2, <2>1, <2>2, <2>3, <2>4, <2>5, <2>6
<1>3. ASSUME NEW l \in Link,
             \/ \E u \in UserId : SendVerify(l, u)
             \/ \E email \in scene.values : SendPrepared(l, email)
             \/ \E u \in UserId, address \in scene.values : SendChange(l, u, address)
             \/ Issue(l) \/ SpendOthers(l)
      PROVE  AInv'
  BY <1>3, SendVerifyKeeps, SendPreparedKeeps, SendChangeKeeps, IssueKeeps, SpendOthersKeeps
<1>4. ASSUME NEW c \in Confirm,
             \/ \E l \in Link, firstProof \in BOOLEAN : SpendLink(c, l, firstProof)
             \/ FindOwner(c) \/ ReadToConfirm(c) \/ WriteConfirmed(c)
      PROVE  AInv'
  BY <1>4, SpendLinkKeeps, FindOwnerKeeps, ReadToConfirmKeeps, WriteConfirmedKeeps
<1>5. ASSUME NEW p \in Prove,
             \/ \E u \in UserId, value \in scene.values \cup {None} : ReadActive(p, u, value)
             \/ ReadActiveAgain(p)
      PROVE  AInv'
  BY <1>5, ReadActiveKeeps, ReadActiveAgainKeeps
<1>6. ASSUME NEW p \in Prove \cup Confirm, ReadToProve(p) \/ WriteProof(p)
      PROVE  AInv'
  BY <1>6, ReadToProveKeeps, WriteProofKeeps
<1>7. ASSUME NEW m \in Update,
             \/ \E u \in UserId, flow \in {"name", "email", "active"}, value \in scene.values :
                  ReadToUpdate(m, u, flow, value)
             \/ WriteUpdate(m) \/ Spend(m)
      PROVE  AInv'
  BY <1>7, ReadToUpdateKeeps, WriteUpdateKeeps, SpendKeeps
<1>8. ASSUME NEW u \in UserId, DeleteUser(u) PROVE AInv'
  BY <1>8, DeleteUserKeeps
<1> QED
  BY <1>1, <1>2, <1>3, <1>4, <1>5, <1>6, <1>7, <1>8 DEF Next

LEMMA AlwaysAInv == Spec => []AInv
BY InitAInv, NextAInv, PTL DEF Spec

(* Every record keeps its shape.                                           *)
THEOREM Typed == Spec => []TypeOK
<1>1. AInv => TypeOK
  BY DEF AInv, WorldTyped, TypeOK
<1> QED
  BY <1>1, AlwaysAInv, PTL

(* A user is found by each of their logins and by nothing else, whatever   *)
(* creations, changes and deletions race for one (UsersKept, IndexKept).   *)
THEOREM FoundByLogins == Spec => []LoginsIndexed
<1>1. AInv => LoginsIndexed
  <2> SUFFICES ASSUME AInv PROVE LoginsIndexed
    OBVIOUS
  <2>1. ASSUME NEW login \in Login, NEW u \in UserId
        PROVE  byLogin[login] = u <=> users[u] # None /\ login \in users[u].logins
    <3>1. byLogin[login] = u => users[u] # None /\ login \in users[u].logins
      BY NoNames, HeldBy DEF Stored
    <3>2. users[u] # None /\ login \in users[u].logins => byLogin[login] = u
      BY RecordIs DEF Stored
    <3> QED
      BY <3>1, <3>2
  <2>2. \A u \in UserId : users[u] # None =>
          users[u].logins = loginsOf(scene.login, users[u].fields)
    BY RecordIs DEF Stored, Whole
  <2> QED
    BY <2>1, <2>2 DEF LoginsIndexed
<1> QED
  BY <1>1, AlwaysAInv, PTL

(* Whoever findOrCreate or signUp answers with held the key, found,        *)
(* created or found after a race was lost (Found).                         *)
THEOREM AnswersHoldTheKey == Spec => []FoundHoldsKey
<1>1. AInv => FoundHoldsKey
  <2> SUFFICES ASSUME AInv, NEW c \in Create, call[c].pc = "done", call[c].flow # "create"
               PROVE  LET byEmail == normalized(call[c].read.fields.email) = Normal[call[c].value]
                          byLoginField == NormalName[call[c].value] \in call[c].read.logins
                      IN  IF call[c].flow = "signUp" THEN byLoginField \/ byEmail
                          ELSE IF scene.login = "none" THEN byEmail ELSE byLoginField
    BY DEF FoundHoldsKey
  <2>1. Found(c)
    BY Apart DEF AInv, CallsKept, Kept
  <2> QED
    BY <2>1 DEF Found
<1> QED
  BY <1>1, AlwaysAInv, PTL

(* Of writes that overlap none is lost: each lands on the record it read,  *)
(* or not at all (ReadThen, Lasting).                                      *)
THEOREM NoWriteLost == Spec => []NoLostUpdate
<1>1. AInv => NoLostUpdate
  <2> SUFFICES ASSUME AInv, NEW m \in Update, call[m].pc \in {"spend", "done", "failed"},
                      users[call[m].user] # None
               PROVE  LET Later(flows) ==
                            \E d \in Update \cup Confirm :
                              /\ call[d].flow \in flows /\ call[d].user = call[m].user
                              /\ call[d].pc \in {"spend", "done", "failed"}
                              /\ call[d].next.version > call[m].next.version
                          user == users[call[m].user]
                      IN  CASE call[m].flow = "name" ->
                                 user.fields.name = call[m].value \/ Later({"name"})
                            [] call[m].flow = "email" ->
                                 \/ user.fields.email = call[m].value
                                 \/ Later({"email", "changeEmail"})
                            [] call[m].flow = "active" ->
                                 user.active = call[m].next.active \/ Later({"active"})
    BY DEF NoLostUpdate
  <2>1. Landed(m) /\ call[m].flow \in {"name", "email", "active"}
    BY UpdateNow DEF Landed, Kept, FlowsFit
  <2>2. StillThere(m)
    BY <2>1 DEF AInv, AllLasting, Lasting, Stored
  <2>3. CASE call[m].flow = "name"
    BY <2>2, <2>3 DEF StillThere, LandedLater, Landed
  <2>4. CASE call[m].flow = "email"
    BY <2>2, <2>4 DEF StillThere, LandedLater, Landed
  <2>5. CASE call[m].flow = "active"
    BY <2>2, <2>5 DEF StillThere, LandedLater, Landed
  <2> QED
    BY <2>1, <2>3, <2>4, <2>5
<1> QED
  BY <1>1, AlwaysAInv, PTL

(* An e-mail is verified only by a proof of its own inbox (UsersKept).     *)
THEOREM VerifiedIsProved == Spec => []VerifiedByProof
<1>1. AInv => VerifiedByProof
  BY RecordIs DEF VerifiedByProof, Stored, Proved
<1> QED
  BY <1>1, AlwaysAInv, PTL

(* A change link that an update left behind is dead (LeftSpent).           *)
THEOREM LeftLinksStayDead == Spec => []LeftLinksDead
<1>1. AInv => LeftLinksDead
  BY DEF AInv
<1> QED
  BY <1>1, AlwaysAInv, PTL
=============================================================================
