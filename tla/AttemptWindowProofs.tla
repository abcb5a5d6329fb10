------------------------ MODULE AttemptWindowProofs ------------------------
(***************************************************************************)
(* Theorems about AttemptWindow for any number of calls that count at      *)
(* once, any limit, any length of a window, and any clocks that drift and  *)
(* counts that last, together, no longer than a window.                    *)
(***************************************************************************)
EXTENDS AttemptWindow, TLAPS, FiniteSetTheorems

-----------------------------------------------------------------------------
(* The methods of the token store.                                         *)

(* consumeToken keeps the store a store, and every record evolves.         *)
LEMMA ConsumeEvolves ==
  ASSUME NEW store \in Store, NEW hash \in Hash, NEW kind, NEW at \in Nat
  PROVE  /\ consumeToken(store, hash, kind, at) \in Store
         /\ \A h \in Hash : Evolved(store[h], consumeToken(store, hash, kind, at)[h])
  BY TokenStoreAssumption
  DEF consumeToken, Answer, Unspent, Evolved, Store, TokenRecord

(* countAttempt keeps the store a store, and every record evolves.         *)
LEMMA CountEvolves ==
  ASSUME NEW store \in Store, NEW hash \in Hash, NEW kind
  PROVE  /\ countAttempt(store, hash, kind) \in Store
         /\ \A h \in Hash : Evolved(store[h], countAttempt(store, hash, kind)[h])
  BY TokenStoreAssumption
  DEF countAttempt, Answer, Unspent, Evolved, Store, TokenRecord

(* spendUserTokens keeps the store a store, and every record evolves.      *)
LEMMA SpendUserEvolves ==
  ASSUME NEW store \in Store, NEW userId, NEW kind, NEW at \in Nat, NEW except
  PROVE  /\ spendUserTokens(store, userId, kind, at, except) \in Store
         /\ \A h \in Hash :
              Evolved(store[h], spendUserTokens(store, userId, kind, at, except)[h])
  BY TokenStoreAssumption
  DEF spendUserTokens, Unspent, Evolved, Store, TokenRecord

(* Both deletions keep the store a store, and every record evolves.        *)
LEMMA DeleteEvolves ==
  ASSUME NEW store \in Store, NEW userId, NEW before
  PROVE  /\ deleteUserTokens(store, userId) \in Store
         /\ \A h \in Hash : Evolved(store[h], deleteUserTokens(store, userId)[h])
         /\ deleteExpiredTokens(store, before) \in Store
         /\ \A h \in Hash : Evolved(store[h], deleteExpiredTokens(store, before)[h])
  BY TokenStoreAssumption
  DEF deleteUserTokens, deleteExpiredTokens, Evolved, Store, TokenRecord

(* insertToken changes nothing but the hash it was given, and only when    *)
(* nothing was stored there.                                               *)
LEMMA InsertKeepsOthers ==
  ASSUME NEW store \in Store, NEW hash \in Hash, NEW record \in TokenRecord
  PROVE  /\ insertToken(store, hash, record) \in Store
         /\ \A h \in Hash \ {hash} : insertToken(store, hash, record)[h] = store[h]
         /\ insertToken(store, hash, record)[hash] =
              IF store[hash] = None THEN record ELSE store[hash]
  BY DEF insertToken, Store

-----------------------------------------------------------------------------
(* The inductive invariant.                                                *)

Walking(c) == call[c].pc \in {"count", "insert", "recount"}

SpentLink(h) == tokens[h] # None /\ tokens[h].spentAt # None

(* The window of a link whose count may still be asked: no clock of a      *)
(* store has passed its end, and nobody deleted the user.                  *)
Live(h) == user /\ now + Skew < (h[1] + 2) * windowMs

(* A sign-in that succeeded and restarted this link.                       *)
Restarted(h) == \E c \in Call : call[c].pc = "done" /\ call[c].link = h

(* What a call under way knows of the links it walks.                      *)
WalkShape(c) ==
  /\ call[c].started <= now /\ now <= call[c].started + Slow
  /\ call[c].absent # None => call[c].spent < call[c].absent
  /\ call[c].pc # "count" => PlaceOf(call[c]) = call[c].spent + 1
  /\ mode = "restart" => call[c].probes < MAX_PROBES
  /\ mode # "restart" => call[c].phase = "guess"

(* What no call under way knows.                                           *)
Fresh(m) == m.spent = -1 /\ m.absent = None /\ m.probes = 0

CallShape(c) ==
  /\ IF Walking(c) THEN WalkShape(c) ELSE Fresh(call[c])
  /\ mode = "restart" => call[c].step = 0
  /\ mode = "restart" => call[c].pc \notin {"write", "prepared", "issuing"}
  /\ mode # "restart" => call[c].pc # "spend"
  /\ call[c].pc = "spend" \/ (mode = "restart" /\ call[c].pc = "done") => call[c].link # None
  /\ call[c].guess # None /\ mode = "restart" => call[c].guess[2] = 0

Shapes ==
  /\ \A c \in Call : CallShape(c)
  /\ mode # "carry" => user
  /\ mode = "restart" => step = 0

(* A link lapses one window after its own.                                 *)
Stamped ==
  \A h \in Hash : tokens[h] # None =>
    tokens[h].kind = "secondFactor" /\ tokens[h].expiresAt = (h[1] + 2) * windowMs

Under(g, h) == g[1] = h[1] /\ g[2] = h[2] /\ g[3] < h[3]

(* No link is stored before those under it are spent.                      *)
Chained ==
  \A h, g \in Hash :
    Live(h) /\ tokens[h] # None /\ Under(g, h) => SpentLink(g)

(* The link a call last saw spent is spent still.                          *)
Walked ==
  \A c \in Call, h \in Hash :
    Walking(c) /\ Live(h) /\ h = <<WindowOf(call[c].started), call[c].step, call[c].spent>>
      => SpentLink(h)

(* A link where a guess was counted is kept while its window lasts.        *)
Kept == \A c \in Call : call[c].guess # None /\ Live(call[c].guess) => tokens[call[c].guess] # None

(* Only a sign-in that succeeds spends a link of a login.                  *)
SpentByRestarts ==
  mode = "restart" =>
    \A h \in Hash : Live(h) /\ SpentLink(h) =>
      \/ Restarted(h)
      \/ h[1] = 0 /\ h[3] < MaxSpent /\ \A c \in Call : call[c].guess # h

(* So all the links where guesses were counted but the last were.          *)
RestartedBelow ==
  mode = "restart" =>
    \A c, d \in Call :
      call[c].guess # None /\ call[d].guess # None /\ Under(call[c].guess, call[d].guess)
        => Restarted(call[c].guess)

GuessedAt(h) == {c \in Call : call[c].guess = h}

GuessedBelow(h) == {c \in Call : call[c].guess # None /\ Under(call[c].guess, h)}

(* A link counted every guess let through at it.                           *)
CountedAt ==
  \A h \in Hash : Live(h) /\ tokens[h] # None => Cardinality(GuessedAt(h)) <= tokens[h].attempts

LimitedAt == user => \A h \in Hash : Cardinality(GuessedAt(h)) <= limit

(* A call carries every guess let through under the link it looks at.      *)
CarriedBelow ==
  mode # "restart" =>
    \A c \in Call : Walking(c) /\ user =>
      Cardinality(GuessedBelow(HashOf(call[c]))) <= call[c].carried

Limited == mode # "restart" => CarriedOn

Links == Stamped /\ Chained /\ Walked /\ Kept

Counts == CountedAt /\ LimitedAt /\ CarriedBelow /\ Limited

Inv == TypeOK /\ Shapes /\ Links /\ SpentByRestarts /\ RestartedBelow /\ Counts

-----------------------------------------------------------------------------
(* Windows, places and links.                                              *)

LEMMA Quotient ==
  ASSUME NEW a \in Nat, NEW n \in Nat \ {0}
  PROVE  a \div n \in Nat /\ (a \div n) * n <= a /\ a < (a \div n) * n + n
BY SMT

LEMMA QuotientGrows ==
  ASSUME NEW a \in Nat, NEW b \in Nat, a <= b, NEW n \in Nat \ {0}
  PROVE  a \div n <= b \div n
<1>0. PICK p, q : p = a \div n /\ q = b \div n
  OBVIOUS
<1>1. p \in Nat /\ q \in Nat /\ p * n <= a /\ b < q * n + n
  BY <1>0, Quotient
<1> SUFFICES ASSUME p > q PROVE FALSE
  BY <1>0, <1>1
<1>2. p - q - 1 \in Nat
  BY <1>1
<1>3. (p - q - 1) * n \in Nat
  BY <1>2
<1>4. p * n = q * n + n + (p - q - 1) * n
  BY <1>1
<1> QED
  BY <1>1, <1>3, <1>4

LEMMA TwoMore ==
  ASSUME NEW q \in Nat, NEW n \in Nat
  PROVE  (q + 2) * n = q * n + n + n
BY SMT

LEMMA Half ==
  ASSUME NEW s \in Int, NEW a \in Int, s + 2 <= a
  PROVE  (s + a) \div 2 \in Int /\ (s + a) \div 2 >= s + 1 /\ (s + a) \div 2 < a
BY SMT

LEMMA Constants ==
  /\ IsFiniteSet(Call) /\ Cardinality(Call) \in Nat
  /\ limit \in Nat \ {0} /\ MAX_LINKS \in Nat \ {0} /\ MAX_PROBES \in Nat \ {0}
  /\ windowMs \in Nat \ {0} /\ Skew \in Nat /\ Slow \in Nat
  /\ Skew + Slow <= windowMs
  /\ MaxSpent \in Nat /\ MaxLink \in Nat /\ MaxStep \in Nat /\ MaxTime \in Nat
  /\ MaxLink >= 2 * (MaxSpent + Cardinality(Call)) + 2 /\ MaxLink >= MAX_LINKS
  /\ Hash = Window \X (0..MaxStep) \X Place
  /\ None \notin Hash /\ None \notin Nat
<1>1. IsFiniteSet(Call)
  BY AttemptWindowAssumption
<1>2. Cardinality(Call) \in Nat
  BY <1>1, FS_CardinalityType
<1>3. None \notin Hash /\ None \notin Nat
  BY TokenStoreAssumption
<1> QED
  BY <1>1, <1>2, <1>3, AttemptWindowAssumption

(* The window, the step and the place of a link.                           *)
LEMMA LinkParts ==
  ASSUME NEW h \in Hash
  PROVE  /\ h[1] \in Window /\ h[2] \in 0..MaxStep /\ h[3] \in Place
         /\ h[1] \in Nat /\ h[2] \in Nat /\ h[3] \in Nat
         /\ h = <<h[1], h[2], h[3]>> /\ h # None
<1>1. h \in Window \X (0..MaxStep) \X Place
  BY Constants
<1>2. h[1] \in Window /\ h[2] \in 0..MaxStep /\ h[3] \in Place /\ h = <<h[1], h[2], h[3]>>
  BY <1>1
<1>3. h[1] \in Nat /\ h[2] \in Nat /\ h[3] \in Nat
  BY <1>2 DEF Window, Place
<1> QED
  BY <1>2, <1>3, Constants

LEMMA LinkMade ==
  ASSUME NEW w \in Window, NEW s \in 0..MaxStep, NEW p \in Place
  PROVE  /\ <<w, s, p>> \in Hash
         /\ <<w, s, p>>[1] = w /\ <<w, s, p>>[2] = s /\ <<w, s, p>>[3] = p
BY Constants

LEMMA LinkFound ==
  ASSUME NEW w \in Window, NEW s \in 0..MaxStep, NEW p \in Place
  PROVE  \E h \in Hash : h = <<w, s, p>> /\ h[1] = w /\ h[2] = s /\ h[3] = p
<1>1. <<w, s, p>> \in Hash
  BY LinkMade
<1>2. <<w, s, p>>[1] = w /\ <<w, s, p>>[2] = s /\ <<w, s, p>>[3] = p
  BY LinkMade
<1> WITNESS <<w, s, p>> \in Hash
<1> QED
  BY <1>2

LEMMA WindowTyped ==
  ASSUME NEW at \in 0..MaxTime
  PROVE  WindowOf(at) \in Window /\ WindowOf(at) \in Nat
<1>1. at \in Nat /\ at <= MaxTime /\ MaxTime \in Nat /\ windowMs \in Nat \ {0}
  BY Constants
<1>2. at \div windowMs \in Nat /\ MaxTime \div windowMs \in Nat
  BY <1>1, Quotient
<1>3. at \div windowMs <= MaxTime \div windowMs
  BY <1>1, QuotientGrows
<1> QED
  BY <1>2, <1>3 DEF WindowOf, Window

(* The records of the calls.                                               *)
LEMMA Fields ==
  ASSUME NEW m \in CallRecord
  PROVE  /\ m.phase \in {"guess", "restart"}
         /\ m.started \in 0..MaxTime /\ m.started \in Nat
         /\ m.step \in 0..MaxStep /\ m.step \in Nat
         /\ m.spent \in -1..MaxLink /\ m.spent \in Int /\ m.spent >= -1
         /\ m.absent \in Place \cup {None}
         /\ m.absent # None => m.absent \in Nat /\ m.absent \in Place
         /\ m.probes \in 0..MAX_PROBES /\ m.probes \in Nat
         /\ m.carried \in Nat
         /\ m.link \in Hash \cup {None}
         /\ m.guess \in Hash \cup {None}
<1>1. MaxLink \in Nat /\ MAX_PROBES \in Nat /\ MaxStep \in Nat /\ MaxTime \in Nat
  BY Constants
<1> QED
  BY <1>1 DEF CallRecord, Place

(* A count under way is of a window no clock has passed.                   *)
LEMMA WalkersLive ==
  ASSUME TypeOK, Shapes, user, NEW c \in Call, Walking(c),
         NEW h, h[1] = WindowOf(call[c].started)
  PROVE  Live(h)
<1>1. call[c] \in CallRecord /\ now \in 0..MaxTime
  BY DEF TypeOK
<1>2. call[c].started \in Nat /\ now \in Nat
  BY <1>1, Fields
<1>3. now <= call[c].started + Slow
  BY DEF Shapes, CallShape, WalkShape
<1>4. PICK a, q : a = call[c].started /\ q = a \div windowMs
  OBVIOUS
<1>5. windowMs \in Nat \ {0} /\ Skew \in Nat /\ Slow \in Nat /\ Skew + Slow <= windowMs
  BY Constants
<1>6. q \in Nat /\ a < q * windowMs + windowMs
  BY <1>2, <1>4, <1>5, Quotient
<1>7. (q + 2) * windowMs = q * windowMs + windowMs + windowMs
  BY <1>5, <1>6, TwoMore
<1>8. q * windowMs \in Nat
  BY <1>5, <1>6
<1>9. now + Skew < (q + 2) * windowMs
  BY <1>2, <1>3, <1>4, <1>5, <1>6, <1>7, <1>8
<1> QED
  BY <1>4, <1>9 DEF Live, WindowOf

-----------------------------------------------------------------------------
(* What a walk makes of a call, by what a link answered.                   *)

(* The place a call looks at lies above the last link it saw spent, and no *)
(* higher than the first it saw missing.                                   *)
LEMMA PlaceBetween ==
  ASSUME NEW m \in CallRecord,
         m.absent # None => m.spent < m.absent,
         mode # "restart" => m.spent + 1 < MAX_LINKS,
         mode = "restart" /\ m.absent = None => 2 * m.spent + 2 <= MaxLink
  PROVE  PlaceOf(m) \in Place /\ m.spent < PlaceOf(m)
<1>1. /\ m.spent \in Int /\ m.spent >= -1 /\ (m.absent # None => m.absent \in Place)
      /\ m.absent # None => m.absent \in Nat
  BY Fields
<1>2. MaxLink \in Nat /\ MAX_LINKS \in Nat /\ MaxLink >= MAX_LINKS /\ None \notin Nat
  BY Constants
<1>3. CASE mode # "restart" \/ m.absent = m.spent + 1
  <2>1. CASE mode # "restart"
    <3>1. PlaceOf(m) = m.spent + 1
      BY <2>1 DEF PlaceOf
    <3> QED
      BY <1>1, <1>2, <2>1, <3>1 DEF Place
  <2>2. CASE m.absent = m.spent + 1
    <3>1. m.spent + 1 \in Nat
      BY <1>1
    <3>2. m.absent # None
      BY <1>2, <2>2, <3>1
    <3>3. PlaceOf(m) = m.spent + 1
      BY <2>2, <3>2 DEF PlaceOf
    <3> QED
      BY <1>1, <2>2, <3>2, <3>3
  <2> QED
    BY <1>3, <2>1, <2>2
<1>4. CASE mode = "restart" /\ m.absent = None
  <2>1. m.spent + 1 \in Nat
    BY <1>1
  <2>2. m.absent # m.spent + 1
    BY <1>2, <1>4, <2>1
  <2>3. PlaceOf(m) = 2 * m.spent + 2
    BY <1>4, <2>2 DEF PlaceOf
  <2> QED
    BY <1>1, <1>2, <1>4, <2>3 DEF Place
<1>5. CASE mode = "restart" /\ m.absent # None /\ m.absent # m.spent + 1
  <2>1. PlaceOf(m) = (m.spent + m.absent) \div 2
    BY <1>5 DEF PlaceOf
  <2>2. m.absent \in Nat /\ m.spent + 2 <= m.absent /\ m.absent <= MaxLink
    BY <1>1, <1>2, <1>5 DEF Place
  <2>3. /\ (m.spent + m.absent) \div 2 \in Int
        /\ (m.spent + m.absent) \div 2 >= m.spent + 1
        /\ (m.spent + m.absent) \div 2 < m.absent
    BY <1>1, <2>2, Half
  <2> QED
    BY <1>1, <1>2, <2>1, <2>2, <2>3 DEF Place
<1> QED
  BY <1>3, <1>4, <1>5

(* A call that came from countInWindow with no count, or with one.         *)
LEMMA ReturnedShape ==
  ASSUME NEW m \in CallRecord, NEW pc \in {"spend", "prepared", "compare", "refused", "vanished", "failed"}
  PROVE  /\ Returned(m, pc) \in CallRecord
         /\ Returned(m, pc).pc = pc /\ Fresh(Returned(m, pc))
         /\ Returned(m, pc).phase = m.phase
         /\ Returned(m, pc).step = m.step /\ Returned(m, pc).link = m.link
         /\ Returned(m, pc).guess = m.guess
<1>1. NewCall \in CallRecord
  <2>1. MaxLink \in Nat /\ MAX_PROBES \in Nat /\ MaxTime \in Nat /\ MaxStep \in Nat
    BY Constants
  <2>2. 0 \in 0..MaxTime /\ 0 \in 0..MaxStep /\ -1 \in -1..MaxLink /\ 0 \in 0..MAX_PROBES
    BY <2>1
  <2> QED
    BY <2>2 DEF NewCall, CallRecord
<1>2. PICK phase, at, link, guess :
        phase = m.phase /\ at = m.step /\ link = m.link /\ guess = m.guess
  OBVIOUS
<1>3. /\ phase \in {"guess", "restart"} /\ at \in 0..MaxStep
      /\ link \in Hash \cup {None} /\ guess \in Hash \cup {None}
  BY <1>2, Fields
<1>4. Returned(m, pc) = [NewCall EXCEPT !.pc = pc, !.phase = phase, !.step = at,
                                        !.link = link, !.guess = guess]
  BY <1>2 DEF Returned
<1>5. pc \in {"idle", "count", "insert", "recount", "compare", "spend", "write",
              "prepared", "issuing", "done", "refused", "vanished", "failed"}
  OBVIOUS
<1>6. [NewCall EXCEPT !.pc = pc, !.phase = phase, !.step = at, !.link = link, !.guess = guess]
        \in CallRecord
  BY <1>1, <1>3, <1>5, Zenon DEF CallRecord
<1>7. PICK n : n = Returned(m, pc)
  OBVIOUS
<1>8. /\ n.pc = pc /\ Fresh(n) /\ n.phase = phase /\ n.step = at
      /\ n.link = link /\ n.guess = guess
  BY <1>4, <1>7 DEF NewCall, Fresh
<1> QED
  BY <1>2, <1>4, <1>6, <1>7, <1>8

(* A walk goes on, or ends: past MAX_LINKS, or when its probes are.        *)
LEMMA GoesOnShape ==
  ASSUME mode \in {"carry", "mail", "restart"}, NEW m \in CallRecord,
         mode # "restart" => m.spent < MAX_LINKS
  PROVE  /\ GoesOn(m) \in CallRecord
         /\ GoesOn(m).phase = m.phase /\ GoesOn(m).step = m.step
         /\ GoesOn(m).link = m.link /\ GoesOn(m).guess = m.guess
         /\ mode # "restart" => GoesOn(m).spent < MAX_LINKS - 1 /\ GoesOn(m).pc # "vanished"
         /\ \/ GoesOn(m).pc \in {"refused", "vanished"} /\ Fresh(GoesOn(m))
            \/ /\ GoesOn(m).pc \in {"count", "insert"}
               /\ GoesOn(m).started = m.started /\ GoesOn(m).spent = m.spent
               /\ GoesOn(m).absent = m.absent /\ GoesOn(m).carried = m.carried
               /\ mode = "restart" => GoesOn(m).probes < MAX_PROBES
               /\ GoesOn(m).pc = "insert" => mode = "restart" /\ m.absent = m.spent + 1
<1>1. MAX_LINKS \in Nat \ {0} /\ MAX_PROBES \in Nat \ {0} /\ m.spent \in Int /\ m.probes \in 0..MAX_PROBES
  BY Constants, Fields
<1>2. ASSUME NEW pc \in {"count", "insert"}
      PROVE  /\ [m EXCEPT !.pc = pc] \in CallRecord
             /\ [m EXCEPT !.pc = pc].pc = pc
             /\ [m EXCEPT !.pc = pc].phase = m.phase /\ [m EXCEPT !.pc = pc].step = m.step
             /\ [m EXCEPT !.pc = pc].link = m.link /\ [m EXCEPT !.pc = pc].guess = m.guess
             /\ [m EXCEPT !.pc = pc].started = m.started /\ [m EXCEPT !.pc = pc].spent = m.spent
             /\ [m EXCEPT !.pc = pc].absent = m.absent /\ [m EXCEPT !.pc = pc].carried = m.carried
             /\ [m EXCEPT !.pc = pc].probes = m.probes
  BY DEF CallRecord
<1>3. CASE mode # "restart" /\ m.spent + 1 = MAX_LINKS
  <2>1. GoesOn(m) = Returned(m, "refused")
    BY <1>3 DEF GoesOn
  <2> QED
    BY <1>1, <2>1, ReturnedShape DEF Fresh
<1>4. CASE mode # "restart" /\ m.spent + 1 # MAX_LINKS
  <2>1. GoesOn(m) = [m EXCEPT !.pc = "count"]
    BY <1>4 DEF GoesOn
  <2>2. m.spent < MAX_LINKS - 1
    BY <1>1, <1>4
  <2> QED
    BY <1>2, <1>4, <2>1, <2>2
<1>5. CASE mode = "restart" /\ m.probes = MAX_PROBES
  <2>1. GoesOn(m) = Returned(m, "vanished")
    BY <1>5 DEF GoesOn
  <2> QED
    BY <1>5, <2>1, ReturnedShape
<1>6. CASE mode = "restart" /\ m.probes # MAX_PROBES
  <2>1. PICK pc : pc = (IF m.absent = m.spent + 1 THEN "insert" ELSE "count")
    OBVIOUS
  <2>2. pc \in {"count", "insert"} /\ (pc = "insert" => m.absent = m.spent + 1)
    BY <2>1
  <2>3. GoesOn(m) = [m EXCEPT !.pc = pc]
    BY <1>6, <2>1 DEF GoesOn
  <2>4. m.probes < MAX_PROBES
    BY <1>1, <1>6
  <2> QED
    BY <1>2, <1>6, <2>2, <2>3, <2>4
<1> QED
  BY <1>3, <1>4, <1>5, <1>6

(* A walk steps over a spent link, and carries what it counted.            *)
LEMMA StepsOver ==
  ASSUME mode \in {"carry", "mail", "restart"}, NEW m \in CallRecord, NEW token \in TokenRecord,
         token.spentAt # None,
         PlaceOf(m) \in Place, m.spent < PlaceOf(m),
         mode # "restart" => m.spent + 1 < MAX_LINKS,
         mode = "restart" => m.probes < MAX_PROBES
  PROVE  /\ After(m, token) \in CallRecord
         /\ After(m, token).phase = m.phase /\ After(m, token).step = m.step
         /\ After(m, token).link = m.link /\ After(m, token).guess = m.guess
         /\ mode # "restart" => After(m, token).spent < MAX_LINKS - 1 /\ After(m, token).pc # "vanished"
         /\ \/ After(m, token).pc \in {"refused", "vanished"} /\ Fresh(After(m, token))
            \/ /\ After(m, token).pc \in {"count", "insert"}
               /\ After(m, token).started = m.started
               /\ After(m, token).spent = PlaceOf(m)
               /\ After(m, token).absent # None => PlaceOf(m) < After(m, token).absent
               /\ mode # "restart" => After(m, token).carried = m.carried + token.attempts
               /\ mode = "restart" => After(m, token).probes < MAX_PROBES
               /\ After(m, token).pc = "insert" =>
                    mode = "restart" /\ After(m, token).absent = PlaceOf(m) + 1
<1>1. PICK place, probes, absent, carried :
        /\ place = PlaceOf(m)
        /\ probes = IF mode = "restart" THEN m.probes + 1 ELSE m.probes
        /\ absent = IF m.absent # None /\ m.absent <= place THEN None ELSE m.absent
        /\ carried = IF mode # "restart" THEN m.carried + token.attempts ELSE m.carried
  OBVIOUS
<1>2. MAX_PROBES \in Nat /\ MAX_LINKS \in Nat /\ MaxLink \in Nat /\ None \notin Nat
  BY Constants
<1>3. m.spent \in Int /\ m.probes \in 0..MAX_PROBES /\ m.carried \in Nat /\ place \in Nat
  BY <1>1, <1>2, Fields DEF Place
<1>4. probes \in 0..MAX_PROBES
  BY <1>1, <1>2, <1>3
<1>5. m.absent # None => m.absent \in Nat /\ m.absent \in Place
  BY Fields
<1>6. absent \in Place \cup {None} /\ (absent # None => place < absent)
  BY <1>1, <1>3, <1>5
<1>7. token.attempts \in Nat
  BY DEF TokenRecord
<1>8. carried \in Nat /\ (mode # "restart" => carried = m.carried + token.attempts)
  BY <1>1, <1>3, <1>7
<1>9. place \in -1..MaxLink
  BY <1>1, <1>2 DEF Place
<1>10. mode # "restart" => place = m.spent + 1 /\ place < MAX_LINKS
  BY <1>1 DEF PlaceOf
<1>11. PICK q : q = [m EXCEPT !.probes = probes, !.spent = place, !.absent = absent, !.carried = carried]
  OBVIOUS
<1>12. q \in CallRecord
  BY <1>4, <1>6, <1>8, <1>9, <1>11, Zenon DEF CallRecord
<1>13. /\ q.probes = probes /\ q.spent = place /\ q.absent = absent /\ q.carried = carried
       /\ q.phase = m.phase /\ q.step = m.step /\ q.link = m.link /\ q.guess = m.guess
       /\ q.started = m.started
  BY <1>11 DEF CallRecord
<1>14. After(m, token) = GoesOn(q)
  <2>1. PICK p : p = Probed(m)
    OBVIOUS
  <2>2. p = [m EXCEPT !.probes = probes]
    BY <1>1, <2>1 DEF Probed
  <2>3. p.absent = m.absent /\ p.carried = m.carried
    BY <2>2 DEF CallRecord, Fresh
  <2>4. q = [p EXCEPT !.spent = place, !.absent = absent, !.carried = carried]
    BY <1>11, <2>2 DEF CallRecord
  <2>5. After(m, token) = GoesOn([p EXCEPT
           !.spent = place,
           !.absent = IF @ # None /\ @ <= place THEN None ELSE @,
           !.carried = IF mode # "restart" THEN @ + token.attempts ELSE @])
    BY <1>1, <2>1 DEF After
  <2>6. [p EXCEPT !.spent = place,
                  !.absent = IF @ # None /\ @ <= place THEN None ELSE @,
                  !.carried = IF mode # "restart" THEN @ + token.attempts ELSE @]
          = [p EXCEPT !.spent = place, !.absent = absent, !.carried = carried]
    BY <1>1, <2>3
  <2> QED
    BY <2>4, <2>5, <2>6
<1>15. mode # "restart" => q.spent < MAX_LINKS
  BY <1>10, <1>13
<1>16. PICK n : n = GoesOn(q)
  OBVIOUS
<1>17. /\ n \in CallRecord
       /\ n.phase = q.phase /\ n.step = q.step /\ n.link = q.link /\ n.guess = q.guess
       /\ mode # "restart" => n.spent < MAX_LINKS - 1 /\ n.pc # "vanished"
       /\ \/ n.pc \in {"refused", "vanished"} /\ Fresh(n)
          \/ /\ n.pc \in {"count", "insert"}
             /\ n.started = q.started /\ n.spent = q.spent
             /\ n.absent = q.absent /\ n.carried = q.carried
             /\ mode = "restart" => n.probes < MAX_PROBES
             /\ n.pc = "insert" => mode = "restart" /\ q.absent = q.spent + 1
  BY <1>12, <1>15, <1>16, GoesOnShape
<1> QED
  BY <1>1, <1>6, <1>8, <1>13, <1>14, <1>16, <1>17

(* A walk to a link that is missing.                                       *)
LEMMA StepsBack ==
  ASSUME mode \in {"carry", "mail", "restart"}, NEW m \in CallRecord,
         PlaceOf(m) \in Place, m.spent < PlaceOf(m),
         m.absent # None => m.spent < m.absent,
         mode # "restart" => m.spent + 1 < MAX_LINKS,
         mode = "restart" => m.probes < MAX_PROBES
  PROVE  /\ Missing(m) \in CallRecord
         /\ Missing(m).phase = m.phase /\ Missing(m).step = m.step
         /\ Missing(m).link = m.link /\ Missing(m).guess = m.guess
         /\ mode # "restart" => Missing(m).spent < MAX_LINKS - 1 /\ Missing(m).pc # "vanished"
         /\ \/ Missing(m).pc \in {"refused", "vanished"} /\ Fresh(Missing(m))
            \/ /\ Missing(m).pc \in {"count", "insert"}
               /\ Missing(m).started = m.started /\ Missing(m).spent = m.spent
               /\ Missing(m).carried = m.carried
               /\ Missing(m).absent # None => m.spent < Missing(m).absent
               /\ mode = "restart" => Missing(m).probes < MAX_PROBES
               /\ Missing(m).pc = "insert" /\ mode = "restart" => Missing(m).absent = m.spent + 1
<1>1. m.spent \in Int /\ m.probes \in 0..MAX_PROBES /\ MAX_PROBES \in Nat /\ MAX_LINKS \in Nat
  BY Constants, Fields
<1>2. CASE mode # "restart"
  <2>1. PICK n : n = [m EXCEPT !.pc = "insert"]
    OBVIOUS
  <2>2. n \in CallRecord
    BY <2>1 DEF CallRecord
  <2>3. /\ n.pc = "insert" /\ n.phase = m.phase /\ n.step = m.step /\ n.link = m.link
        /\ n.guess = m.guess /\ n.started = m.started /\ n.spent = m.spent
        /\ n.carried = m.carried /\ n.absent = m.absent
    BY <2>1 DEF CallRecord
  <2>4. Missing(m) = n
    BY <1>2, <2>1 DEF Missing
  <2>5. n.spent < MAX_LINKS - 1
    BY <1>1, <1>2, <2>3
  <2> QED
    BY <1>2, <2>2, <2>3, <2>4, <2>5
<1>3. CASE mode = "restart"
  <2>1. PICK place, probes : place = PlaceOf(m) /\ probes = m.probes + 1
    OBVIOUS
  <2>2. probes \in 0..MAX_PROBES /\ place \in Place \cup {None}
    BY <1>1, <1>3, <2>1
  <2>3. PICK q : q = [m EXCEPT !.probes = probes, !.absent = place]
    OBVIOUS
  <2>4. q \in CallRecord
    BY <2>2, <2>3, Zenon DEF CallRecord
  <2>5. /\ q.absent = place /\ q.spent = m.spent /\ q.carried = m.carried /\ q.started = m.started
        /\ q.phase = m.phase /\ q.step = m.step /\ q.link = m.link /\ q.guess = m.guess
    BY <2>3 DEF CallRecord
  <2>6. Missing(m) = GoesOn(q)
    <3>1. Probed(m) = [m EXCEPT !.probes = probes]
      BY <1>3, <2>1 DEF Probed
    <3>2. [Probed(m) EXCEPT !.absent = place] = q
      BY <2>3, <3>1 DEF CallRecord
    <3> QED
      BY <1>3, <2>1, <3>2 DEF Missing
  <2>7. PICK n : n = GoesOn(q)
    OBVIOUS
  <2>8. /\ n \in CallRecord
        /\ n.phase = q.phase /\ n.step = q.step /\ n.link = q.link /\ n.guess = q.guess
        /\ \/ n.pc \in {"refused", "vanished"} /\ Fresh(n)
           \/ /\ n.pc \in {"count", "insert"}
              /\ n.started = q.started /\ n.spent = q.spent
              /\ n.absent = q.absent /\ n.carried = q.carried
              /\ mode = "restart" => n.probes < MAX_PROBES
              /\ n.pc = "insert" => mode = "restart" /\ q.absent = q.spent + 1
    BY <1>3, <2>4, <2>7, GoesOnShape
  <2> QED
    BY <1>3, <2>1, <2>5, <2>6, <2>7, <2>8
<1> QED
  BY <1>2, <1>3

(* An attempt counted lets a guess through within the limit, refuses it,   *)
(* or says which link a sign-in restarts.                                  *)
LEMMA CountedShape ==
  ASSUME NEW m \in CallRecord, NEW h \in Hash, NEW attempts \in Nat,
         mode \in {"carry", "mail", "restart"}, mode # "restart" => m.phase = "guess"
  PROVE  /\ Counted(m, h, attempts) \in CallRecord
         /\ Fresh(Counted(m, h, attempts))
         /\ Counted(m, h, attempts).step = m.step
         /\ \/ /\ mode = "restart" /\ Counted(m, h, attempts).pc = "spend"
               /\ Counted(m, h, attempts).link = h
               /\ Counted(m, h, attempts).guess = m.guess
            \/ /\ Counted(m, h, attempts).pc = IF mode = "mail" THEN "prepared" ELSE "compare"
               /\ Counted(m, h, attempts).link = m.link
               /\ Counted(m, h, attempts).guess = h
               /\ attempts <= limit
            \/ /\ Counted(m, h, attempts).pc = "refused"
               /\ Counted(m, h, attempts).link = m.link
               /\ Counted(m, h, attempts).guess = m.guess
<1>1. m.phase \in {"guess", "restart"} /\ limit \in Nat
  BY Fields, Constants
<1>2. CASE m.phase = "restart"
  <2>1. PICK r : r = Returned(m, "spend")
    OBVIOUS
  <2>2. /\ r \in CallRecord /\ r.pc = "spend" /\ Fresh(r) /\ r.step = m.step
        /\ r.guess = m.guess
    BY <2>1, ReturnedShape
  <2>3. Counted(m, h, attempts) = [r EXCEPT !.link = h]
    BY <1>2, <2>1 DEF Counted
  <2>4. [r EXCEPT !.link = h] \in CallRecord
    <3>1. h \in Hash \cup {None}
      OBVIOUS
    <3> QED
      BY <2>2, <3>1, Zenon DEF CallRecord
  <2>5. /\ [r EXCEPT !.link = h].pc = "spend" /\ Fresh([r EXCEPT !.link = h])
        /\ [r EXCEPT !.link = h].step = m.step /\ [r EXCEPT !.link = h].guess = m.guess
        /\ [r EXCEPT !.link = h].link = h
    BY <2>2 DEF CallRecord, Fresh
  <2> QED
    BY <1>2, <2>3, <2>4, <2>5
<1>3. CASE m.phase = "guess" /\ attempts <= limit
  <2>0. PICK pc : pc = IF mode = "mail" THEN "prepared" ELSE "compare"
    OBVIOUS
  <2>1. PICK r : r = Returned(m, pc)
    OBVIOUS
  <2>2. /\ r \in CallRecord /\ r.pc = pc /\ Fresh(r) /\ r.step = m.step
        /\ r.link = m.link
    BY <2>0, <2>1, ReturnedShape
  <2>3. Counted(m, h, attempts) = [r EXCEPT !.guess = h]
    <3>1. m.phase # "restart" /\ ~ (attempts > limit)
      BY <1>1, <1>3
    <3> QED
      BY <1>3, <2>0, <2>1, <3>1 DEF Counted
  <2>4. [r EXCEPT !.guess = h] \in CallRecord
    <3>1. h \in Hash \cup {None}
      OBVIOUS
    <3> QED
      BY <2>2, <3>1, Zenon DEF CallRecord
  <2>5. /\ [r EXCEPT !.guess = h].pc = pc /\ Fresh([r EXCEPT !.guess = h])
        /\ [r EXCEPT !.guess = h].step = m.step /\ [r EXCEPT !.guess = h].guess = h
        /\ [r EXCEPT !.guess = h].link = m.link
    BY <2>2 DEF CallRecord, Fresh
  <2> QED
    BY <1>3, <2>0, <2>3, <2>4, <2>5
<1>4. CASE m.phase = "guess" /\ attempts > limit
  <2>1. Counted(m, h, attempts) = Returned(m, "refused")
    <3>1. m.phase # "restart" /\ ~ (attempts <= limit)
      BY <1>1, <1>4
    <3> QED
      BY <1>4, <3>1 DEF Counted
  <2> QED
    BY <2>1, ReturnedShape
<1> QED
  BY <1>1, <1>2, <1>3, <1>4

-----------------------------------------------------------------------------
(* Where a walk is.                                                        *)

LEMMA StateTyped ==
  ASSUME TypeOK
  PROVE  /\ mode \in {"carry", "mail", "restart"} /\ now \in 0..MaxTime /\ now \in Nat
         /\ step \in 0..MaxStep /\ user \in BOOLEAN
         /\ tokens \in Store /\ \A h \in Hash : tokens[h] # None => tokens[h] \in TokenRecord
         /\ call \in [Call -> CallRecord] /\ \A c \in Call : call[c] \in CallRecord
         /\ \A c \in Call : mode # "restart" => call[c].spent < MAX_LINKS - 1
<1>1. mode \in {"carry", "mail", "restart"}
  BY AttemptWindowAssumption DEF TypeOK
<1>2. now \in 0..MaxTime /\ now \in Nat
  BY Constants DEF TypeOK
<1> QED
  BY <1>1, <1>2 DEF TypeOK, Store

(* Every link up to the last one a walk saw spent is spent.                *)
LEMMA SpentUpTo ==
  ASSUME TypeOK, Shapes, Links, user, NEW c \in Call, Walking(c),
         NEW g \in Hash, g[1] = WindowOf(call[c].started), g[2] = call[c].step,
         g[3] <= call[c].spent
  PROVE  SpentLink(g)
<1>1. call[c] \in CallRecord
  BY StateTyped
<1>2. PICK w, s, p : w = WindowOf(call[c].started) /\ s = call[c].step /\ p = call[c].spent
  OBVIOUS
<1>3. w \in Window /\ s \in 0..MaxStep /\ p \in -1..MaxLink /\ p \in Int
  BY <1>1, <1>2, Fields, WindowTyped
<1>4. g[3] \in Nat /\ g = <<g[1], g[2], g[3]>>
  BY LinkParts
<1>5. p \in Place
  BY <1>2, <1>3, <1>4, Constants DEF Place
<1>6. PICK h \in Hash : h = <<w, s, p>> /\ h[1] = w /\ h[2] = s /\ h[3] = p
  BY <1>3, <1>5, LinkFound
<1>7. Live(h)
  BY <1>2, <1>6, WalkersLive
<1>8. SpentLink(h)
  BY <1>2, <1>6, <1>7 DEF Links, Walked
<1>9. CASE g[3] = p
  BY <1>2, <1>4, <1>6, <1>8, <1>9
<1>10. CASE g[3] < p
  <2>1. Under(g, h)
    BY <1>2, <1>6, <1>10 DEF Under
  <2> QED
    BY <1>7, <1>8, <2>1 DEF Links, Chained, SpentLink
<1> QED
  BY <1>2, <1>3, <1>4, <1>9, <1>10

(* Every link spent at a login, but those spent before, was spent by a     *)
(* sign-in of its own: so no walk passes the last place.                   *)
LEMMA WalkBounded ==
  ASSUME TypeOK, Shapes, Links, SpentByRestarts, mode = "restart",
         NEW c \in Call, Walking(c)
  PROVE  2 * call[c].spent + 2 <= MaxLink
<1>1. call[c] \in CallRecord /\ user /\ call[c].step = 0
  BY StateTyped DEF Shapes, CallShape
<1>2. PICK w, s : w = WindowOf(call[c].started) /\ s = call[c].spent
  OBVIOUS
<1>3. w \in Window /\ s \in -1..MaxLink /\ s \in Int /\ 0 \in 0..MaxStep
  BY <1>1, <1>2, Fields, WindowTyped
<1>4. /\ IsFiniteSet(Call) /\ Cardinality(Call) \in Nat /\ MaxSpent \in Nat /\ MaxLink \in Nat
      /\ MaxLink >= 2 * (MaxSpent + Cardinality(Call)) + 2
  BY Constants
<1>5. CASE s < MaxSpent
  BY <1>2, <1>3, <1>4, <1>5
<1>6. CASE s >= MaxSpent
  <2>1. ASSUME NEW p \in MaxSpent..s
        PROVE  \E d \in Call : call[d].pc = "done" /\ call[d].link = <<w, 0, p>>
    <3>1. p \in Place
      BY <1>3, <1>4 DEF Place
    <3>2. PICK h \in Hash : h = <<w, 0, p>> /\ h[1] = w /\ h[2] = 0 /\ h[3] = p
      BY <1>3, <3>1, LinkFound
    <3>3. h[3] <= call[c].spent
      BY <1>2, <3>2
    <3>4. SpentLink(h)
      BY <1>1, <1>2, <3>2, <3>3, SpentUpTo
    <3>5. Live(h)
      BY <1>1, <1>2, <3>2, WalkersLive
    <3>6. ~ (h[3] < MaxSpent)
      BY <1>4, <3>2
    <3>7. Restarted(h)
      BY <3>4, <3>5, <3>6 DEF SpentByRestarts
    <3> QED
      BY <3>2, <3>7 DEF Restarted
  <2>2. PICK by : by = [p \in MaxSpent..s |->
                         CHOOSE d \in Call : call[d].pc = "done" /\ call[d].link = <<w, 0, p>>]
    OBVIOUS
  <2>3. \A p \in MaxSpent..s : by[p] \in Call /\ call[by[p]].link = <<w, 0, p>>
    BY <2>1, <2>2
  <2>4. by \in [MaxSpent..s -> Call]
    BY <2>2, <2>3
  <2>5. by \in Injection(MaxSpent..s, Call)
    <3>1. ASSUME NEW p \in MaxSpent..s, NEW q \in MaxSpent..s, by[p] = by[q] PROVE p = q
      <4>1. <<w, 0, p>> = <<w, 0, q>>
        BY <2>3, <3>1
      <4> QED
        BY <4>1
    <3> QED
      BY <2>4, <3>1 DEF Injection, IsInjective
  <2>6. Cardinality(MaxSpent..s) <= Cardinality(Call)
    BY <1>4, <2>5, FS_Injection
  <2>7. Cardinality(MaxSpent..s) = s - MaxSpent + 1
    <3>1. MaxSpent \in Int /\ s \in Int /\ ~ (MaxSpent > s)
      BY <1>3, <1>4, <1>6
    <3> QED
      BY <3>1, FS_Interval
  <2> QED
    BY <1>2, <1>3, <1>4, <2>6, <2>7
<1> QED
  BY <1>3, <1>4, <1>5, <1>6

(* The link a call looks at, above the last one it saw spent.              *)
LEMMA WalkPlace ==
  ASSUME TypeOK, Shapes, Links, SpentByRestarts, NEW c \in Call, Walking(c)
  PROVE  /\ PlaceOf(call[c]) \in Place /\ call[c].spent < PlaceOf(call[c])
         /\ HashOf(call[c]) \in Hash
         /\ HashOf(call[c])[1] = WindowOf(call[c].started)
         /\ HashOf(call[c])[2] = call[c].step
         /\ HashOf(call[c])[3] = PlaceOf(call[c])
         /\ user => Live(HashOf(call[c]))
<1>1. call[c] \in CallRecord /\ MAX_LINKS \in Nat
  BY StateTyped, Constants
<1>2. WalkShape(c)
  BY DEF Shapes, CallShape
<1>3. mode # "restart" => call[c].spent + 1 < MAX_LINKS
  BY <1>1, StateTyped, Fields
<1>4. mode = "restart" => 2 * call[c].spent + 2 <= MaxLink
  BY WalkBounded
<1>5. PlaceOf(call[c]) \in Place /\ call[c].spent < PlaceOf(call[c])
  BY <1>1, <1>2, <1>3, <1>4, PlaceBetween DEF WalkShape
<1>6. WindowOf(call[c].started) \in Window /\ call[c].step \in 0..MaxStep
  BY <1>1, Fields, WindowTyped
<1>7. /\ HashOf(call[c]) \in Hash
      /\ HashOf(call[c])[1] = WindowOf(call[c].started)
      /\ HashOf(call[c])[2] = call[c].step
      /\ HashOf(call[c])[3] = PlaceOf(call[c])
  BY <1>5, <1>6, LinkMade DEF HashOf
<1>8. user => Live(HashOf(call[c]))
  BY <1>7, WalkersLive
<1> QED
  BY <1>5, <1>7, <1>8

(* Where there is no gap, every link under the one a call looks at is      *)
(* spent.                                                                  *)
LEMMA SpentUnder ==
  ASSUME TypeOK, Shapes, Links, SpentByRestarts, user, NEW c \in Call, Walking(c),
         mode # "restart" \/ call[c].pc # "count",
         NEW g \in Hash, Under(g, HashOf(call[c]))
  PROVE  SpentLink(g)
<1>1. call[c] \in CallRecord /\ call[c].spent \in Int
  BY StateTyped, Fields
<1>2. PlaceOf(call[c]) = call[c].spent + 1
  BY DEF Shapes, CallShape, WalkShape, PlaceOf
<1>3. /\ HashOf(call[c])[1] = WindowOf(call[c].started)
      /\ HashOf(call[c])[2] = call[c].step
      /\ HashOf(call[c])[3] = PlaceOf(call[c])
  BY WalkPlace
<1>4. g[3] \in Nat
  BY LinkParts
<1>5. g[1] = WindowOf(call[c].started) /\ g[2] = call[c].step /\ g[3] <= call[c].spent
  BY <1>1, <1>2, <1>3, <1>4 DEF Under
<1> QED
  BY <1>5, SpentUpTo

-----------------------------------------------------------------------------
(* What a step does to the calls and the links.                            *)

(* One call changed, of one count, in one store.                           *)
Only(c) ==
  /\ UNCHANGED <<mode, now, user>>
  /\ step' \in 0..MaxStep /\ (mode = "restart" => step' = step)
  /\ call' \in [Call -> CallRecord]
  /\ \A d \in Call \ {c} : call'[d] = call[d]
  /\ mode # "restart" => call'[c].spent < MAX_LINKS - 1

SameHistory(c) == call'[c].guess = call[c].guess /\ call'[c].link = call[c].link

(* The link looked at counted an attempt: the walk is over.                *)
Adds(c) ==
  /\ Unspent(tokens[HashOf(call[c])])
  /\ tokens' = [tokens EXCEPT ![HashOf(call[c])].attempts = @ + 1]
  /\ call'[c].step = call[c].step
  /\ Fresh(call'[c])
  /\ \/ /\ mode = "restart" /\ call'[c].pc = "spend"
        /\ call'[c].link = HashOf(call[c]) /\ call'[c].guess = call[c].guess
     \/ /\ call'[c].pc = IF mode = "mail" THEN "prepared" ELSE "compare"
        /\ call'[c].link = call[c].link /\ call'[c].guess = HashOf(call[c])
        /\ (IF mode = "restart" THEN 0 ELSE call[c].carried) + tokens[HashOf(call[c])].attempts + 1
             <= limit
     \/ call'[c].pc = "refused" /\ SameHistory(c)

(* The link looked at is spent, or missing: the walk goes on, or ends.     *)
Steps(c) ==
  /\ tokens' = tokens
  /\ SameHistory(c)
  /\ call'[c].step = call[c].step
  /\ call'[c].pc = "vanished" =>
       mode = "restart" \/ (call[c].pc = "recount" /\ tokens[HashOf(call[c])] = None)
  /\ \/ call'[c].pc \in {"refused", "vanished"} /\ Fresh(call'[c])
     \/ /\ call'[c].pc \in {"count", "insert"}
        /\ (WalkShape(c))'
        /\ call'[c].started = call[c].started
        /\ \/ call'[c].spent = call[c].spent /\ call'[c].carried = call[c].carried
           \/ /\ SpentLink(HashOf(call[c]))
              /\ call'[c].spent = PlaceOf(call[c])
              /\ mode # "restart" =>
                   call'[c].carried = call[c].carried + tokens[HashOf(call[c])].attempts

(* The link looked at is stored, unless it was meanwhile.                  *)
Inserts(c) ==
  /\ Walking(c) /\ call[c].pc = "insert" /\ call'[c].pc = "recount"
  /\ SameHistory(c) /\ (WalkShape(c))'
  /\ call'[c].step = call[c].step /\ call'[c].started = call[c].started
  /\ call'[c].spent = call[c].spent /\ call'[c].carried = call[c].carried
  /\ tokens' \in Store
  /\ \A h \in Hash \ {HashOf(call[c])} : tokens'[h] = tokens[h]
  /\ IF tokens[HashOf(call[c])] # None THEN tokens' = tokens
     ELSE LET link == tokens'[HashOf(call[c])]
          IN  /\ link # None /\ link.kind = "secondFactor"
              /\ link.attempts = 0 /\ link.spentAt = None
              /\ link.expiresAt = (HashOf(call[c])[1] + 2) * windowMs

(* A count begins at the first link.                                       *)
Starts(c) ==
  /\ ~ Walking(c) /\ call[c].pc # "done" /\ call'[c].pc = "count"
  /\ SameHistory(c) /\ (WalkShape(c))'
  /\ call'[c].spent = -1
  /\ mode = "restart" => call'[c].step = 0
  /\ tokens' = tokens

(* A sign-in succeeded.                                                    *)
Spends(c) ==
  /\ mode = "restart" /\ call[c].pc = "spend" /\ call'[c].pc = "done"
  /\ SameHistory(c) /\ Fresh(call'[c]) /\ call'[c].step = call[c].step
  /\ tokens' = consumeToken(tokens, call[c].link, "secondFactor", now)

(* A step of a call that asks for no link.                                 *)
Rests(c) ==
  /\ call[c].pc # "done" /\ SameHistory(c) /\ Fresh(call'[c])
  /\ call'[c].step = call[c].step
  /\ call'[c].pc \in {"refused", "write", "issuing", "done", "failed"}
  /\ mode = "restart" => call'[c].pc \in {"refused", "failed"}
  /\ tokens' = tokens

(* Links are spent by a password written, or dropped: none in its window.  *)
Forgets ==
  /\ UNCHANGED <<mode, now, step, user, call>>
  /\ tokens' \in Store
  /\ \A h \in Hash :
       /\ Evolved(tokens[h], tokens'[h])
       /\ Live(h) /\ tokens[h] # None => tokens'[h] # None
       /\ mode = "restart" /\ tokens'[h] # None => tokens'[h] = tokens[h]

(* Time passes, or the user is deleted.                                    *)
Passes ==
  /\ UNCHANGED <<mode, tokens, step, call>>
  /\ now' \in 0..MaxTime /\ now <= now'
  /\ user' \in BOOLEAN /\ (user' => user) /\ (mode # "carry" => user' = user)
  /\ \A c \in Call : Walking(c) => now' <= call[c].started + Slow

Moves(c) ==
  /\ Only(c)
  /\ \/ Walking(c) /\ (Adds(c) \/ Steps(c))
     \/ Inserts(c) \/ Starts(c) \/ Spends(c) \/ Rests(c)

LEMMA OneCall ==
  ASSUME TypeOK, NEW c \in Call, NEW n \in CallRecord, call' = [call EXCEPT ![c] = n]
  PROVE  /\ call' \in [Call -> CallRecord] /\ call'[c] = n
         /\ \A d \in Call \ {c} : call'[d] = call[d]
BY StateTyped

LEMMA CountEffect ==
  ASSUME Inv, NEW c \in Call, CountLink(c) \/ CountInserted(c)
  PROVE  Walking(c) /\ Only(c) /\ (Adds(c) \/ Steps(c))
<1>0. TypeOK /\ Shapes /\ Links /\ SpentByRestarts
  BY DEF Inv
<1>1. Walking(c) /\ UNCHANGED <<mode, now, step, user>>
  BY DEF CountLink, CountInserted, Walking
<1>2. PICK m, h : m = call[c] /\ h = HashOf(m)
  OBVIOUS
<1>3. /\ mode \in {"carry", "mail", "restart"} /\ tokens \in Store /\ m \in CallRecord
      /\ mode # "restart" => m.spent < MAX_LINKS - 1
  BY <1>0, <1>2, StateTyped
<1>4. h \in Hash /\ PlaceOf(m) \in Place /\ m.spent < PlaceOf(m)
  BY <1>0, <1>1, <1>2, WalkPlace
<1>5. WalkShape(c) /\ CallShape(c)
  BY <1>0, <1>1 DEF Shapes, CallShape
<1>6. /\ m.absent # None => m.spent < m.absent
      /\ mode = "restart" => m.probes < MAX_PROBES
      /\ mode # "restart" => m.phase = "guess"
      /\ m.started <= now /\ now <= m.started + Slow
  BY <1>2, <1>5 DEF WalkShape
<1>7. mode # "restart" => m.spent + 1 < MAX_LINKS
  BY <1>3, Constants, Fields
<1>8. tokens[h] # None => tokens[h] \in TokenRecord /\ Answer(tokens, h, "secondFactor") = tokens[h]
  BY <1>0, <1>3, <1>4 DEF Answer, Links, Stamped, Store
<1>9. PICK counted, token :
        /\ counted = countAttempt(tokens, h, "secondFactor")
        /\ token = Answer(counted, h, "secondFactor")
  OBVIOUS
<1>10. /\ tokens' = counted
       /\ \/ token = None /\ call' = [call EXCEPT ![c] = Missing(m)] /\ m.pc = "count"
          \/ /\ token = None /\ call' = [call EXCEPT ![c] = Returned(m, "vanished")]
             /\ m.pc = "recount"
          \/ token # None /\ call' = [call EXCEPT ![c] = After(m, token)]
  BY <1>2, <1>9, Zenon DEF CountLink, CountInserted
<1>11. ASSUME NEW n, n.pc \in {"count", "insert"}, call'[c] = n, n.started = m.started,
              n.phase = m.phase, n.spent \in Int, n.spent >= -1,
              n.absent # None => n.spent < n.absent,
              mode = "restart" => n.probes < MAX_PROBES,
              n.pc = "insert" /\ mode = "restart" => n.absent = n.spent + 1
       PROVE  (WalkShape(c))'
  <2>1. n.pc # "count" => (PlaceOf(call[c]))' = n.spent + 1
    <3>1. CASE mode # "restart"
      BY <1>1, <1>11, <3>1 DEF PlaceOf
    <3>2. CASE n.pc = "insert" /\ mode = "restart"
      <4>1. n.absent # None
        <5>1. n.spent + 1 \in Nat /\ None \notin Nat
          BY <1>11, Constants
        <5> QED
          BY <1>11, <3>2, <5>1
      <4> QED
        BY <1>1, <1>11, <3>2, <4>1 DEF PlaceOf
    <3> QED
      BY <1>11, <3>1, <3>2
  <2> QED
    BY <1>1, <1>6, <1>11, <2>1 DEF WalkShape
<1>12. CASE token # None /\ tokens[h] # None /\ tokens[h].spentAt = None
  <2>1. Unspent(tokens[h]) /\ counted = [tokens EXCEPT ![h].attempts = @ + 1]
    BY <1>8, <1>9, <1>12 DEF countAttempt, Unspent
  <2>2. /\ tokens[h].attempts \in Nat
        /\ counted[h] = [tokens[h] EXCEPT !.attempts = tokens[h].attempts + 1]
    BY <1>3, <1>4, <1>8, <1>12, <2>1 DEF Store, TokenRecord
  <2>3. /\ counted[h].attempts = tokens[h].attempts + 1 /\ counted[h].spentAt = None
        /\ counted[h].kind = tokens[h].kind
    BY <1>8, <1>12, <2>2 DEF TokenRecord
  <2>4. token.spentAt = None /\ token.attempts = tokens[h].attempts + 1
    BY <1>9, <1>12, <2>3 DEF Answer
  <2>5. PICK attempts : attempts = m.carried + token.attempts
    OBVIOUS
  <2>6. m.carried \in Nat /\ attempts \in Nat
    BY <1>3, <2>2, <2>4, <2>5, Fields
  <2>7. call' = [call EXCEPT ![c] = Counted(m, h, attempts)]
    BY <1>2, <1>10, <1>12, <2>4, <2>5 DEF After
  <2>8. PICK n : n = Counted(m, h, attempts)
    OBVIOUS
  <2>9. /\ n \in CallRecord /\ Fresh(n) /\ n.step = m.step
        /\ \/ mode = "restart" /\ n.pc = "spend" /\ n.link = h /\ n.guess = m.guess
           \/ /\ n.pc = IF mode = "mail" THEN "prepared" ELSE "compare"
              /\ n.link = m.link /\ n.guess = h /\ attempts <= limit
           \/ n.pc = "refused" /\ n.link = m.link /\ n.guess = m.guess
    BY <1>3, <1>4, <1>6, <2>6, <2>8, CountedShape
  <2>10. call' \in [Call -> CallRecord] /\ call'[c] = n /\ \A d \in Call \ {c} : call'[d] = call[d]
    BY <1>0, <2>7, <2>8, <2>9, OneCall
  <2>11. Only(c)
    <3>1. -1 < MAX_LINKS - 1
      BY Constants
    <3> QED
      BY <1>1, <2>9, <2>10, <3>1, <1>0, StateTyped DEF Only, Fresh
  <2>12. attempts <= limit =>
           (IF mode = "restart" THEN 0 ELSE call[c].carried) + tokens[h].attempts + 1 <= limit
    BY <1>2, <2>2, <2>4, <2>5, <2>6, Constants
  <2>13. tokens' = [tokens EXCEPT ![h].attempts = @ + 1]
    BY <1>10, <2>1
  <2>14. Adds(c)
    BY <1>2, <2>1, <2>9, <2>10, <2>12, <2>13, Zenon DEF Adds, SameHistory
  <2> QED
    BY <1>1, <2>11, <2>14
<1>13. CASE token # None /\ tokens[h] # None /\ tokens[h].spentAt # None
  <2>1. counted = tokens /\ token = tokens[h]
    BY <1>8, <1>9, <1>13 DEF countAttempt, Unspent
  <2>2. token \in TokenRecord /\ SpentLink(h)
    BY <1>8, <1>13, <2>1 DEF SpentLink
  <2>3. PICK n : n = After(m, token)
    OBVIOUS
  <2>4. /\ n \in CallRecord /\ n.phase = m.phase /\ n.step = m.step
        /\ n.link = m.link /\ n.guess = m.guess
        /\ mode # "restart" => n.spent < MAX_LINKS - 1 /\ n.pc # "vanished"
        /\ \/ n.pc \in {"refused", "vanished"} /\ Fresh(n)
           \/ /\ n.pc \in {"count", "insert"} /\ n.started = m.started
              /\ n.spent = PlaceOf(m)
              /\ n.absent # None => PlaceOf(m) < n.absent
              /\ mode # "restart" => n.carried = m.carried + token.attempts
              /\ mode = "restart" => n.probes < MAX_PROBES
              /\ n.pc = "insert" => mode = "restart" /\ n.absent = PlaceOf(m) + 1
    BY <1>3, <1>4, <1>6, <1>7, <1>13, <2>1, <2>2, <2>3, StepsOver
  <2>5. call' \in [Call -> CallRecord] /\ call'[c] = n /\ \A d \in Call \ {c} : call'[d] = call[d]
    BY <1>0, <1>10, <1>13, <2>3, <2>4, OneCall
  <2>6. Only(c)
    BY <1>0, <1>1, <2>4, <2>5, StateTyped DEF Only
  <2>7. n.spent \in Int /\ n.spent >= -1
    BY <2>4, Fields
  <2>8. n.pc \in {"count", "insert"} => (WalkShape(c))'
    <3>1. n.pc \in {"count", "insert"} =>
            /\ n.absent # None => n.spent < n.absent
            /\ n.pc = "insert" /\ mode = "restart" => n.absent = n.spent + 1
            /\ n.started = m.started /\ (mode = "restart" => n.probes < MAX_PROBES)
      BY <2>4
    <3> QED
      BY <1>11, <2>4, <2>5, <2>7, <3>1
  <2>9. Steps(c)
    BY <1>2, <1>10, <2>1, <2>2, <2>4, <2>5, <2>8 DEF Steps, SameHistory
  <2> QED
    BY <1>1, <2>6, <2>9
<1>14. CASE tokens[h] = None \/ token = None
  <2>1. counted = tokens /\ token = None
    <3>1. CASE tokens[h] = None
      BY <1>9, <3>1 DEF countAttempt, Answer, Unspent
    <3>2. CASE tokens[h] # None /\ tokens[h].spentAt # None
      <4>1. counted = tokens
        BY <1>8, <1>9, <3>2 DEF countAttempt, Unspent
      <4> QED
        BY <1>8, <1>9, <1>14, <3>2, <4>1
    <3>3. CASE tokens[h] # None /\ tokens[h].spentAt = None
      <4>1. counted \in Store /\ Evolved(tokens[h], counted[h])
        BY <1>3, <1>4, <1>9, CountEvolves
      <4>2. counted = [tokens EXCEPT ![h].attempts = @ + 1]
        BY <1>8, <1>9, <3>3 DEF countAttempt, Unspent
      <4>3. /\ counted[h] = [tokens[h] EXCEPT !.attempts = tokens[h].attempts + 1]
            /\ tokens[h].attempts \in Nat
        BY <1>3, <1>4, <1>8, <3>3, <4>2 DEF Store, TokenRecord
      <4>4. counted[h] \in TokenRecord /\ counted[h].kind = tokens[h].kind
        BY <1>8, <3>3, <4>3 DEF TokenRecord
      <4>5. tokens[h].kind = "secondFactor"
        BY <1>0, <1>4, <3>3 DEF Links, Stamped
      <4>6. token = counted[h] /\ token # None
        BY <1>9, <4>4, <4>5, TokenStoreAssumption DEF Answer
      <4> QED
        BY <1>14, <3>3, <4>6
    <3> QED
      BY <3>1, <3>2, <3>3
  <2>2. tokens[h] = None
    BY <1>8, <1>9, <2>1
  <2>3. CASE call' = [call EXCEPT ![c] = Missing(m)]
    <3>1. PICK n : n = Missing(m)
      OBVIOUS
    <3>2. /\ n \in CallRecord /\ n.phase = m.phase /\ n.step = m.step
          /\ n.link = m.link /\ n.guess = m.guess
          /\ mode # "restart" => n.spent < MAX_LINKS - 1 /\ n.pc # "vanished"
          /\ \/ n.pc \in {"refused", "vanished"} /\ Fresh(n)
             \/ /\ n.pc \in {"count", "insert"} /\ n.started = m.started
                /\ n.spent = m.spent /\ n.carried = m.carried
                /\ n.absent # None => m.spent < n.absent
                /\ mode = "restart" => n.probes < MAX_PROBES
                /\ n.pc = "insert" /\ mode = "restart" => n.absent = m.spent + 1
      BY <1>3, <1>4, <1>6, <1>7, <3>1, StepsBack
    <3>3. call' \in [Call -> CallRecord] /\ call'[c] = n /\ \A d \in Call \ {c} : call'[d] = call[d]
      BY <1>0, <2>3, <3>1, <3>2, OneCall
    <3>4. Only(c)
      BY <1>0, <1>1, <3>2, <3>3, StateTyped DEF Only
    <3>5. n.spent \in Int /\ n.spent >= -1
      BY <3>2, Fields
    <3>6. n.pc \in {"count", "insert"} => (WalkShape(c))'
      <4>1. n.pc \in {"count", "insert"} =>
              /\ n.absent # None => n.spent < n.absent
              /\ n.pc = "insert" /\ mode = "restart" => n.absent = n.spent + 1
              /\ n.started = m.started /\ (mode = "restart" => n.probes < MAX_PROBES)
        BY <3>2
      <4> QED
        BY <1>11, <3>2, <3>3, <3>5, <4>1
    <3>7. Steps(c)
      BY <1>2, <1>10, <2>1, <3>2, <3>3, <3>6 DEF Steps, SameHistory
    <3> QED
      BY <1>1, <3>4, <3>7
  <2>4. CASE call' = [call EXCEPT ![c] = Returned(m, "vanished")] /\ m.pc = "recount"
    <3>1. PICK n : n = Returned(m, "vanished")
      OBVIOUS
    <3>2. /\ n \in CallRecord /\ n.pc = "vanished" /\ Fresh(n) /\ n.step = m.step
          /\ n.link = m.link /\ n.guess = m.guess
      BY <1>3, <3>1, ReturnedShape
    <3>3. call' \in [Call -> CallRecord] /\ call'[c] = n /\ \A d \in Call \ {c} : call'[d] = call[d]
      BY <1>0, <2>4, <3>1, <3>2, OneCall
    <3>4. Only(c)
      <4>1. -1 < MAX_LINKS - 1
        BY Constants
      <4> QED
        BY <1>1, <3>2, <3>3, <4>1, <1>0, StateTyped DEF Only, Fresh
    <3>5. Steps(c)
      BY <1>2, <1>10, <2>1, <2>2, <2>4, <3>2, <3>3 DEF Steps, SameHistory
    <3> QED
      BY <1>1, <3>4, <3>5
  <2> QED
    BY <1>10, <2>1, <2>3, <2>4
<1> QED
  BY <1>12, <1>13, <1>14

LEMMA InsertEffect ==
  ASSUME Inv, NEW c \in Call, InsertLink(c)
  PROVE  Only(c) /\ Inserts(c)
<1>0. TypeOK /\ Shapes /\ Links /\ SpentByRestarts
  BY DEF Inv
<1>1. /\ call[c].pc = "insert" /\ Walking(c) /\ UNCHANGED <<mode, now, step, user>>
      /\ call' = [call EXCEPT ![c].pc = "recount"]
      /\ tokens' = insertToken(tokens, HashOf(call[c]), Link(call[c].started, 0, None))
  BY DEF InsertLink, Walking
<1>2. PICK m, h : m = call[c] /\ h = HashOf(m)
  OBVIOUS
<1>3. m \in CallRecord /\ tokens \in Store /\ (mode # "restart" => m.spent < MAX_LINKS - 1)
  BY <1>0, <1>2, StateTyped
<1>4. h \in Hash /\ h[1] = WindowOf(m.started)
  BY <1>0, <1>1, <1>2, WalkPlace
<1>5. PICK n : n = [m EXCEPT !.pc = "recount"]
  OBVIOUS
<1>6. n \in CallRecord
  BY <1>3, <1>5 DEF CallRecord
<1>7. /\ n.pc = "recount" /\ n.phase = m.phase /\ n.started = m.started /\ n.step = m.step
      /\ n.spent = m.spent /\ n.absent = m.absent /\ n.probes = m.probes
      /\ n.carried = m.carried /\ n.link = m.link /\ n.guess = m.guess
  BY <1>3, <1>5 DEF CallRecord
<1>8. call' = [call EXCEPT ![c] = n]
  BY <1>0, <1>1, <1>2, <1>5, StateTyped
<1>9. call' \in [Call -> CallRecord] /\ call'[c] = n /\ \A d \in Call \ {c} : call'[d] = call[d]
  BY <1>0, <1>6, <1>8, OneCall
<1>10. WalkShape(c)
  BY <1>0, <1>1 DEF Shapes, CallShape
<1>11. (PlaceOf(call[c]))' = PlaceOf(m)
  BY <1>1, <1>7, <1>9 DEF PlaceOf
<1>12. (WalkShape(c))'
  BY <1>1, <1>2, <1>7, <1>9, <1>10, <1>11 DEF WalkShape
<1>13. PICK record : record = Link(m.started, 0, None)
  OBVIOUS
<1>14. PICK u \in UserId : u = (CHOOSE x \in UserId : TRUE)
  <2>1. UserId # {}
    <3>1. Cardinality(UserId) = 1
      BY AttemptWindowAssumption
    <3>2. Cardinality({}) = 0
      BY FS_EmptySet
    <3> QED
      BY <3>1, <3>2
  <2> QED
    BY <2>1
<1>15. record = [kind |-> "secondFactor", userId |-> u, address |-> "", attempts |-> 0,
                 expiresAt |-> (h[1] + 2) * windowMs, spentAt |-> None]
  BY <1>4, <1>13, <1>14 DEF Link, ExpiresAt
<1>16. (h[1] + 2) * windowMs \in Nat
  BY <1>4, LinkParts, Constants
<1>17. record \in TokenRecord
  <2>1. "secondFactor" \in Kind /\ "" \in Address
    BY AttemptWindowAssumption
  <2> QED
    BY <1>14, <1>15, <1>16, <2>1 DEF TokenRecord
<1>18. /\ tokens' \in Store
       /\ \A g \in Hash \ {h} : tokens'[g] = tokens[g]
       /\ tokens'[h] = IF tokens[h] = None THEN record ELSE tokens[h]
  BY <1>1, <1>2, <1>3, <1>4, <1>13, <1>17, InsertKeepsOthers
<1>19. tokens[h] # None => tokens' = tokens
  BY <1>1, <1>2 DEF insertToken
<1>20. tokens[h] = None => /\ tokens'[h] # None /\ tokens'[h].kind = "secondFactor"
                           /\ tokens'[h].attempts = 0 /\ tokens'[h].spentAt = None
                           /\ tokens'[h].expiresAt = (h[1] + 2) * windowMs
  <2>1. record # None
    BY <1>17, TokenStoreAssumption
  <2>2. /\ record.kind = "secondFactor" /\ record.attempts = 0 /\ record.spentAt = None
        /\ record.expiresAt = (h[1] + 2) * windowMs
    BY <1>15
  <2> QED
    BY <1>18, <2>1, <2>2
<1>21. Only(c)
  BY <1>0, <1>1, <1>3, <1>7, <1>9, StateTyped DEF Only
<1>22. Inserts(c)
  BY <1>1, <1>2, <1>7, <1>9, <1>12, <1>18, <1>19, <1>20 DEF Inserts, SameHistory
<1> QED
  BY <1>21, <1>22

LEMMA StartEffect ==
  ASSUME Inv, NEW c \in Call, NEW phase \in {"guess", "restart"},
         ~ Walking(c), call[c].pc # "done", mode # "restart" => phase = "guess",
         call' = [call EXCEPT ![c] = Counting(phase, c)],
         UNCHANGED <<mode, now, tokens, step, user>>
  PROVE  Only(c) /\ Starts(c)
<1>0. TypeOK /\ Shapes
  BY DEF Inv
<1>1. PICK m : m = call[c]
  OBVIOUS
<1>2. m \in CallRecord /\ now \in 0..MaxTime /\ now \in Nat /\ step \in 0..MaxStep
  BY <1>0, <1>1, StateTyped
<1>3. Fresh(m)
  BY <1>0, <1>1 DEF Shapes, CallShape
<1>4. PICK n : n = [m EXCEPT !.pc = "count", !.phase = phase, !.started = now, !.step = step]
  OBVIOUS
<1>5. n \in CallRecord
  BY <1>2, <1>4, Zenon DEF CallRecord
<1>6. /\ n.pc = "count" /\ n.phase = phase /\ n.started = now /\ n.step = step
      /\ n.spent = m.spent /\ n.absent = m.absent /\ n.probes = m.probes
      /\ n.link = m.link /\ n.guess = m.guess
  BY <1>2, <1>4 DEF CallRecord
<1>7. call' = [call EXCEPT ![c] = n]
  BY <1>1, <1>4 DEF Counting
<1>8. call' \in [Call -> CallRecord] /\ call'[c] = n /\ \A d \in Call \ {c} : call'[d] = call[d]
  BY <1>0, <1>5, <1>7, OneCall
<1>9. (WalkShape(c))'
  <2>1. Slow \in Nat /\ MAX_PROBES \in Nat \ {0}
    BY Constants
  <2> QED
    BY <1>2, <1>3, <1>6, <1>8, <2>1 DEF WalkShape, Fresh
<1>10. Only(c)
  BY <1>0, <1>1, <1>2, <1>6, <1>8, StateTyped DEF Only
<1>11. mode = "restart" => step = 0
  BY <1>0 DEF Shapes
<1>12. Starts(c)
  BY <1>1, <1>3, <1>6, <1>8, <1>9, <1>11 DEF Starts, SameHistory, Fresh
<1> QED
  BY <1>10, <1>12

(* A call that leaves its walk, or takes a step that is none of it.        *)
LEMMA RestEffect ==
  ASSUME Inv, NEW c \in Call, NEW n \in CallRecord,
         call' = [call EXCEPT ![c] = n],
         n.guess = call[c].guess, n.link = call[c].link, n.step = call[c].step, Fresh(n),
         UNCHANGED <<mode, now, user>>,
         step' \in 0..MaxStep, mode = "restart" => step' = step
  PROVE  Only(c) /\ SameHistory(c) /\ call'[c] = n /\ Fresh(call'[c]) /\ call'[c].step = call[c].step
<1>0. TypeOK
  BY DEF Inv
<1>1. call' \in [Call -> CallRecord] /\ call'[c] = n /\ \A d \in Call \ {c} : call'[d] = call[d]
  BY <1>0, OneCall
<1>2. -1 < MAX_LINKS - 1
  BY Constants
<1> QED
  BY <1>1, <1>2 DEF Only, SameHistory, Fresh

LEMMA OtherPc ==
  ASSUME Inv, NEW c \in Call, ~ Walking(c),
         NEW pc \in {"refused", "write", "issuing", "done", "failed"},
         call' = [call EXCEPT ![c].pc = pc],
         UNCHANGED <<mode, now, user>>,
         step' \in 0..MaxStep, mode = "restart" => step' = step
  PROVE  /\ Only(c) /\ SameHistory(c) /\ Fresh(call'[c]) /\ call'[c].step = call[c].step
         /\ call'[c].pc = pc
<1>0. TypeOK /\ Shapes
  BY DEF Inv
<1>1. PICK m : m = call[c]
  OBVIOUS
<1>2. m \in CallRecord /\ Fresh(m)
  BY <1>0, <1>1, StateTyped DEF Shapes, CallShape
<1>3. PICK n : n = [m EXCEPT !.pc = pc]
  OBVIOUS
<1>4. n \in CallRecord
  BY <1>2, <1>3 DEF CallRecord
<1>5. /\ n.pc = pc /\ n.step = m.step /\ n.spent = m.spent /\ n.absent = m.absent
      /\ n.probes = m.probes /\ n.link = m.link /\ n.guess = m.guess
  BY <1>2, <1>3 DEF CallRecord
<1>6. call' = [call EXCEPT ![c] = n]
  BY <1>0, <1>1, <1>3, StateTyped
<1>7. Fresh(n)
  BY <1>2, <1>5 DEF Fresh
<1> QED
  BY <1>1, <1>4, <1>5, <1>6, <1>7, RestEffect

LEMMA CallEffect ==
  ASSUME Inv, NEW c \in Call, CallNext(c)
  PROVE  Moves(c)
<1>0. TypeOK /\ Shapes
  BY DEF Inv
<1>1. CallShape(c) /\ call[c] \in CallRecord
  BY <1>0, StateTyped DEF Shapes
<1>2. CASE BeginSignIn(c) \/ BeginCode(c) \/ BeginMail(c)
  <2>1. /\ call[c].pc = "idle" /\ call' = [call EXCEPT ![c] = Counting("guess", c)]
        /\ UNCHANGED <<mode, now, tokens, step, user>>
    BY <1>2 DEF BeginSignIn, BeginCode, BeginMail, Begin
  <2>2. ~ Walking(c) /\ call[c].pc # "done"
    BY <2>1 DEF Walking
  <2> QED
    BY <2>1, <2>2, StartEffect DEF Moves
<1>3. CASE CountLink(c) \/ CountInserted(c)
  BY <1>3, CountEffect DEF Moves
<1>4. CASE InsertLink(c)
  BY <1>4, InsertEffect DEF Moves
<1>5. CASE Compare(c)
  <2>1. call[c].pc = "compare" /\ UNCHANGED <<mode, now, tokens, step, user>> /\ ~ Walking(c)
    BY <1>5 DEF Compare, Walking
  <2>2. CASE call' = [call EXCEPT ![c].pc = "refused"]
    <3>1. /\ Only(c) /\ SameHistory(c) /\ Fresh(call'[c]) /\ call'[c].step = call[c].step
          /\ call'[c].pc = "refused"
      BY <1>0, <2>1, <2>2, OtherPc, StateTyped
    <3> QED
      BY <2>1, <3>1 DEF Moves, Rests
  <2>3. CASE mode = "restart" /\ call' = [call EXCEPT ![c] = Counting("restart", c)]
    BY <2>1, <2>3, StartEffect DEF Moves
  <2>4. CASE mode = "carry" /\ call' = [call EXCEPT ![c].pc = "write"]
    <3>1. /\ Only(c) /\ SameHistory(c) /\ Fresh(call'[c]) /\ call'[c].step = call[c].step
          /\ call'[c].pc = "write"
      BY <1>0, <2>1, <2>4, OtherPc, StateTyped
    <3> QED
      BY <2>1, <2>4, <3>1 DEF Moves, Rests
  <2> QED
    BY <1>5, <2>2, <2>3, <2>4 DEF Compare
<1>6. CASE Send(c) \/ Issued(c)
  <2>1. /\ call[c].pc \in {"prepared", "issuing"} /\ UNCHANGED <<mode, now, tokens, step, user>>
        /\ ~ Walking(c)
    BY <1>6 DEF Send, Issued, Walking
  <2>2. PICK pc \in {"issuing", "done"} : call' = [call EXCEPT ![c].pc = pc]
    BY <1>6 DEF Send, Issued
  <2>3. /\ Only(c) /\ SameHistory(c) /\ Fresh(call'[c]) /\ call'[c].step = call[c].step
        /\ call'[c].pc = pc
    BY <1>0, <2>1, <2>2, OtherPc, StateTyped
  <2>4. mode # "restart"
    BY <1>1, <2>1 DEF CallShape
  <2> QED
    BY <2>1, <2>2, <2>3, <2>4 DEF Moves, Rests
<1>7. CASE SpendLink(c)
  <2>1. /\ call[c].pc = "spend" /\ UNCHANGED <<mode, now, step, user>> /\ ~ Walking(c)
        /\ call' = [call EXCEPT ![c].pc = "done"]
        /\ tokens' = consumeToken(tokens, call[c].link, "secondFactor", now)
    BY <1>7 DEF SpendLink, Walking
  <2>2. /\ Only(c) /\ SameHistory(c) /\ Fresh(call'[c]) /\ call'[c].step = call[c].step
        /\ call'[c].pc = "done"
    BY <1>0, <2>1, OtherPc, StateTyped
  <2>3. mode = "restart"
    BY <1>1, <2>1 DEF CallShape
  <2> QED
    BY <2>1, <2>2, <2>3 DEF Moves, Spends
<1>8. CASE WriteFactor(c)
  <2>1. call[c].pc = "write" /\ UNCHANGED <<mode, now, tokens, user>> /\ ~ Walking(c)
    BY <1>8 DEF WriteFactor, Walking
  <2>2. PICK pc \in {"done", "failed"} : call' = [call EXCEPT ![c].pc = pc]
    BY <1>8 DEF WriteFactor
  <2>3. mode # "restart"
    BY <1>1, <2>1 DEF CallShape
  <2>4. step' \in 0..MaxStep
    BY <1>0, <1>8, Constants, StateTyped DEF WriteFactor
  <2>5. /\ Only(c) /\ SameHistory(c) /\ Fresh(call'[c]) /\ call'[c].step = call[c].step
        /\ call'[c].pc = pc
    BY <2>1, <2>2, <2>3, <2>4, OtherPc
  <2> QED
    BY <2>1, <2>2, <2>3, <2>5 DEF Moves, Rests
<1>9. CASE StoreFails(c)
  <2>1. /\ call[c].pc # "done" /\ UNCHANGED <<mode, now, tokens, step, user>>
        /\ call' = [call EXCEPT ![c] = Returned(call[c], "failed")]
    BY <1>9 DEF StoreFails
  <2>2. PICK n : n = Returned(call[c], "failed")
    OBVIOUS
  <2>3. /\ n \in CallRecord /\ n.pc = "failed" /\ Fresh(n)
        /\ n.step = call[c].step /\ n.link = call[c].link /\ n.guess = call[c].guess
    BY <1>1, <2>2, ReturnedShape
  <2>4. call' = [call EXCEPT ![c] = n]
    BY <2>1, <2>2
  <2>5. /\ Only(c) /\ SameHistory(c) /\ call'[c] = n /\ Fresh(call'[c])
        /\ call'[c].step = call[c].step
    BY <1>0, <2>1, <2>3, <2>4, RestEffect, StateTyped
  <2> QED
    BY <2>1, <2>3, <2>5 DEF Moves, Rests
<1> QED
  BY <1>2, <1>3, <1>4, <1>5, <1>6, <1>7, <1>8, <1>9 DEF CallNext

LEMMA StoreEffect ==
  ASSUME Inv, WritePassword \/ DeleteUserTokens \/ CollectExpired
  PROVE  Forgets
<1>0. TypeOK /\ Links
  BY DEF Inv
<1>1. tokens \in Store /\ now \in Nat /\ mode \in {"carry", "mail", "restart"}
  BY <1>0, StateTyped
<1>2. CASE WritePassword
  <2>1. PICK u \in UserId : tokens' = spendUserTokens(tokens, u, "secondFactor", now, {})
    BY <1>2 DEF WritePassword
  <2>2. tokens' \in Store /\ \A h \in Hash : Evolved(tokens[h], tokens'[h])
    BY <1>1, <2>1, SpendUserEvolves
  <2>3. ASSUME NEW h \in Hash, tokens[h] # None PROVE tokens'[h] # None
    <3>1. tokens[h] \in TokenRecord
      BY <1>1, <2>3 DEF Store
    <3>2. [tokens[h] EXCEPT !.spentAt = now] \in TokenRecord
      BY <1>1, <3>1 DEF TokenRecord
    <3> QED
      BY <2>1, <2>3, <3>2, TokenStoreAssumption DEF spendUserTokens
  <2> QED
    BY <1>2, <2>2, <2>3 DEF Forgets, WritePassword
<1>3. CASE DeleteUserTokens
  <2>1. PICK u \in UserId : tokens' = deleteUserTokens(tokens, u)
    BY <1>3 DEF DeleteUserTokens
  <2>2. tokens' \in Store /\ \A h \in Hash : Evolved(tokens[h], tokens'[h])
    BY <1>1, <2>1, DeleteEvolves
  <2>3. \A h \in Hash : ~ Live(h)
    BY <1>3 DEF Live, DeleteUserTokens
  <2> QED
    BY <1>3, <2>2, <2>3 DEF Forgets, DeleteUserTokens
<1>4. CASE CollectExpired
  <2>1. PICK before \in now..now + Skew : tokens' = deleteExpiredTokens(tokens, before)
    BY <1>4 DEF CollectExpired
  <2>2. tokens' \in Store /\ \A h \in Hash : Evolved(tokens[h], tokens'[h])
    BY <1>1, <2>1, DeleteEvolves
  <2>3. ASSUME NEW h \in Hash, tokens[h] # None, Live(h) PROVE tokens'[h] # None
    <3>1. tokens[h].expiresAt = (h[1] + 2) * windowMs
      BY <1>0, <2>3 DEF Links, Stamped
    <3>2. before \in Nat /\ before <= now + Skew /\ (h[1] + 2) * windowMs \in Nat
      BY <1>1, Constants, LinkParts
    <3>3. ~ (tokens[h].expiresAt <= before)
      BY <1>1, <2>3, <3>1, <3>2, Constants DEF Live
    <3> QED
      BY <2>1, <2>3, <3>3 DEF deleteExpiredTokens
  <2>4. \A h \in Hash : tokens'[h] # None => tokens'[h] = tokens[h]
    BY <2>1 DEF deleteExpiredTokens
  <2> QED
    BY <1>4, <2>2, <2>3, <2>4 DEF Forgets, CollectExpired
<1> QED
  BY <1>2, <1>3, <1>4

LEMMA EveryStep ==
  ASSUME Inv, [Next]_vars
  PROVE  (\E c \in Call : Moves(c)) \/ Forgets \/ Passes
<1>0. TypeOK /\ Shapes
  BY DEF Inv
<1>1. now \in 0..MaxTime /\ now \in Nat /\ user \in BOOLEAN /\ MaxTime \in Nat
  BY <1>0, Constants, StateTyped
<1>2. ASSUME NEW c \in Call, CallNext(c) PROVE Moves(c)
  BY <1>2, CallEffect
<1>3. CASE WritePassword \/ DeleteUserTokens \/ CollectExpired
  BY <1>3, StoreEffect
<1>4. \A c \in Call : Walking(c) => now <= call[c].started + Slow
  BY <1>0 DEF Shapes, CallShape, WalkShape
<1>5. CASE DeleteUser
  <2>1. UNCHANGED <<mode, now, tokens, step, call>> /\ user' = FALSE /\ mode = "carry"
    BY <1>5 DEF DeleteUser
  <2>2. now' \in 0..MaxTime /\ now <= now'
    BY <1>1, <2>1
  <2>3. \A c \in Call : Walking(c) => now' <= call[c].started + Slow
    BY <1>4, <2>1
  <2> QED
    BY <2>1, <2>2, <2>3 DEF Passes
<1>6. CASE Tick
  <2>1. now < MaxTime /\ now' = now + 1 /\ UNCHANGED <<mode, tokens, step, user, call>>
    BY <1>6 DEF Tick
  <2>2. ASSUME NEW c \in Call, Walking(c) PROVE now' <= call[c].started + Slow
    <3>1. now < call[c].started + Slow
      BY <1>6, <2>2 DEF Tick, Walking
    <3>2. call[c].started \in Nat /\ Slow \in Nat
      BY <1>0, StateTyped, Fields, Constants
    <3> QED
      BY <1>1, <2>1, <3>1, <3>2
  <2> QED
    BY <1>1, <2>1, <2>2 DEF Passes
<1>7. CASE UNCHANGED vars
  BY <1>1, <1>4, <1>7 DEF vars, Passes
<1> QED
  BY <1>2, <1>3, <1>5, <1>6, <1>7 DEF Next

-----------------------------------------------------------------------------
(* What a step leaves of the links.                                        *)

LEMMA AddsOne ==
  ASSUME Inv, NEW c \in Call, Walking(c), Adds(c)
  PROVE  /\ tokens' \in Store
         /\ \A g \in Hash \ {HashOf(call[c])} : tokens'[g] = tokens[g]
         /\ tokens[HashOf(call[c])] # None /\ tokens'[HashOf(call[c])] # None
         /\ tokens'[HashOf(call[c])].kind = tokens[HashOf(call[c])].kind
         /\ tokens'[HashOf(call[c])].expiresAt = tokens[HashOf(call[c])].expiresAt
         /\ tokens[HashOf(call[c])].attempts \in Nat
         /\ tokens'[HashOf(call[c])].attempts = tokens[HashOf(call[c])].attempts + 1
         /\ tokens[HashOf(call[c])].spentAt = None /\ tokens'[HashOf(call[c])].spentAt = None
<1>0. TypeOK /\ Shapes /\ Links /\ SpentByRestarts
  BY DEF Inv
<1>1. PICK h \in Hash : h = HashOf(call[c])
  BY <1>0, WalkPlace
<1>2. tokens \in Store /\ tokens[h] \in TokenRecord /\ tokens[h] # None /\ tokens[h].spentAt = None
  BY <1>0, <1>1, StateTyped DEF Adds, Unspent
<1>3. tokens[h].attempts \in Nat
  BY <1>2 DEF TokenRecord
<1>4. PICK more : more = [tokens[h] EXCEPT !.attempts = tokens[h].attempts + 1]
  OBVIOUS
<1>5. /\ more \in TokenRecord /\ more.kind = tokens[h].kind
      /\ more.expiresAt = tokens[h].expiresAt /\ more.spentAt = None
      /\ more.attempts = tokens[h].attempts + 1
  BY <1>2, <1>3, <1>4 DEF TokenRecord
<1>6. tokens' = [tokens EXCEPT ![h] = more]
  BY <1>1, <1>2, <1>4 DEF Adds, Store
<1>7. tokens' \in Store /\ tokens'[h] = more /\ \A g \in Hash \ {h} : tokens'[g] = tokens[g]
  BY <1>2, <1>5, <1>6 DEF Store
<1>8. more # None
  BY <1>5, TokenStoreAssumption
<1> QED
  BY <1>1, <1>2, <1>3, <1>5, <1>7, <1>8

LEMMA SpendsOne ==
  ASSUME Inv, NEW c \in Call, Spends(c)
  PROVE  /\ tokens' \in Store
         /\ call[c].link \in Hash
         /\ \A g \in Hash \ {call[c].link} : tokens'[g] = tokens[g]
         /\ \A g \in Hash : Evolved(tokens[g], tokens'[g]) /\ (tokens[g] # None => tokens'[g] # None)
<1>0. TypeOK /\ Shapes
  BY DEF Inv
<1>1. PICK h : h = call[c].link
  OBVIOUS
<1>2. h # None
  BY <1>0, <1>1 DEF Spends, Shapes, CallShape
<1>3. h \in Hash /\ tokens \in Store /\ now \in Nat
  BY <1>0, <1>1, <1>2, StateTyped, Fields
<1>4. tokens' = consumeToken(tokens, h, "secondFactor", now)
  BY <1>1 DEF Spends
<1>5. tokens' \in Store /\ \A g \in Hash : Evolved(tokens[g], tokens'[g])
  BY <1>3, <1>4, ConsumeEvolves
<1>6. CASE tokens' = tokens
  BY <1>1, <1>3, <1>5, <1>6
<1>7. CASE tokens' = [tokens EXCEPT ![h].spentAt = now] /\ tokens[h] # None
  <2>1. tokens[h] \in TokenRecord
    BY <1>3, <1>7 DEF Store
  <2>2. [tokens[h] EXCEPT !.spentAt = now] \in TokenRecord
    BY <1>3, <2>1 DEF TokenRecord
  <2>3. tokens'[h] = [tokens[h] EXCEPT !.spentAt = now]
    BY <1>3, <1>7 DEF Store
  <2>4. tokens'[h] # None
    BY <2>2, <2>3, TokenStoreAssumption
  <2>5. \A g \in Hash \ {h} : tokens'[g] = tokens[g]
    BY <1>3, <1>7 DEF Store
  <2> QED
    BY <1>1, <1>3, <1>5, <2>4, <2>5
<1> QED
  BY <1>4, <1>6, <1>7 DEF consumeToken, Answer, Unspent

(* No clock turns back.                                                    *)
LEMMA LiveBefore ==
  ASSUME Inv, [Next]_vars, NEW h \in Hash, (Live(h))'
  PROVE  Live(h)
<1>0. TypeOK
  BY DEF Inv
<1>1. now \in Nat /\ Skew \in Nat /\ MaxTime \in Nat /\ (h[1] + 2) * windowMs \in Nat
  BY <1>0, StateTyped, Constants, LinkParts
<1>2. (user' => user) /\ now <= now' /\ now' \in Int
  BY <1>0, <1>1, EveryStep DEF Moves, Only, Forgets, Passes
<1> QED
  BY <1>1, <1>2 DEF Live

(* In its window a link stays, with what it counted, and spent if it was.  *)
LEMMA LinksKept ==
  ASSUME Inv, [Next]_vars
  PROVE  /\ tokens' \in Store
         /\ \A h \in Hash :
              /\ tokens'[h] # None => /\ tokens'[h].kind = "secondFactor"
                                      /\ tokens'[h].expiresAt = (h[1] + 2) * windowMs
              /\ Live(h) /\ tokens[h] # None =>
                   /\ tokens'[h] # None
                   /\ tokens'[h].attempts >= tokens[h].attempts
                   /\ SpentLink(h) => tokens'[h] = tokens[h]
<1>0. TypeOK /\ Shapes /\ Links /\ SpentByRestarts
  BY DEF Inv
<1>1. tokens \in Store
  BY <1>0, StateTyped
<1>2. \A h \in Hash : tokens[h] # None =>
        /\ tokens[h].kind = "secondFactor" /\ tokens[h].expiresAt = (h[1] + 2) * windowMs
        /\ tokens[h].attempts \in Nat
  BY <1>0, <1>1 DEF Links, Stamped, Store, TokenRecord
<1>3. CASE tokens' = tokens
  BY <1>1, <1>2, <1>3
<1>4. CASE Forgets
  BY <1>1, <1>2, <1>4 DEF Forgets, Evolved, SpentLink
<1>5. ASSUME NEW c \in Call, Walking(c), Adds(c)
      PROVE  /\ tokens' \in Store
             /\ \A h \in Hash :
                  /\ tokens'[h] # None => /\ tokens'[h].kind = "secondFactor"
                                          /\ tokens'[h].expiresAt = (h[1] + 2) * windowMs
                  /\ tokens[h] # None =>
                       /\ tokens'[h] # None
                       /\ tokens'[h].attempts >= tokens[h].attempts
                       /\ SpentLink(h) => tokens'[h] = tokens[h]
  <2>1. PICK g \in Hash : g = HashOf(call[c])
    BY <1>0, <1>5, WalkPlace
  <2>2. /\ tokens' \in Store
        /\ \A h \in Hash \ {g} : tokens'[h] = tokens[h]
        /\ tokens[g] # None /\ tokens'[g] # None
        /\ tokens'[g].kind = tokens[g].kind /\ tokens'[g].expiresAt = tokens[g].expiresAt
        /\ tokens[g].attempts \in Nat /\ tokens'[g].attempts = tokens[g].attempts + 1
        /\ tokens[g].spentAt = None
    BY <1>5, <2>1, AddsOne
  <2>3. ASSUME NEW h \in Hash, h = g
        PROVE  /\ tokens'[h].kind = "secondFactor"
               /\ tokens'[h].expiresAt = (h[1] + 2) * windowMs
               /\ tokens'[h] # None /\ tokens'[h].attempts >= tokens[h].attempts
               /\ ~ SpentLink(h)
    BY <1>2, <2>2, <2>3 DEF SpentLink
  <2>4. ASSUME NEW h \in Hash, h # g
        PROVE  tokens'[h] = tokens[h]
    BY <2>2, <2>4
  <2> QED
    BY <1>2, <2>2, <2>3, <2>4
<1>6. ASSUME NEW c \in Call, Inserts(c)
      PROVE  /\ tokens' \in Store
             /\ \A h \in Hash :
                  /\ tokens'[h] # None => /\ tokens'[h].kind = "secondFactor"
                                          /\ tokens'[h].expiresAt = (h[1] + 2) * windowMs
                  /\ tokens[h] # None => tokens'[h] = tokens[h]
  <2>1. PICK g \in Hash : g = HashOf(call[c])
    BY <1>0, <1>6, WalkPlace DEF Inserts
  <2>2. /\ tokens' \in Store
        /\ \A h \in Hash \ {g} : tokens'[h] = tokens[h]
        /\ tokens[g] = None => /\ tokens'[g].kind = "secondFactor"
                               /\ tokens'[g].expiresAt = (g[1] + 2) * windowMs
        /\ tokens[g] # None => tokens' = tokens
    BY <1>6, <2>1 DEF Inserts
  <2>3. CASE tokens[g] = None
    <3>1. ASSUME NEW h \in Hash, h # g PROVE tokens'[h] = tokens[h]
      BY <2>2, <3>1
    <3> QED
      BY <1>2, <2>2, <2>3, <3>1
  <2> QED
    BY <1>1, <1>2, <2>2, <2>3
<1>7. ASSUME NEW c \in Call, Spends(c)
      PROVE  /\ tokens' \in Store
             /\ \A h \in Hash :
                  /\ tokens'[h] # None => /\ tokens'[h].kind = "secondFactor"
                                          /\ tokens'[h].expiresAt = (h[1] + 2) * windowMs
                  /\ tokens[h] # None =>
                       /\ tokens'[h] # None
                       /\ tokens'[h].attempts >= tokens[h].attempts
                       /\ SpentLink(h) => tokens'[h] = tokens[h]
  <2>1. /\ tokens' \in Store
        /\ \A g \in Hash : Evolved(tokens[g], tokens'[g]) /\ (tokens[g] # None => tokens'[g] # None)
    BY <1>7, SpendsOne
  <2> QED
    BY <1>2, <2>1 DEF Evolved, SpentLink
<1>8. \/ tokens' = tokens \/ Forgets
      \/ \E c \in Call : (Walking(c) /\ Adds(c)) \/ Inserts(c) \/ Spends(c)
  BY EveryStep DEF Moves, Steps, Starts, Rests, Passes
<1>9. CASE \E c \in Call : Walking(c) /\ Adds(c)
  BY <1>5, <1>9
<1>10. CASE \E c \in Call : Inserts(c)
  BY <1>2, <1>6, <1>10
<1>11. CASE \E c \in Call : Spends(c)
  BY <1>7, <1>11
<1> QED
  BY <1>3, <1>4, <1>8, <1>9, <1>10, <1>11

(* A link appears where a walk came to a missing one.                      *)
LEMMA WhoInserts ==
  ASSUME Inv, [Next]_vars, NEW h \in Hash, tokens[h] = None, tokens'[h] # None
  PROVE  /\ tokens'[h].attempts = 0
         /\ \E c \in Call : Only(c) /\ Inserts(c) /\ h = HashOf(call[c])
<1>0. TypeOK /\ Shapes /\ Links /\ SpentByRestarts
  BY DEF Inv
<1>1. ASSUME NEW c \in Call, Walking(c), Adds(c) PROVE FALSE
  <2>1. /\ \A g \in Hash \ {HashOf(call[c])} : tokens'[g] = tokens[g]
        /\ tokens[HashOf(call[c])] # None
    BY <1>1, AddsOne
  <2> QED
    BY <2>1
<1>2. ASSUME NEW c \in Call, Spends(c) PROVE FALSE
  <2>1. Evolved(tokens[h], tokens'[h])
    BY <1>2, SpendsOne
  <2> QED
    BY <2>1 DEF Evolved
<1>3. ~ Forgets
  BY DEF Forgets, Evolved
<1>4. tokens' # tokens
  OBVIOUS
<1>5. PICK c \in Call : Only(c) /\ Inserts(c)
  BY <1>1, <1>2, <1>3, <1>4, EveryStep DEF Moves, Steps, Starts, Rests, Passes
<1>6. h = HashOf(call[c])
  BY <1>5 DEF Inserts
<1>7. tokens'[h].attempts = 0
  BY <1>5, <1>6 DEF Inserts
<1> QED
  BY <1>5, <1>6, <1>7

(* A login's link is spent by a sign-in.                                   *)
LEMMA WhoSpends ==
  ASSUME Inv, [Next]_vars, mode = "restart", NEW h \in Hash, ~ SpentLink(h), (SpentLink(h))'
  PROVE  \E c \in Call : Only(c) /\ Spends(c) /\ h = call[c].link
<1>0. TypeOK /\ Shapes /\ Links /\ SpentByRestarts
  BY DEF Inv
<1>1. ASSUME NEW c \in Call, Walking(c), Adds(c) PROVE FALSE
  <2>1. /\ \A g \in Hash \ {HashOf(call[c])} : tokens'[g] = tokens[g]
        /\ tokens'[HashOf(call[c])].spentAt = None
    BY <1>1, AddsOne
  <2> QED
    BY <2>1 DEF SpentLink
<1>2. ASSUME NEW c \in Call, Inserts(c) PROVE FALSE
  <2>1. tokens'[h] # None /\ (tokens[h] # None => tokens'[h] = tokens[h])
    BY <1>2 DEF Inserts, SpentLink
  <2>2. tokens[h] = None
    BY <2>1 DEF SpentLink
  <2> QED
    BY <1>2, <2>1, <2>2 DEF Inserts, SpentLink
<1>3. ~ Forgets
  BY DEF Forgets, SpentLink
<1>4. tokens' # tokens
  BY DEF SpentLink
<1>5. PICK c \in Call : Only(c) /\ Spends(c)
  BY <1>1, <1>2, <1>3, <1>4, EveryStep DEF Moves, Steps, Starts, Rests, Passes
<1>6. h = call[c].link
  BY <1>5, SpendsOne DEF SpentLink
<1> QED
  BY <1>5, <1>6

-----------------------------------------------------------------------------
(* Every part of the invariant is kept by every step.                      *)

LEMMA StillTyped ==
  ASSUME Inv, [Next]_vars
  PROVE  TypeOK'
<1>0. TypeOK
  BY DEF Inv
<1>1. tokens' \in Store
  BY LinksKept
<1>2. ASSUME NEW c \in Call, Only(c) PROVE TypeOK'
  <2>1. /\ mode \in Modes /\ now \in 0..MaxTime /\ user \in BOOLEAN
        /\ \A d \in Call : mode # "restart" => call[d].spent < MAX_LINKS - 1
    BY <1>0 DEF TypeOK
  <2>2. mode' = mode /\ now' = now /\ user' = user
    BY <1>2 DEF Only
  <2>3. ASSUME NEW d \in Call, mode # "restart" PROVE call'[d].spent < MAX_LINKS - 1
    BY <1>2, <2>1, <2>3 DEF Only
  <2> QED
    BY <1>1, <1>2, <2>1, <2>2, <2>3 DEF TypeOK, Only
<1>3. CASE Forgets
  BY <1>0, <1>1, <1>3 DEF TypeOK, Forgets
<1>4. CASE Passes
  BY <1>0, <1>4 DEF TypeOK, Passes
<1> QED
  BY <1>2, <1>3, <1>4, EveryStep DEF Moves

(* A call that no step is of keeps what it knows.                          *)
LEMMA UnmovedShape ==
  ASSUME Inv, NEW d \in Call, call'[d] = call[d], mode' = mode,
         now <= now', now' \in Nat, Walking(d) => now' <= call[d].started + Slow
  PROVE  (CallShape(d))'
<1>0. TypeOK /\ CallShape(d)
  BY DEF Inv, Shapes
<1>1. call[d] \in CallRecord /\ now \in Nat
  BY <1>0, StateTyped
<1>2. call[d].started \in Nat
  BY <1>1, Fields
<1>3. (PlaceOf(call[d]))' = PlaceOf(call[d])
  BY DEF PlaceOf
<1>4. Walking(d) => (WalkShape(d))'
  <2>1. Walking(d) => WalkShape(d)
    BY <1>0 DEF CallShape
  <2>2. Walking(d) => call[d].started <= now'
    BY <1>1, <1>2, <2>1 DEF WalkShape
  <2> QED
    BY <1>3, <2>1, <2>2 DEF WalkShape
<1>5. (Walking(d))' <=> Walking(d)
  BY DEF Walking
<1> QED
  BY <1>0, <1>4, <1>5, Zenon DEF CallShape

LEMMA StillShaped ==
  ASSUME Inv, [Next]_vars
  PROVE  Shapes'
<1>0. TypeOK /\ Shapes /\ Links /\ SpentByRestarts
  BY DEF Inv
<1>1. mode \in {"carry", "mail", "restart"} /\ now \in Nat /\ MaxTime \in Nat
  BY <1>0, StateTyped, Constants
<1>2. /\ mode # "carry" => user
      /\ mode = "restart" => step = 0
      /\ \A c \in Call : CallShape(c)
  BY <1>0 DEF Shapes
<1>3. \A c \in Call : Walking(c) => now <= call[c].started + Slow
  BY <1>2 DEF CallShape, WalkShape
<1>4. ASSUME NEW c \in Call, Moves(c) PROVE Shapes'
  <2>1. /\ mode' = mode /\ now' = now /\ user' = user /\ (mode = "restart" => step' = step)
        /\ call' \in [Call -> CallRecord] /\ \A d \in Call \ {c} : call'[d] = call[d]
    BY <1>4 DEF Moves, Only
  <2>2. ASSUME NEW d \in Call, d # c PROVE (CallShape(d))'
    <3>1. call'[d] = call[d]
      BY <2>1, <2>2
    <3> QED
      BY <1>1, <1>3, <2>1, <3>1, UnmovedShape
  <2>3. CallShape(c) /\ call[c] \in CallRecord
    BY <1>0, <1>2, StateTyped
  <2>4. (CallShape(c))'
    <3>1. CASE Walking(c) /\ Adds(c)
      <4>1. HashOf(call[c]) \in Hash /\ HashOf(call[c])[2] = call[c].step
        BY <1>0, <3>1, WalkPlace
      <4>2. HashOf(call[c]) # None
        BY <4>1, Constants
      <4> QED
        BY <1>1, <2>1, <2>3, <3>1, <4>1, <4>2 DEF Adds, CallShape, Walking, SameHistory
    <3>2. CASE Walking(c) /\ Steps(c)
      BY <1>1, <2>1, <2>3, <3>2 DEF Steps, CallShape, Walking, SameHistory
    <3>3. CASE Inserts(c)
      BY <1>1, <2>1, <2>3, <3>3 DEF Inserts, CallShape, Walking, SameHistory
    <3>4. CASE Starts(c)
      BY <1>1, <2>1, <2>3, <3>4 DEF Starts, CallShape, Walking, SameHistory
    <3>5. CASE Spends(c)
      BY <1>1, <2>1, <2>3, <3>5 DEF Spends, CallShape, Walking, SameHistory
    <3>6. CASE Rests(c)
      BY <1>1, <2>1, <2>3, <3>6 DEF Rests, CallShape, Walking, SameHistory
    <3> QED
      BY <1>4, <3>1, <3>2, <3>3, <3>4, <3>5, <3>6 DEF Moves
  <2> QED
    BY <1>2, <2>1, <2>2, <2>4 DEF Shapes
<1>5. CASE Forgets
  <2>1. UNCHANGED <<mode, now, step, user, call>>
    BY <1>5 DEF Forgets
  <2>2. ASSUME NEW d \in Call PROVE (CallShape(d))'
    BY <1>1, <1>3, <2>1, UnmovedShape
  <2> QED
    BY <1>2, <2>1, <2>2 DEF Shapes
<1>6. CASE Passes
  <2>1. /\ UNCHANGED <<mode, step, call>> /\ now <= now' /\ now' \in Nat
        /\ mode # "carry" => user' = user
        /\ \A c \in Call : Walking(c) => now' <= call[c].started + Slow
    BY <1>1, <1>6 DEF Passes
  <2>2. ASSUME NEW d \in Call PROVE (CallShape(d))'
    BY <2>1, UnmovedShape
  <2> QED
    BY <1>2, <2>1, <2>2 DEF Shapes
<1> QED
  BY <1>4, <1>5, <1>6, EveryStep

(* How a call came to walk where it does.                                  *)
LEMMA WalkStep ==
  ASSUME Inv, [Next]_vars, NEW c \in Call, (Walking(c))'
  PROVE  \/ /\ Walking(c)
            /\ call'[c].started = call[c].started /\ call'[c].step = call[c].step
            /\ call'[c].spent = call[c].spent /\ call'[c].carried = call[c].carried
         \/ /\ Walking(c)
            /\ call'[c].started = call[c].started /\ call'[c].step = call[c].step
            /\ SpentLink(HashOf(call[c])) /\ call'[c].spent = PlaceOf(call[c])
            /\ mode # "restart" =>
                 call'[c].carried = call[c].carried + tokens[HashOf(call[c])].attempts
            /\ \A d \in Call : call'[d].guess = call[d].guess
         \/ call'[c].spent = -1
<1>1. CASE call'[c] = call[c]
  BY <1>1 DEF Walking
<1>2. CASE call'[c] # call[c]
  <2>1. Moves(c)
    BY <1>2, EveryStep DEF Moves, Only, Forgets, Passes
  <2>2. CASE Walking(c) /\ Adds(c)
    BY <2>2 DEF Adds, Walking
  <2>3. CASE Walking(c) /\ Steps(c)
    BY <2>1, <2>3 DEF Moves, Only, Steps, SameHistory, Walking
  <2>4. CASE Inserts(c)
    BY <2>4 DEF Inserts
  <2>5. CASE Starts(c)
    BY <2>5 DEF Starts
  <2>6. CASE Spends(c) \/ Rests(c)
    BY <2>6 DEF Spends, Rests, Walking
  <2> QED
    BY <2>1, <2>2, <2>3, <2>4, <2>5, <2>6 DEF Moves
<1> QED
  BY <1>1, <1>2

(* A guess is let through at a link that counts, within the limit.         *)
LEMMA WhoGuesses ==
  ASSUME Inv, [Next]_vars, NEW c \in Call, call'[c].guess # call[c].guess
  PROVE  /\ Walking(c) /\ Adds(c)
         /\ call'[c].guess = HashOf(call[c])
         /\ (IF mode = "restart" THEN 0 ELSE call[c].carried) + tokens[HashOf(call[c])].attempts + 1
              <= limit
         /\ UNCHANGED <<mode, now, user>>
         /\ \A d \in Call \ {c} : call'[d] = call[d]
<1>1. Moves(c)
  BY EveryStep DEF Moves, Only, Forgets, Passes
<1>2. Walking(c) /\ Adds(c)
  BY <1>1 DEF Moves, Steps, Inserts, Starts, Spends, Rests, SameHistory
<1> QED
  BY <1>1, <1>2 DEF Moves, Only, Adds, SameHistory

(* What succeeded has.                                                     *)
LEMMA RestartedStays ==
  ASSUME Inv, [Next]_vars, NEW h, Restarted(h)
  PROVE  (Restarted(h))'
<1>1. PICK c \in Call : call[c].pc = "done" /\ call[c].link = h
  BY DEF Restarted
<1>2. call'[c] = call[c]
  <2>1. ASSUME call'[c] # call[c] PROVE FALSE
    <3>1. Moves(c)
      BY <2>1, EveryStep DEF Moves, Only, Forgets, Passes
    <3> QED
      BY <1>1, <3>1 DEF Moves, Inserts, Starts, Spends, Rests, Walking
  <2> QED
    BY <2>1
<1> QED
  BY <1>1, <1>2 DEF Restarted

(* Links under a live one are live, as are those of its walk.              *)
LEMMA LiveTogether ==
  ASSUME NEW g, NEW h, Live(h), g[1] = h[1]
  PROVE  Live(g)
BY DEF Live

LEMMA SpentStays ==
  ASSUME Inv, [Next]_vars, NEW h \in Hash, Live(h), SpentLink(h)
  PROVE  (SpentLink(h))'
<1>1. tokens[h] # None /\ tokens'[h] = tokens[h]
  BY LinksKept DEF SpentLink
<1> QED
  BY <1>1 DEF SpentLink

LEMMA StillChained ==
  ASSUME Inv, [Next]_vars
  PROVE  Chained'
<1>0. TypeOK /\ Shapes /\ Links /\ SpentByRestarts
  BY DEF Inv
<1> SUFFICES ASSUME NEW h \in Hash, NEW g \in Hash, (Live(h))', tokens'[h] # None, Under(g, h)
             PROVE  (SpentLink(g))'
  BY DEF Chained, Under
<1>1. Live(h) /\ Live(g)
  <2>1. Live(h)
    BY LiveBefore
  <2> QED
    BY <2>1, LiveTogether DEF Under
<1>2. SpentLink(g)
  <2>1. CASE tokens[h] # None
    BY <1>0, <1>1, <2>1 DEF Links, Chained
  <2>2. CASE tokens[h] = None
    <3>1. PICK c \in Call : Inserts(c) /\ h = HashOf(call[c])
      BY <2>2, WhoInserts
    <3>2. Walking(c) /\ call[c].pc # "count" /\ user
      BY <1>1, <3>1 DEF Inserts, Live
    <3> QED
      BY <1>0, <3>1, <3>2, SpentUnder
  <2> QED
    BY <2>1, <2>2
<1> QED
  BY <1>1, <1>2, SpentStays

LEMMA StillWalked ==
  ASSUME Inv, [Next]_vars
  PROVE  Walked'
<1>0. TypeOK /\ Shapes /\ Links /\ SpentByRestarts
  BY DEF Inv
<1> SUFFICES ASSUME NEW c \in Call, NEW h \in Hash, (Walking(c))', (Live(h))',
                    h = <<WindowOf(call'[c].started), call'[c].step, call'[c].spent>>
             PROVE  (SpentLink(h))'
  BY DEF Walked, WindowOf
<1>1. Live(h)
  BY LiveBefore
<1>2. h[3] \in Nat
  BY LinkParts
<1>3. h[3] = call'[c].spent
  OBVIOUS
<1>4. SpentLink(h)
  <2>1. CASE /\ Walking(c)
             /\ call'[c].started = call[c].started /\ call'[c].step = call[c].step
             /\ call'[c].spent = call[c].spent
    BY <1>0, <1>1, <2>1 DEF Links, Walked
  <2>2. CASE /\ Walking(c)
             /\ call'[c].started = call[c].started /\ call'[c].step = call[c].step
             /\ SpentLink(HashOf(call[c])) /\ call'[c].spent = PlaceOf(call[c])
    BY <2>2 DEF HashOf
  <2>3. CASE call'[c].spent = -1
    BY <1>2, <1>3, <2>3
  <2> QED
    BY <2>1, <2>2, <2>3, WalkStep
<1> QED
  BY <1>1, <1>4, SpentStays

LEMMA StillKept ==
  ASSUME Inv, [Next]_vars
  PROVE  Kept'
<1>0. TypeOK /\ Shapes /\ Links /\ SpentByRestarts
  BY DEF Inv
<1> SUFFICES ASSUME NEW c \in Call, call'[c].guess # None, (Live(call[c].guess))'
             PROVE  tokens'[call'[c].guess] # None
  BY DEF Kept
<1>1. TypeOK'
  BY StillTyped
<1>2. call'[c] \in CallRecord
  BY <1>1 DEF TypeOK
<1>3. PICK h \in Hash : h = call'[c].guess
  BY <1>2, Fields
<1>4. (Live(h))'
  BY <1>3 DEF Live
<1>5. Live(h)
  BY <1>4, LiveBefore
<1>6. CASE call'[c].guess = call[c].guess
  <2>1. tokens[h] # None
    BY <1>0, <1>3, <1>5, <1>6 DEF Links, Kept
  <2> QED
    BY <1>3, <1>5, <2>1, LinksKept
<1>7. CASE call'[c].guess # call[c].guess
  <2>1. Walking(c) /\ Adds(c) /\ call'[c].guess = HashOf(call[c])
    BY <1>7, WhoGuesses
  <2> QED
    BY <2>1, AddsOne
<1> QED
  BY <1>6, <1>7

(* A new guess is at an unspent link, in its window.                       *)
LEMMA NewGuess ==
  ASSUME Inv, [Next]_vars, NEW c \in Call, call'[c].guess # call[c].guess
  PROVE  /\ call'[c].guess \in Hash /\ Walking(c)
         /\ call'[c].guess = HashOf(call[c])
         /\ user => Live(call'[c].guess)
         /\ tokens[call'[c].guess] # None /\ ~ SpentLink(call'[c].guess)
         /\ tokens[call'[c].guess].attempts \in Nat
         /\ tokens'[call'[c].guess].attempts = tokens[call'[c].guess].attempts + 1
         /\ (IF mode = "restart" THEN 0 ELSE call[c].carried)
              + tokens[call'[c].guess].attempts + 1 <= limit
         /\ UNCHANGED <<mode, now, user>>
         /\ \A d \in Call \ {c} : call'[d] = call[d]
<1>0. TypeOK /\ Shapes /\ Links /\ SpentByRestarts
  BY DEF Inv
<1>1. /\ Walking(c) /\ Adds(c) /\ call'[c].guess = HashOf(call[c])
      /\ (IF mode = "restart" THEN 0 ELSE call[c].carried) + tokens[HashOf(call[c])].attempts + 1
           <= limit
      /\ UNCHANGED <<mode, now, user>>
      /\ \A d \in Call \ {c} : call'[d] = call[d]
  BY WhoGuesses
<1>2. PICK h \in Hash : h = HashOf(call[c]) /\ (user => Live(h))
  BY <1>0, <1>1, WalkPlace
<1>3. /\ tokens[h] # None /\ tokens[h].attempts \in Nat
      /\ tokens'[h].attempts = tokens[h].attempts + 1
      /\ tokens[h].spentAt = None
  BY <1>1, <1>2, AddsOne
<1> QED
  BY <1>1, <1>2, <1>3 DEF SpentLink

LEMMA StillSpentByRestarts ==
  ASSUME Inv, [Next]_vars
  PROVE  SpentByRestarts'
<1>0. SpentByRestarts
  BY DEF Inv
<1> SUFFICES ASSUME mode' = "restart", NEW h \in Hash, (Live(h))', (SpentLink(h))'
             PROVE  \/ (Restarted(h))'
                    \/ h[1] = 0 /\ h[3] < MaxSpent /\ \A c \in Call : call'[c].guess # h
  BY DEF SpentByRestarts
<1>1. mode = "restart"
  BY EveryStep DEF Moves, Only, Forgets, Passes
<1>2. Live(h)
  BY LiveBefore
<1>3. CASE SpentLink(h)
  <2>1. CASE Restarted(h)
    BY <2>1, RestartedStays
  <2>2. CASE h[1] = 0 /\ h[3] < MaxSpent /\ \A c \in Call : call[c].guess # h
    <3>1. ASSUME NEW c \in Call, call'[c].guess = h PROVE FALSE
      <4>1. call'[c].guess # call[c].guess
        BY <2>2, <3>1
      <4>2. ~ SpentLink(call'[c].guess)
        BY <4>1, NewGuess
      <4> QED
        BY <1>3, <3>1, <4>2
    <3> QED
      BY <2>2, <3>1
  <2> QED
    BY <1>0, <1>1, <1>2, <1>3, <2>1, <2>2 DEF SpentByRestarts
<1>4. CASE ~ SpentLink(h)
  <2>1. PICK c \in Call : Spends(c) /\ h = call[c].link
    BY <1>1, <1>4, WhoSpends
  <2>2. call'[c].pc = "done" /\ call'[c].link = h
    BY <2>1 DEF Spends, SameHistory
  <2> QED
    BY <2>2 DEF Restarted
<1> QED
  BY <1>3, <1>4

LEMMA StillRestartedBelow ==
  ASSUME Inv, [Next]_vars
  PROVE  RestartedBelow'
<1>0. TypeOK /\ Shapes /\ Links /\ SpentByRestarts /\ RestartedBelow
  BY DEF Inv
<1>1. mode' = mode
  BY EveryStep DEF Moves, Only, Forgets, Passes
<1> SUFFICES ASSUME mode = "restart", NEW c \in Call, NEW d \in Call,
                    call'[c].guess # None, call'[d].guess # None,
                    Under(call'[c].guess, call'[d].guess)
             PROVE  (Restarted(call[c].guess))'
  BY <1>1 DEF RestartedBelow, Under
<1>2. PICK g, h : g = call'[c].guess /\ h = call'[d].guess
  OBVIOUS
<1>3. user
  BY <1>0 DEF Shapes
<1>4. ASSUME Restarted(g) PROVE (Restarted(call[c].guess))'
  <2>1. (Restarted(g))'
    BY <1>4, RestartedStays
  <2> QED
    BY <1>2, <2>1 DEF Restarted
<1>5. g \in Hash /\ h \in Hash /\ Under(g, h)
  <2>1. TypeOK'
    BY StillTyped
  <2>2. call'[c] \in CallRecord /\ call'[d] \in CallRecord
    BY <2>1 DEF TypeOK
  <2> QED
    BY <1>2, <2>2, Fields
<1>6. CASE call'[c].guess = call[c].guess /\ call'[d].guess = call[d].guess
  BY <1>0, <1>2, <1>4, <1>5, <1>6 DEF RestartedBelow
<1>7. CASE call'[c].guess # call[c].guess
  <2>1. /\ Live(g) /\ ~ SpentLink(g)
        /\ \A e \in Call \ {c} : call'[e] = call[e]
    BY <1>2, <1>3, <1>7, NewGuess
  <2>2. c # d
    <3>1. g[3] \in Nat
      BY <1>5, LinkParts
    <3> QED
      BY <1>2, <1>5, <3>1 DEF Under
  <2>3. call[d].guess = h
    BY <1>2, <2>1, <2>2
  <2>4. Live(h)
    BY <1>5, <2>1, LiveTogether DEF Under
  <2>5. tokens[h] # None
    BY <1>0, <1>2, <2>3, <2>4 DEF Links, Kept
  <2>6. SpentLink(g)
    BY <1>0, <1>5, <2>4, <2>5 DEF Links, Chained
  <2> QED
    BY <2>1, <2>6
<1>8. CASE call'[c].guess = call[c].guess /\ call'[d].guess # call[d].guess
  <2>1. Live(h) /\ tokens[h] # None
    BY <1>2, <1>3, <1>8, NewGuess
  <2>2. SpentLink(g)
    BY <1>0, <1>5, <2>1 DEF Links, Chained
  <2>3. Live(g)
    BY <1>5, <2>1, LiveTogether DEF Under
  <2>4. Restarted(g)
    BY <1>0, <1>2, <1>5, <1>8, <2>2, <2>3 DEF SpentByRestarts
  <2> QED
    BY <1>4, <2>4
<1> QED
  BY <1>6, <1>7, <1>8

-----------------------------------------------------------------------------
(* The links count every guess let through.                                *)

LEMMA SomeCalls ==
  ASSUME NEW S, S \subseteq Call
  PROVE  /\ IsFiniteSet(S) /\ Cardinality(S) \in Nat
         /\ \A T \in SUBSET S : Cardinality(T) <= Cardinality(S) /\ Cardinality(T) \in Nat
<1>1. IsFiniteSet(Call)
  BY Constants
<1>2. ASSUME NEW T, T \subseteq Call PROVE IsFiniteSet(T) /\ Cardinality(T) \in Nat
  <2>1. T \in SUBSET Call
    BY <1>2
  <2>2. IsFiniteSet(T)
    BY <1>1, <2>1, FS_Subset
  <2> QED
    BY <2>2, FS_CardinalityType
<1>3. IsFiniteSet(S) /\ Cardinality(S) \in Nat
  BY <1>2
<1>4. ASSUME NEW T \in SUBSET S PROVE Cardinality(T) <= Cardinality(S) /\ Cardinality(T) \in Nat
  <2>1. Cardinality(T) <= Cardinality(S)
    BY <1>3, FS_Subset
  <2> QED
    BY <1>2, <2>1
<1> QED
  BY <1>3, <1>4

LEMMA OneMoreCall ==
  ASSUME NEW S, S \subseteq Call, NEW c \in Call, NEW T, T \subseteq S \cup {c}
  PROVE  Cardinality(T) <= Cardinality(S) + 1
<1>1. IsFiniteSet(S) /\ Cardinality(S) \in Nat
  BY SomeCalls
<1>2. Cardinality(S \cup {c}) <= Cardinality(S) + 1
  BY <1>1, FS_AddElement
<1>3. Cardinality(T) <= Cardinality(S \cup {c}) /\ Cardinality(T) \in Nat /\ Cardinality(S \cup {c}) \in Nat
  <2>1. S \cup {c} \subseteq Call /\ T \in SUBSET (S \cup {c})
    OBVIOUS
  <2> QED
    BY <2>1, SomeCalls
<1> QED
  BY <1>1, <1>2, <1>3

LEMMA BothCalls ==
  ASSUME NEW S, S \subseteq Call, NEW R, R \subseteq Call, NEW T, T \subseteq S \cup R
  PROVE  Cardinality(T) <= Cardinality(S) + Cardinality(R)
<1>1. IsFiniteSet(S) /\ Cardinality(S) \in Nat /\ IsFiniteSet(R) /\ Cardinality(R) \in Nat
  BY SomeCalls
<1>2. Cardinality(S \cap R) \in Nat
  <2>1. S \cap R \subseteq Call
    OBVIOUS
  <2> QED
    BY <2>1, SomeCalls
<1>3. Cardinality(S \cup R) = Cardinality(S) + Cardinality(R) - Cardinality(S \cap R)
  BY <1>1, FS_Union
<1>4. Cardinality(T) <= Cardinality(S \cup R) /\ Cardinality(T) \in Nat /\ Cardinality(S \cup R) \in Nat
  <2>1. S \cup R \subseteq Call /\ T \in SUBSET (S \cup R)
    OBVIOUS
  <2> QED
    BY <2>1, SomeCalls
<1> QED
  BY <1>1, <1>2, <1>3, <1>4

(* One call at most has its guess let through in a step.                   *)
LEMMA Guesses ==
  ASSUME Inv, [Next]_vars
  PROVE  \/ \A c \in Call : call'[c].guess = call[c].guess
         \/ \E c \in Call : /\ call'[c].guess # call[c].guess
                            /\ \A d \in Call \ {c} : call'[d].guess = call[d].guess
<1>1. ASSUME NEW c \in Call, call'[c].guess # call[c].guess
      PROVE  \A d \in Call \ {c} : call'[d].guess = call[d].guess
  BY <1>1, NewGuess
<1> QED
  BY <1>1

LEMMA StillCountedAt ==
  ASSUME Inv, [Next]_vars
  PROVE  CountedAt'
<1>0. TypeOK /\ Shapes /\ Links /\ SpentByRestarts /\ CountedAt
  BY DEF Inv, Counts
<1> SUFFICES ASSUME NEW h \in Hash, (Live(h))', tokens'[h] # None
             PROVE  Cardinality((GuessedAt(h))') <= tokens'[h].attempts
  BY DEF CountedAt
<1>1. Live(h)
  BY LiveBefore
<1>2. GuessedAt(h) \subseteq Call /\ (GuessedAt(h))' \subseteq Call
  BY DEF GuessedAt
<1>3. Cardinality(GuessedAt(h)) \in Nat /\ Cardinality((GuessedAt(h))') \in Nat
  BY <1>2, SomeCalls
<1>4. tokens[h] # None => tokens[h].attempts \in Nat
  BY <1>0, StateTyped DEF TokenRecord
<1>5. tokens'[h].attempts \in Nat
  <2>1. tokens' \in Store
    BY LinksKept
  <2> QED
    BY <2>1 DEF Store, TokenRecord
<1>6. CASE \A c \in Call : call'[c].guess = h => call[c].guess = h
  <2>1. (GuessedAt(h))' \in SUBSET GuessedAt(h)
    BY <1>6 DEF GuessedAt
  <2>2. Cardinality((GuessedAt(h))') <= Cardinality(GuessedAt(h))
    BY <1>2, <2>1, SomeCalls
  <2>3. CASE tokens[h] # None
    <3>1. tokens'[h].attempts >= tokens[h].attempts
      BY <1>1, <2>3, LinksKept
    <3>2. Cardinality(GuessedAt(h)) <= tokens[h].attempts
      BY <1>0, <1>1, <2>3 DEF CountedAt
    <3> QED
      BY <1>3, <1>4, <1>5, <2>2, <2>3, <3>1, <3>2
  <2>4. CASE tokens[h] = None
    <3>1. ASSUME NEW c \in GuessedAt(h) PROVE FALSE
      <4>1. c \in Call /\ call[c].guess = h /\ h # None
        BY <3>1, LinkParts DEF GuessedAt
      <4> QED
        BY <1>0, <1>1, <2>4, <4>1 DEF Links, Kept
    <3>2. Cardinality(GuessedAt(h)) = 0
      BY <3>1, FS_EmptySet
    <3> QED
      BY <1>3, <1>5, <2>2, <3>2
  <2> QED
    BY <2>3, <2>4
<1>7. ASSUME NEW c \in Call, call'[c].guess = h, call[c].guess # h
      PROVE  Cardinality((GuessedAt(h))') <= tokens'[h].attempts
  <2>1. /\ tokens[h] # None /\ tokens'[h].attempts = tokens[h].attempts + 1
        /\ \A d \in Call \ {c} : call'[d] = call[d]
    BY <1>7, NewGuess
  <2>2. (GuessedAt(h))' \subseteq GuessedAt(h) \cup {c}
    BY <2>1 DEF GuessedAt
  <2>3. Cardinality((GuessedAt(h))') <= Cardinality(GuessedAt(h)) + 1
    BY <1>2, <2>2, OneMoreCall
  <2>4. Cardinality(GuessedAt(h)) <= tokens[h].attempts
    BY <1>0, <1>1, <2>1 DEF CountedAt
  <2> QED
    BY <1>3, <1>4, <2>1, <2>3, <2>4
<1> QED
  BY <1>6, <1>7

LEMMA StillLimitedAt ==
  ASSUME Inv, [Next]_vars
  PROVE  LimitedAt'
<1>0. TypeOK /\ CountedAt /\ LimitedAt
  BY DEF Inv, Counts
<1> SUFFICES ASSUME user', NEW h \in Hash
             PROVE  Cardinality((GuessedAt(h))') <= limit
  BY DEF LimitedAt
<1>1. user
  BY <1>0, EveryStep DEF Moves, Only, Forgets, Passes
<1>2. GuessedAt(h) \subseteq Call /\ (GuessedAt(h))' \subseteq Call
  BY DEF GuessedAt
<1>3. Cardinality(GuessedAt(h)) \in Nat /\ Cardinality((GuessedAt(h))') \in Nat /\ limit \in Nat
  BY <1>2, SomeCalls, Constants
<1>4. CASE \A c \in Call : call'[c].guess = h => call[c].guess = h
  <2>1. (GuessedAt(h))' \in SUBSET GuessedAt(h)
    BY <1>4 DEF GuessedAt
  <2>2. Cardinality((GuessedAt(h))') <= Cardinality(GuessedAt(h))
    BY <1>2, <2>1, SomeCalls
  <2>3. Cardinality(GuessedAt(h)) <= limit
    BY <1>0, <1>1 DEF LimitedAt
  <2> QED
    BY <1>3, <2>2, <2>3
<1>5. ASSUME NEW c \in Call, call'[c].guess = h, call[c].guess # h
      PROVE  Cardinality((GuessedAt(h))') <= limit
  <2>1. /\ Live(h) /\ tokens[h] # None /\ tokens[h].attempts \in Nat
        /\ (IF mode = "restart" THEN 0 ELSE call[c].carried) + tokens[h].attempts + 1 <= limit
        /\ \A d \in Call \ {c} : call'[d] = call[d]
    BY <1>1, <1>5, NewGuess
  <2>2. (GuessedAt(h))' \subseteq GuessedAt(h) \cup {c}
    BY <2>1 DEF GuessedAt
  <2>3. Cardinality((GuessedAt(h))') <= Cardinality(GuessedAt(h)) + 1
    BY <1>2, <2>2, OneMoreCall
  <2>4. Cardinality(GuessedAt(h)) <= tokens[h].attempts
    BY <1>0, <2>1 DEF CountedAt
  <2>5. call[c].carried \in Nat
    BY <1>0, StateTyped, Fields
  <2> QED
    BY <1>3, <2>1, <2>3, <2>4, <2>5
<1> QED
  BY <1>4, <1>5

LEMMA StillCarried ==
  ASSUME Inv, [Next]_vars
  PROVE  CarriedBelow'
<1>0. TypeOK /\ Shapes /\ Links /\ SpentByRestarts /\ CountedAt /\ CarriedBelow
  BY DEF Inv, Counts
<1>1. mode' = mode /\ (user' => user)
  BY <1>0, EveryStep DEF Moves, Only, Forgets, Passes
<1> SUFFICES ASSUME mode # "restart", NEW c \in Call, (Walking(c))', user'
             PROVE  Cardinality((GuessedBelow(HashOf(call[c])))') <= call'[c].carried
  BY <1>1 DEF CarriedBelow
<1>2. user
  BY <1>1
<1>3. call'[c] \in CallRecord /\ call[c] \in CallRecord
  <2>1. TypeOK'
    BY StillTyped
  <2> QED
    BY <1>0, <2>1, StateTyped DEF TypeOK
<1>4. /\ (HashOf(call[c]))' = <<WindowOf(call'[c].started), call'[c].step, call'[c].spent + 1>>
      /\ HashOf(call[c]) = <<WindowOf(call[c].started), call[c].step, call[c].spent + 1>>
      /\ PlaceOf(call[c]) = call[c].spent + 1
  BY <1>1 DEF HashOf, PlaceOf, WindowOf
<1>5. PICK k : k = (HashOf(call[c]))'
  OBVIOUS
<1>6. (GuessedBelow(HashOf(call[c])))' = {d \in Call : call'[d].guess # None /\ Under(call'[d].guess, k)}
  BY <1>5 DEF GuessedBelow, Under
<1>7. PICK below : below = {d \in Call : call'[d].guess # None /\ Under(call'[d].guess, k)}
  OBVIOUS
<1> SUFFICES Cardinality(below) <= call'[c].carried
  BY <1>6, <1>7
<1>8. below \subseteq Call /\ Cardinality(below) \in Nat /\ call'[c].carried \in Nat
  BY <1>3, <1>7, SomeCalls, Fields
<1>9. CASE /\ Walking(c)
           /\ call'[c].started = call[c].started /\ call'[c].step = call[c].step
           /\ call'[c].spent = call[c].spent /\ call'[c].carried = call[c].carried
  <2>1. k = HashOf(call[c])
    BY <1>4, <1>5, <1>9
  <2>2. below \in SUBSET GuessedBelow(k)
    <3>1. ASSUME NEW d \in Call, call'[d].guess # None, Under(call'[d].guess, k),
                 call'[d].guess # call[d].guess
          PROVE  FALSE
      <4>1. call'[d].guess \in Hash /\ ~ SpentLink(call'[d].guess)
        BY <3>1, NewGuess
      <4>2. SpentLink(call'[d].guess)
        BY <1>0, <1>2, <1>9, <2>1, <3>1, <4>1, SpentUnder
      <4> QED
        BY <4>1, <4>2
    <3> QED
      BY <1>7, <3>1 DEF GuessedBelow
  <2>3. GuessedBelow(k) \subseteq Call
    BY DEF GuessedBelow
  <2>4. Cardinality(below) <= Cardinality(GuessedBelow(k)) /\ Cardinality(GuessedBelow(k)) \in Nat
    BY <2>2, <2>3, SomeCalls
  <2>5. Cardinality(GuessedBelow(k)) <= call[c].carried
    BY <1>0, <1>2, <1>9, <2>1 DEF CarriedBelow
  <2> QED
    BY <1>8, <1>9, <2>4, <2>5
<1>10. CASE /\ Walking(c)
            /\ call'[c].started = call[c].started /\ call'[c].step = call[c].step
            /\ SpentLink(HashOf(call[c])) /\ call'[c].spent = PlaceOf(call[c])
            /\ call'[c].carried = call[c].carried + tokens[HashOf(call[c])].attempts
            /\ \A d \in Call : call'[d].guess = call[d].guess
  <2>1. PICK h \in Hash : h = HashOf(call[c]) /\ Live(h)
    BY <1>0, <1>2, <1>10, WalkPlace
  <2>2. tokens[h] # None /\ tokens[h].attempts \in Nat
    BY <1>0, <1>10, <2>1, StateTyped DEF SpentLink, TokenRecord
  <2>3. call[c].spent \in Int
    BY <1>3, Fields
  <2>4. k[1] = h[1] /\ k[2] = h[2] /\ k[3] = h[3] + 1 /\ h[3] \in Nat
    BY <1>4, <1>5, <1>10, <2>1, LinkParts
  <2>5. below \subseteq GuessedBelow(h) \cup GuessedAt(h)
    <3>1. ASSUME NEW d \in Call, call'[d].guess # None, Under(call'[d].guess, k)
          PROVE  d \in GuessedBelow(h) \cup GuessedAt(h)
      <4>1. PICK g \in Hash : g = call[d].guess
        BY <1>0, <1>10, <3>1, StateTyped, Fields
      <4>2. g[1] = h[1] /\ g[2] = h[2] /\ g[3] < h[3] + 1
        BY <1>10, <2>4, <3>1, <4>1 DEF Under
      <4>3. g[3] \in Nat /\ g = <<g[1], g[2], g[3]>> /\ h = <<h[1], h[2], h[3]>> /\ g # None
        BY LinkParts
      <4>4. CASE g[3] < h[3]
        BY <4>1, <4>2, <4>3, <4>4 DEF GuessedBelow, Under
      <4>5. CASE g[3] = h[3]
        BY <4>1, <4>2, <4>3, <4>5 DEF GuessedAt
      <4> QED
        BY <2>4, <4>2, <4>3, <4>4, <4>5
    <3> QED
      BY <1>7, <3>1
  <2>6. GuessedBelow(h) \subseteq Call /\ GuessedAt(h) \subseteq Call
    BY DEF GuessedBelow, GuessedAt
  <2>7. /\ Cardinality(below) <= Cardinality(GuessedBelow(h)) + Cardinality(GuessedAt(h))
        /\ Cardinality(GuessedBelow(h)) \in Nat /\ Cardinality(GuessedAt(h)) \in Nat
    BY <2>5, <2>6, BothCalls, SomeCalls
  <2>8. Cardinality(GuessedBelow(h)) <= call[c].carried
    BY <1>0, <1>2, <1>10, <2>1 DEF CarriedBelow
  <2>9. Cardinality(GuessedAt(h)) <= tokens[h].attempts
    BY <1>0, <2>1, <2>2 DEF CountedAt
  <2>10. call'[c].carried = call[c].carried + tokens[h].attempts /\ call[c].carried \in Nat
    BY <1>3, <1>10, <2>1, Fields
  <2> QED
    BY <1>8, <2>2, <2>7, <2>8, <2>9, <2>10
<1>11. CASE call'[c].spent = -1
  <2>1. k[3] = 0
    BY <1>4, <1>5, <1>11
  <2>2. ASSUME NEW d \in below PROVE FALSE
    <3>1. d \in Call /\ call'[d].guess # None /\ Under(call'[d].guess, k)
      BY <1>7, <2>2
    <3>2. call'[d].guess \in Hash
      <4>1. TypeOK'
        BY StillTyped
      <4>2. call'[d] \in CallRecord
        BY <3>1, <4>1 DEF TypeOK
      <4> QED
        BY <3>1, <4>2, Fields
    <3>3. call'[d].guess[3] \in Nat
      BY <3>2, LinkParts
    <3> QED
      BY <2>1, <3>1, <3>3 DEF Under
  <2>3. Cardinality(below) = 0
    BY <2>2, FS_EmptySet
  <2> QED
    BY <1>8, <2>3
<1> QED
  BY <1>9, <1>10, <1>11, WalkStep

(* The guesses let through in one window, while one step was the last.     *)
Through(w, s) == {c \in Call : call[c].guess # None /\ call[c].guess[1] = w /\ call[c].guess[2] = s}

LEMMA CarriedOnThrough ==
  ASSUME TypeOK
  PROVE  CarriedOn <=> (user => \A w \in Window, s \in 0..MaxStep : Cardinality(Through(w, s)) <= limit)
<1>1. ASSUME NEW w, NEW s PROVE {c \in LetThrough(w) : call[c].guess[2] = s} = Through(w, s)
  BY DEF LetThrough, Through
<1> QED
  BY <1>1 DEF CarriedOn

LEMMA StillLimited ==
  ASSUME Inv, [Next]_vars
  PROVE  Limited'
<1>0. TypeOK /\ Shapes /\ Links /\ SpentByRestarts /\ CountedAt /\ CarriedBelow /\ Limited
  BY DEF Inv, Counts
<1>1. mode' = mode /\ (user' => user)
  BY <1>0, EveryStep DEF Moves, Only, Forgets, Passes
<1>2. (TypeOK)'
  BY StillTyped
<1> SUFFICES ASSUME mode # "restart", user', NEW w \in Window, NEW s \in 0..MaxStep
             PROVE  Cardinality((Through(w, s))') <= limit
  <2>1. (CarriedOn <=> (user => \A w \in Window, s \in 0..MaxStep : Cardinality(Through(w, s)) <= limit))'
    BY <1>2, CarriedOnThrough, PTL
  <2> QED
    BY <1>1, <2>1 DEF Limited
<1>3. Through(w, s) \subseteq Call /\ (Through(w, s))' \subseteq Call
  BY DEF Through
<1>4. /\ Cardinality(Through(w, s)) \in Nat /\ Cardinality((Through(w, s))') \in Nat
      /\ limit \in Nat
  BY <1>3, SomeCalls, Constants
<1>5. CASE \A c \in Call : c \in (Through(w, s))' => call'[c].guess = call[c].guess
  <2>1. (Through(w, s))' \in SUBSET Through(w, s)
    BY <1>5 DEF Through
  <2>2. Cardinality((Through(w, s))') <= Cardinality(Through(w, s))
    BY <1>3, <2>1, SomeCalls
  <2>3. Cardinality(Through(w, s)) <= limit
    BY <1>0, <1>1, CarriedOnThrough DEF Limited
  <2> QED
    BY <1>4, <2>2, <2>3
<1>6. ASSUME NEW c \in Call, c \in (Through(w, s))', call'[c].guess # call[c].guess
      PROVE  Cardinality((Through(w, s))') <= limit
  <2>1. PICK h \in Hash : /\ h = call'[c].guess /\ h = HashOf(call[c]) /\ Live(h) /\ Walking(c)
                          /\ tokens[h] # None /\ ~ SpentLink(h) /\ tokens[h].attempts \in Nat
                          /\ call[c].carried + tokens[h].attempts + 1 <= limit
                          /\ \A d \in Call \ {c} : call'[d] = call[d]
    BY <1>1, <1>6, NewGuess
  <2>2. h[1] = w /\ h[2] = s
    BY <1>6, <2>1 DEF Through
  <2>3. (Through(w, s))' \subseteq (GuessedBelow(h) \cup GuessedAt(h)) \cup {c}
    <3>1. ASSUME NEW d \in Call, d # c, d \in (Through(w, s))'
          PROVE  d \in GuessedBelow(h) \cup GuessedAt(h)
      <4>1. call'[d] = call[d]
        BY <2>1, <3>1
      <4>2. call[d].guess # None /\ call[d].guess[1] = w /\ call[d].guess[2] = s
        BY <3>1, <4>1 DEF Through
      <4>3. PICK g \in Hash : g = call[d].guess
        BY <1>0, <4>2, StateTyped, Fields
      <4>4. Live(g)
        BY <2>1, <2>2, <4>2, <4>3, LiveTogether
      <4>5. tokens[g] # None
        BY <1>0, <4>2, <4>3, <4>4 DEF Links, Kept
      <4>6. ~ Under(h, g)
        BY <1>0, <2>1, <4>4, <4>5 DEF Links, Chained
      <4>7. /\ g[3] \in Nat /\ h[3] \in Nat
            /\ g = <<g[1], g[2], g[3]>> /\ h = <<h[1], h[2], h[3]>>
        BY LinkParts
      <4>8. CASE g[3] < h[3]
        BY <2>2, <4>2, <4>3, <4>8 DEF GuessedBelow, Under
      <4>9. CASE g[3] = h[3]
        BY <2>2, <4>2, <4>3, <4>7, <4>9 DEF GuessedAt
      <4> QED
        BY <2>2, <4>2, <4>3, <4>6, <4>7, <4>8, <4>9 DEF Under
    <3> QED
      BY <1>3, <3>1
  <2>4. PICK both : both = GuessedBelow(h) \cup GuessedAt(h)
    OBVIOUS
  <2>5. /\ GuessedBelow(h) \subseteq Call /\ GuessedAt(h) \subseteq Call /\ both \subseteq Call
    BY <2>4 DEF GuessedBelow, GuessedAt
  <2>6. Cardinality(both) <= Cardinality(GuessedBelow(h)) + Cardinality(GuessedAt(h))
    BY <2>4, <2>5, BothCalls
  <2>7. Cardinality((Through(w, s))') <= Cardinality(both) + 1
    BY <2>3, <2>4, <2>5, OneMoreCall
  <2>8. /\ Cardinality(GuessedBelow(h)) \in Nat /\ Cardinality(GuessedAt(h)) \in Nat
        /\ Cardinality(both) \in Nat
    BY <2>5, SomeCalls
  <2>9. Cardinality(GuessedBelow(h)) <= call[c].carried
    BY <1>0, <1>1, <2>1 DEF CarriedBelow
  <2>10. Cardinality(GuessedAt(h)) <= tokens[h].attempts
    BY <1>0, <2>1 DEF CountedAt
  <2>11. call[c].carried \in Nat
    BY <1>0, StateTyped, Fields
  <2> QED
    BY <1>4, <2>1, <2>6, <2>7, <2>8, <2>9, <2>10, <2>11
<1> QED
  BY <1>5, <1>6

-----------------------------------------------------------------------------
(* The invariant, and what it gives.                                       *)

LEMMA InitInv == Init => Inv
<1> SUFFICES ASSUME Init PROVE Inv
  OBVIOUS
<1>1. PICK before \in 0..MaxSpent, counting \in 1..limit \cup {None} :
        tokens = [h \in Hash |->
            CASE h[1] = 0 /\ h[2] = 0 /\ h[3] < before -> Link(0, 1, 0)
              [] h = <<0, 0, before>> /\ counting # None -> Link(0, counting, None)
              [] OTHER -> None]
  BY DEF Init
<1>2. /\ limit \in Nat \ {0} /\ MaxSpent \in Nat /\ MaxLink \in Nat /\ MaxTime \in Nat
      /\ MaxStep \in Nat /\ MAX_LINKS \in Nat \ {0} /\ MAX_PROBES \in Nat \ {0}
      /\ windowMs \in Nat \ {0} /\ None \notin Nat
  BY Constants
<1>3. before \in Nat /\ before <= MaxSpent /\ counting \in Nat \cup {None}
  BY <1>2
<1>4. PICK u \in UserId : u = (CHOOSE x \in UserId : TRUE)
  <2>1. UserId # {}
    <3>1. Cardinality(UserId) = 1
      BY AttemptWindowAssumption
    <3>2. Cardinality({}) = 0
      BY FS_EmptySet
    <3> QED
      BY <3>1, <3>2
  <2> QED
    BY <2>1
<1>5. ExpiresAt(0) = (0 + 2) * windowMs /\ ExpiresAt(0) \in Nat
  <2>1. PICK q : q = 0 \div windowMs
    OBVIOUS
  <2>2. q \in Nat /\ q * windowMs <= 0
    BY <1>2, <2>1, Quotient
  <2>3. q = 0
    <3>1. CASE q >= 1
      <4>1. (q - 1) * windowMs \in Nat /\ q * windowMs = (q - 1) * windowMs + windowMs
        BY <1>2, <2>2, <3>1
      <4> QED
        BY <1>2, <2>2, <4>1
    <3> QED
      BY <2>2, <3>1
  <2> QED
    BY <1>2, <2>1, <2>3 DEF ExpiresAt, WindowOf
<1>6. ASSUME NEW attempts \in Nat, NEW spentAt \in Nat \cup {None}
      PROVE  /\ Link(0, attempts, spentAt) \in TokenRecord
             /\ Link(0, attempts, spentAt) # None
             /\ Link(0, attempts, spentAt).kind = "secondFactor"
             /\ Link(0, attempts, spentAt).expiresAt = (0 + 2) * windowMs
             /\ Link(0, attempts, spentAt).spentAt = spentAt
             /\ Link(0, attempts, spentAt).attempts = attempts
  <2>1. PICK lapse \in Nat : lapse = ExpiresAt(0)
    BY <1>5
  <2>2. PICK link : link = Link(0, attempts, spentAt)
    OBVIOUS
  <2>3. link = [kind |-> "secondFactor", userId |-> u, address |-> "", attempts |-> attempts,
                expiresAt |-> lapse, spentAt |-> spentAt]
    BY <1>4, <2>1, <2>2 DEF Link
  <2>4. "secondFactor" \in Kind /\ "" \in Address /\ u \in UserId /\ lapse \in Nat
    BY <1>4, <2>1, AttemptWindowAssumption
  <2>5. link \in TokenRecord
    BY <1>6, <2>3, <2>4 DEF TokenRecord
  <2>6. link # None
    BY <2>5, TokenStoreAssumption
  <2>7. /\ link.kind = "secondFactor" /\ link.expiresAt = lapse
        /\ link.spentAt = spentAt /\ link.attempts = attempts
    BY <2>3
  <2> QED
    BY <1>5, <2>1, <2>2, <2>5, <2>6, <2>7
<1>7. ASSUME NEW h \in Hash
      PROVE  \/ tokens[h] = None
             \/ h[1] = 0 /\ h[2] = 0 /\ h[3] < before /\ tokens[h] = Link(0, 1, 0)
             \/ h = <<0, 0, before>> /\ counting # None /\ tokens[h] = Link(0, counting, None)
  <2>1. CASE h[1] = 0 /\ h[2] = 0 /\ h[3] < before
    <3>1. h # <<0, 0, before>>
      BY <1>3, <2>1
    <3> QED
      BY <1>1, <2>1, <3>1
  <2>2. CASE h = <<0, 0, before>> /\ counting # None
    <3>1. ~ (h[3] < before)
      BY <1>3, <2>2
    <3> QED
      BY <1>1, <2>2, <3>1
  <2>3. CASE ~ (h[1] = 0 /\ h[2] = 0 /\ h[3] < before) /\ ~ (h = <<0, 0, before>> /\ counting # None)
    BY <1>1, <2>3
  <2> QED
    BY <2>1, <2>2, <2>3
<1>8. ASSUME NEW h \in Hash, tokens[h] # None
      PROVE  /\ tokens[h] \in TokenRecord /\ tokens[h].kind = "secondFactor"
             /\ tokens[h].expiresAt = (h[1] + 2) * windowMs
             /\ tokens[h].attempts \in Nat
             /\ h[1] = 0 /\ h[2] = 0 /\ h[3] <= before
             /\ IF h[3] < before THEN SpentLink(h) ELSE ~ SpentLink(h)
  <2>1. CASE h[1] = 0 /\ h[2] = 0 /\ h[3] < before /\ tokens[h] = Link(0, 1, 0)
    <3>1. /\ Link(0, 1, 0) \in TokenRecord /\ Link(0, 1, 0).kind = "secondFactor"
          /\ Link(0, 1, 0).expiresAt = (0 + 2) * windowMs
          /\ Link(0, 1, 0).spentAt = 0 /\ Link(0, 1, 0).attempts = 1
      BY <1>6
    <3>2. h[3] \in Nat
      BY LinkParts
    <3> QED
      BY <1>2, <1>3, <1>8, <2>1, <3>1, <3>2 DEF SpentLink
  <2>2. CASE h = <<0, 0, before>> /\ counting # None /\ tokens[h] = Link(0, counting, None)
    <3>1. counting \in Nat
      BY <1>3, <2>2
    <3>2. /\ Link(0, counting, None) \in TokenRecord
          /\ Link(0, counting, None).kind = "secondFactor"
          /\ Link(0, counting, None).expiresAt = (0 + 2) * windowMs
          /\ Link(0, counting, None).spentAt = None /\ Link(0, counting, None).attempts = counting
      BY <1>6, <3>1
    <3>3. h[1] = 0 /\ h[2] = 0 /\ h[3] = before
      BY <2>2
    <3> QED
      BY <1>3, <2>2, <3>1, <3>2, <3>3 DEF SpentLink
  <2> QED
    BY <1>7, <1>8, <2>1, <2>2
<1>9. ASSUME NEW c \in Call
      PROVE  /\ call[c] \in CallRecord /\ call[c].pc = "idle" /\ Fresh(call[c])
             /\ call[c].step = 0 /\ call[c].link = None /\ call[c].guess = None
  <2>1. 0 \in 0..MaxTime /\ 0 \in 0..MaxStep /\ -1 \in -1..MaxLink /\ 0 \in 0..MAX_PROBES
    BY <1>2
  <2>2. call[c] = NewCall
    BY DEF Init
  <2>3. NewCall \in CallRecord
    BY <2>1 DEF NewCall, CallRecord
  <2> QED
    BY <2>2, <2>3 DEF NewCall, Fresh
<1>10. TypeOK
  <2>1. tokens \in Store
    BY <1>1, <1>8 DEF Store
  <2>2. call \in [Call -> CallRecord]
    BY <1>9 DEF Init
  <2>3. \A c \in Call : call[c].spent < MAX_LINKS - 1
    BY <1>2, <1>9 DEF Fresh
  <2>4. 0 \in 0..MaxTime /\ 0 \in 0..MaxStep
    BY <1>2
  <2> QED
    BY <2>1, <2>2, <2>3, <2>4 DEF TypeOK, Init
<1>11. Shapes
  BY <1>9 DEF Shapes, CallShape, Walking, Init
<1>12. Links
  <2>1. Stamped
    BY <1>8 DEF Stamped
  <2>2. Chained
    <3>1. ASSUME NEW h \in Hash, NEW g \in Hash, tokens[h] # None, Under(g, h) PROVE SpentLink(g)
      <4>1. h[1] = 0 /\ h[2] = 0 /\ h[3] <= before
        BY <1>8, <3>1
      <4>2. g[1] = 0 /\ g[2] = 0 /\ g[3] < before /\ g[3] \in Nat
        BY <1>3, <3>1, <4>1, LinkParts DEF Under
      <4>3. tokens[g] = Link(0, 1, 0)
        <5>1. g # <<0, 0, before>>
          BY <1>3, <4>2
        <5> QED
          BY <1>1, <4>2, <5>1
      <4>4. Link(0, 1, 0) # None /\ Link(0, 1, 0).spentAt = 0
        BY <1>6
      <4> QED
        BY <1>2, <4>3, <4>4 DEF SpentLink
    <3> QED
      BY <3>1 DEF Chained
  <2>3. Walked /\ Kept
    BY <1>9 DEF Walked, Kept, Walking
  <2> QED
    BY <2>1, <2>2, <2>3 DEF Links
<1>13. SpentByRestarts
  <2>1. ASSUME NEW h \in Hash, SpentLink(h)
        PROVE  h[1] = 0 /\ h[3] < MaxSpent /\ \A c \in Call : call[c].guess # h
    <3>1. tokens[h] # None
      BY <2>1 DEF SpentLink
    <3>2. h[1] = 0 /\ h[3] < before
      BY <1>8, <2>1, <3>1
    <3>3. h[3] \in Nat /\ h # None
      BY LinkParts
    <3> QED
      BY <1>2, <1>3, <1>9, <3>2, <3>3
  <2> QED
    BY <2>1 DEF SpentByRestarts
<1>14. RestartedBelow
  BY <1>9 DEF RestartedBelow
<1>15. Counts
  <2>1. ASSUME NEW h \in Hash PROVE GuessedAt(h) = {}
    BY <1>9, LinkParts DEF GuessedAt
  <2>2. Cardinality({}) = 0
    BY FS_EmptySet
  <2>3. CountedAt
    <3>1. ASSUME NEW h \in Hash, tokens[h] # None PROVE Cardinality(GuessedAt(h)) <= tokens[h].attempts
      <4>1. Cardinality(GuessedAt(h)) = 0
        BY <2>1, <2>2
      <4> QED
        BY <1>8, <3>1, <4>1
    <3> QED
      BY <3>1 DEF CountedAt
  <2>4. LimitedAt
    <3>1. ASSUME NEW h \in Hash PROVE Cardinality(GuessedAt(h)) <= limit
      <4>1. Cardinality(GuessedAt(h)) = 0
        BY <2>1, <2>2
      <4> QED
        BY <1>2, <4>1
    <3> QED
      BY <3>1 DEF LimitedAt
  <2>5. CarriedBelow
    BY <1>9 DEF CarriedBelow, Walking
  <2>6. CarriedOn
    <3>1. ASSUME NEW w, NEW s PROVE Through(w, s) = {}
      BY <1>9 DEF Through
    <3>2. ASSUME NEW w, NEW s PROVE Cardinality(Through(w, s)) <= limit
      <4>1. Cardinality(Through(w, s)) = 0
        BY <2>2, <3>1
      <4> QED
        BY <1>2, <4>1
    <3> QED
      BY <1>10, <3>2, CarriedOnThrough
  <2> QED
    BY <2>3, <2>4, <2>5, <2>6 DEF Counts, Limited
<1> QED
  BY <1>10, <1>11, <1>12, <1>13, <1>14, <1>15 DEF Inv

LEMMA StillInv == Inv /\ [Next]_vars => Inv'
<1> SUFFICES ASSUME Inv, [Next]_vars PROVE Inv'
  OBVIOUS
<1>1. TypeOK' /\ Shapes'
  BY StillTyped, StillShaped
<1>2. Stamped'
  BY LinksKept DEF Stamped
<1>3. Links'
  BY <1>2, StillChained, StillWalked, StillKept DEF Links
<1>4. Counts'
  BY StillCountedAt, StillLimitedAt, StillCarried, StillLimited DEF Counts
<1> QED
  BY <1>1, <1>3, <1>4, StillSpentByRestarts, StillRestartedBelow DEF Inv

(* A set of at most n calls can be numbered up to n.                       *)
LEMMA Numbered ==
  ASSUME NEW S, S \subseteq Call, NEW n \in Nat, Cardinality(S) <= n
  PROVE  \E f \in [S -> 1..n] : \A c, d \in S : f[c] = f[d] => c = d
<1>1. IsFiniteSet(S) /\ Cardinality(S) \in Nat
  BY SomeCalls
<1>2. PICK k \in Nat : k = Cardinality(S)
  BY <1>1
<1>3. PICK b \in Bijection(1..k, S) : TRUE
  BY <1>1, <1>2, FS_CardinalityType DEF ExistsBijection
<1>4. \A c \in S : \E i \in 1..k : b[i] = c
  BY <1>3 DEF Bijection, Surjection
<1>5. PICK f : f = [c \in S |-> CHOOSE i \in 1..k : b[i] = c]
  OBVIOUS
<1>6. \A c \in S : f[c] \in 1..k /\ b[f[c]] = c
  BY <1>4, <1>5
<1>7. \A c \in S : f[c] \in 1..n
  BY <1>2, <1>6
<1>8. f \in [S -> 1..n]
  BY <1>5, <1>7
<1>9. \A c, d \in S : f[c] = f[d] => c = d
  BY <1>6
<1> QED
  BY <1>8, <1>9

(* Of the links where guesses of one window were let through, all but the  *)
(* last were restarted, each by a sign-in of its own.                      *)
LEMMA RestartsBound ==
  ASSUME Inv, mode = "restart", NEW w \in Window
  PROVE  Cardinality(LetThrough(w))
           <= limit * (1 + Cardinality({c \in Call : call[c].pc = "done" /\ call[c].link[1] = w}))
<1>0. TypeOK /\ Shapes /\ RestartedBelow /\ LimitedAt /\ user
  BY DEF Inv, Counts, Shapes
<1>1. PICK restarts : restarts = {c \in Call : call[c].pc = "done" /\ call[c].link[1] = w}
  OBVIOUS
<1>2. limit \in Nat /\ 1..limit = 1..limit /\ IsFiniteSet(Call)
  BY Constants
<1>3. restarts \subseteq Call /\ IsFiniteSet(restarts) /\ Cardinality(restarts) \in Nat
  <2>1. restarts \subseteq Call
    BY <1>1
  <2> QED
    BY <2>1, SomeCalls
<1>4. PICK last : last \notin Call
  BY NoSetContainsEverything
<1>5. \A h \in Hash : \E f \in [GuessedAt(h) -> 1..limit] :
        \A c, d \in GuessedAt(h) : f[c] = f[d] => c = d
  <2>1. ASSUME NEW h \in Hash
        PROVE  \E f \in [GuessedAt(h) -> 1..limit] :
                 \A c, d \in GuessedAt(h) : f[c] = f[d] => c = d
    <3>1. GuessedAt(h) \subseteq Call /\ Cardinality(GuessedAt(h)) <= limit
      BY <1>0 DEF LimitedAt, GuessedAt
    <3> QED
      BY <1>2, <3>1, Numbered
  <2> QED
    BY <2>1
<1>6. PICK number : number = [h \in Hash |->
        CHOOSE f \in [GuessedAt(h) -> 1..limit] :
          \A c, d \in GuessedAt(h) : f[c] = f[d] => c = d]
  OBVIOUS
<1>7. \A h \in Hash : /\ number[h] \in [GuessedAt(h) -> 1..limit]
                      /\ \A c, d \in GuessedAt(h) : number[h][c] = number[h][d] => c = d
  BY <1>5, <1>6
<1>8. PICK by : by = [h \in Hash |->
        IF Restarted(h) THEN CHOOSE c \in Call : call[c].pc = "done" /\ call[c].link = h ELSE last]
  OBVIOUS
<1>9. \A h \in Hash : IF Restarted(h) THEN /\ by[h] \in Call /\ call[by[h]].pc = "done"
                                           /\ call[by[h]].link = h
                                      ELSE by[h] = last
  BY <1>8 DEF Restarted
<1>10. \A c \in LetThrough(w) :
         /\ c \in Call /\ call[c].guess \in Hash /\ call[c].guess[1] = w /\ call[c].guess[2] = 0
         /\ c \in GuessedAt(call[c].guess)
  <2>1. ASSUME NEW c \in LetThrough(w)
        PROVE  /\ c \in Call /\ call[c].guess \in Hash /\ call[c].guess[1] = w
               /\ call[c].guess[2] = 0 /\ c \in GuessedAt(call[c].guess)
    <3>1. c \in Call /\ call[c].guess # None /\ call[c].guess[1] = w
      BY DEF LetThrough
    <3>2. call[c].guess \in Hash
      BY <1>0, <3>1, StateTyped, Fields
    <3>3. call[c].guess[2] = 0
      BY <1>0, <3>1 DEF Shapes, CallShape
    <3> QED
      BY <3>1, <3>2, <3>3 DEF GuessedAt
  <2> QED
    BY <2>1
<1>11. PICK into : into = [c \in LetThrough(w) |-> <<by[call[c].guess], number[call[c].guess][c]>>]
  OBVIOUS
<1>12. into \in Injection(LetThrough(w), (restarts \cup {last}) \X (1..limit))
  <2>1. ASSUME NEW c \in LetThrough(w)
        PROVE  into[c] \in (restarts \cup {last}) \X (1..limit)
    <3>1. PICK h \in Hash : h = call[c].guess /\ h[1] = w /\ c \in GuessedAt(h)
      BY <1>10
    <3>2. by[h] \in restarts \cup {last}
      BY <1>1, <1>9, <3>1
    <3>3. number[h][c] \in 1..limit
      BY <1>7, <3>1
    <3>4. into[c] = <<by[h], number[h][c]>>
      BY <1>11, <3>1
    <3> QED
      BY <3>2, <3>3, <3>4
  <2>2. ASSUME NEW c \in LetThrough(w), NEW d \in LetThrough(w), into[c] = into[d] PROVE c = d
    <3>1. PICK h \in Hash : h = call[c].guess /\ h[1] = w /\ h[2] = 0 /\ c \in GuessedAt(h)
      BY <1>10
    <3>2. PICK g \in Hash : g = call[d].guess /\ g[1] = w /\ g[2] = 0 /\ d \in GuessedAt(g)
      BY <1>10
    <3>3. <<by[h], number[h][c]>> = <<by[g], number[g][d]>>
      BY <1>11, <2>2, <3>1, <3>2
    <3>4. by[h] = by[g] /\ number[h][c] = number[g][d]
      BY <3>3
    <3>5. h = g
      <4>1. CASE Restarted(h)
        <5>1. by[h] \in Call /\ call[by[h]].link = h
          BY <1>9, <4>1
        <5>2. by[g] # last
          BY <1>4, <3>4, <5>1
        <5> QED
          BY <1>9, <3>4, <5>1, <5>2
      <4>2. CASE Restarted(g)
        <5>1. by[g] \in Call /\ call[by[g]].link = g
          BY <1>9, <4>2
        <5>2. by[h] # last
          BY <1>4, <3>4, <5>1
        <5> QED
          BY <1>9, <3>4, <5>1, <5>2
      <4>3. CASE ~ Restarted(h) /\ ~ Restarted(g)
        <5>1. c \in Call /\ d \in Call /\ h # None /\ g # None
          BY <1>10, LinkParts
        <5>2. ~ Under(h, g) /\ ~ Under(g, h)
          BY <1>0, <3>1, <3>2, <4>3, <5>1 DEF RestartedBelow
        <5>3. /\ h[3] \in Nat /\ g[3] \in Nat
              /\ h = <<h[1], h[2], h[3]>> /\ g = <<g[1], g[2], g[3]>>
          BY LinkParts
        <5>4. h[3] = g[3]
          BY <3>1, <3>2, <5>2, <5>3 DEF Under
        <5> QED
          BY <3>1, <3>2, <5>3, <5>4
      <4> QED
        BY <4>1, <4>2, <4>3
    <3> QED
      BY <1>7, <3>1, <3>2, <3>4, <3>5
  <2>3. into \in [LetThrough(w) -> (restarts \cup {last}) \X (1..limit)]
    BY <1>11, <2>1
  <2> QED
    BY <2>2, <2>3 DEF Injection, IsInjective
<1>13. IsFiniteSet(1..limit) /\ Cardinality(1..limit) = limit
  <2>1. 1 \in Int /\ limit \in Int
    BY <1>2
  <2>2. /\ IsFiniteSet(1..limit)
        /\ Cardinality(1..limit) = IF 1 > limit THEN 0 ELSE limit - 1 + 1
    BY <2>1, FS_Interval
  <2> QED
    BY <1>2, <2>2
<1>14. IsFiniteSet(restarts \cup {last}) /\ Cardinality(restarts \cup {last}) = Cardinality(restarts) + 1
  <2>1. last \notin restarts
    BY <1>3, <1>4
  <2> QED
    BY <1>3, <2>1, FS_AddElement
<1>15. PICK both : both = (restarts \cup {last}) \X (1..limit)
  OBVIOUS
<1>16. IsFiniteSet(both) /\ Cardinality(both) = Cardinality(restarts \cup {last}) * Cardinality(1..limit)
  BY <1>13, <1>14, <1>15, FS_Product
<1>17. Cardinality(LetThrough(w)) <= Cardinality(both)
  <2>1. into \in Injection(LetThrough(w), both)
    BY <1>12, <1>15
  <2> QED
    BY <1>16, <2>1, FS_Injection
<1>18. Cardinality(both) = (Cardinality(restarts) + 1) * limit
  BY <1>13, <1>14, <1>16
<1>19. (Cardinality(restarts) + 1) * limit = limit * (1 + Cardinality(restarts))
  BY <1>2, <1>3
<1> QED
  BY <1>1, <1>17, <1>18, <1>19

LEMMA InvGives == Inv => GuessesWithinLimit
<1>1. ASSUME Inv, mode = "restart" PROVE PerRestart
  BY <1>1, RestartsBound DEF PerRestart
<1>2. ASSUME Inv, mode # "restart" PROVE CarriedOn
  BY <1>2 DEF Inv, Counts, Limited
<1> QED
  BY <1>1, <1>2 DEF GuessesWithinLimit

(* Type correctness of the calls that count and of their links.            *)
THEOREM Types == Spec => []TypeOK
<1>1. Inv => TypeOK
  BY DEF Inv
<1> QED
  BY <1>1, InitInv, StillInv, PTL DEF Spec

(* No more is compared in a window than the limit allows, however many     *)
(* calls count at once, walk the same links and find them spent or missing *)
(* meanwhile, and whatever the clocks drift within what the code allows.   *)
THEOREM WithinLimit == Spec => []GuessesWithinLimit
<1> QED
  BY InitInv, StillInv, InvGives, PTL DEF Spec

(* A count of codes or of e-mails fails by itself for no user who is still *)
(* there: the link just stored is kept until it counted.                   *)
CountsKept ==
  mode # "restart" =>
    \A c \in Call :
      /\ call[c].pc = "vanished" => mode = "carry" /\ ~ user
      /\ call[c].pc = "recount" /\ user => tokens[HashOf(call[c])] # None

LEMMA StillCountsKept == Inv /\ CountsKept /\ [Next]_vars => CountsKept'
<1> SUFFICES ASSUME Inv, CountsKept, [Next]_vars PROVE CountsKept'
  OBVIOUS
<1>0. TypeOK /\ Shapes /\ Links /\ SpentByRestarts
  BY DEF Inv
<1>1. mode' = mode /\ (user' => user)
  BY <1>0, EveryStep DEF Moves, Only, Forgets, Passes
<1> SUFFICES ASSUME mode # "restart", NEW c \in Call
             PROVE  /\ call'[c].pc = "vanished" => mode = "carry" /\ ~ user'
                    /\ call'[c].pc = "recount" /\ user' => tokens'[(HashOf(call[c]))'] # None
  BY <1>1 DEF CountsKept
<1>2. mode # "carry" => user
  BY <1>0 DEF Shapes
<1>3. Walking(c) /\ user => HashOf(call[c]) \in Hash /\ Live(HashOf(call[c]))
  BY <1>0, WalkPlace
<1>4. CASE call'[c] = call[c]
  <2>1. (HashOf(call[c]))' = HashOf(call[c])
    BY <1>1, <1>4 DEF HashOf, PlaceOf, WindowOf
  <2>2. ASSUME call[c].pc = "recount", user' PROVE tokens'[HashOf(call[c])] # None
    <3>1. tokens[HashOf(call[c])] # None /\ Walking(c) /\ user
      BY <1>1, <2>2 DEF CountsKept, Walking
    <3> QED
      BY <1>3, <3>1, LinksKept
  <2> QED
    BY <1>1, <1>4, <2>1, <2>2 DEF CountsKept
<1>5. CASE call'[c] # call[c]
  <2>1. Moves(c)
    BY <1>5, EveryStep DEF Moves, Only, Forgets, Passes
  <2>2. CASE Walking(c) /\ Adds(c)
    BY <2>2 DEF Adds
  <2>3. CASE Walking(c) /\ Steps(c)
    <3>1. call'[c].pc # "recount"
      BY <2>3 DEF Steps
    <3>2. ASSUME call'[c].pc = "vanished" PROVE ~ user
      BY <2>3, <3>2 DEF Steps, CountsKept
    <3> QED
      BY <1>1, <1>2, <3>1, <3>2
  <2>4. CASE Inserts(c)
    <3>1. (HashOf(call[c]))' = HashOf(call[c])
      BY <1>1, <2>4 DEF Inserts, HashOf, PlaceOf, WindowOf
    <3>2. tokens'[HashOf(call[c])] # None
      BY <2>4 DEF Inserts
    <3> QED
      BY <2>4, <3>1, <3>2 DEF Inserts
  <2>5. CASE Starts(c) \/ Spends(c) \/ Rests(c)
    BY <2>5 DEF Starts, Spends, Rests
  <2> QED
    BY <2>1, <2>2, <2>3, <2>4, <2>5 DEF Moves
<1> QED
  BY <1>4, <1>5

(* Whatever is counted but sign-ins, a count ends by itself only for a     *)
(* user deleted meanwhile (countInWindow's error).  That a sign-in's       *)
(* probes suffice depends on how many there are, and is checked by runs.   *)
THEOREM CarriedNeverVanish == Spec => [](mode # "restart" => NeverVanishes)
<1>1. Init => CountsKept
  BY DEF Init, CountsKept, NewCall
<1>2. CountsKept => (mode # "restart" => NeverVanishes)
  BY DEF CountsKept, NeverVanishes
<1> QED
  BY <1>1, <1>2, InitInv, StillInv, StillCountsKept, PTL DEF Spec
=============================================================================
