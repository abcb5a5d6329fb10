------------------------------ MODULE BindingsProofs ------------------------------
(***************************************************************************)
(* What holds of Bindings for any application, whatever it declares, is    *)
(* asked, and whatever changes or fails meanwhile: no answer of a guarded  *)
(* field or of a route was never true, a denial hides what its type hides, *)
(* and no renewed session is sent beside another cookie.                   *)
(*                                                                         *)
(* Those say what is so when an answer is given.  The inductive invariant  *)
(* (IInv) says what a request has in hand until then: its history is never *)
(* behind the world (UpToDate), so what a step reads now is in it; who an  *)
(* operation is for, what its memo holds and what a field's earlier checks *)
(* answered are in it too (OperationOk, RouteOk); and a response that      *)
(* renewed set nothing else (CookieOk).  Most steps are another's, and     *)
(* only add to a history (Onward), which leaves all of this so.            *)
(***************************************************************************)
EXTENDS Bindings, WellFoundedInduction, TLAPS

-----------------------------------------------------------------------------
(* One value of a function replaced, the others as they were.              *)
LEMMA Replaced ==
  ASSUME NEW S, NEW f, f = [x \in S |-> f[x]], NEW a \in S, NEW v,
         NEW g, g = [f EXCEPT ![a] = v]
  PROVE  /\ g = [x \in S |-> g[x]] /\ g[a] = v
         /\ \A x \in S \ {a} : g[x] = f[x]
<1>1. g = [x \in S |-> IF x = a THEN v ELSE f[x]]
  OBVIOUS
<1> QED
  BY <1>1

(* A sequence of one.                                                      *)
LEMMA OneLong ==
  ASSUME NEW S, NEW s \in S
  PROVE  <<s>> \in Seq(S)
OBVIOUS

(* Sequences put together: a finite sequence is in Seq(Range(s)).          *)

Listing(s) == s \in Seq(Range(s))

LEMMA ListingOf ==
  ASSUME NEW s, NEW S, s \in Seq(S)
  PROVE  /\ Listing(s) /\ Range(s) \subseteq S /\ DOMAIN s = 1 .. Len(s) /\ Len(s) \in Nat
         /\ \A i \in DOMAIN s : s[i] \in Range(s)
<1>1. DOMAIN s = 1 .. Len(s) /\ Len(s) \in Nat /\ s = [i \in 1 .. Len(s) |-> s[i]]
  OBVIOUS
<1>2. \A i \in DOMAIN s : s[i] \in Range(s)
  BY DEF Range
<1>3. Range(s) \subseteq S
  BY DEF Range
<1>4. s \in [1 .. Len(s) -> Range(s)]
  BY <1>1, <1>2
<1> QED
  BY <1>1, <1>2, <1>3, <1>4 DEF Listing

(* A sequence given by its length and its members.                         *)
LEMMA ListingMade ==
  ASSUME NEW n \in Nat, NEW s, s = [i \in 1 .. n |-> s[i]]
  PROVE  /\ Listing(s) /\ Len(s) = n /\ DOMAIN s = 1 .. n
         /\ Range(s) = {s[i] : i \in 1 .. n}
<1>1. DOMAIN s = 1 .. n
  OBVIOUS
<1>2. Range(s) = {s[i] : i \in 1 .. n}
  BY <1>1 DEF Range
<1>3. s \in [1 .. n -> Range(s)]
  BY <1>2
<1>4. s \in Seq(Range(s))
  BY <1>3
<1>5. Len(s) = n
  BY <1>3, <1>4
<1> QED
  BY <1>1, <1>2, <1>4, <1>5 DEF Listing

LEMMA Joined ==
  ASSUME NEW s, NEW t, Listing(s), Listing(t)
  PROVE  /\ Listing(s \o t) /\ Range(s \o t) = Range(s) \cup Range(t)
         /\ Len(s) \in Nat /\ Len(t) \in Nat
         /\ Len(s \o t) = Len(s) + Len(t) /\ DOMAIN (s \o t) = 1 .. Len(s) + Len(t)
         /\ \A i \in 1 .. Len(s) : (s \o t)[i] = s[i]
         /\ \A i \in Len(s) + 1 .. Len(s) + Len(t) :
              i - Len(s) \in 1 .. Len(t) /\ (s \o t)[i] = t[i - Len(s)]
<1> DEFINE S == Range(s) \cup Range(t)
<1>1. s \in Seq(S) /\ t \in Seq(S)
  <2>1. s \in Seq(Range(s)) /\ t \in Seq(Range(t))
    BY DEF Listing
  <2>2. DOMAIN s = 1 .. Len(s) /\ DOMAIN t = 1 .. Len(t) /\ Len(s) \in Nat /\ Len(t) \in Nat
    BY <2>1
  <2>3. s \in [1 .. Len(s) -> S] /\ t \in [1 .. Len(t) -> S]
    BY <2>1, <2>2
  <2> QED
    BY <2>2, <2>3
<1>2. s \o t \in Seq(S) /\ Len(s \o t) = Len(s) + Len(t) /\ Len(s) \in Nat /\ Len(t) \in Nat
  BY <1>1
<1>3. DOMAIN (s \o t) = 1 .. Len(s) + Len(t) /\ DOMAIN s = 1 .. Len(s) /\ DOMAIN t = 1 .. Len(t)
  BY <1>1, <1>2
<1>4. \A i \in 1 .. Len(s) : (s \o t)[i] = s[i]
  BY <1>1, <1>2
<1>5. \A i \in Len(s) + 1 .. Len(s) + Len(t) :
        i - Len(s) \in 1 .. Len(t) /\ (s \o t)[i] = t[i - Len(s)]
  BY <1>1, <1>2
<1>6. Range(s) \subseteq Range(s \o t)
  BY <1>2, <1>3, <1>4 DEF Range
<1>7. ASSUME NEW j \in 1 .. Len(t) PROVE t[j] \in Range(s \o t)
  <2>1. Len(s) + j \in Len(s) + 1 .. Len(s) + Len(t) /\ Len(s) + j - Len(s) = j
        /\ Len(s) + j \in DOMAIN (s \o t)
    BY <1>2, <1>3, <1>7
  <2>2. (s \o t)[Len(s) + j] = t[j]
    BY <1>5, <2>1
  <2> QED
    BY <2>1, <2>2 DEF Range
<1>8. Range(t) \subseteq Range(s \o t)
  BY <1>3, <1>7 DEF Range
<1>9. Range(s \o t) \subseteq S
  BY <1>2 DEF Range
<1>10. Listing(s \o t)
  BY <1>2, ListingOf
<1> QED
  BY <1>2, <1>3, <1>4, <1>5, <1>6, <1>8, <1>9, <1>10

LEMMA Least ==
  ASSUME NEW T \in SUBSET Nat, T # {}
  PROVE  \E n \in T : \A m \in T : n <= m
<1>1. PICK R : R = OpToRel(<, Nat)
  OBVIOUS
<1>2. IsWellFoundedOn(R, Nat)
  BY <1>1, NatLessThanWellFounded
<1>3. \A m, n \in Nat : m < n => <<m, n>> \in R
  BY <1>1, Zenon DEF OpToRel
<1>4. \E n \in T : \A m \in T : ~ (<<m, n>> \in R)
  BY <1>2, WFMin
<1>5. PICK n \in T : \A m \in T : ~ (<<m, n>> \in R)
  BY <1>4
<1>6. ASSUME NEW m \in T PROVE n <= m
  <2>1. m \in Nat /\ n \in Nat /\ ~(m < n)
    BY <1>3, <1>5
  <2> QED
    BY <2>1
<1> QED
  BY <1>6

-----------------------------------------------------------------------------
(* Sequences of sequences made one.                                        *)

(* The first n of seqs, put together one after the other.                  *)
Flat(seqs, n, f) == f = [i \in 1 .. n |-> IF i = 1 THEN seqs[i] ELSE f[i - 1] \o seqs[i]]

LEMMA FlatOneMore ==
  ASSUME NEW seqs, NEW n \in Nat, NEW g, Flat(seqs, n, g)
  PROVE  \E f : Flat(seqs, n + 1, f)
<1> DEFINE f == [i \in 1 .. n + 1 |->
                   IF i <= n THEN g[i]
                   ELSE IF i = 1 THEN seqs[i] ELSE g[i - 1] \o seqs[i]]
<1>1. ASSUME NEW i \in 1 .. n + 1
      PROVE  f[i] = IF i = 1 THEN seqs[i] ELSE f[i - 1] \o seqs[i]
  <2>1. CASE i <= n
    <3>1. i \in 1 .. n /\ f[i] = g[i]
      BY <2>1
    <3>2. g[i] = IF i = 1 THEN seqs[i] ELSE g[i - 1] \o seqs[i]
      BY <3>1 DEF Flat
    <3>3. i # 1 => f[i - 1] = g[i - 1]
      BY <3>1
    <3> QED
      BY <3>1, <3>2, <3>3
  <2>2. CASE ~(i <= n)
    <3>1. f[i] = IF i = 1 THEN seqs[i] ELSE g[i - 1] \o seqs[i]
      BY <2>2
    <3>2. i # 1 => i - 1 \in 1 .. n + 1 /\ i - 1 <= n
      BY <2>2
    <3>3. i # 1 => f[i - 1] = g[i - 1]
      BY <3>2
    <3> QED
      BY <3>1, <3>3
  <2> QED
    BY <2>1, <2>2
<1>2. f = [i \in 1 .. n + 1 |-> IF i = 1 THEN seqs[i] ELSE f[i - 1] \o seqs[i]]
  <2> HIDE DEF f
  <2>1. f = [i \in 1 .. n + 1 |-> f[i]]
    BY DEF f
  <2> QED
    BY <1>1, <2>1
<1> HIDE DEF f
<1> QED
  BY <1>2 DEF Flat

LEMMA FlatExists ==
  ASSUME NEW seqs, NEW n \in Nat
  PROVE  \E f : Flat(seqs, n, f)
<1> DEFINE T == {m \in Nat : ~ \E f : Flat(seqs, m, f)}
<1>1. SUFFICES ASSUME n \in T PROVE FALSE
  OBVIOUS
<1>2. PICK m \in T : \A l \in T : m <= l
  BY <1>1, Least
<1>3. CASE m = 0
  <2> DEFINE f == [i \in 1 .. 0 |-> seqs[i]]
  <2>1. f = [i \in 1 .. 0 |-> IF i = 1 THEN seqs[i] ELSE f[i - 1] \o seqs[i]]
    BY 1 .. 0 = {}
  <2>2. Flat(seqs, 0, f)
    BY <2>1 DEF Flat
  <2> QED
    BY <1>3, <2>2
<1>4. CASE m # 0
  <2>1. m - 1 \in Nat /\ m - 1 \notin T /\ (m - 1) + 1 = m
    BY <1>2, <1>4
  <2> QED
    BY <2>1, FlatOneMore
<1> QED
  BY <1>3, <1>4

(* Each step of a flattening is a sequence of what was put together so far. *)
Gives(seqs, s, m) == Listing(s) /\ Range(s) = UNION {Range(seqs[i]) : i \in 1 .. m}

LEMMA FlatGives ==
  ASSUME NEW seqs, NEW n \in Nat, NEW f, Flat(seqs, n, f),
         \A i \in 1 .. n : Listing(seqs[i]),
         NEW m \in 1 .. n
  PROVE  Gives(seqs, f[m], m)
<1> DEFINE T == {l \in 1 .. n : ~Gives(seqs, f[l], l)}
<1>1. SUFFICES ASSUME m \in T PROVE FALSE
  OBVIOUS
<1>2. T \subseteq Nat
  OBVIOUS
<1>3. PICK l \in T : \A k \in T : l <= k
  <2> HIDE DEF T
  <2> QED
    BY <1>1, <1>2, Least
<1>4. l \in 1 .. n /\ f[l] = (IF l = 1 THEN seqs[l] ELSE f[l - 1] \o seqs[l])
  BY DEF Flat
<1>5. Listing(seqs[l])
  BY <1>4
<1>6. CASE l = 1
  <2>1. 1 .. l = {1}
    BY <1>6
  <2> QED
    BY <1>4, <1>5, <1>6, <2>1 DEF Gives
<1>7. CASE l # 1
  <2>1. l - 1 \in 1 .. n /\ ~(l <= l - 1)
    BY <1>4, <1>7
  <2>2. Gives(seqs, f[l - 1], l - 1)
    BY <1>3, <2>1
  <2>3. 1 .. l = (1 .. l - 1) \cup {l}
    BY <1>4
  <2>4. f[l] = f[l - 1] \o seqs[l]
    BY <1>4, <1>7
  <2>5. Listing(f[l]) /\ Range(f[l]) = Range(f[l - 1]) \cup Range(seqs[l])
    BY <1>5, <2>2, <2>4, Joined DEF Gives
  <2> QED
    BY <2>2, <2>3, <2>5 DEF Gives
<1> QED
  BY <1>6, <1>7

LEMMA Flattened ==
  ASSUME NEW seqs, Listing(seqs), \A i \in 1 .. Len(seqs) : Listing(seqs[i])
  PROVE  /\ Listing(FlattenSeq(seqs))
         /\ Range(FlattenSeq(seqs)) = UNION {Range(seqs[i]) : i \in 1 .. Len(seqs)}
<1>1. Len(seqs) \in Nat
  BY DEF Listing
<1>2. CASE Len(seqs) = 0
  <2>1. FlattenSeq(seqs) = seqs
    BY <1>2 DEF FlattenSeq
  <2>2. Range(seqs) = {}
    <3>1. DOMAIN seqs = 1 .. Len(seqs)
      BY DEF Listing
    <3> QED
      BY <1>2, <3>1 DEF Range
  <2> QED
    BY <1>2, <2>1, <2>2
<1>3. CASE Len(seqs) # 0
  <2> DEFINE n == Len(seqs)
  <2>1. FlattenSeq(seqs) = (CHOOSE f : Flat(seqs, n, f))[n]
    BY <1>3 DEF FlattenSeq, Flat
  <2>2. Flat(seqs, n, CHOOSE f : Flat(seqs, n, f))
    BY <1>1, FlatExists
  <2>3. n \in 1 .. n
    BY <1>1, <1>3
  <2>4. \A i \in 1 .. n : Listing(seqs[i])
    OBVIOUS
  <2> HIDE DEF n
  <2>5. PICK f : f = CHOOSE g : Flat(seqs, n, g)
    OBVIOUS
  <2>7. Flat(seqs, n, f) /\ n \in Nat
    BY <1>1, <2>2, <2>5 DEF n
  <2>6. Gives(seqs, f[n], n)
    BY <2>3, <2>4, <2>7, FlatGives
  <2> QED
    BY <2>1, <2>5, <2>6 DEF n, Gives
<1> QED
  BY <1>2, <1>3

-----------------------------------------------------------------------------
(* What a field requires is what is written on its locations.              *)

(* A sequence made of another, member by member.                           *)
LEMMA Mapped ==
  ASSUME NEW s, Listing(s), NEW t, DOMAIN t = DOMAIN s, t = [i \in DOMAIN s |-> t[i]]
  PROVE  Listing(t) /\ Len(t) = Len(s) /\ Range(t) = {t[i] : i \in DOMAIN s}
<1>1. DOMAIN s = 1 .. Len(s) /\ Len(s) \in Nat
  BY ListingOf DEF Listing
<1>2. t = [i \in 1 .. Len(s) |-> t[i]]
  BY <1>1
<1>3. Listing(t) /\ Len(t) = Len(s) /\ Range(t) = {t[i] : i \in 1 .. Len(s)}
  BY <1>1, <1>2, ListingMade
<1> QED
  BY <1>1, <1>3

LEMMA OneListed ==
  ASSUME NEW e
  PROVE  Listing(<<e>>) /\ Range(<<e>>) = {e}
<1>1. <<e>> \in Seq({e}) /\ DOMAIN <<e>> = {1} /\ <<e>>[1] = e
  OBVIOUS
<1>2. Range(<<e>>) = {e}
  BY <1>1 DEF Range
<1> QED
  BY <1>1, <1>2 DEF Listing

ListsFaces(field) == Listing(field.faces)

LEMMA OnTypeIs ==
  ASSUME NEW field, ListsFaces(field)
  PROVE  /\ Listing(OnType(field))
         /\ Range(OnType(field)) = {field.type} \cup {face.own : face \in Range(field.faces)}
<1> DEFINE owns == [i \in DOMAIN field.faces |-> field.faces[i].own]
<1>1. Listing(owns) /\ Range(owns) = {owns[i] : i \in DOMAIN field.faces}
  BY Mapped DEF ListsFaces
<1>2. Range(owns) = {face.own : face \in Range(field.faces)}
  BY <1>1 DEF Range
<1>3. OnType(field) = owns \o <<field.type>>
  BY DEF OnType
<1> HIDE DEF owns
<1> QED
  BY <1>1, <1>2, <1>3, Joined, OneListed

LEMMA OnFieldIs ==
  ASSUME NEW field, ListsFaces(field)
  PROVE  /\ Listing(OnField(field))
         /\ Range(OnField(field)) = {field.own} \cup {face.field : face \in Range(field.faces)}
<1> DEFINE fields == [i \in DOMAIN field.faces |-> field.faces[i].field]
<1>1. Listing(fields) /\ Range(fields) = {fields[i] : i \in DOMAIN field.faces}
  BY Mapped DEF ListsFaces
<1>2. Range(fields) = {face.field : face \in Range(field.faces)}
  BY <1>1 DEF Range
<1>3. OnField(field) = fields \o <<field.own>>
  BY DEF OnField
<1> HIDE DEF fields
<1> QED
  BY <1>1, <1>2, <1>3, Joined, OneListed

LEMMA UsesAtIs ==
  ASSUME NEW locations, Listing(locations), NEW onType \in BOOLEAN,
         \A w \in Range(locations) : Listing(w.permission)
  PROVE  /\ Listing(UsesAt(locations, onType))
         /\ Range(UsesAt(locations, onType)) = UsesOn(Range(locations), onType)
         /\ \A use \in Range(UsesAt(locations, onType)) : use.onType = onType
<1> DEFINE seqs == [i \in DOMAIN locations |-> locations[i].permission]
           uses == FlattenSeq(seqs)
<1>1. DOMAIN locations = 1 .. Len(locations)
  BY DEF Listing
<1>2. Listing(seqs) /\ Len(seqs) = Len(locations)
  BY Mapped
<1>3. \A i \in 1 .. Len(seqs) : Listing(seqs[i])
  BY <1>1, <1>2 DEF Range
<1>4. Listing(uses) /\ Range(uses) = UNION {Range(seqs[i]) : i \in 1 .. Len(seqs)}
  <2> HIDE DEF seqs
  <2> QED
    BY <1>2, <1>3, Flattened
<1>5. Range(uses) = UNION {Range(w.permission) : w \in Range(locations)}
  <2>1. \A i \in DOMAIN locations : seqs[i] = locations[i].permission
    OBVIOUS
  <2>2. Range(locations) = {locations[i] : i \in 1 .. Len(seqs)}
    BY <1>1, <1>2 DEF Range
  <2> HIDE DEF seqs, uses
  <2>3. Range(uses) = UNION {Range(locations[i].permission) : i \in 1 .. Len(seqs)}
    BY <1>1, <1>2, <1>4, <2>1
  <2> QED
    BY <2>2, <2>3
<1> DEFINE located == [j \in DOMAIN uses |-> Located(uses[j], onType)]
<1>6. UsesAt(locations, onType) = located
  BY DEF UsesAt
<1> HIDE DEF uses
<1>7. Listing(located) /\ Range(located) = {located[j] : j \in DOMAIN uses}
  BY <1>4, Mapped
<1>8. Range(located) = {Located(u, onType) : u \in Range(uses)}
  BY <1>7 DEF Range
<1> HIDE DEF located, seqs
<1>9. Range(located) = UsesOn(Range(locations), onType)
  BY <1>5, <1>8 DEF UsesOn
<1>10. \A use \in Range(located) : use.onType = onType
  BY <1>8 DEF Located
<1> QED
  BY <1>6, <1>7, <1>9, <1>10

LEMMA WrittenIs ==
  ASSUME NEW field, IsField(field)
  PROVE  /\ ListsFaces(field)
         /\ WrittenOn(field) = Range(OnType(field)) \cup Range(OnField(field))
         /\ \A w \in WrittenOn(field) :
              /\ w.fresh \subseteq Nat /\ Listing(w.permission)
              /\ \A use \in Range(w.permission) : use.onDeny \in {"NOT_FOUND", "FORBIDDEN"}
<1>1. ListsFaces(field)
  BY DEF IsField, ListsFaces, Listing
<1>2. WrittenOn(field) = Range(OnType(field)) \cup Range(OnField(field))
  BY <1>1, OnTypeIs, OnFieldIs DEF WrittenOn
<1>3. \A w \in WrittenOn(field) : w.fresh \subseteq Nat /\ AreWritten(w.permission)
  BY DEF IsField, WrittenOn
<1> QED
  BY <1>1, <1>2, <1>3 DEF AreWritten, Listing

LEMMA PermittedIs ==
  ASSUME NEW field, IsField(field)
  PROVE  /\ Listing(Permitted(field)) /\ Range(Permitted(field)) = UsesOf(field)
         /\ \A j, k \in DOMAIN Permitted(field) :
              Permitted(field)[j].onType /\ ~Permitted(field)[k].onType => j < k
<1> DEFINE first == UsesAt(OnType(field), TRUE)
           then  == UsesAt(OnField(field), FALSE)
<1>1. /\ ListsFaces(field)
      /\ \A w \in Range(OnType(field)) \cup Range(OnField(field)) : Listing(w.permission)
  BY WrittenIs
<1>2. Listing(OnType(field)) /\ Listing(OnField(field))
  BY <1>1, OnTypeIs, OnFieldIs
<1>3. /\ Listing(first)
      /\ Range(first) = UsesOn(Range(OnType(field)), TRUE)
      /\ \A use \in Range(first) : use.onType = TRUE
  BY <1>1, <1>2, UsesAtIs
<1>4. /\ Listing(then)
      /\ Range(then) = UsesOn(Range(OnField(field)), FALSE)
      /\ \A use \in Range(then) : use.onType = FALSE
  BY <1>1, <1>2, UsesAtIs
<1>5. Permitted(field) = first \o then
  BY DEF Permitted
<1> HIDE DEF first, then
<1>6. /\ Listing(first \o then) /\ Range(first \o then) = Range(first) \cup Range(then)
      /\ Len(first) \in Nat /\ Len(then) \in Nat
      /\ DOMAIN (first \o then) = 1 .. Len(first) + Len(then)
      /\ \A i \in 1 .. Len(first) : (first \o then)[i] = first[i]
      /\ \A i \in Len(first) + 1 .. Len(first) + Len(then) :
           i - Len(first) \in 1 .. Len(then) /\ (first \o then)[i] = then[i - Len(first)]
  BY <1>3, <1>4, Joined
<1>7. Range(first) \cup Range(then) = UsesOf(field)
  <2>1. Range(OnType(field)) = {field.type} \cup {face.own : face \in Range(field.faces)}
    BY <1>1, OnTypeIs
  <2>2. Range(OnField(field)) = {field.own} \cup {face.field : face \in Range(field.faces)}
    BY <1>1, OnFieldIs
  <2> QED
    BY <1>3, <1>4, <2>1, <2>2 DEF UsesOf
<1>8. \A i \in 1 .. Len(first) : first[i].onType
  <2>1. \A i \in 1 .. Len(first) : first[i] \in Range(first)
    BY <1>3, ListingOf DEF Listing
  <2> QED
    BY <1>3, <2>1
<1>9. \A i \in 1 .. Len(then) : ~then[i].onType
  <2>1. \A i \in 1 .. Len(then) : then[i] \in Range(then)
    BY <1>4, ListingOf DEF Listing
  <2> QED
    BY <1>4, <2>1
<1>10. ASSUME NEW j \in DOMAIN Permitted(field), NEW k \in DOMAIN Permitted(field),
              Permitted(field)[j].onType, ~Permitted(field)[k].onType
       PROVE  j < k
  <2>1. j \in 1 .. Len(first) + Len(then) /\ k \in 1 .. Len(first) + Len(then)
    BY <1>5, <1>6
  <2>2. ~(k \in 1 .. Len(first))
    BY <1>5, <1>6, <1>8, <1>10
  <2>3. ~(j \in Len(first) + 1 .. Len(first) + Len(then))
    BY <1>5, <1>6, <1>9, <1>10
  <2> QED
    BY <1>6, <2>1, <2>2, <2>3
<1> QED
  BY <1>5, <1>6, <1>7, <1>10

LEMMA TypesSay ==
  ASSUME NEW uses, NEW server, "any" \notin server.types, TypesAccepted(uses, server),
         NEW type
  PROVE  (\A types \in uses : types = AnyUser \/ type \in types)
           <=> (TypesOf(uses) = AnyUser \/ type \in TypesOf(uses))
<1>1. CASE NamedTypes(uses) = {}
  BY <1>1 DEF TypesOf, NamedTypes
<1>2. CASE NamedTypes(uses) # {}
  <2>1. PICK some : some \in NamedTypes(uses)
    BY <1>2
  <2>2. some \subseteq server.types
    BY <2>1 DEF TypesAccepted, KnownOf
  <2>3. TypesOf(uses) = {t \in UNION NamedTypes(uses) : \A named \in NamedTypes(uses) : t \in named}
    BY <1>2 DEF TypesOf
  <2>4. "any" \notin TypesOf(uses)
    BY <2>1, <2>2, <2>3
  <2>5. TypesOf(uses) # AnyUser
    BY <2>4 DEF AnyUser
  <2>6. type \in TypesOf(uses) <=> \A named \in NamedTypes(uses) : type \in named
    BY <2>1, <2>3
  <2> QED
    BY <2>5, <2>6 DEF NamedTypes
<1> QED
  BY <1>1, <1>2

LEMMA AgesSay ==
  ASSUME NEW uses \in SUBSET Nat, AgesAccepted(uses)
  PROVE  /\ MaxAgeOf(uses) \in Nat
         /\ \A age \in uses : MaxAgeOf(uses) # NoAge /\ MaxAgeOf(uses) <= age
         /\ MaxAgeOf(uses) # NoAge => MaxAgeOf(uses) \in uses
<1>1. CASE uses = {}
  BY <1>1 DEF MaxAgeOf, NoAge
<1>2. CASE uses # {}
  <2>1. \E age \in uses : \A other \in uses : age <= other
    BY <1>2, Least
  <2>2. Min(uses) \in uses /\ \A other \in uses : Min(uses) <= other
    BY <2>1 DEF Min
  <2>3. MaxAgeOf(uses) = Min(uses)
    BY <1>2 DEF MaxAgeOf
  <2>4. \A age \in uses : age > 0
    BY DEF AgesAccepted
  <2>5. PICK age \in uses : age = MaxAgeOf(uses)
    BY <2>2, <2>3
  <2>6. age \in Nat /\ age > 0
    BY <2>4, <2>5
  <2>7. MaxAgeOf(uses) \in Nat /\ MaxAgeOf(uses) # NoAge /\ MaxAgeOf(uses) \in uses
    BY <2>5, <2>6 DEF NoAge
  <2> QED
    BY <2>2, <2>3, <2>7
<1> QED
  BY <1>1, <1>2

-----------------------------------------------------------------------------
(* The application served is one that was accepted, wired.                 *)

Wired == \E given \in Accepted : app = Served(given)

(* A check asks what a use says.                                           *)
Asks(check, use, field) ==
  /\ check.name = use.name /\ check.type = use.type
  /\ check.onDeny = use.onDeny /\ check.onType = use.onType
  /\ check.targets = TargetsOf(PathOf(use), field)
  /\ check.onDeny \in {"NOT_FOUND", "FORBIDDEN"}

(* A guarded field is asked all that is written on it, its type's first.   *)
Demands(required, field) ==
  /\ ~required.open
  /\ \A w \in WrittenOn(field) : \A age \in w.fresh :
       required.maxAge # NoAge /\ required.maxAge <= age
  /\ required.maxAge # NoAge => \E w \in WrittenOn(field) : required.maxAge \in w.fresh
  /\ \A k \in DOMAIN required.permissions :
       \E use \in UsesOf(field) : Asks(required.permissions[k], use, field)
  /\ \A use \in UsesOf(field) :
       \E k \in DOMAIN required.permissions : Asks(required.permissions[k], use, field)
  /\ \A j, k \in DOMAIN required.permissions :
       required.permissions[j].onType /\ ~required.permissions[k].onType => j < k

(* A helper asks about an object in hand, and denies with false.           *)
Helps(required) ==
  /\ required.open /\ required.maxAge = NoAge /\ required.types = AnyUser
  /\ \A k \in DOMAIN required.permissions :
       LET check == required.permissions[k] IN
       check.onDeny = "no" /\ ~check.load /\ check.targets # Nothing

RequiredWell(required, field) ==
  /\ required.maxAge \in Nat
  /\ Listing(required.permissions)
  /\ \A k \in DOMAIN required.permissions :
       "nothing" \in required.permissions[k].targets
         => required.permissions[k].targets = Nothing
  /\ IF Guarded(field) THEN Demands(required, field) ELSE Helps(required)

LEMMA GuardedIs ==
  ASSUME NEW config, NEW field, NEW server, IsField(field), FieldAccepted(config, field, server)
  PROVE  LET required == RequirementOf(config, field, server) IN
         /\ required.maxAge \in Nat
         /\ Listing(required.permissions)
         /\ \A k \in DOMAIN required.permissions :
              "nothing" \in required.permissions[k].targets
                => required.permissions[k].targets = Nothing
         /\ Demands(required, field)
<1> DEFINE uses   == Permitted(field)
           ages   == UNION {w.fresh : w \in WrittenOn(field)}
           checks == [i \in DOMAIN uses |-> PermissionCheckOf(config, uses[i], field, server)]
<1>1. ReadField(field).permission = uses /\ ReadField(field).fresh = ages
  BY WrittenIs DEF ReadField
<1>2. /\ RequirementOf(config, field, server).open = FALSE
      /\ RequirementOf(config, field, server).maxAge = MaxAgeOf(ages)
      /\ RequirementOf(config, field, server).permissions = checks
  BY <1>1 DEF RequirementOf
<1>3. /\ AgesAccepted(ages)
      /\ \A i \in DOMAIN uses : PermissionAccepted(config, uses[i], field, server)
  BY <1>1 DEF FieldAccepted
<1>4. /\ Listing(uses) /\ Range(uses) = UsesOf(field)
      /\ \A j, k \in DOMAIN uses : uses[j].onType /\ ~uses[k].onType => j < k
  BY PermittedIs
<1>5. ages \in SUBSET Nat
  BY WrittenIs
<1>6. /\ MaxAgeOf(ages) \in Nat
      /\ \A age \in ages : MaxAgeOf(ages) # NoAge /\ MaxAgeOf(ages) <= age
      /\ MaxAgeOf(ages) # NoAge => MaxAgeOf(ages) \in ages
  <2> HIDE DEF ages
  <2> QED
    BY <1>3, <1>5, AgesSay
<1>7. /\ \A w \in WrittenOn(field) : \A age \in w.fresh :
           MaxAgeOf(ages) # NoAge /\ MaxAgeOf(ages) <= age
      /\ MaxAgeOf(ages) # NoAge => \E w \in WrittenOn(field) : MaxAgeOf(ages) \in w.fresh
  <2>1. PICK m : m = MaxAgeOf(ages)
    OBVIOUS
  <2>2. /\ \A age \in ages : m # NoAge /\ m <= age
        /\ m # NoAge => m \in ages
    BY <1>6, <2>1
  <2> QED
    BY <2>1, <2>2
<1>8. ASSUME NEW k \in DOMAIN uses
      PROVE  /\ Asks(checks[k], uses[k], field) /\ uses[k] \in UsesOf(field)
             /\ "nothing" \in checks[k].targets => checks[k].targets = Nothing
  <2>1. uses[k] \in UsesOf(field)
    BY <1>4 DEF Range
  <2>2. uses[k].onDeny \in {"NOT_FOUND", "FORBIDDEN"}
    <3>1. PICK w \in WrittenOn(field) :
            \E u \in Range(w.permission), onType \in BOOLEAN : uses[k] = Located(u, onType)
      <4>1. {field.type} \cup {face.own : face \in Range(field.faces)} \subseteq WrittenOn(field)
        BY DEF WrittenOn
      <4>2. {field.own} \cup {face.field : face \in Range(field.faces)} \subseteq WrittenOn(field)
        BY DEF WrittenOn
      <4> QED
        BY <2>1, <4>1, <4>2 DEF UsesOf, UsesOn
    <3>2. \A u \in Range(w.permission) : u.onDeny \in {"NOT_FOUND", "FORBIDDEN"}
      BY WrittenIs
    <3> QED
      BY <3>1, <3>2 DEF Located
  <2>3. checks[k] = PermissionCheckOf(config, uses[k], field, server)
    OBVIOUS
  <2>4. PathOf(uses[k]).root \in {"args", "parent"}
    BY <1>3 DEF PermissionAccepted, PathAccepted
  <2>5. "nothing" \in checks[k].targets => checks[k].targets = Nothing
    BY <2>3, <2>4 DEF PermissionCheckOf, TargetsOf, IsField
  <2> HIDE DEF uses
  <2>6. Asks(checks[k], uses[k], field)
    BY <2>2, <2>3 DEF PermissionCheckOf, Asks
  <2> QED
    BY <2>1, <2>5, <2>6
<1>9. Listing(checks) /\ DOMAIN checks = DOMAIN uses
  <2> HIDE DEF uses
  <2> QED
    BY <1>4, Mapped
<1>10. \A use \in UsesOf(field) : \E k \in DOMAIN checks : Asks(checks[k], use, field)
  BY <1>4, <1>8, <1>9 DEF Range
<1>11. \A j, k \in DOMAIN checks : checks[j].onType /\ ~checks[k].onType => j < k
  BY <1>4, <1>8, <1>9 DEF Asks
<1> HIDE DEF uses, checks, ages
<1>12. Demands(RequirementOf(config, field, server), field)
  BY <1>2, <1>7, <1>8, <1>9, <1>10, <1>11 DEF Demands
<1> QED
  BY <1>2, <1>6, <1>8, <1>9, <1>12

LEMMA HelpedIs ==
  ASSUME NEW config, NEW field, NEW server, IsField(field)
  PROVE  LET required == AskedByHelper(config, field, server) IN
         /\ required.maxAge \in Nat
         /\ Listing(required.permissions)
         /\ \A k \in DOMAIN required.permissions :
              "nothing" \in required.permissions[k].targets
                => required.permissions[k].targets = Nothing
         /\ Helps(required)
<1> DEFINE uses   == field.asks
           checks == [i \in DOMAIN uses |->
                        PermissionCheckOf(config, Located(uses[i], FALSE), field, server)]
<1>1. /\ AskedByHelper(config, field, server).open = TRUE
      /\ AskedByHelper(config, field, server).maxAge = NoAge
      /\ AskedByHelper(config, field, server).types = AnyUser
      /\ AskedByHelper(config, field, server).permissions = checks
  BY DEF AskedByHelper
<1>2. Listing(uses) /\ AreHelped(uses, field)
  BY DEF IsField, AreHelped, Listing
<1>3. ASSUME NEW k \in DOMAIN uses
      PROVE  /\ checks[k].onDeny = "no" /\ ~checks[k].load
             /\ "nothing" \notin checks[k].targets /\ checks[k].targets # Nothing
  <2>1. uses[k] \in Range(uses)
    BY DEF Range
  <2>2. /\ uses[k].onDeny = "no" /\ uses[k].path # NoPath /\ Held(uses[k].path)
        /\ field.ids["parent"] # {}
    BY <1>2, <2>1 DEF AreHelped
  <2>3. PathOf(Located(uses[k], FALSE)) = uses[k].path
    BY <2>2 DEF PathOf, Located
  <2>4. TargetsOf(uses[k].path, field) = field.ids["parent"]
    BY <2>2 DEF TargetsOf, Held
  <2>5. "nothing" \notin field.ids["parent"]
    BY DEF IsField
  <2>6. checks[k] = PermissionCheckOf(config, Located(uses[k], FALSE), field, server)
    OBVIOUS
  <2>7. PICK use : use = Located(uses[k], FALSE)
    OBVIOUS
  <2>10. use.onDeny = "no" /\ PathOf(use) = uses[k].path
    BY <2>2, <2>3, <2>7 DEF Located
  <2> HIDE DEF checks, uses
  <2>11. checks[k] = PermissionCheckOf(config, use, field, server)
    BY <2>6, <2>7
  <2>8. checks[k].onDeny = "no" /\ checks[k].targets = TargetsOf(uses[k].path, field)
    BY <2>10, <2>11 DEF PermissionCheckOf
  <2>9. ~checks[k].load
    <3>1. checks[k].load = (~Held(PathOf(use)) /\ use.type \in server.loaders)
      BY <2>11 DEF PermissionCheckOf
    <3>2. Held(PathOf(use))
      BY <2>2, <2>10
    <3> QED
      BY <3>1, <3>2
  <2> QED
    BY <2>4, <2>5, <2>8, <2>9 DEF Nothing
<1>4. Listing(checks) /\ DOMAIN checks = DOMAIN uses
  <2> HIDE DEF uses
  <2> QED
    BY <1>2, Mapped
<1> HIDE DEF checks, uses
<1>5. PICK required : required = AskedByHelper(config, field, server)
  OBVIOUS
<1>6. Helps(required)
  BY <1>1, <1>3, <1>4, <1>5 DEF Helps
<1>7. required.maxAge \in Nat
  BY <1>1, <1>5 DEF NoAge
<1>9. Listing(required.permissions)
  BY <1>1, <1>4, <1>5
<1>8. \A k \in DOMAIN required.permissions : "nothing" \notin required.permissions[k].targets
  BY <1>1, <1>3, <1>4, <1>5
<1> QED
  BY <1>5, <1>6, <1>7, <1>8, <1>9

LEMMA RequiredIs ==
  ASSUME Wired, NEW f \in DOMAIN app.schema
  PROVE  IsField(app.schema[f]) /\ RequiredWell(app.requires[f], app.schema[f])
<1>1. PICK given \in Accepted : app = Served(given)
  BY DEF Wired
<1>2. /\ app.schema = given.schema
      /\ app.requires[f] = RequiredOf(given.config, given.schema[f], given.server)
  BY <1>1 DEF Served
<1>3. given \in Apps /\ SchemaAccepted(given.config, given.schema, given.server)
  BY DEF Accepted
<1>4. FieldAccepted(given.config, given.schema[f], given.server)
  BY <1>2, <1>3 DEF SchemaAccepted
<1>5. IsField(given.schema[f])
  BY <1>2, <1>3, AppsAssumption
<1>6. CASE Guarded(given.schema[f])
  <2>1. app.requires[f] = RequirementOf(given.config, given.schema[f], given.server)
    BY <1>2, <1>6 DEF RequiredOf
  <2>2. LET required == app.requires[f] IN
        /\ required.maxAge \in Nat
        /\ Listing(required.permissions)
        /\ \A k \in DOMAIN required.permissions :
             "nothing" \in required.permissions[k].targets
               => required.permissions[k].targets = Nothing
        /\ Demands(required, given.schema[f])
    BY <1>4, <1>5, <2>1, GuardedIs
  <2> QED
    BY <1>2, <1>5, <1>6, <2>2 DEF RequiredWell
<1>7. CASE ~Guarded(given.schema[f])
  <2>1. app.requires[f] = AskedByHelper(given.config, given.schema[f], given.server)
    BY <1>2, <1>7 DEF RequiredOf
  <2> QED
    BY <1>2, <1>5, <1>7, <2>1, HelpedIs DEF RequiredWell
<1> QED
  BY <1>6, <1>7, Zenon

(* The user's type passes what is asked exactly when it passes all that is *)
(* written.                                                                *)
LEMMA TypesAsked ==
  ASSUME Wired, NEW f \in DOMAIN app.schema, Guarded(app.schema[f]), NEW type
  PROVE  (\A w \in WrittenOn(app.schema[f]) : \A types \in w.authenticated :
            types = AnyUser \/ type \in types)
           <=> (app.requires[f].types = AnyUser \/ type \in app.requires[f].types)
<1>1. PICK given \in Accepted : app = Served(given)
  BY DEF Wired
<1> DEFINE field == given.schema[f]
           uses  == ReadField(field).authenticated
<1>2. /\ app.schema = given.schema
      /\ app.requires[f] = RequiredOf(given.config, field, given.server)
  BY <1>1 DEF Served
<1>3. given \in Apps /\ SchemaAccepted(given.config, given.schema, given.server)
  BY DEF Accepted
<1>4. TypesAccepted(uses, given.server) /\ "any" \notin given.server.types /\ IsField(field)
  BY <1>2, <1>3, AppsAssumption DEF SchemaAccepted, FieldAccepted
<1>5. app.requires[f].types = TypesOf(uses)
  BY <1>2 DEF RequiredOf, RequirementOf
<1>6. uses = UNION {w.authenticated : w \in WrittenOn(field)}
  BY <1>4, WrittenIs DEF ReadField
<1>7. (\A types \in uses : types = AnyUser \/ type \in types)
        <=> (TypesOf(uses) = AnyUser \/ type \in TypesOf(uses))
  <2> HIDE DEF uses
  <2> QED
    BY <1>4, TypesSay
<1>8. (\A types \in uses : types = AnyUser \/ type \in types)
        <=> \A w \in WrittenOn(field) : \A types \in w.authenticated :
              types = AnyUser \/ type \in types
  <2> HIDE DEF uses
  <2> QED
    BY <1>6
<1> QED
  BY <1>2, <1>5, <1>7, <1>8

-----------------------------------------------------------------------------
(* What has been true so far: the history of a request being answered is   *)
(* never behind the world.                                                 *)

KnownNow(r, facts, sessions) ==
  \A known \in Authenticate(sessions, TokenOf(r)) :
    IF known = Anonymous THEN <<"anonymous">> \in facts
    ELSE <<"known">> \in facts /\ <<"proven", known.provenAt>> \in facts

FreshNow(r, facts, at) ==
  \A age \in AgesOf(r) : \A provenAt \in Nat :
    <<"proven", provenAt>> \in facts /\ Fresh(provenAt, age, at) => <<"fresh", age>> \in facts

HeldNow(r, facts, stored, sessions) ==
  TokenOf(r) # None =>
    \A check \in ChecksOf(r) : \A id \in Named(check) :
      \A answer \in CanAsked(stored, sessions[TokenOf(r)].user, check, id) :
        <<answer, check.name, check.type, id>> \in facts

Follows(r, facts, stored, sessions, at) ==
  /\ KnownNow(r, facts, sessions)
  /\ FreshNow(r, facts, at)
  /\ HeldNow(r, facts, stored, sessions)

UpToDate(r) == phase[r] = "open" => Follows(r, could[r], tuples, session, now)

LEMMA TruthsFollow ==
  ASSUME NEW r, NEW past, NEW stored, NEW sessions, NEW at, NEW facts,
         Truths(r, past, stored, sessions, at) \subseteq facts,
         facts \subseteq past \cup Truths(r, past, stored, sessions, at)
  PROVE  Follows(r, facts, stored, sessions, at)
<1> DEFINE identity == Identity(past) \cup KnownBy(r, sessions)
<1>1. Truths(r, past, stored, sessions, at)
        = identity \cup FreshBy(r, identity, at) \cup HeldBy(r, stored, sessions)
  BY DEF Truths
<1>2. KnownBy(r, sessions) \subseteq facts /\ FreshBy(r, identity, at) \subseteq facts
      /\ HeldBy(r, stored, sessions) \subseteq facts
  BY <1>1
<1>3. KnownNow(r, facts, sessions)
  BY <1>2 DEF KnownNow, KnownBy
<1>4. HeldNow(r, facts, stored, sessions)
  BY <1>2 DEF HeldNow, HeldBy
<1>5. ASSUME NEW provenAt, <<"proven", provenAt>> \in facts
      PROVE  <<"proven", provenAt>> \in identity
  <2>1. <<"proven", provenAt>> \notin FreshBy(r, identity, at)
    BY DEF FreshBy
  <2>2. <<"proven", provenAt>> \notin HeldBy(r, stored, sessions)
    <3> SUFFICES ASSUME <<"proven", provenAt>> \in HeldBy(r, stored, sessions) PROVE FALSE
      OBVIOUS
    <3>1. PICK check, id, answer :
            /\ answer \in CanAsked(stored, sessions[TokenOf(r)].user, check, id)
            /\ <<"proven", provenAt>> = <<answer, check.name, check.type, id>>
      BY DEF HeldBy
    <3>2. <<"proven", provenAt>>[1] = <<answer, check.name, check.type, id>>[1]
      BY <3>1, Zenon
    <3>3. answer = "proven" /\ answer \in Answers
      BY <3>1, <3>2 DEF CanAsked
    <3> QED
      BY <3>3 DEF Answers
  <2>3. <<"proven", provenAt>> \in past => <<"proven", provenAt>> \in Identity(past)
    <3>1. <<"proven", provenAt>>[1] = "proven"
      OBVIOUS
    <3> QED
      BY <3>1 DEF Identity
  <2> QED
    BY <1>1, <1>5, <2>1, <2>2, <2>3
<1>6. FreshNow(r, facts, at)
  <2> SUFFICES ASSUME NEW age \in AgesOf(r), NEW provenAt \in Nat,
                      <<"proven", provenAt>> \in facts, Fresh(provenAt, age, at)
               PROVE  <<"fresh", age>> \in facts
    BY DEF FreshNow
  <2>1. <<"proven", provenAt>> \in identity
    BY <1>5
  <2> HIDE DEF identity
  <2>2. <<"fresh", age>> \in FreshBy(r, identity, at)
    BY <2>1 DEF FreshBy
  <2> QED
    BY <1>2, <2>2
<1> QED
  BY <1>3, <1>4, <1>6 DEF Follows

(* What a request asks is the application's own.                           *)
LEMMA AskedStays ==
  ASSUME app' = app, NEW r
  PROVE  /\ ChecksOf(r)' = ChecksOf(r) /\ AgesOf(r)' = AgesOf(r) /\ OnSocket(r)' = OnSocket(r)
         /\ connection' = connection => TokenOf(r)' = TokenOf(r)
         /\ ~OnSocket(r) => TokenOf(r)' = TokenOf(r)
<1>1. ChecksOf(r)' = ChecksOf(r)
  BY Zenon DEF ChecksOf
<1>2. AgesOf(r)' = AgesOf(r) /\ OnSocket(r)' = OnSocket(r)
  BY Zenon DEF AgesOf, OnSocket
<1>3. connection' = connection => TokenOf(r)' = TokenOf(r)
  BY DEF TokenOf, OnSocket
<1>4. ~OnSocket(r) => TokenOf(r)' = TokenOf(r)
  BY DEF TokenOf, OnSocket
<1> QED
  BY <1>1, <1>2, <1>3, <1>4

LEMMA FollowsStays ==
  ASSUME UNCHANGED <<model, maxDepth, app>>,
         NEW r, NEW facts, NEW stored, NEW sessions, NEW at,
         TokenOf(r)' = TokenOf(r), Follows(r, facts, stored, sessions, at)
  PROVE  Follows(r, facts, stored, sessions, at)'
<1>1. ChecksOf(r)' = ChecksOf(r) /\ AgesOf(r)' = AgesOf(r)
  BY AskedStays
<1>2. \A user, check, id : CanAsked(stored, user, check, id)' = CanAsked(stored, user, check, id)
  BY Zenon DEF CanAsked
<1>3. \A token : Authenticate(sessions, token)' = Authenticate(sessions, token)
  BY Zenon DEF Authenticate
<1>4. KnownNow(r, facts, sessions)'
  BY <1>1, <1>3 DEF Follows, KnownNow
<1>5. FreshNow(r, facts, at)'
  BY <1>1 DEF Follows, FreshNow
<1>6. HeldNow(r, facts, stored, sessions)'
  BY <1>1, <1>2 DEF Follows, HeldNow
<1> QED
  BY <1>4, <1>5, <1>6 DEF Follows

(* A history that took in what changed follows what it changed to.         *)
LEMMA FollowsOn ==
  ASSUME UNCHANGED <<model, maxDepth, app, connection>>,
         NEW r, could'[r] = could[r] \cup Truths(r, could[r], tuples', session', now')
                \/ could'[r] = Truths(r, could[r], tuples', session', now')
  PROVE  UpToDate(r)'
<1>1. PICK facts, stored, sessions, at :
        facts = could'[r] /\ stored = tuples' /\ sessions = session' /\ at = now'
  OBVIOUS
<1>2. Follows(r, facts, stored, sessions, at)
  BY <1>1, TruthsFollow
<1>3. Follows(r, facts, stored, sessions, at)'
  BY <1>2, FollowsStays, AskedStays
<1> QED
  BY <1>1, <1>3 DEF UpToDate

LEMMA StillFollows ==
  ASSUME UNCHANGED <<model, maxDepth, tuples, app, session, now>>,
         NEW r, TokenOf(r)' = TokenOf(r), could'[r] = could[r],
         phase'[r] = "open" => phase[r] = "open", UpToDate(r)
  PROVE  UpToDate(r)'
<1> SUFFICES ASSUME phase'[r] = "open" PROVE Follows(r, could[r], tuples, session, now)'
  BY DEF UpToDate
<1>1. PICK facts, stored, sessions, at :
        facts = could[r] /\ stored = tuples /\ sessions = session /\ at = now
  OBVIOUS
<1>2. Follows(r, facts, stored, sessions, at)
  BY <1>1 DEF UpToDate
<1>3. Follows(r, facts, stored, sessions, at)'
  BY <1>2, FollowsStays
<1> QED
  BY <1>1, <1>3

-----------------------------------------------------------------------------
(* The inductive invariant: shapes.                                        *)

IsTask(t) ==
  /\ t = [pc |-> t.pc, k |-> t.k, waits |-> t.waits, denied |-> t.denied,
          outcome |-> t.outcome, mark |-> t.mark]
  /\ t.pc \in {"idle", "user", "load", "ask", "done"}
  /\ t.mark \in Nat /\ t.mark <= faults

IsContext(c) ==
  /\ c = [asked |-> c.asked, known |-> c.known, memo |-> c.memo, events |-> c.events]
  /\ c.asked \in {"no", "asking", "answered", "failed"}
  /\ c.events \in Nat

IsRoute(x) ==
  /\ x = [pc |-> x.pc, known |-> x.known, status |-> x.status, mark |-> x.mark]
  /\ x.pc \in {"session", "fresh", "subject", "can", "handler", "resend", "done"}
  /\ x.mark \in Nat /\ x.mark <= faults

IsResponse(x) ==
  /\ x = [sent |-> x.sent, told |-> x.told, done |-> x.done]
  /\ x.sent \in Seq({"own", "renewed"})

Shapes ==
  /\ AreSessions(session) /\ now \in Nat /\ faults \in Nat
  /\ phase = [r \in Requests |-> phase[r]]
  /\ could = [r \in Requests |-> could[r]]
  /\ response = [h \in Https |-> response[h]] /\ \A h \in Https : IsResponse(response[h])
  /\ context = [o \in Operations |-> context[o]] /\ \A o \in Operations : IsContext(context[o])
  /\ task = [o \in Operations |-> task[o]]
  /\ \A o \in Operations :
       /\ task[o] = [f \in app.requests[o].fields |-> task[o][f]]
       /\ \A f \in app.requests[o].fields : IsTask(task[o][f])
  /\ route = [w \in RouteRequests |-> route[w]] /\ \A w \in RouteRequests : IsRoute(route[w])

(* Every token presented is one there is.                                  *)
Tokens ==
  LET tokens == DOMAIN session \cup {None} IN
  /\ \A r \in Requests : app.requests[r].bearer \in tokens /\ app.requests[r].cookie \in tokens
  /\ app.socket # None => app.socket.bearer \in tokens /\ app.socket.cookie \in tokens
                          /\ app.socket.params \in {"garbled", "none"} \cup tokens
  /\ connection.credential \in tokens
  /\ connection.state = "new" =>
       \A o \in Operations : OnSocket(o) => phase[o] = "new"

-----------------------------------------------------------------------------
(* The inductive invariant: what an operation knows.                       *)

(* What authenticate answered was true, and is of the token presented.     *)
Knows(r, known, facts) ==
  \/ known = Anonymous /\ <<"anonymous">> \in facts
  \/ /\ TokenOf(r) \in DOMAIN session
     /\ known.user # None /\ known.user = session[TokenOf(r)].user
     /\ known.token = TokenOf(r) /\ known.provenAt \in Nat
     /\ <<"known">> \in facts /\ <<"proven", known.provenAt>> \in facts

ContextOk(o) ==
  LET c == context[o] IN
  /\ phase[o] \in {"new", "open", "idle", "done"}
  /\ phase[o] = "idle" => Streams(o)
  /\ phase[o] = "new" =>
       c.asked = "no" /\ \A f \in app.requests[o].fields : task[o][f] = NotStarted
  /\ c.asked = "asking" => \E f \in Running(o) : task[o][f].pc = "user"
  /\ IF c.asked = "answered" THEN Knows(o, c.known, could[o]) ELSE c.known = Anonymous
  /\ c.known = Anonymous => DOMAIN c.memo = {}

(* What the memo holds was true since the operation came; a subscription's *)
(* guards do not read it.                                                  *)
MemoOk(o) ==
  LET memo == context[o].memo IN
  \A key \in DOMAIN memo :
    /\ memo[key] = [answer |-> memo[key].answer, check |-> memo[key].check]
    /\ memo[key].check \in ChecksOf(o)
    /\ key[2] \in Named(memo[key].check) /\ key = KeyOf(memo[key].check, key[2])
    /\ phase[o] = "open" /\ ~Streams(o) /\ memo[key].answer \in {"yes", "no"} =>
         <<memo[key].answer, key[3], key[1], key[2]>> \in could[o]

-----------------------------------------------------------------------------
(* The inductive invariant: what a task knows.                             *)

Says(answer, check, id) == <<answer, check.name, check.type, id>>

Granted(check, facts) ==
  check.targets # Nothing /\ \A id \in check.targets : Says("yes", check, id) \in facts

Admitted(o, f) ==
  LET required == Requirement(o, f) IN
  /\ <<"known">> \in could[o]
  /\ TypesAdmit(o, app.schema[f])
  /\ required.maxAge # NoAge => <<"fresh", required.maxAge>> \in could[o]

Hearing(t, check, facts) ==
  /\ t.denied => \E id \in Named(check) : Says("no", check, id) \in facts
  /\ ~t.denied => \A id \in Named(check) \ t.waits : Says("yes", check, id) \in facts

(* A session older than an age stays so.                                   *)
Older(r, age) ==
  \E fact \in could[r] : fact[1] = "proven" /\ fact[2] \in Nat /\ ~Fresh(fact[2], age, now)

SteppedUp(o, field) == \E w \in WrittenOn(field) : \E age \in w.fresh : Older(o, age)

TaskOk(o, f) ==
  LET t == task[o][f]  required == Requirement(o, f)  checks == required.permissions IN
  /\ t.pc # "idle" => f \in Running(o) /\ phase[o] # "new"
  /\ t.pc # "done" => t.outcome = "none"
  /\ t.pc \in {"user", "load", "ask"} => phase[o] = "open" /\ context[o].asked # "no"
  /\ t.pc \in {"load", "ask"} =>
       /\ context[o].asked = "answered" /\ context[o].known # Anonymous
       /\ t.k \in DOMAIN checks /\ checks[t.k].targets # Nothing
       /\ Guarded(app.schema[f]) =>
            /\ Admitted(o, f)
            /\ \A i \in DOMAIN checks : i < t.k => Granted(checks[i], could[o])
  /\ t.pc = "ask" =>
       /\ t.waits \subseteq Named(checks[t.k])
       /\ Guarded(app.schema[f]) => Hearing(t, checks[t.k], could[o])
  /\ t.pc = "done" =>
       /\ FieldWasTrue(o, f) /\ HiddenWas(o, f)
       /\ t.outcome = "STEP_UP_REQUIRED" => SteppedUp(o, app.schema[f])
       /\ t.outcome = "FORBIDDEN" \/ (t.outcome = "resolved" /\ Guarded(app.schema[f])) =>
            TokenOf(o) \in DOMAIN session

OperationOk(o) ==
  ContextOk(o) /\ MemoOk(o) /\ \A f \in app.requests[o].fields : TaskOk(o, f)

-----------------------------------------------------------------------------
(* The inductive invariant: what a route knows, and the cookies.           *)

RouteOk(w) ==
  LET x == route[w]  request == app.requests[w]  facts == could[w] IN
  /\ phase[w] \in {"new", "open", "done"}
  /\ phase[w] = "new" => x.pc = "session"
  /\ x.pc \notin {"session", "done"} => phase[w] = "open" /\ Knows(w, x.known, facts)
  /\ x.pc \notin {"resend", "done"} => x.status = 0
  /\ x.pc \in {"fresh", "subject", "can", "handler"} /\ request.required => x.known # Anonymous
  /\ x.pc \in {"subject", "can", "handler"} /\ request.maxAge # NoAge =>
       <<"fresh", request.maxAge>> \in facts
  /\ x.pc = "can" => request.check # None /\ x.known # Anonymous
  /\ x.pc = "handler" /\ request.check # None =>
       \E id \in request.check.targets : Says("yes", request.check, id) \in facts
  /\ RouteWasTrue(w)
  /\ x.status = 403 =>
       \/ request.maxAge # NoAge /\ Older(w, request.maxAge)
       \/ request.check # None
            /\ \E id \in request.check.targets : Says("no", request.check, id) \in facts

ByRoute(h) == \E w \in RouteRequests : app.requests[w].http = h

SentTo(h) ==
  \E r \in Requests : /\ app.requests[r].http = h
                      /\ app.requests[r].cookie # None
                      /\ app.requests[r].cookie = TokenOf(r)

CookieOk(h) ==
  LET sent == response[h].sent IN
  /\ "renewed" \in Range(sent) =>
       /\ h # "socket" /\ Len(sent) = 1 /\ SentTo(h)
       /\ ~ByRoute(h) => response[h].done
  /\ \A w \in RouteRequests : app.requests[w].http = h =>
       /\ route[w].pc \notin {"resend", "done"} => sent = <<>>
       /\ route[w].pc = "resend" => sent \in {<<>>, <<"own">>}

Inv ==
  /\ Wired /\ Shapes /\ Tokens
  /\ \A r \in Requests : UpToDate(r)
  /\ \A o \in Operations : OperationOk(o)
  /\ \A w \in RouteRequests : RouteOk(w)
  /\ \A h \in Https : CookieOk(h)

IInv == app # NoApp => Inv

-----------------------------------------------------------------------------
(* What a step of others leaves as it was.                                 *)

(* The world moved on: the history of r grew, if it changed at all.        *)
Onward(r) ==
  /\ app' = app /\ TokenOf(r)' = TokenOf(r)
  /\ DOMAIN session' = DOMAIN session
  /\ \A token \in DOMAIN session : session'[token].user = session[token].user
  /\ now \in Nat /\ now' \in Nat /\ now <= now'
  /\ faults \in Nat /\ faults' \in Nat /\ faults <= faults'
  /\ could[r] \subseteq could'[r]

LEMMA KnowsKept ==
  ASSUME NEW r, Onward(r), NEW known, Knows(r, known, could[r])
  PROVE  Knows(r, known, could[r])'
  BY DEF Knows, Onward, Anonymous

LEMMA AgesAreNat ==
  ASSUME Wired, NEW f \in DOMAIN app.schema
  PROVE  \A w \in WrittenOn(app.schema[f]) : w.fresh \subseteq Nat
  BY RequiredIs, WrittenIs

LEMMA OlderKept ==
  ASSUME NEW r, Onward(r), NEW age \in Nat, Older(r, age)
  PROVE  Older(r, age)'
<1>1. PICK fact \in could[r] : fact[1] = "proven" /\ fact[2] \in Nat /\ ~Fresh(fact[2], age, now)
  BY DEF Older
<1>2. fact \in could'[r] /\ ~Fresh(fact[2], age, now')
  BY <1>1 DEF Onward, Fresh
<1> QED
  BY <1>1, <1>2 DEF Older, Fresh

LEMMA SameAsked ==
  ASSUME app' = app, NEW o, context'[o].events = context[o].events
  PROVE  /\ Streams(o)' = Streams(o) /\ Root(o)' = Root(o) /\ Running(o)' = Running(o)
         /\ \A f : Requirement(o, f)' = Requirement(o, f)
<1>1. Streams(o)' = Streams(o) /\ Root(o)' = Root(o)
  BY DEF Streams, Root
<1>2. Running(o)' = Running(o)
  BY <1>1 DEF Running
<1>3. \A f : Requirement(o, f)' = Requirement(o, f)
  BY <1>1 DEF Requirement
<1> QED
  BY <1>1, <1>2, <1>3

LEMMA TypesKept ==
  ASSUME NEW o, Onward(o), TokenOf(o) \in DOMAIN session, NEW field
  PROVE  TypesAdmit(o, field)' <=> TypesAdmit(o, field)
  BY DEF TypesAdmit, Onward

LEMMA UsesKept ==
  ASSUME NEW o, Onward(o), NEW field, NEW use
  PROVE  /\ HoldsUse(field, use, could[o]) => HoldsUse(field, use, could[o])'
         /\ LacksUse(field, use, could[o]) => LacksUse(field, use, could[o])'
  BY DEF HoldsUse, LacksUse, Onward

(* What a denial on the type excuses.                                      *)
TypeAnswers(o, f) ==
  LET onType == {use \in UsesOf(app.schema[f]) : use.onType} IN
  \/ \E use \in onType : /\ use.onDeny = "FORBIDDEN"
                         /\ LacksUse(app.schema[f], use, could[o])
  \/ \A use \in onType : HoldsUse(app.schema[f], use, could[o])

(* What an answer says is so now.                                          *)
AnswerIs(o, f, outcome) ==
  /\ outcome = "resolved" /\ Guarded(app.schema[f]) =>
       WasHeld(o, f) /\ TokenOf(o) \in DOMAIN session
  /\ outcome = "UNAUTHENTICATED" => <<"anonymous">> \in could[o]
  /\ outcome = "STEP_UP_REQUIRED" => SteppedUp(o, app.schema[f])
  /\ outcome \in {"FORBIDDEN", "NOT_FOUND"} => WasDenied(o, f, outcome)
  /\ outcome = "FORBIDDEN" =>
       /\ TokenOf(o) \in DOMAIN session
       /\ TypesAdmit(o, app.schema[f]) => TypeAnswers(o, f)

(* What a field answers, as it is now, is true from then on.               *)
LEMMA AnswerHolds ==
  ASSUME Wired, NEW o, Onward(o), NEW f \in DOMAIN app.schema,
         NEW outcome, task'[o][f].outcome = outcome,
         context'[o].events = context[o].events,
         AnswerIs(o, f, outcome),
         outcome \in {"SERVICE_UNAVAILABLE", "INTERNAL_SERVER_ERROR"} =>
           OutageNow(o, task[o][f])'
  PROVE  /\ FieldWasTrue(o, f)' /\ HiddenWas(o, f)'
         /\ outcome = "STEP_UP_REQUIRED" => SteppedUp(o, app.schema[f])'
         /\ outcome = "FORBIDDEN" \/ (outcome = "resolved" /\ Guarded(app.schema[f])) =>
              TokenOf(o)' \in DOMAIN session'
<1> DEFINE field == app.schema[f]
<1>1. app' = app /\ could[o] \subseteq could'[o]
  BY DEF Onward
<1>2. \A use : /\ HoldsUse(field, use, could[o]) => HoldsUse(field, use, could'[o])
               /\ LacksUse(field, use, could[o]) => LacksUse(field, use, could[o])'
  BY <1>1, UsesKept
<1>3. TokenOf(o) \in DOMAIN session => (TypesAdmit(o, field)' <=> TypesAdmit(o, field))
  BY <1>1, TypesKept
<1>4. Streams(o)' = Streams(o) /\ Root(o)' = Root(o) /\ AgesOf(o)' = AgesOf(o)
  BY <1>1, SameAsked, AskedStays
<1>5. outcome = "resolved" /\ Guarded(field) => WasHeld(o, f)'
  <2> SUFFICES ASSUME outcome = "resolved", Guarded(field) PROVE WasHeld(o, f)'
    OBVIOUS
  <2>1. WasHeld(o, f) /\ TokenOf(o) \in DOMAIN session
    BY DEF AnswerIs
  <2> QED
    BY <1>1, <1>2, <1>3, <1>4, <2>1 DEF WasHeld
<1>6. outcome \in {"FORBIDDEN", "NOT_FOUND"} => WasDenied(o, f, outcome)'
  <2> SUFFICES ASSUME outcome \in {"FORBIDDEN", "NOT_FOUND"} PROVE WasDenied(o, f, outcome)'
    OBVIOUS
  <2>1. WasDenied(o, f, outcome) /\ (outcome = "FORBIDDEN" => TokenOf(o) \in DOMAIN session)
    BY DEF AnswerIs
  <2> QED
    BY <1>1, <1>2, <1>3, <2>1 DEF WasDenied
<1>7. outcome = "STEP_UP_REQUIRED" => SteppedUp(o, field)'
  <2> SUFFICES ASSUME outcome = "STEP_UP_REQUIRED" PROVE SteppedUp(o, field)'
    OBVIOUS
  <2>1. PICK w \in WrittenOn(field) : \E age \in w.fresh : Older(o, age)
    BY DEF SteppedUp, AnswerIs
  <2>2. PICK age \in w.fresh : Older(o, age)
    BY <2>1
  <2>3. age \in Nat
    BY AgesAreNat
  <2>4. Older(o, age)'
    BY <2>2, <2>3, OlderKept
  <2> QED
    BY <1>1, <2>4 DEF SteppedUp
<1>8. SteppedUp(o, field)' =>
        \E w \in WrittenOn(field) : \E age \in w.fresh : ProvenBefore(could[o], age)'
  BY <1>1 DEF SteppedUp, Older, ProvenBefore
<1>9. HiddenWas(o, f)'
  <2> SUFFICES ASSUME outcome = "FORBIDDEN", TypesAdmit(o, field)'
               PROVE  LET onType == {use \in UsesOf(field) : use.onType} IN
                      \/ \E use \in onType : /\ use.onDeny = "FORBIDDEN"
                                             /\ LacksUse(field, use, could[o])'
                      \/ \A use \in onType : HoldsUse(field, use, could'[o])
    BY <1>1 DEF HiddenWas
  <2>1. TypesAdmit(o, field)
    BY <1>3 DEF AnswerIs
  <2>2. TypeAnswers(o, f)
    BY <2>1 DEF AnswerIs
  <2> QED
    BY <1>1, <1>2, <2>2 DEF TypeAnswers
<1>10. outcome = "FORBIDDEN" \/ (outcome = "resolved" /\ Guarded(app.schema[f])) =>
         TokenOf(o)' \in DOMAIN session'
  BY DEF Onward, AnswerIs
<1>11. FieldWasTrue(o, f)'
  BY <1>1, <1>5, <1>6, <1>7, <1>8 DEF FieldWasTrue, Onward, AnswerIs
<1> QED
  BY <1>1, <1>7, <1>9, <1>10, <1>11

(* What a field answered stays true.                                       *)
LEMMA AnswerKept ==
  ASSUME Wired, NEW o, Onward(o), NEW f \in DOMAIN app.schema, task'[o][f] = task[o][f],
         context'[o].events = context[o].events,
         context[o].asked = "failed" => context'[o].asked = "failed",
         IsTask(task[o][f]), FieldWasTrue(o, f), HiddenWas(o, f),
         task[o][f].outcome = "STEP_UP_REQUIRED" => SteppedUp(o, app.schema[f]),
         task[o][f].outcome = "FORBIDDEN"
           \/ (task[o][f].outcome = "resolved" /\ Guarded(app.schema[f])) =>
              TokenOf(o) \in DOMAIN session
  PROVE  /\ FieldWasTrue(o, f)' /\ HiddenWas(o, f)'
         /\ task[o][f].outcome = "STEP_UP_REQUIRED" => SteppedUp(o, app.schema[f])'
<1>1. PICK outcome : outcome = task[o][f].outcome
  OBVIOUS
<1>2. OutageNow(o, task[o][f]) => OutageNow(o, task[o][f])'
  BY DEF OutageNow, Onward, IsTask
<1>3. outcome \in {"SERVICE_UNAVAILABLE", "INTERNAL_SERVER_ERROR"} => OutageNow(o, task[o][f])
  BY <1>1 DEF FieldWasTrue
<1>4. outcome = "FORBIDDEN" /\ TypesAdmit(o, app.schema[f]) => TypeAnswers(o, f)
  BY <1>1 DEF HiddenWas, TypeAnswers
<1>5. AnswerIs(o, f, outcome)
  BY <1>1, <1>4 DEF FieldWasTrue, AnswerIs
<1> QED
  BY <1>1, <1>2, <1>3, <1>5, AnswerHolds

LEMMA RequestsWired ==
  ASSUME Wired
  PROVE  /\ \A o \in Operations :
              /\ app.requests[o].fields \subseteq DOMAIN app.schema
              /\ Streams(o) => Root(o) \in app.requests[o].fields
              /\ Running(o) \subseteq app.requests[o].fields
         /\ \A w \in RouteRequests :
              /\ app.requests[w].maxAge \in Nat /\ ~OnSocket(w)
              /\ app.requests[w].check # None =>
                   "nothing" \notin app.requests[w].check.targets
              /\ \A r \in Requests : app.requests[r].http = app.requests[w].http => r = w
<1>1. PICK given \in Accepted : app = Served(given)
  BY DEF Wired
<1>2. app.requests = given.requests /\ app.schema = given.schema /\ given \in Apps
  BY <1>1 DEF Served, Accepted
<1>3. \A r \in Requests : IsRequest(given, r)
  BY <1>2, AppsAssumption DEF Requests
<1>4. ASSUME NEW o \in Operations
      PROVE  /\ app.requests[o].fields \subseteq DOMAIN app.schema
             /\ Streams(o) => Root(o) \in app.requests[o].fields
  BY <1>2, <1>3 DEF Operations, IsRequest, Streams, Root
<1>5. \A o \in Operations : Running(o) \subseteq app.requests[o].fields
  BY <1>4 DEF Running
<1>6. ASSUME NEW w \in RouteRequests
      PROVE  /\ app.requests[w].maxAge \in Nat /\ ~OnSocket(w)
             /\ app.requests[w].check # None =>
                  "nothing" \notin app.requests[w].check.targets
             /\ \A r \in Requests : app.requests[r].http = app.requests[w].http => r = w
  BY <1>2, <1>3 DEF RouteRequests, Requests, IsRequest, OnSocket
<1> QED
  BY <1>4, <1>5, <1>6

LEMMA TaskKept ==
  ASSUME Wired, NEW o \in Operations, Onward(o), NEW f \in app.requests[o].fields,
         task'[o][f] = task[o][f],
         context'[o].events = context[o].events,
         context[o].asked \in {"answered", "failed"} => context'[o].asked = context[o].asked,
         context[o].asked = "asking" => context'[o].asked # "no",
         context[o].asked \in {"no", "asking", "answered", "failed"},
         context[o].asked = "answered" => context'[o].known = context[o].known,
         phase'[o] = phase[o] \/ (task[o][f].pc \in {"idle", "done"} /\ phase'[o] # "new"),
         context[o].asked = "answered" => Knows(o, context[o].known, could[o]),
         IsTask(task[o][f]), TaskOk(o, f)
  PROVE  TaskOk(o, f)'
<1> DEFINE t        == task[o][f]
           field    == app.schema[f]
           required == Requirement(o, f)
           checks   == required.permissions
<1>1. app' = app /\ could[o] \subseteq could'[o] /\ f \in DOMAIN app.schema
  BY RequestsWired DEF Onward
<1>2. Requirement(o, f)' = required /\ Running(o)' = Running(o)
  BY <1>1, SameAsked
<1>3. t.pc = "done" => /\ FieldWasTrue(o, f)' /\ HiddenWas(o, f)'
                       /\ t.outcome = "STEP_UP_REQUIRED" => SteppedUp(o, field)'
                       /\ t.outcome = "FORBIDDEN" \/ (t.outcome = "resolved" /\ Guarded(field)) =>
                            TokenOf(o)' \in DOMAIN session'
  <2> SUFFICES ASSUME t.pc = "done"
               PROVE  /\ FieldWasTrue(o, f)' /\ HiddenWas(o, f)'
                      /\ t.outcome = "STEP_UP_REQUIRED" => SteppedUp(o, field)'
                      /\ t.outcome = "FORBIDDEN" \/ (t.outcome = "resolved" /\ Guarded(field)) =>
                           TokenOf(o)' \in DOMAIN session'
    OBVIOUS
  <2>1. /\ FieldWasTrue(o, f) /\ HiddenWas(o, f)
        /\ t.outcome = "STEP_UP_REQUIRED" => SteppedUp(o, field)
        /\ t.outcome = "FORBIDDEN" \/ (t.outcome = "resolved" /\ Guarded(field)) =>
             TokenOf(o) \in DOMAIN session
    BY DEF TaskOk
  <2>2. context[o].asked = "failed" => context'[o].asked = "failed"
    OBVIOUS
  <2>3. TokenOf(o)' = TokenOf(o) /\ DOMAIN session' = DOMAIN session
    BY DEF Onward
  <2> QED
    <3> HIDE DEF field, t
    <3>1. /\ FieldWasTrue(o, f)' /\ HiddenWas(o, f)'
          /\ task[o][f].outcome = "STEP_UP_REQUIRED" => SteppedUp(o, app.schema[f])'
      BY <1>1, <2>1, <2>2, AnswerKept DEF t, field
    <3> QED
      BY <1>1, <2>1, <2>3, <3>1 DEF t, field
<1>4. t.pc \in {"load", "ask"} /\ Guarded(field) =>
        /\ Admitted(o, f)'
        /\ \A i \in DOMAIN checks : i < t.k => Granted(checks[i], could'[o])
  <2> SUFFICES ASSUME t.pc \in {"load", "ask"}, Guarded(field)
               PROVE  /\ Admitted(o, f)'
                      /\ \A i \in DOMAIN checks : i < t.k => Granted(checks[i], could'[o])
    OBVIOUS
  <2>1. /\ Admitted(o, f) /\ context[o].asked = "answered" /\ context[o].known # Anonymous
        /\ \A i \in DOMAIN checks : i < t.k => Granted(checks[i], could[o])
    BY DEF TaskOk
  <2>2. TokenOf(o) \in DOMAIN session
    BY <2>1 DEF Knows
  <2>3. TypesAdmit(o, field)' <=> TypesAdmit(o, field)
    BY <1>1, <2>2, TypesKept
  <2>4. Admitted(o, f)'
    <3> HIDE DEF field, checks, required
    <3>1. TypesAdmit(o, field)'
      BY <2>1, <2>3 DEF Admitted, field
    <3>2. Requirement(o, f).maxAge # NoAge => <<"fresh", Requirement(o, f).maxAge>> \in could'[o]
      BY <1>1, <2>1 DEF Admitted
    <3>3. <<"known">> \in could'[o]
      BY <1>1, <2>1 DEF Admitted
    <3>4. Requirement(o, f)' = Requirement(o, f)
      BY <1>2 DEF required
    <3> QED
      BY <3>1, <3>2, <3>3, <3>4 DEF Admitted, field
  <2>5. ASSUME NEW check, Granted(check, could[o]) PROVE Granted(check, could'[o])
    <3> HIDE DEF checks, required
    <3> QED
      BY <1>1, <2>5 DEF Granted
  <2> QED
    BY <2>1, <2>4, <2>5
<1>5. t.pc = "ask" /\ Guarded(field) => Hearing(t, checks[t.k], could'[o])
  <2> SUFFICES ASSUME t.pc = "ask", Guarded(field) PROVE Hearing(t, checks[t.k], could'[o])
    OBVIOUS
  <2>1. Hearing(t, checks[t.k], could[o])
    BY DEF TaskOk
  <2> QED
    BY <1>1, <2>1 DEF Hearing
<1>6. IsTask(t)
  OBVIOUS
<1> QED
  BY <1>1, <1>2, <1>3, <1>4, <1>5, <1>6 DEF TaskOk, IsTask

LEMMA ContextKept ==
  ASSUME NEW o \in Operations, Onward(o), context'[o] = context[o], task'[o] = task[o],
         phase'[o] = phase[o], ContextOk(o), MemoOk(o)
  PROVE  ContextOk(o)' /\ MemoOk(o)'
<1>1. app' = app /\ could[o] \subseteq could'[o]
  BY DEF Onward
<1>2. Streams(o)' = Streams(o) /\ Running(o)' = Running(o) /\ ChecksOf(o)' = ChecksOf(o)
  BY <1>1, SameAsked, AskedStays
<1>3. \A known : Knows(o, known, could[o]) => Knows(o, known, could[o])'
  BY KnowsKept
<1>4. ContextOk(o)'
  BY <1>1, <1>2, <1>3 DEF ContextOk
<1>5. MemoOk(o)'
  BY <1>1, <1>2 DEF MemoOk
<1> QED
  BY <1>4, <1>5

(* An operation that did not move knows what it knew.                      *)
LEMMA OperationKept ==
  ASSUME Wired, NEW o \in Operations, Onward(o),
         context'[o] = context[o], task'[o] = task[o], phase'[o] = phase[o],
         IsContext(context[o]), \A f \in app.requests[o].fields : IsTask(task[o][f]),
         OperationOk(o)
  PROVE  OperationOk(o)'
<1>1. ContextOk(o)' /\ MemoOk(o)'
  BY ContextKept DEF OperationOk
<1>2. context[o].asked = "answered" => Knows(o, context[o].known, could[o])
  BY DEF OperationOk, ContextOk
<1>3. context[o].asked \in {"no", "asking", "answered", "failed"}
  BY DEF IsContext
<1>4. \A f \in app.requests[o].fields : TaskOk(o, f)'
  BY <1>2, <1>3, TaskKept DEF OperationOk
<1> QED
  BY <1>1, <1>4 DEF OperationOk, Onward

(* What an answer said stays true while nothing it is read off moves.      *)
LEMMA TruthStays ==
  ASSUME NEW w, RouteWasTrue(w), route'[w].status = route[w].status,
         route'[w].mark = route[w].mark, app' = app, could' = could, faults' = faults, now' = now
  PROVE  RouteWasTrue(w)'
<1>1. PICK status : status = route[w].status
  OBVIOUS
<1>2. route'[w].status = status
  BY <1>1
<1>3. ProvenBefore(could[w], app.requests[w].maxAge)
        => ProvenBefore(could[w], app.requests[w].maxAge)'
  BY DEF ProvenBefore
<1>4. CASE status = 200
  BY SMTT(30), <1>1, <1>2, <1>4 DEF RouteWasTrue
<1>5. CASE status = 401
  BY <1>1, <1>2, <1>5 DEF RouteWasTrue
<1>6. CASE status = 403
  BY SMTT(30), <1>1, <1>2, <1>3, <1>6 DEF RouteWasTrue
<1>7. CASE status = 404
  BY <1>1, <1>2, <1>7 DEF RouteWasTrue
<1>8. CASE status \in {500, 503}
  BY <1>1, <1>2, <1>8 DEF RouteWasTrue
<1>9. CASE status \notin {200, 401, 403, 404, 500, 503}
  BY <1>2, <1>9 DEF RouteWasTrue
<1> QED
  BY <1>4, <1>5, <1>6, <1>7, <1>8, <1>9

LEMMA RouteKept ==
  ASSUME Wired, NEW w \in RouteRequests, Onward(w), route'[w] = route[w],
         phase'[w] = phase[w], IsRoute(route[w]), RouteOk(w)
  PROVE  RouteOk(w)'
<1>1. PICK x, request, facts, later :
        x = route[w] /\ request = app.requests[w] /\ facts = could[w] /\ later = could'[w]
  OBVIOUS
<1>2. route'[w] = x /\ app'.requests[w] = request /\ facts \subseteq later
  BY <1>1 DEF Onward
<1>3. Knows(w, x.known, facts) => Knows(w, x.known, could[w])'
  BY <1>1, KnowsKept
<1>4. request.maxAge \in Nat
  BY <1>1, RequestsWired
<1>5. x.status = 403 =>
        \/ request.maxAge # NoAge /\ Older(w, request.maxAge)'
        \/ request.check # None
             /\ \E id \in request.check.targets : Says("no", request.check, id) \in later
  <2> SUFFICES ASSUME x.status = 403
               PROVE  \/ request.maxAge # NoAge /\ Older(w, request.maxAge)'
                      \/ request.check # None
                           /\ \E id \in request.check.targets : Says("no", request.check, id) \in later
    OBVIOUS
  <2>1. \/ request.maxAge # NoAge /\ Older(w, request.maxAge)
        \/ request.check # None
             /\ \E id \in request.check.targets : Says("no", request.check, id) \in facts
    BY <1>1 DEF RouteOk
  <2>2. Older(w, request.maxAge) => Older(w, request.maxAge)'
    BY <1>4, OlderKept
  <2> QED
    BY <1>2, <2>1, <2>2
<1>6. Older(w, request.maxAge)' => ProvenBefore(later, request.maxAge)'
  BY <1>1 DEF Older, ProvenBefore
<1>7. RouteWasTrue(w)'
  <2>1. RouteWasTrue(w)
    BY DEF RouteOk
  <2>2. faults > x.mark => faults' > x.mark
    BY <1>1 DEF Onward, IsRoute
  <2>3. x.status = 200 =>
          /\ request.required => <<"known">> \in later
          /\ request.maxAge # NoAge => <<"fresh", request.maxAge>> \in later
          /\ request.check # None => \E id \in request.check.targets :
               <<"yes", request.check.name, request.check.type, id>> \in later
    BY <1>1, <1>2, <2>1 DEF RouteWasTrue
  <2>4. x.status = 401 => <<"anonymous">> \in later
    BY <1>1, <1>2, <2>1 DEF RouteWasTrue
  <2>5. x.status = 403 =>
          \/ request.maxAge # NoAge /\ ProvenBefore(later, request.maxAge)'
          \/ request.check # None /\ \E id \in request.check.targets :
               <<"no", request.check.name, request.check.type, id>> \in later
    BY <1>5, <1>6 DEF Says
  <2>6. x.status = 404 => request.check.targets \cap app'.missing # {}
    BY <1>1, <2>1 DEF RouteWasTrue, Onward
  <2>7. x.status \in {500, 503} =>
          \/ faults' > x.mark
          \/ request.check # None /\ \E why \in {"depth", "ctx", "data"} :
               \E id \in request.check.targets :
                 <<why, request.check.name, request.check.type, id>> \in later
    BY SMTT(30), <1>1, <1>2, <2>1, <2>2 DEF RouteWasTrue
  <2>8. /\ route'[w].status = x.status /\ route'[w].mark = x.mark
        /\ could'[w] = later /\ app'.requests[w] = request
    BY <1>1, <1>2
  <2>9. CASE x.status = 200
    BY <2>3, <2>8, <2>9 DEF RouteWasTrue
  <2>10. CASE x.status = 401
    BY <2>4, <2>8, <2>10 DEF RouteWasTrue
  <2>11. CASE x.status = 403
    BY <2>5, <2>8, <2>11 DEF RouteWasTrue
  <2>12. CASE x.status = 404
    BY <2>6, <2>8, <2>12 DEF RouteWasTrue
  <2>13. CASE x.status \in {500, 503}
    BY <2>7, <2>8, <2>13 DEF RouteWasTrue
  <2>14. CASE x.status \notin {200, 401, 403, 404, 500, 503}
    BY <2>8, <2>14 DEF RouteWasTrue
  <2> QED
    BY <2>9, <2>10, <2>11, <2>12, <2>13, <2>14
<1>8. phase[w] \in {"new", "open", "done"} /\ (phase[w] = "new" => x.pc = "session")
  BY <1>1 DEF RouteOk
<1>9. x.pc \notin {"session", "done"} => phase[w] = "open" /\ Knows(w, x.known, could[w])'
  BY <1>1, <1>3 DEF RouteOk
<1>10. /\ x.pc \notin {"resend", "done"} => x.status = 0
       /\ x.pc \in {"fresh", "subject", "can", "handler"} /\ request.required
            => x.known # Anonymous
       /\ x.pc = "can" => request.check # None /\ x.known # Anonymous
  BY <1>1 DEF RouteOk
<1>11. /\ x.pc \in {"subject", "can", "handler"} /\ request.maxAge # NoAge =>
            <<"fresh", request.maxAge>> \in later
       /\ x.pc = "handler" /\ request.check # None =>
            \E id \in request.check.targets : Says("yes", request.check, id) \in later
  BY <1>1, <1>2 DEF RouteOk
<1> QED
  BY <1>1, <1>2, <1>5, <1>7, <1>8, <1>9, <1>10, <1>11 DEF RouteOk

(* A response nobody wrote to, whose route did not move.                   *)
LEMMA CookieKept ==
  ASSUME NEW h \in Https, app' = app,
         \A r \in Requests : ~OnSocket(r) => TokenOf(r)' = TokenOf(r),
         response'[h] = response[h],
         \A w \in RouteRequests : app.requests[w].http = h => route'[w].pc = route[w].pc,
         CookieOk(h)
  PROVE  CookieOk(h)'
<1>1. PICK sent : sent = response[h].sent
  OBVIOUS
<1>2. Requests' = Requests /\ RouteRequests' = RouteRequests
  BY DEF Requests, RouteRequests
<1>3. h # "socket" /\ SentTo(h) => SentTo(h)'
  BY <1>2 DEF SentTo, OnSocket
<1>4. ByRoute(h)' = ByRoute(h)
  BY <1>2 DEF ByRoute
<1>5. "renewed" \in Range(sent) =>
        /\ h # "socket" /\ Len(sent) = 1 /\ SentTo(h)'
        /\ ~ByRoute(h) => response[h].done
  BY <1>1, <1>3 DEF CookieOk
<1>6. \A w \in RouteRequests : app.requests[w].http = h =>
        /\ route'[w].pc \notin {"resend", "done"} => sent = <<>>
        /\ route'[w].pc = "resend" => sent \in {<<>>, <<"own">>}
  BY <1>1 DEF CookieOk
<1> QED
  BY <1>1, <1>2, <1>4, <1>5, <1>6 DEF CookieOk

(* What an application is does not change.                                 *)
LEMMA SameApplication ==
  ASSUME app' = app
  PROVE  /\ Requests' = Requests /\ Https' = Https /\ Operations' = Operations
         /\ RouteRequests' = RouteRequests
         /\ Wired => Wired'
  BY DEF Requests, Https, Operations, RouteRequests, Wired

LEMMA OnwardAll ==
  ASSUME Shapes, UNCHANGED <<app, connection>>,
         DOMAIN session' = DOMAIN session,
         \A token \in DOMAIN session : session'[token].user = session[token].user,
         now' \in Nat, now <= now', faults' \in Nat, faults <= faults',
         NEW r, could[r] \subseteq could'[r]
  PROVE  Onward(r)
<1>1. TokenOf(r)' = TokenOf(r)
  BY AskedStays
<1> QED
  BY <1>1 DEF Onward, Shapes

(* What a change of the world says of the histories.                       *)
LEMMA HistoriesGrow ==
  ASSUME Shapes, UNCHANGED <<model, maxDepth, app, connection, phase>>,
         Changed(tuples', session', now')
  PROVE  /\ could' = [r \in Requests |-> could'[r]]
         /\ \A r \in Requests : could[r] \subseteq could'[r] /\ UpToDate(r)'
<1>1. could' = [r \in Requests |->
                  IF phase[r] = "open"
                    THEN could[r] \cup Truths(r, could[r], tuples', session', now')
                    ELSE could[r]]
  BY DEF Changed
<1>2. ASSUME NEW r \in Requests
      PROVE  could[r] \subseteq could'[r] /\ UpToDate(r)'
  <2>1. could'[r] = IF phase[r] = "open"
                      THEN could[r] \cup Truths(r, could[r], tuples', session', now')
                      ELSE could[r]
    BY <1>1
  <2>2. CASE phase[r] = "open"
    BY <2>1, <2>2, FollowsOn
  <2>3. CASE phase[r] # "open"
    <3>1. UpToDate(r)'
      BY <2>3 DEF UpToDate
    <3> QED
      BY <2>1, <2>3, <3>1
  <2> QED
    BY <2>2, <2>3
<1>3. PICK next : next = could'
  OBVIOUS
<1>4. next = [r \in Requests |-> next[r]]
  <2>1. PICK F : F = [r \in Requests |->
                  IF phase[r] = "open"
                    THEN could[r] \cup Truths(r, could[r], tuples', session', now')
                    ELSE could[r]]
    OBVIOUS
  <2>2. F = [r \in Requests |-> F[r]]
    BY <2>1
  <2> QED
    BY <1>1, <1>3, <2>1, <2>2
<1> QED
  BY <1>2, <1>3, <1>4

LEMMA SessionsStay ==
  ASSUME AreSessions(session), now \in Nat, NEW token \in DOMAIN session,
         NEW s, \/ s = [session[token] EXCEPT !.live = FALSE]
                \/ s = [session[token] EXCEPT !.provenAt = now]
  PROVE  LET sessions == [session EXCEPT ![token] = s] IN
         /\ AreSessions(sessions)
         /\ DOMAIN sessions = DOMAIN session
         /\ \A other \in DOMAIN session : sessions[other].user = session[other].user
<1> DEFINE sessions == [session EXCEPT ![token] = s]
           users    == {session[other].user : other \in DOMAIN session} \ {None}
<1>1. session \in [DOMAIN session -> [user : users, provenAt : Nat, live : BOOLEAN, sliding : BOOLEAN]]
  BY DEF AreSessions
<1>2. session[token] \in [user : users, provenAt : Nat, live : BOOLEAN, sliding : BOOLEAN]
  BY <1>1
<1>3. /\ s.user = session[token].user
      /\ s \in [user : users, provenAt : Nat, live : BOOLEAN, sliding : BOOLEAN]
  <2> HIDE DEF users
  <2> QED
    BY <1>2
<1>4. /\ DOMAIN sessions = DOMAIN session
      /\ \A other \in DOMAIN session : sessions[other].user = session[other].user
  BY <1>1, <1>3
<1>5. {sessions[other].user : other \in DOMAIN sessions} \ {None} = users
  BY <1>4
<1>6. sessions \in [DOMAIN session -> [user : users, provenAt : Nat, live : BOOLEAN, sliding : BOOLEAN]]
  <2> HIDE DEF users
  <2> QED
    BY <1>1, <1>3
<1>7. None \notin DOMAIN session
  BY DEF AreSessions
<1> HIDE DEF users, sessions
<1>8. AreSessions(sessions)
  BY <1>4, <1>5, <1>6, <1>7 DEF AreSessions
<1> QED
  BY <1>4, <1>8 DEF sessions

(* The world changes around the requests.                                  *)
LEMMA WorldMoves ==
  ASSUME Inv, UNCHANGED <<model, maxDepth, app, connection, phase, response, faults>>,
         UNCHANGED <<context, task, route>>,
         AreSessions(session'), DOMAIN session' = DOMAIN session,
         \A token \in DOMAIN session : session'[token].user = session[token].user,
         now' \in Nat, now <= now', Changed(tuples', session', now')
  PROVE  Inv'
<1>1. /\ could' = [r \in Requests |-> could'[r]]
      /\ \A r \in Requests : could[r] \subseteq could'[r] /\ UpToDate(r)'
  BY HistoriesGrow DEF Inv
<1>2. faults \in Nat
  BY DEF Inv, Shapes
<1>3. ASSUME NEW r \in Requests PROVE Onward(r)
  BY <1>1, <1>2, OnwardAll DEF Inv
<1>4. /\ Requests' = Requests /\ Https' = Https /\ Operations' = Operations
      /\ RouteRequests' = RouteRequests /\ Wired'
  BY SameApplication DEF Inv
<1>5. Shapes'
  <2>1. AreSessions(session)' /\ now' \in Nat /\ faults' \in Nat
    BY <1>2 DEF AreSessions
  <2>2. \A o \in Operations : IsContext(context[o])' /\ \A f \in app.requests[o].fields : IsTask(task[o][f])'
    BY DEF Inv, Shapes, IsContext, IsTask
  <2>3. (\A w \in RouteRequests : IsRoute(route[w])') /\ \A h \in Https : IsResponse(response[h])'
    BY DEF Inv, Shapes, IsRoute, IsResponse
  <2> QED
    BY <1>1, <1>4, <2>1, <2>2, <2>3 DEF Inv, Shapes
<1>6. Tokens'
  BY <1>4, AskedStays DEF Inv, Tokens, OnSocket
<1>7. ASSUME NEW o \in Operations PROVE OperationOk(o)'
  <2>1. o \in Requests /\ OperationOk(o)
    BY DEF Operations, Inv
  <2>2. IsContext(context[o]) /\ \A f \in app.requests[o].fields : IsTask(task[o][f])
    BY DEF Inv, Shapes
  <2> QED
    BY <1>3, <2>1, <2>2, OperationKept DEF Inv
<1>8. ASSUME NEW w \in RouteRequests PROVE RouteOk(w)'
  <2>1. w \in Requests /\ RouteOk(w) /\ IsRoute(route[w])
    BY DEF RouteRequests, Inv, Shapes
  <2> QED
    BY <1>3, <2>1, RouteKept DEF Inv
<1>9. ASSUME NEW h \in Https PROVE CookieOk(h)'
  BY AskedStays, CookieKept DEF Inv
<1> QED
  BY <1>1, <1>4, <1>5, <1>6, <1>7, <1>8, <1>9 DEF Inv

LEMMA OthersMove ==
  ASSUME Inv, WorldStep, UNCHANGED <<context, task, route>>
  PROVE  Inv'
<1>1. AreSessions(session) /\ now \in Nat
  BY DEF Inv, Shapes
<1>2. ASSUME NEW stored, RelationChanges(stored) PROVE Inv'
  <2>1. /\ UNCHANGED <<model, maxDepth, app, connection, phase, response, faults>>
        /\ session' = session /\ now' = now /\ Changed(tuples', session', now')
    BY <1>2 DEF RelationChanges, Changed
  <2> QED
    BY <1>1, <2>1, WorldMoves
<1>3. ASSUME NEW sessions, AreSessions(sessions), DOMAIN sessions = DOMAIN session,
             \A token \in DOMAIN session : sessions[token].user = session[token].user,
             SessionChanges(sessions)
      PROVE  Inv'
  <2>1. /\ UNCHANGED <<model, maxDepth, app, connection, phase, response, faults>>
        /\ session' = sessions /\ now' = now /\ Changed(tuples', session', now')
    BY <1>3 DEF SessionChanges, Changed
  <2> QED
    BY <1>1, <1>3, <2>1, WorldMoves
<1>4. ASSUME Tick PROVE Inv'
  <2>1. /\ UNCHANGED <<model, maxDepth, app, connection, phase, response, faults>>
        /\ session' = session /\ now' = now + 1 /\ Changed(tuples', session', now')
    BY <1>4 DEF Tick, Changed
  <2> QED
    BY <1>1, <2>1, WorldMoves
<1>5. ASSUME NEW token \in DOMAIN session,
             \/ SessionChanges([session EXCEPT ![token].live = FALSE])
             \/ SessionChanges([session EXCEPT ![token].provenAt = now])
      PROVE  Inv'
  <2>1. PICK s : /\ SessionChanges([session EXCEPT ![token] = s])
                 /\ \/ s = [session[token] EXCEPT !.live = FALSE]
                    \/ s = [session[token] EXCEPT !.provenAt = now]
    BY <1>5
  <2>2. PICK sessions : sessions = [session EXCEPT ![token] = s]
    OBVIOUS
  <2>3. /\ AreSessions(sessions) /\ DOMAIN sessions = DOMAIN session
        /\ \A other \in DOMAIN session : sessions[other].user = session[other].user
    BY <1>1, <2>1, <2>2, SessionsStay
  <2> QED
    BY <1>3, <2>1, <2>2, <2>3
<1> QED
  BY <1>2, <1>4, <1>5 DEF WorldStep

-----------------------------------------------------------------------------
(* A step of one operation.                                                *)

(* The responses, and the cookies they set.                                *)
Sent ==
  /\ response = [h \in Https |-> response[h]]
  /\ \A h \in Https : IsResponse(response[h]) /\ CookieOk(h)

(* What an operation does of its own, its history too.                     *)
LEMMA OperationMoves ==
  ASSUME Inv, UNCHANGED <<model, maxDepth, tuples, app, session, now, connection, route>>,
         faults' \in Nat, faults <= faults', NEW o \in Operations,
         phase' = [r \in Requests |-> phase'[r]], could' = [r \in Requests |-> could'[r]],
         \A r \in Requests \ {o} : phase'[r] = phase[r] /\ could'[r] = could[r],
         context' = [p \in Operations |-> context'[p]], task' = [p \in Operations |-> task'[p]],
         \A p \in Operations \ {o} : context'[p] = context[p] /\ task'[p] = task[p],
         IsContext(context'[o]),
         task'[o] = [f \in app.requests[o].fields |-> task'[o][f]],
         \A f \in app.requests[o].fields : IsTask(task[o][f])',
         connection.state = "new" /\ OnSocket(o) => phase'[o] = "new",
         UpToDate(o)', OperationOk(o)', Sent'
  PROVE  Inv'
<1>1. /\ Requests' = Requests /\ Https' = Https /\ Operations' = Operations
      /\ RouteRequests' = RouteRequests /\ Wired'
  BY SameApplication DEF Inv
<1>2. ASSUME NEW r \in Requests, r # o PROVE Onward(r)
  BY <1>2, OnwardAll DEF Inv, Shapes
<1>3. ASSUME NEW r \in Requests PROVE TokenOf(r)' = TokenOf(r) /\ OnSocket(r)' = OnSocket(r)
  BY AskedStays
<1>4. ASSUME NEW r \in Requests PROVE UpToDate(r)'
  <2>1. CASE r = o
    BY <2>1
  <2>2. CASE r # o
    BY <1>3, <2>2, StillFollows DEF Inv
  <2> QED
    BY <2>1, <2>2
<1>5. ASSUME NEW p \in Operations
      PROVE  /\ OperationOk(p)' /\ IsContext(context[p])'
             /\ task'[p] = [f \in app.requests[p].fields |-> task'[p][f]]
             /\ \A f \in app.requests[p].fields : IsTask(task[p][f])'
  <2>1. CASE p = o
    BY <2>1 DEF IsContext
  <2>2. CASE p # o
    <3>1. p \in Requests /\ OperationOk(p)
      BY DEF Operations, Inv
    <3>2. IsContext(context[p]) /\ \A f \in app.requests[p].fields : IsTask(task[p][f])
      BY DEF Inv, Shapes
    <3>3. OperationOk(p)'
      BY <1>2, <2>2, <3>1, <3>2, OperationKept DEF Inv
    <3>4. IsContext(context[p])'
      BY <2>2, <3>2 DEF IsContext
    <3>5. ASSUME NEW f \in app.requests[p].fields PROVE IsTask(task[p][f])'
      BY <2>2, <3>2 DEF IsTask, Inv, Shapes
    <3>6. task'[p] = [f \in app.requests[p].fields |-> task'[p][f]]
      BY <2>2 DEF Inv, Shapes
    <3> QED
      BY <3>3, <3>4, <3>5, <3>6
  <2> QED
    BY <2>1, <2>2
<1>6. ASSUME NEW w \in RouteRequests PROVE RouteOk(w)' /\ IsRoute(route[w])'
  <2>1. w \in Requests /\ w # o /\ RouteOk(w) /\ IsRoute(route[w])
    BY DEF RouteRequests, Operations, Inv, Shapes
  <2>2. IsRoute(route[w])'
    BY <2>1 DEF IsRoute, Inv, Shapes
  <2> QED
    BY <1>2, <2>1, <2>2, RouteKept DEF Inv
<1>7. Shapes'
  <2>1. AreSessions(session)' /\ now' \in Nat
    BY DEF Inv, Shapes, AreSessions
  <2>2. route' = [w \in RouteRequests |-> route'[w]]
    BY DEF Inv, Shapes
  <2> QED
    BY <1>1, <1>5, <1>6, <2>1, <2>2 DEF Shapes, Sent
<1>8. Tokens'
  <2>1. connection.state = "new" => \A p \in Operations : OnSocket(p) => phase'[p] = "new"
    BY DEF Inv, Tokens, Operations
  <2>2. Tokens
    BY DEF Inv
  <2>3. \A p \in Operations : OnSocket(p)' = OnSocket(p)
    BY <1>3 DEF Operations
  <2> QED
    BY <1>1, <2>1, <2>2, <2>3 DEF Tokens
<1> QED
  BY <1>1, <1>4, <1>5, <1>6, <1>7, <1>8 DEF Inv, Sent

Becomes(o, f, t) == task' = [task EXCEPT ![o][f] = t]

Learns(o, c) == context' = [context EXCEPT ![o] = c]

(* A task set, and the others as they were.                                *)
LEMMA TaskSet ==
  ASSUME Shapes, NEW o \in Operations, NEW f \in app.requests[o].fields, NEW t,
         Becomes(o, f, t)
  PROVE  /\ task' = [p \in Operations |-> task'[p]]
         /\ task'[o] = [g \in app.requests[o].fields |-> task'[o][g]]
         /\ task'[o][f] = t
         /\ \A g \in app.requests[o].fields \ {f} : task'[o][g] = task[o][g]
         /\ \A p \in Operations \ {o} : task'[p] = task[p]
<1>1. task = [p \in Operations |-> task[p]]
  BY DEF Shapes
<1>2. task[o] = [g \in app.requests[o].fields |-> task[o][g]]
  BY DEF Shapes
<1>3. PICK mine : mine = [task[o] EXCEPT ![f] = t]
  OBVIOUS
<1>4. /\ mine = [g \in app.requests[o].fields |-> mine[g]] /\ mine[f] = t
      /\ \A g \in app.requests[o].fields \ {f} : mine[g] = task[o][g]
  BY <1>2, <1>3, Replaced
<1>5. task' = [task EXCEPT ![o] = mine]
  BY <1>3 DEF Becomes
<1>6. PICK next : next = task'
  OBVIOUS
<1>7. /\ next = [p \in Operations |-> next[p]] /\ next[o] = mine
      /\ \A p \in Operations \ {o} : next[p] = task[p]
  BY <1>1, <1>5, <1>6, Replaced
<1> QED
  BY <1>4, <1>6, <1>7

(* A resolver sets its cookie where nothing was renewed yet.               *)
LEMMA RanCookies ==
  ASSUME Inv, UNCHANGED <<app, connection, route>>, NEW o \in Operations, NEW f, NEW t, Ran(o, f, t)
  PROVE  Sent'
<1>0. PICK http : http = app.requests[o].http
  OBVIOUS
<1>1. Sent
  BY DEF Inv, Shapes, Sent
<1>2. http \in Https /\ ~ByRoute(http)
  <2>1. o \in Requests /\ \A w \in RouteRequests : w # o
    BY DEF Operations, RouteRequests
  <2>2. \A w \in RouteRequests : http = app.requests[w].http => o = w
    BY <1>0, <2>1, RequestsWired DEF Inv
  <2> QED
    BY <1>0, <2>1, <2>2 DEF Https, ByRoute
<1>3. Https' = Https /\ RouteRequests' = RouteRequests
  BY SameApplication
<1>4. \A r \in Requests : TokenOf(r)' = TokenOf(r)
  BY AskedStays
<1>5. ASSUME NEW h \in Https, response'[h] = response[h]
      PROVE  CookieOk(h)' /\ IsResponse(response[h])'
  <2>1. IsResponse(response[h]) /\ CookieOk(h)
    BY <1>1 DEF Sent
  <2> QED
    BY <1>4, <1>5, <2>1, CookieKept DEF IsResponse
<1>6. CASE response' = response
  BY <1>1, <1>3, <1>5, <1>6 DEF Sent
<1>7. CASE /\ ~response[http].done
           /\ response' = [response EXCEPT ![http].sent = Append(@, "own")]
  <2>1. /\ response' = [h \in Https |-> response'[h]]
        /\ \A h \in Https \ {http} : response'[h] = response[h]
        /\ response'[http] = [response[http] EXCEPT !.sent = Append(response[http].sent, "own")]
    <3>1. PICK mine : mine = [response[http] EXCEPT !.sent = Append(response[http].sent, "own")]
      OBVIOUS
    <3>2. response' = [response EXCEPT ![http] = mine]
      BY <1>7, <3>1
    <3>3. PICK next : next = response'
      OBVIOUS
    <3>4. response = [h \in Https |-> response[h]]
      BY <1>1 DEF Sent
    <3>5. /\ next = [h \in Https |-> next[h]] /\ next[http] = mine
          /\ \A h \in Https \ {http} : next[h] = response[h]
      BY <1>2, <3>2, <3>3, <3>4
    <3> QED
      BY <3>1, <3>3, <3>5
  <2>2. IsResponse(response[http])
    BY <1>1, <1>2 DEF Sent
  <2>3. response[http].sent \in Seq({"own", "renewed"})
    BY <2>2 DEF IsResponse
  <2>4. IsResponse(response[http])'
    <3>1. Append(response[http].sent, "own") \in Seq({"own", "renewed"})
      BY <2>3
    <3> QED
      BY <2>1, <2>2, <3>1 DEF IsResponse
  <2>5. "renewed" \notin Range(response[http].sent)
    BY <1>1, <1>2, <1>7 DEF Sent, CookieOk
  <2>6. "renewed" \notin Range(Append(response[http].sent, "own"))
    BY <2>3, <2>5 DEF Range
  <2>7. response'[http].sent = Append(response[http].sent, "own")
    BY <2>1, <2>2 DEF IsResponse
  <2>8. \A w \in RouteRequests : app.requests[w].http # http
    BY <1>2 DEF ByRoute
  <2>9. CookieOk(http)'
    <3>1. PICK sent : sent = response'[http].sent
      OBVIOUS
    <3>2. "renewed" \notin Range(sent)
      BY <2>6, <2>7, <3>1
    <3> QED
      BY <1>3, <2>8, <3>1, <3>2 DEF CookieOk
  <2> QED
    BY <1>2, <1>3, <1>5, <2>1, <2>4, <2>9 DEF Sent
<1> QED
  BY <1>6, <1>7, <1>0 DEF Ran

(* Tasks of one operation move, and what it knows only grows.              *)
LEMMA TasksMove ==
  ASSUME Inv, Idle, UNCHANGED route, faults' \in Nat, faults <= faults', NEW o \in Operations,
         task' = [p \in Operations |-> task'[p]],
         task'[o] = [f \in app.requests[o].fields |-> task'[o][f]],
         \A p \in Operations \ {o} : task'[p] = task[p],
         \A f \in app.requests[o].fields :
           task'[o][f] = task[o][f] \/ (IsTask(task[o][f])' /\ TaskOk(o, f)'),
         context' = [p \in Operations |-> context'[p]],
         \A p \in Operations \ {o} : context'[p] = context[p],
         IsContext(context'[o]), context'[o].events = context[o].events,
         context[o].asked \in {"answered", "failed"} => context'[o].asked = context[o].asked,
         context[o].asked = "asking" => context'[o].asked # "no",
         context[o].asked = "answered" => context'[o].known = context[o].known,
         ContextOk(o)', MemoOk(o)', Sent'
  PROVE  Inv'
<1>1. UNCHANGED <<model, maxDepth, tuples, app, session, now, connection, route, phase, could>>
  BY DEF Idle, world
<1>2. o \in Requests
  BY DEF Operations
<1>3. Onward(o)
  BY <1>1, OnwardAll DEF Inv, Shapes
<1>4. \A f \in app.requests[o].fields : IsTask(task[o][f]) /\ TaskOk(o, f)
  BY DEF Inv, Shapes, OperationOk
<1>5. /\ context[o].asked \in {"no", "asking", "answered", "failed"}
      /\ context[o].asked = "answered" => Knows(o, context[o].known, could[o])
  <2>1. IsContext(context[o]) /\ ContextOk(o)
    BY DEF Inv, Shapes, OperationOk
  <2> QED
    BY <2>1 DEF IsContext, ContextOk
<1>6. ASSUME NEW f \in app.requests[o].fields
      PROVE  IsTask(task[o][f])' /\ TaskOk(o, f)'
  <2>1. CASE task'[o][f] = task[o][f]
    <3>1. IsTask(task[o][f])'
      <4>1. IsTask(task[o][f]) /\ faults \in Nat
        BY <1>4 DEF Inv, Shapes
      <4> QED
        BY <2>1, <4>1 DEF IsTask
    <3>2. Wired /\ phase'[o] = phase[o]
      BY <1>1 DEF Inv
    <3>3. TaskOk(o, f)'
      BY <1>3, <1>4, <1>5, <2>1, <3>2, TaskKept
    <3> QED
      BY <3>1, <3>3
  <2> QED
    BY <2>1
<1>7. OperationOk(o)'
  BY <1>1, <1>6 DEF OperationOk
<1>8. UpToDate(o)'
  BY <1>1, <1>2, <1>3, StillFollows DEF Inv, Onward
<1>9. /\ phase' = [r \in Requests |-> phase'[r]] /\ could' = [r \in Requests |-> could'[r]]
      /\ \A r \in Requests \ {o} : phase'[r] = phase[r] /\ could'[r] = could[r]
      /\ connection.state = "new" /\ OnSocket(o) => phase'[o] = "new"
  BY <1>1 DEF Inv, Shapes, Tokens
<1> QED
  BY <1>1, <1>6, <1>7, <1>8, <1>9, OperationMoves

LEMMA ContextSet ==
  ASSUME Shapes, NEW o \in Operations, NEW c, Learns(o, c)
  PROVE  /\ context' = [p \in Operations |-> context'[p]]
         /\ context'[o] = c
         /\ \A p \in Operations \ {o} : context'[p] = context[p]
<1>1. context = [p \in Operations |-> context[p]]
  BY DEF Shapes
<1>2. PICK next : next = context' /\ next = [context EXCEPT ![o] = c]
  BY DEF Learns
<1>3. /\ next = [p \in Operations |-> next[p]] /\ next[o] = c
      /\ \A p \in Operations \ {o} : next[p] = context[p]
  BY <1>1, <1>2
<1> QED
  BY <1>2, <1>3

(* A context that stays as it was, around a task that moved.               *)
LEMMA ContextStays ==
  ASSUME Inv, Idle, faults' \in Nat, NEW o \in Operations, context'[o] = context[o],
         context[o].asked = "asking" => \E f \in Running(o) : task'[o][f].pc = "user",
         phase[o] # "new"
  PROVE  ContextOk(o)' /\ MemoOk(o)'
<1>1. UNCHANGED <<model, maxDepth, tuples, app, session, now, connection, phase, could>>
  BY DEF Idle, world
<1>2. Streams(o)' = Streams(o) /\ Running(o)' = Running(o) /\ ChecksOf(o)' = ChecksOf(o)
      /\ TokenOf(o)' = TokenOf(o)
  BY <1>1, SameAsked, AskedStays
<1>3. \A known : Knows(o, known, could[o]) => Knows(o, known, could[o])'
  BY <1>1, <1>2 DEF Knows
<1>4. ContextOk(o) /\ MemoOk(o)
  BY DEF Inv, OperationOk
<1>5. ContextOk(o)'
  BY <1>1, <1>2, <1>3, <1>4 DEF ContextOk
<1>6. MemoOk(o)'
  BY <1>1, <1>2, <1>4 DEF MemoOk
<1> QED
  BY <1>5, <1>6

(* One task moves, and nothing else of its operation.                      *)
LEMMA OneTask ==
  ASSUME Inv, Idle, UNCHANGED <<context, route>>, faults' \in Nat, faults <= faults',
         NEW o \in Operations, NEW f \in app.requests[o].fields, NEW t,
         Becomes(o, f, t), phase[o] # "new",
         context[o].asked = "asking" => t.pc = "user" \/ task[o][f].pc # "user",
         IsTask(t)', TaskOk(o, f)', Sent'
  PROVE  Inv'
<1>1. /\ task' = [p \in Operations |-> task'[p]]
      /\ task'[o] = [g \in app.requests[o].fields |-> task'[o][g]]
      /\ task'[o][f] = t
      /\ \A g \in app.requests[o].fields \ {f} : task'[o][g] = task[o][g]
      /\ \A p \in Operations \ {o} : task'[p] = task[p]
  BY TaskSet DEF Inv
<1>2. ContextOk(o) /\ Running(o) \subseteq app.requests[o].fields
  BY RequestsWired DEF Inv, OperationOk
<1>3. context[o].asked = "asking" => \E g \in Running(o) : task'[o][g].pc = "user"
  BY <1>1, <1>2 DEF ContextOk
<1>4. ContextOk(o)' /\ MemoOk(o)'
  BY <1>3, ContextStays
<1>5. IsContext(context'[o]) /\ context' = [p \in Operations |-> context'[p]]
  BY DEF Inv, Shapes
<1>6. \A g \in app.requests[o].fields :
        task'[o][g] = task[o][g] \/ (IsTask(task[o][g])' /\ TaskOk(o, g)')
  <2>1. IsTask(task[o][f])'
    BY <1>1 DEF IsTask
  <2> QED
    BY <1>1, <2>1
<1> QED
  BY <1>1, <1>4, <1>5, <1>6, TasksMove

-----------------------------------------------------------------------------
(* What a task asks next, and how it ends.                                 *)

LEMMA RequirementIs ==
  ASSUME Wired, NEW o, NEW f \in DOMAIN app.schema
  PROVE  /\ Requirement(o, f).permissions = app.requires[f].permissions
         /\ Requirement(o, f).types = app.requires[f].types
         /\ Requirement(o, f).open = app.requires[f].open
         /\ Requirement(o, f).maxAge \in {NoAge, app.requires[f].maxAge}
         /\ ~(Streams(o) /\ f = Root(o) /\ context[o].events > 0) =>
              Requirement(o, f).maxAge = app.requires[f].maxAge
<1>1. PICK given \in Accepted : app = Served(given)
  BY DEF Wired
<1>2. app.requires[f] = RequiredOf(given.config, given.schema[f], given.server)
  BY <1>1 DEF Served
<1>3. PICK asked : asked = app.requires[f]
  OBVIOUS
<1>4. asked = [open |-> asked.open, types |-> asked.types, maxAge |-> asked.maxAge,
               permissions |-> asked.permissions]
  <2>1. PICK at : at = given.schema[f]
    OBVIOUS
  <2>2. CASE Guarded(at)
    <3>1. asked = RequirementOf(given.config, at, given.server)
      BY <1>2, <1>3, <2>1, <2>2 DEF RequiredOf
    <3> QED
      BY <3>1 DEF RequirementOf
  <2>3. CASE ~Guarded(at)
    <3>1. asked = AskedByHelper(given.config, at, given.server)
      BY <1>2, <1>3, <2>1, <2>3 DEF RequiredOf
    <3> QED
      BY <3>1 DEF AskedByHelper
  <2> QED
    BY <2>2, <2>3
<1>5. Requirement(o, f) = IF Streams(o) /\ f = Root(o) /\ context[o].events > 0
                            THEN [asked EXCEPT !.maxAge = NoAge] ELSE asked
  BY <1>3 DEF Requirement
<1> QED
  BY <1>3, <1>4, <1>5

LEMMA EndedOk ==
  ASSUME Inv, Idle, faults' \in Nat, faults <= faults', NEW o \in Operations,
         context'[o].events = context[o].events, context'[o].asked = context[o].asked,
         NEW f \in Running(o), phase[o] = "open",
         NEW outcome, NEW t, t = Ended(task[o][f], outcome), task'[o][f] = t,
         AnswerIs(o, f, outcome),
         outcome \in {"SERVICE_UNAVAILABLE", "INTERNAL_SERVER_ERROR"} =>
           context[o].asked = "failed" \/ faults' > task[o][f].mark
  PROVE  IsTask(t)' /\ TaskOk(o, f)'
<1>1. UNCHANGED <<model, maxDepth, tuples, app, session, now, connection, phase, could>>
  BY DEF Idle, world
<1>2. Onward(o)
  BY <1>1, OnwardAll DEF Inv, Shapes
<1>3. f \in app.requests[o].fields /\ f \in DOMAIN app.schema
  BY RequestsWired DEF Inv
<1>4. IsTask(task[o][f])
  BY <1>3 DEF Inv, Shapes
<1>5. /\ t.pc = "done" /\ t.outcome = outcome /\ t.mark = task[o][f].mark
      /\ IsTask(t)'
  <2>1. PICK old : old = task[o][f]
    OBVIOUS
  <2>2. old = [pc |-> old.pc, k |-> old.k, waits |-> old.waits, denied |-> old.denied,
               outcome |-> old.outcome, mark |-> old.mark]
        /\ old.mark \in Nat /\ old.mark <= faults /\ faults \in Nat
    BY <1>4, <2>1 DEF IsTask, Inv, Shapes
  <2>3. t = [old EXCEPT !.pc = "done", !.outcome = outcome, !.waits = {}]
    BY <2>1 DEF Ended
  <2>4. t = [pc |-> "done", k |-> old.k, waits |-> {}, denied |-> old.denied,
             outcome |-> outcome, mark |-> old.mark]
    BY <2>2, <2>3
  <2> QED
    BY <2>1, <2>2, <2>4 DEF IsTask
<1>6. OutageNow(o, task[o][f])' <=> (context[o].asked = "failed" \/ faults' > task[o][f].mark)
  BY <1>5 DEF OutageNow
<1>7. /\ FieldWasTrue(o, f)' /\ HiddenWas(o, f)'
      /\ outcome = "STEP_UP_REQUIRED" => SteppedUp(o, app.schema[f])'
      /\ outcome = "FORBIDDEN" \/ (outcome = "resolved" /\ Guarded(app.schema[f])) =>
           TokenOf(o)' \in DOMAIN session'
  BY <1>1, <1>2, <1>3, <1>5, <1>6, AnswerHolds DEF Inv
<1>8. Running(o)' = Running(o)
  BY <1>1, SameAsked
<1> QED
  BY <1>1, <1>5, <1>7, <1>8 DEF TaskOk

(* What is written is held once every check was granted.                   *)
LEMMA AllHeld ==
  ASSUME Wired, NEW o \in Operations, NEW f \in app.requests[o].fields,
         Guarded(app.schema[f]), Admitted(o, f),
         \A i \in DOMAIN Requirement(o, f).permissions :
           Granted(Requirement(o, f).permissions[i], could[o])
  PROVE  WasHeld(o, f)
<1>1. PICK asked, field, facts :
        asked = app.requires[f] /\ field = app.schema[f] /\ facts = could[o]
  OBVIOUS
<1>2. f \in DOMAIN app.schema
  BY RequestsWired
<1>3. /\ Requirement(o, f).permissions = asked.permissions
      /\ ~(Streams(o) /\ f = Root(o) /\ context[o].events > 0) =>
           Requirement(o, f).maxAge = asked.maxAge
  BY <1>1, <1>2, RequirementIs
<1>4. Demands(asked, field)
  BY <1>1, <1>2, RequiredIs DEF RequiredWell
<1>5. ASSUME NEW use \in UsesOf(field) PROVE HoldsUse(field, use, facts)
  <2>1. PICK k \in DOMAIN asked.permissions : Asks(asked.permissions[k], use, field)
    BY <1>4 DEF Demands
  <2>2. Granted(asked.permissions[k], facts)
    BY <1>1, <1>3
  <2> QED
    BY <2>1, <2>2 DEF Asks, Granted, Says, HoldsUse
<1>6. ASSUME ~(Streams(o) /\ f = Root(o) /\ context[o].events > 0),
             NEW w \in WrittenOn(field), NEW age \in w.fresh
      PROVE  \E other \in AgesOf(o) : other <= age /\ <<"fresh", other>> \in facts
  <2>1. asked.maxAge # NoAge /\ asked.maxAge <= age
    BY <1>4, <1>6 DEF Demands
  <2>2. <<"fresh", asked.maxAge>> \in facts
    BY <1>1, <1>3, <1>6, <2>1 DEF Admitted
  <2>3. asked.maxAge \in AgesOf(o)
    BY <1>1, <2>1 DEF AgesOf, Operations
  <2> QED
    BY <2>1, <2>2, <2>3
<1>7. <<"known">> \in facts /\ TypesAdmit(o, field)
  BY <1>1 DEF Admitted
<1> QED
  BY <1>1, <1>5, <1>6, <1>7 DEF WasHeld

(* The checks before the k-th were granted.                                *)
GrantedBefore(o, f, k) ==
  \A i \in DOMAIN Requirement(o, f).permissions :
    i < k => Granted(Requirement(o, f).permissions[i], could[o])

LEMMA TurnOk ==
  ASSUME Inv, Idle, UNCHANGED <<context, faults>>,
         NEW o \in Operations, NEW f \in Running(o), phase[o] = "open",
         context[o].asked = "answered", context[o].known # Anonymous,
         task[o][f].outcome = "none",
         NEW k \in Nat, k # 0, k <= Len(Requirement(o, f).permissions) + 1,
         Guarded(app.schema[f]) =>
           Admitted(o, f) /\ GrantedBefore(o, f, k),
         NEW t, t = Turn(o, f, k), task'[o][f] = t
  PROVE  IsTask(t)' /\ TaskOk(o, f)'
<1>1. UNCHANGED <<model, maxDepth, tuples, app, session, now, connection, phase, could>>
  BY DEF Idle, world
<1>2. PICK checks, asked, field :
        /\ checks = Requirement(o, f).permissions
        /\ asked = app.requires[f] /\ field = app.schema[f]
  OBVIOUS
<1>3. f \in app.requests[o].fields /\ f \in DOMAIN app.schema
  BY RequestsWired DEF Inv
<1>4. checks = asked.permissions /\ RequiredWell(asked, field)
  BY <1>2, <1>3, RequirementIs, RequiredIs DEF Inv
<1>5. DOMAIN checks = 1 .. Len(checks) /\ Len(checks) \in Nat
  BY <1>4, ListingOf DEF RequiredWell, Listing
<1>6. faults \in Nat /\ faults' = faults /\ IsTask(task[o][f])
  BY <1>3 DEF Inv, Shapes
<1>7. TokenOf(o) \in DOMAIN session
  BY DEF Inv, OperationOk, ContextOk, Knows
<1>8. CASE k > Len(checks)
  <2>1. t = Ended(task[o][f], "resolved")
    BY <1>2, <1>8 DEF Turn
  <2>2. Guarded(app.schema[f]) => WasHeld(o, f)
    BY <1>2, <1>3, <1>5, <1>8, AllHeld DEF Inv, GrantedBefore
  <2> QED
    <3>1. AnswerIs(o, f, "resolved")
      BY <1>7, <2>2 DEF AnswerIs
    <3> QED
      BY <1>6, <2>1, <3>1, EndedOk
<1>9. CASE k <= Len(checks) /\ checks[k].targets = Nothing
  <2>1. t = Ended(task[o][f], "NOT_FOUND")
    BY <1>2, <1>5, <1>9 DEF Turn
  <2>2. k \in DOMAIN checks
    BY <1>5, <1>9
  <2>3. Demands(asked, field)
    BY <1>4, <1>9, <2>2 DEF RequiredWell, Helps
  <2>4. PICK use \in UsesOf(field) : Asks(checks[k], use, field)
    BY <1>4, <2>2, <2>3 DEF Demands
  <2>5. LacksUse(field, use, could[o])
    BY <1>9, <2>4 DEF Asks, LacksUse
  <2>6. AnswerIs(o, f, "NOT_FOUND")
    BY <1>2, <2>5 DEF WasDenied, AnswerIs
  <2> QED
    BY <1>6, <2>1, <2>6, EndedOk
<1>10. CASE k <= Len(checks) /\ checks[k].targets # Nothing
  <2>1. t = [task[o][f] EXCEPT !.pc = "load", !.k = k, !.mark = faults]
    BY <1>2, <1>5, <1>10 DEF Turn
  <2>2. /\ t.pc = "load" /\ t.k = k /\ t.outcome = "none" /\ IsTask(t)'
    <3>1. PICK old : old = task[o][f]
      OBVIOUS
    <3>2. old = [pc |-> old.pc, k |-> old.k, waits |-> old.waits, denied |-> old.denied,
                 outcome |-> old.outcome, mark |-> old.mark]
      BY <1>6, <3>1 DEF IsTask
    <3>3. t = [old EXCEPT !.pc = "load", !.k = k, !.mark = faults]
      BY <2>1, <3>1
    <3>4. t = [pc |-> "load", k |-> k, waits |-> old.waits, denied |-> old.denied,
               outcome |-> old.outcome, mark |-> faults]
      BY <3>2, <3>3
    <3> QED
      BY <1>6, <3>1, <3>4 DEF IsTask
  <2>3. k \in DOMAIN checks
    BY <1>5, <1>10
  <2>4. Running(o)' = Running(o) /\ Requirement(o, f)' = Requirement(o, f)
        /\ TokenOf(o)' = TokenOf(o)
    BY <1>1, SameAsked, AskedStays
  <2>5. Guarded(field) => Admitted(o, f)'
    BY <1>1, <1>2, <2>4 DEF Admitted, TypesAdmit
  <2>6. Guarded(field) => \A i \in DOMAIN checks : i < k => Granted(checks[i], could[o])
    BY <1>2 DEF GrantedBefore
  <2> QED
    BY <1>1, <1>2, <1>10, <2>2, <2>3, <2>4, <2>5, <2>6 DEF TaskOk
<1> QED
  BY <1>2, <1>5, <1>8, <1>9, <1>10

-----------------------------------------------------------------------------
(* The steps of an operation, one by one.                                  *)

LEMMA BusyIs ==
  ASSUME Inv, NEW o \in Operations, NEW f \in app.requests[o].fields
  PROVE  /\ IsTask(task[o][f]) /\ TaskOk(o, f) /\ IsContext(context[o])
         /\ ContextOk(o) /\ MemoOk(o) /\ f \in DOMAIN app.schema /\ faults \in Nat
         /\ task[o][f].pc \in {"user", "load", "ask"} =>
              f \in Running(o) /\ phase[o] = "open" /\ task[o][f].outcome = "none"
<1>1. IsTask(task[o][f]) /\ IsContext(context[o]) /\ faults \in Nat
  BY DEF Inv, Shapes
<1>2. TaskOk(o, f) /\ ContextOk(o) /\ MemoOk(o)
  BY DEF Inv, OperationOk
<1>3. f \in DOMAIN app.schema
  BY RequestsWired DEF Inv
<1>4. task[o][f].pc \in {"user", "load", "ask"} =>
        f \in Running(o) /\ phase[o] = "open" /\ task[o][f].outcome = "none"
  BY <1>2 DEF TaskOk
<1> QED
  BY <1>1, <1>2, <1>3, <1>4

Asking(t) == [t EXCEPT !.pc = "user", !.mark = faults]

(* A task set to wait for who the request is for.                          *)
LEMMA Waiting ==
  ASSUME Inv, Idle, faults' = faults, NEW o \in Operations, NEW f \in Running(o),
         f \in app.requests[o].fields, task[o][f].pc = "idle",
         phase[o] = "open", context'[o].events = context[o].events, context'[o].asked # "no",
         NEW t, t = Asking(task[o][f]), task'[o][f] = t
  PROVE  t.pc = "user" /\ IsTask(t)' /\ TaskOk(o, f)'
<1>1. PICK old : old = task[o][f]
  OBVIOUS
<1>2. /\ old = [pc |-> old.pc, k |-> old.k, waits |-> old.waits, denied |-> old.denied,
                outcome |-> old.outcome, mark |-> old.mark]
      /\ old.outcome = "none" /\ faults \in Nat
  BY <1>1, BusyIs DEF IsTask, TaskOk
<1>3. t = [old EXCEPT !.pc = "user", !.mark = faults]
  BY <1>1 DEF Asking
<1>4. t = [pc |-> "user", k |-> old.k, waits |-> old.waits, denied |-> old.denied,
           outcome |-> "none", mark |-> faults]
  BY <1>2, <1>3
<1>5. UNCHANGED <<model, maxDepth, tuples, app, session, now, connection, phase, could>>
  BY DEF Idle, world
<1>6. Running(o)' = Running(o)
  BY <1>5, SameAsked
<1>7. IsTask(t)'
  BY <1>2, <1>4 DEF IsTask
<1>8. t.pc = "user" /\ t.outcome = "none"
  BY <1>4
<1>9. TaskOk(o, f)'
  BY <1>5, <1>6, <1>8 DEF TaskOk
<1> QED
  BY <1>7, <1>8, <1>9

LEMMA StartKeeps ==
  ASSUME Inv, NEW o \in Operations, NEW f \in app.requests[o].fields, Start(o, f), UNCHANGED route
  PROVE  Inv'
<1>1. /\ phase[o] = "open" /\ f \in Running(o) /\ task[o][f].pc = "idle"
      /\ faults' = faults /\ Idle
  BY DEF Start
<1>2. /\ faults \in Nat /\ IsTask(task[o][f]) /\ f \in DOMAIN app.schema
      /\ ContextOk(o) /\ IsContext(context[o])
  BY BusyIs
<1>3. UNCHANGED <<app, connection, route>>
  BY <1>1 DEF Idle, world
<1>4. CASE /\ Requirement(o, f).open /\ Requirement(o, f).permissions = <<>>
           /\ Ran(o, f, Ended(task[o][f], "resolved")) /\ UNCHANGED context
  <2>1. ~Guarded(app.schema[f])
    <3>1. RequiredWell(app.requires[f], app.schema[f]) /\ app.requires[f].open
      BY <1>2, <1>4, RequiredIs, RequirementIs DEF Inv
    <3> QED
      BY <3>1 DEF RequiredWell, Demands
  <2>2. AnswerIs(o, f, "resolved")
    BY <2>1 DEF AnswerIs
  <2>3. PICK t : t = Ended(task[o][f], "resolved")
    OBVIOUS
  <2>4. Sent' /\ Becomes(o, f, t)
    BY <1>3, <1>4, <2>3, RanCookies DEF Ran, Becomes
  <2>5. /\ task' = [p \in Operations |-> task'[p]]
        /\ task'[o] = [g \in app.requests[o].fields |-> task'[o][g]]
        /\ task'[o][f] = t
        /\ \A g \in app.requests[o].fields \ {f} : task'[o][g] = task[o][g]
        /\ \A p \in Operations \ {o} : task'[p] = task[p]
    BY <2>4, TaskSet DEF Inv
  <2>6. IsTask(t)' /\ TaskOk(o, f)'
    BY <1>1, <1>2, <1>4, <2>2, <2>3, <2>5, EndedOk
  <2> QED
    BY <1>1, <1>2, <1>3, <1>4, <2>4, <2>6, OneTask
<1>5. CASE /\ Ran(o, f, [task[o][f] EXCEPT !.pc = "user", !.mark = faults])
           /\ context' = IF context[o].asked = "no"
                           THEN [context EXCEPT ![o].asked = "asking"] ELSE context
  <2>1. PICK t : t = Asking(task[o][f])
    OBVIOUS
  <2>2. Sent' /\ Becomes(o, f, t)
    BY <1>3, <1>5, <2>1, RanCookies DEF Ran, Becomes, Asking
  <2>3. /\ task' = [p \in Operations |-> task'[p]]
        /\ task'[o] = [g \in app.requests[o].fields |-> task'[o][g]]
        /\ task'[o][f] = t
        /\ \A g \in app.requests[o].fields \ {f} : task'[o][g] = task[o][g]
        /\ \A p \in Operations \ {o} : task'[p] = task[p]
    BY <2>2, TaskSet DEF Inv
  <2>4. CASE context[o].asked # "no"
    <3>1. context' = context
      BY <1>5, <2>4
    <3>2. t.pc = "user" /\ IsTask(t)' /\ TaskOk(o, f)'
      BY <1>1, <2>1, <2>3, <2>4, <3>1, Waiting
    <3> QED
      BY <1>1, <1>2, <1>3, <2>2, <3>1, <3>2, OneTask
  <2>5. CASE context[o].asked = "no"
    <3>1. PICK old : old = context[o]
      OBVIOUS
    <3>2. PICK c : c = [old EXCEPT !.asked = "asking"]
      OBVIOUS
    <3>3. Learns(o, c)
      BY <1>5, <2>5, <3>1, <3>2 DEF Learns
    <3>4. /\ context' = [p \in Operations |-> context'[p]] /\ context'[o] = c
          /\ \A p \in Operations \ {o} : context'[p] = context[p]
      BY <3>3, ContextSet DEF Inv
    <3>5. /\ old = [asked |-> old.asked, known |-> old.known, memo |-> old.memo,
                    events |-> old.events]
          /\ old.events \in Nat /\ old.asked = "no" /\ old.known = Anonymous
          /\ DOMAIN old.memo = {}
      BY <1>2, <2>5, <3>1 DEF IsContext, ContextOk
    <3>6. c = [asked |-> "asking", known |-> old.known, memo |-> old.memo,
               events |-> old.events]
      BY <3>2, <3>5
    <3>7. IsContext(c) /\ c.asked = "asking" /\ c.known = Anonymous /\ DOMAIN c.memo = {}
          /\ c.events = context[o].events
      BY <3>1, <3>5, <3>6 DEF IsContext
    <3>8. t.pc = "user" /\ IsTask(t)' /\ TaskOk(o, f)'
      BY <1>1, <2>1, <2>3, <3>4, <3>7, Waiting
    <3>9. UNCHANGED <<model, maxDepth, tuples, app, session, now, connection, phase, could>>
      BY <1>1 DEF Idle, world
    <3>10. Streams(o)' = Streams(o) /\ Running(o)' = Running(o)
      BY <3>4, <3>7, <3>9, SameAsked
    <3>11. ContextOk(o)'
      BY <1>1, <1>2, <2>3, <3>4, <3>7, <3>8, <3>9, <3>10 DEF ContextOk
    <3>12. MemoOk(o)'
      BY <3>4, <3>7 DEF MemoOk
    <3>13. \A g \in app.requests[o].fields :
             task'[o][g] = task[o][g] \/ (IsTask(task[o][g])' /\ TaskOk(o, g)')
      <4>1. IsTask(task[o][f])'
        BY <2>3, <3>8 DEF IsTask
      <4> QED
        BY <2>3, <3>8, <4>1
    <3>14. IsContext(context'[o])
      BY <3>4, <3>7
    <3>15. /\ context'[o].events = context[o].events
           /\ context[o].asked \in {"answered", "failed"} => context'[o].asked = context[o].asked
           /\ context[o].asked = "asking" => context'[o].asked # "no"
           /\ context[o].asked = "answered" => context'[o].known = context[o].known
      BY <2>5, <3>4, <3>7
    <3>16. faults' \in Nat /\ faults <= faults'
      BY <1>1, <1>2
    <3> QED
      BY <1>1, <1>3, <2>2, <2>3, <3>4, <3>11, <3>12, <3>13, <3>14, <3>15, <3>16, TasksMove
  <2> QED
    BY <2>4, <2>5
<1> QED
  BY <1>4, <1>5 DEF Start

(* Who authenticate may answer with a token there is.                      *)
LEMMA AuthenticatedIs ==
  ASSUME AreSessions(session), NEW token \in DOMAIN session \cup {None},
         NEW known \in Authenticate(session, token), known # Anonymous
  PROVE  /\ token \in DOMAIN session /\ session[token].live
         /\ known.user # None /\ known.user = session[token].user
         /\ known.token = token /\ known.provenAt \in Nat
<1>1. token # None /\ session[token].live
  BY DEF Authenticate
<1>2. token \in DOMAIN session
  BY <1>1
<1>3. PICK s : s = session[token]
  OBVIOUS
<1>4. s.user # None /\ s.provenAt \in Nat
  BY <1>2, <1>3 DEF AreSessions
<1>5. PICK renewed :
        known = [user |-> s.user, provenAt |-> s.provenAt, token |-> token, renewed |-> renewed]
  BY <1>1, <1>3 DEF Authenticate
<1> QED
  BY <1>1, <1>2, <1>3, <1>4, <1>5

LEMMA TokenIs ==
  ASSUME Inv, NEW r \in Requests
  PROVE  TokenOf(r) \in DOMAIN session \cup {None}
  BY DEF Inv, Tokens, TokenOf, PresentedToken

(* What authenticate answers while the history follows is known.           *)
LEMMA KnownFollows ==
  ASSUME Inv, NEW r \in Requests, phase[r] = "open",
         NEW known \in Authenticate(session, TokenOf(r))
  PROVE  Knows(r, known, could[r])
<1>1. KnownNow(r, could[r], session)
  BY DEF Inv, UpToDate, Follows
<1>2. CASE known = Anonymous
  BY <1>1, <1>2 DEF KnownNow, Knows
<1>3. CASE known # Anonymous
  <2>1. /\ TokenOf(r) \in DOMAIN session
        /\ known.user # None /\ known.user = session[TokenOf(r)].user
        /\ known.token = TokenOf(r) /\ known.provenAt \in Nat
    BY <1>3, TokenIs, AuthenticatedIs DEF Inv, Shapes
  <2>2. <<"known">> \in could[r] /\ <<"proven", known.provenAt>> \in could[r]
    BY <1>1, <1>3 DEF KnownNow
  <2> QED
    BY <2>1, <2>2 DEF Knows
<1> QED
  BY <1>2, <1>3

LEMMA SentStays ==
  ASSUME Inv, UNCHANGED <<app, connection, response, route>>
  PROVE  Sent'
<1>1. Https' = Https /\ \A r \in Requests : TokenOf(r)' = TokenOf(r)
  BY SameApplication, AskedStays
<1>2. response = [h \in Https |-> response[h]]
  BY DEF Inv, Shapes
<1>3. ASSUME NEW h \in Https PROVE CookieOk(h)' /\ IsResponse(response[h])'
  <2>1. IsResponse(response[h]) /\ CookieOk(h)
    BY DEF Inv, Shapes
  <2> QED
    BY <1>1, <2>1, CookieKept DEF IsResponse
<1> QED
  BY <1>1, <1>2, <1>3 DEF Sent

(* What authenticate answered, or that it failed, is every field's.        *)
LEMMA SettleKeeps ==
  ASSUME Inv, NEW o \in Operations, Settle(o), UNCHANGED route
  PROVE  Inv'
<1>1. /\ context[o].asked = "asking" /\ Idle /\ task' = task /\ response' = response
  BY DEF Settle
<1>2. UNCHANGED <<model, maxDepth, tuples, app, session, now, connection, phase, could>>
  BY <1>1 DEF Idle, world
<1>3. /\ IsContext(context[o]) /\ ContextOk(o) /\ faults \in Nat /\ o \in Requests
  BY DEF Inv, Shapes, OperationOk, Operations
<1>4. phase[o] = "open"
  <2>1. PICK f \in Running(o) : task[o][f].pc = "user"
    BY <1>1, <1>3 DEF ContextOk
  <2>2. f \in app.requests[o].fields
    BY RequestsWired DEF Inv
  <2> QED
    BY <2>1, <2>2, BusyIs
<1>5. PICK old : old = context[o]
  OBVIOUS
<1>6. /\ old = [asked |-> old.asked, known |-> old.known, memo |-> old.memo,
                events |-> old.events]
      /\ old.events \in Nat /\ old.known = Anonymous /\ DOMAIN old.memo = {}
  BY <1>1, <1>3, <1>5 DEF IsContext, ContextOk
<1> DEFINE Told(asked, known) ==
             [asked |-> asked, known |-> known, memo |-> old.memo, events |-> old.events]
<1> HIDE DEF Told
<1>7. ASSUME NEW asked \in {"answered", "failed"}, NEW known,
             Learns(o, Told(asked, known)),
             IF asked = "answered" THEN Knows(o, known, could[o]) ELSE known = Anonymous,
             faults' \in Nat, faults <= faults'
      PROVE  Inv'
  <2>1. PICK c : c = Told(asked, known)
    OBVIOUS
  <2>2. Learns(o, c)
    BY <1>7, <2>1
  <2>3. /\ context' = [p \in Operations |-> context'[p]] /\ context'[o] = c
        /\ \A p \in Operations \ {o} : context'[p] = context[p]
    BY <2>2, ContextSet DEF Inv
  <2>4. c = [asked |-> asked, known |-> known, memo |-> old.memo, events |-> old.events]
    BY <2>1 DEF Told
  <2>5. /\ IsContext(c) /\ c.asked = asked /\ c.known = known /\ DOMAIN c.memo = {}
        /\ c.events = context[o].events
    BY <1>5, <1>6, <2>4 DEF IsContext
  <2>6. /\ Streams(o)' = Streams(o) /\ Running(o)' = Running(o) /\ TokenOf(o)' = TokenOf(o)
    BY <1>2, <2>3, <2>5, SameAsked, AskedStays
  <2>7. Knows(o, known, could[o]) => Knows(o, known, could[o])'
    BY <1>2, <2>6 DEF Knows
  <2>8. ContextOk(o)'
    BY <1>2, <1>4, <1>7, <2>3, <2>5, <2>6, <2>7 DEF ContextOk
  <2>9. MemoOk(o)'
    BY <2>3, <2>5 DEF MemoOk
  <2>10. /\ task' = [p \in Operations |-> task'[p]]
         /\ task'[o] = [g \in app.requests[o].fields |-> task'[o][g]]
         /\ \A p \in Operations \ {o} : task'[p] = task[p]
         /\ \A g \in app.requests[o].fields : task'[o][g] = task[o][g]
    BY <1>1 DEF Inv, Shapes
  <2>11. Sent'
    BY <1>1, <1>2, SentStays
  <2>12. /\ context'[o].events = context[o].events
         /\ context[o].asked \in {"answered", "failed"} => context'[o].asked = context[o].asked
         /\ context[o].asked = "asking" => context'[o].asked # "no"
         /\ context[o].asked = "answered" => context'[o].known = context[o].known
    BY <1>1, <2>3, <2>5
  <2>13. IsContext(context'[o])
    BY <2>3, <2>5
  <2> QED
    BY <1>1, <1>7, <2>3, <2>8, <2>9, <2>10, <2>11, <2>12, <2>13, TasksMove
<1>8. CASE /\ \E known \in Authenticate(session, TokenOf(o)) :
                context' = [context EXCEPT ![o].asked = "answered", ![o].known = known]
           /\ UNCHANGED faults
  <2>1. PICK known \in Authenticate(session, TokenOf(o)) :
          context' = [context EXCEPT ![o].asked = "answered", ![o].known = known]
    BY <1>8
  <2>2. Knows(o, known, could[o])
    BY <1>3, <1>4, KnownFollows
  <2>3. [old EXCEPT !.asked = "answered", !.known = known] = Told("answered", known)
    <3>1. old = [asked |-> old.asked, known |-> old.known, memo |-> old.memo,
                 events |-> old.events]
      BY <1>6
    <3>2. PICK x : x = [old EXCEPT !.asked = "answered"]
      OBVIOUS
    <3>3. x = [asked |-> "answered", known |-> old.known, memo |-> old.memo,
               events |-> old.events]
      BY <3>1, <3>2
    <3>4. PICK y : y = [x EXCEPT !.known = known]
      OBVIOUS
    <3>5. y = [asked |-> "answered", known |-> known, memo |-> old.memo,
               events |-> old.events]
      BY <3>3, <3>4
    <3>6. y = Told("answered", known)
      BY <3>5 DEF Told
    <3> QED
      BY <3>2, <3>4, <3>6
  <2>4. Learns(o, Told("answered", known))
    BY <1>5, <2>1, <2>3 DEF Learns
  <2> QED
    BY <1>3, <1>7, <1>8, <2>2, <2>4
<1>9. CASE Fails /\ context' = [context EXCEPT ![o].asked = "failed"]
  <2>1. faults' \in Nat /\ faults <= faults'
    BY <1>3, <1>9 DEF Fails
  <2>2. [old EXCEPT !.asked = "failed"] = Told("failed", Anonymous)
    BY <1>6 DEF Told
  <2>3. Learns(o, Told("failed", Anonymous))
    BY <1>5, <1>9, <2>2 DEF Learns
  <2> QED
    BY <1>7, <2>1, <2>3
<1> QED
  BY <1>8, <1>9 DEF Settle

LEMMA RanIs ==
  ASSUME Inv, Idle, UNCHANGED route, NEW o \in Operations, NEW f, NEW t, Ran(o, f, t)
  PROVE  Sent' /\ Becomes(o, f, t)
<1>1. UNCHANGED <<app, connection, route>>
  BY DEF Idle, world
<1>2. Sent'
  BY <1>1, RanCookies
<1> QED
  BY <1>2 DEF Ran, Becomes

(* A task ends, and what it answers is so.                                 *)
LEMMA EndKeeps ==
  ASSUME Inv, Idle, UNCHANGED <<context, route>>, faults' \in Nat, faults <= faults',
         NEW o \in Operations, NEW f \in app.requests[o].fields,
         task[o][f].pc \in {"user", "load", "ask"}, context[o].asked \in {"answered", "failed"},
         NEW outcome, Becomes(o, f, Ended(task[o][f], outcome)), Sent',
         AnswerIs(o, f, outcome),
         outcome \in {"SERVICE_UNAVAILABLE", "INTERNAL_SERVER_ERROR"} =>
           context[o].asked = "failed" \/ faults' > task[o][f].mark
  PROVE  Inv'
<1>1. f \in Running(o) /\ phase[o] = "open"
  BY BusyIs
<1>2. PICK t : t = Ended(task[o][f], outcome)
  OBVIOUS
<1>3. Becomes(o, f, t)
  BY <1>2
<1>4. task'[o][f] = t
  <2>1. /\ task' = [p \in Operations |-> task'[p]]
        /\ task'[o] = [g \in app.requests[o].fields |-> task'[o][g]]
        /\ task'[o][f] = t
        /\ \A g \in app.requests[o].fields \ {f} : task'[o][g] = task[o][g]
        /\ \A p \in Operations \ {o} : task'[p] = task[p]
    BY <1>3, TaskSet DEF Inv
  <2> QED
    BY <2>1
<1>5. IsTask(t)' /\ TaskOk(o, f)'
  BY <1>1, <1>2, <1>4, EndedOk
<1> QED
  BY <1>1, <1>3, <1>5, OneTask

(* The next check is asked, or all of them were.                           *)
LEMMA TurnKeeps ==
  ASSUME Inv, Idle, UNCHANGED <<context, route, faults>>,
         NEW o \in Operations, NEW f \in app.requests[o].fields,
         task[o][f].pc \in {"user", "load", "ask"},
         context[o].asked = "answered", context[o].known # Anonymous,
         NEW k \in Nat, k # 0, k <= Len(Requirement(o, f).permissions) + 1,
         Guarded(app.schema[f]) => Admitted(o, f) /\ GrantedBefore(o, f, k),
         Ran(o, f, Turn(o, f, k))
  PROVE  Inv'
<1>1. f \in Running(o) /\ phase[o] = "open" /\ task[o][f].outcome = "none" /\ faults \in Nat
  BY BusyIs
<1>2. PICK t : t = Turn(o, f, k)
  OBVIOUS
<1>3. Becomes(o, f, t) /\ Sent'
  BY <1>2, RanIs
<1>4. task'[o][f] = t
  <2>1. /\ task' = [p \in Operations |-> task'[p]]
        /\ task'[o] = [g \in app.requests[o].fields |-> task'[o][g]]
        /\ task'[o][f] = t
        /\ \A g \in app.requests[o].fields \ {f} : task'[o][g] = task[o][g]
        /\ \A p \in Operations \ {o} : task'[p] = task[p]
    BY <1>3, TaskSet DEF Inv
  <2> QED
    BY <2>1
<1>5. IsTask(t)' /\ TaskOk(o, f)'
  BY <1>1, <1>2, <1>4, TurnOk
<1> QED
  BY <1>1, <1>3, <1>5, OneTask

(* What the guard judges of who authenticate answered is so.               *)
LEMMA JudgedSays ==
  ASSUME Inv, NEW o \in Operations, NEW f \in app.requests[o].fields,
         context[o].asked = "answered", phase[o] = "open",
         NEW judged, judged = Judged(Requirement(o, f), context[o].known)
  PROVE  /\ judged # "passes" =>
              AnswerIs(o, f, judged) /\ judged \notin {"SERVICE_UNAVAILABLE", "INTERNAL_SERVER_ERROR"}
         /\ judged = "passes" =>
              context[o].known # Anonymous /\ (Guarded(app.schema[f]) => Admitted(o, f))
<1>1. PICK required, asked, field, known, facts :
        /\ required = Requirement(o, f) /\ asked = app.requires[f] /\ field = app.schema[f]
        /\ known = context[o].known /\ facts = could[o]
  OBVIOUS
<1>2. f \in DOMAIN app.schema /\ ContextOk(o)
  BY BusyIs
<1>3. Knows(o, known, facts)
  BY <1>1, <1>2 DEF ContextOk
<1>4. /\ required.types = asked.types /\ required.open = asked.open
      /\ required.maxAge \in {NoAge, asked.maxAge} /\ RequiredWell(asked, field)
  BY <1>1, <1>2, RequirementIs, RequiredIs DEF Inv
<1>5. Guarded(field) =>
        (TypesAdmit(o, field) <=>
           (required.types = AnyUser \/ session[TokenOf(o)].user.type \in required.types))
  <2> SUFFICES ASSUME Guarded(field)
               PROVE  TypesAdmit(o, field) <=>
                        (required.types = AnyUser \/ session[TokenOf(o)].user.type \in required.types)
    OBVIOUS
  <2>1. PICK type : type = session[TokenOf(o)].user.type
    OBVIOUS
  <2>2. (\A w \in WrittenOn(field) : \A types \in w.authenticated :
           types = AnyUser \/ type \in types)
          <=> (asked.types = AnyUser \/ type \in asked.types)
    BY <1>1, <1>2, TypesAsked DEF Inv
  <2> QED
    BY <1>4, <2>1, <2>2 DEF TypesAdmit
<1>6. CASE known = Anonymous
  <2>1. judged = IF required.open THEN "no" ELSE "UNAUTHENTICATED"
    BY <1>1, <1>6 DEF Judged
  <2>2. <<"anonymous">> \in facts
    BY <1>3, <1>6 DEF Knows, Anonymous
  <2>3. judged \in {"no", "UNAUTHENTICATED"}
    BY <2>1
  <2>4. AnswerIs(o, f, judged)
    BY <1>1, <2>2, <2>3 DEF AnswerIs
  <2> QED
    BY <2>3, <2>4
<1>7. CASE known # Anonymous
  <2>1. /\ TokenOf(o) \in DOMAIN session /\ known.user = session[TokenOf(o)].user
        /\ known.provenAt \in Nat
        /\ <<"known">> \in facts /\ <<"proven", known.provenAt>> \in facts
    BY <1>3, <1>7 DEF Knows
  <2>2. CASE required.types # AnyUser /\ known.user.type \notin required.types
    <3>1. judged = "FORBIDDEN"
      BY <1>1, <1>7, <2>2 DEF Judged
    <3>2. Guarded(field)
      BY <1>4, <2>2 DEF RequiredWell, Helps
    <3>3. ~TypesAdmit(o, field)
      BY <1>5, <2>1, <2>2, <3>2
    <3>4. AnswerIs(o, f, judged)
      BY <1>1, <2>1, <3>1, <3>3 DEF AnswerIs, WasDenied
    <3> QED
      BY <3>1, <3>4
  <2>3. CASE /\ required.types = AnyUser \/ known.user.type \in required.types
             /\ required.maxAge # NoAge /\ ~Fresh(known.provenAt, required.maxAge, now)
    <3>1. judged = "STEP_UP_REQUIRED"
      BY <1>1, <1>7, <2>3 DEF Judged
    <3>2. Demands(asked, field) /\ required.maxAge = asked.maxAge
      BY <1>4, <2>3 DEF RequiredWell, Helps
    <3>3. PICK w \in WrittenOn(field) : required.maxAge \in w.fresh
      BY <2>3, <3>2 DEF Demands
    <3>4. Older(o, required.maxAge)
      <4>1. PICK fact : fact = <<"proven", known.provenAt>>
        OBVIOUS
      <4>2. fact \in could[o] /\ fact[1] = "proven" /\ fact[2] = known.provenAt
        BY <1>1, <2>1, <4>1
      <4> QED
        BY <2>1, <2>3, <4>2 DEF Older
    <3>5. SteppedUp(o, app.schema[f])
      BY <1>1, <3>3, <3>4 DEF SteppedUp
    <3>6. AnswerIs(o, f, judged)
      BY <3>1, <3>5 DEF AnswerIs
    <3> QED
      BY <3>1, <3>6
  <2>4. CASE /\ required.types = AnyUser \/ known.user.type \in required.types
             /\ required.maxAge = NoAge \/ Fresh(known.provenAt, required.maxAge, now)
    <3>1. judged = "passes"
      BY <1>1, <1>7, <2>4 DEF Judged
    <3>2. Guarded(field) => TypesAdmit(o, field)
      BY <1>5, <2>1, <2>4
    <3>3. required.maxAge # NoAge => <<"fresh", required.maxAge>> \in facts
      <4> SUFFICES ASSUME required.maxAge # NoAge PROVE <<"fresh", required.maxAge>> \in facts
        OBVIOUS
      <4>1. required.maxAge \in AgesOf(o)
        <5>1. required.maxAge = app.requires[f].maxAge
          BY <1>1, <1>4
        <5> QED
          BY <5>1 DEF AgesOf, Operations
      <4>2. FreshNow(o, could[o], now)
        BY DEF Inv, UpToDate, Follows, Operations
      <4> QED
        BY <1>1, <2>1, <2>4, <4>1, <4>2 DEF FreshNow
    <3>4. Guarded(field) => Admitted(o, f)
      BY <1>1, <2>1, <3>2, <3>3 DEF Admitted
    <3> QED
      BY <1>1, <1>7, <3>1, <3>4
  <2> QED
    BY <2>2, <2>3, <2>4
<1> QED
  BY <1>6, <1>7

LEMMA AdmitKeeps ==
  ASSUME Inv, NEW o \in Operations, NEW f \in app.requests[o].fields, Admit(o, f), UNCHANGED route
  PROVE  Inv'
<1>1. /\ task[o][f].pc = "user" /\ context[o].asked \in {"answered", "failed"}
      /\ UNCHANGED <<context, faults>> /\ Idle
  BY DEF Admit
<1>2. f \in Running(o) /\ phase[o] = "open" /\ f \in DOMAIN app.schema /\ faults \in Nat
  BY <1>1, BusyIs
<1>3. PICK judged : judged = Judged(Requirement(o, f), context[o].known)
  OBVIOUS
<1>4. ASSUME NEW outcome, Ran(o, f, Ended(task[o][f], outcome)), AnswerIs(o, f, outcome),
             outcome \in {"SERVICE_UNAVAILABLE", "INTERNAL_SERVER_ERROR"} =>
               context[o].asked = "failed"
      PROVE  Inv'
  <2>1. Sent' /\ Becomes(o, f, Ended(task[o][f], outcome))
    BY <1>1, <1>4, RanIs
  <2> QED
    BY <1>1, <1>2, <1>4, <2>1, EndKeeps
<1>5. CASE context[o].asked = "failed"
  <2>1. Ran(o, f, Ended(task[o][f], "SERVICE_UNAVAILABLE"))
    BY <1>5 DEF Admit
  <2>2. AnswerIs(o, f, "SERVICE_UNAVAILABLE")
    BY DEF AnswerIs
  <2> QED
    BY <1>4, <1>5, <2>1, <2>2
<1>6. CASE context[o].asked = "answered" /\ judged # "passes"
  <2>1. Ran(o, f, Ended(task[o][f], judged))
    BY <1>3, <1>6 DEF Admit
  <2>2. /\ AnswerIs(o, f, judged)
        /\ judged \notin {"SERVICE_UNAVAILABLE", "INTERNAL_SERVER_ERROR"}
    BY <1>2, <1>3, <1>6, JudgedSays
  <2> QED
    BY <1>4, <2>1, <2>2
<1>7. CASE context[o].asked = "answered" /\ judged = "passes"
  <2>1. Ran(o, f, Turn(o, f, 1))
    BY <1>3, <1>7 DEF Admit
  <2>2. context[o].known # Anonymous /\ (Guarded(app.schema[f]) => Admitted(o, f))
    BY <1>2, <1>3, <1>7, JudgedSays
  <2>3. PICK checks : checks = Requirement(o, f).permissions
    OBVIOUS
  <2>4. DOMAIN checks = 1 .. Len(checks) /\ Len(checks) \in Nat
    BY <1>2, <2>3, RequirementIs, RequiredIs, ListingOf DEF Inv, RequiredWell, Listing
  <2>5. GrantedBefore(o, f, 1)
    BY <2>3, <2>4 DEF GrantedBefore
  <2>6. 1 <= Len(Requirement(o, f).permissions) + 1
    BY <2>3, <2>4
  <2> QED
    BY <1>1, <1>7, <2>1, <2>2, <2>5, <2>6, TurnKeeps
<1> QED
  BY <1>1, <1>5, <1>6, <1>7

(* What a check in turn is, off a well-made requirement.                   *)
LEMMA WellChecked ==
  ASSUME NEW required, NEW field, RequiredWell(required, field),
         NEW k \in DOMAIN required.permissions, NEW check, check = required.permissions[k],
         check.targets # Nothing
  PROVE  /\ Named(check) = check.targets
         /\ Guarded(field) => Demands(required, field)
         /\ ~Guarded(field) => check.onDeny = "no" /\ ~check.load
<1>1. "nothing" \notin check.targets
  BY DEF RequiredWell
<1>2. Named(check) = check.targets
  BY <1>1 DEF Named
<1>3. Guarded(field) => Demands(required, field)
  BY DEF RequiredWell
<1>4. ~Guarded(field) => check.onDeny = "no" /\ ~check.load
  BY DEF RequiredWell, Helps
<1> QED
  BY <1>2, <1>3, <1>4

(* What a task in its checks knows, in constants.                          *)
LEMMA ChecksAre ==
  ASSUME Inv, NEW o \in Operations, NEW f \in app.requests[o].fields,
         task[o][f].pc \in {"load", "ask"}, NEW checks, checks = Requirement(o, f).permissions,
         NEW k, k = task[o][f].k
  PROVE  /\ context[o].asked = "answered" /\ context[o].known # Anonymous
         /\ TokenOf(o) \in DOMAIN session /\ context[o].known.user = session[TokenOf(o)].user
         /\ DOMAIN checks = 1 .. Len(checks) /\ Len(checks) \in Nat
         /\ k \in DOMAIN checks /\ k \in Nat /\ checks[k].targets # Nothing
         /\ Guarded(app.schema[f]) => Admitted(o, f) /\ GrantedBefore(o, f, k)
         /\ checks = app.requires[f].permissions
<1>1. TaskOk(o, f) /\ ContextOk(o) /\ f \in DOMAIN app.schema
  BY BusyIs
<1>2. /\ context[o].asked = "answered" /\ context[o].known # Anonymous
      /\ k \in DOMAIN checks /\ checks[k].targets # Nothing
      /\ Guarded(app.schema[f]) => Admitted(o, f) /\ GrantedBefore(o, f, k)
  BY <1>1 DEF TaskOk, GrantedBefore
<1>3. TokenOf(o) \in DOMAIN session /\ context[o].known.user = session[TokenOf(o)].user
  BY <1>1, <1>2 DEF ContextOk, Knows
<1>4. checks = app.requires[f].permissions /\ RequiredWell(app.requires[f], app.schema[f])
  BY <1>1, RequirementIs, RequiredIs DEF Inv
<1>5. DOMAIN checks = 1 .. Len(checks) /\ Len(checks) \in Nat
  BY <1>4, ListingOf DEF RequiredWell, Listing
<1>6. k \in Nat
  BY <1>2, <1>5
<1>7. checks = app.requires[f].permissions
  BY <1>4
<1> QED
  BY <1>2, <1>3, <1>5, <1>6, <1>7

(* And what the check in turn is.                                          *)
LEMMA ChecksWell ==
  ASSUME Inv, NEW o \in Operations, NEW f \in app.requests[o].fields,
         task[o][f].pc \in {"load", "ask"}, NEW checks, checks = Requirement(o, f).permissions,
         NEW k, k = task[o][f].k
  PROVE  /\ Check(o, f) = checks[k] /\ checks[k] \in ChecksOf(o)
         /\ Named(checks[k]) = checks[k].targets
         /\ Guarded(app.schema[f]) => Demands(app.requires[f], app.schema[f])
         /\ ~Guarded(app.schema[f]) => checks[k].onDeny = "no" /\ ~checks[k].load
<1>1. PICK required, field, check :
        required = app.requires[f] /\ field = app.schema[f] /\ check = checks[k]
  OBVIOUS
<1>2. /\ checks = required.permissions /\ k \in DOMAIN required.permissions
      /\ check = required.permissions[k] /\ check.targets # Nothing
  BY <1>1, ChecksAre
<1>3. RequiredWell(required, field)
  BY <1>1, BusyIs, RequirementIs, RequiredIs DEF Inv
<1>4. Check(o, f) = check
  BY <1>1 DEF Check
<1>5. check \in ChecksOf(o)
  <2>1. check \in Range(app.requires[f].permissions)
    BY <1>1, <1>2 DEF Range
  <2>2. app.requests[o].kind # "route"
    BY DEF Operations
  <2> QED
    BY <2>1, <2>2 DEF ChecksOf
<1>6. /\ Named(check) = check.targets
      /\ Guarded(field) => Demands(required, field)
      /\ ~Guarded(field) => check.onDeny = "no" /\ ~check.load
  BY <1>2, <1>3, WellChecked
<1> QED
  BY <1>1, <1>4, <1>5, <1>6

LEMMA ProceedKeeps ==
  ASSUME Inv, NEW o \in Operations, NEW f \in app.requests[o].fields, Proceed(o, f),
         UNCHANGED route
  PROVE  Inv'
<1>1. /\ task[o][f].pc = "ask" /\ task[o][f].waits = {}
      /\ UNCHANGED <<context, faults>> /\ Idle
  BY DEF Proceed
<1>2. PICK checks, k, field, facts :
        /\ checks = Requirement(o, f).permissions /\ k = task[o][f].k
        /\ field = app.schema[f] /\ facts = could[o]
  OBVIOUS
<1>3. /\ context[o].asked = "answered" /\ context[o].known # Anonymous
      /\ TokenOf(o) \in DOMAIN session
      /\ DOMAIN checks = 1 .. Len(checks) /\ Len(checks) \in Nat
      /\ k \in DOMAIN checks /\ k \in Nat /\ Check(o, f) = checks[k]
      /\ checks[k].targets # Nothing /\ Named(checks[k]) = checks[k].targets
      /\ Guarded(field) => Admitted(o, f) /\ GrantedBefore(o, f, k)
      /\ Guarded(field) => Demands(app.requires[f], field)
      /\ ~Guarded(field) => checks[k].onDeny = "no" /\ ~checks[k].load
      /\ checks = app.requires[f].permissions
  BY <1>1, <1>2, ChecksAre, ChecksWell
<1>4. Guarded(field) => Hearing(task[o][f], checks[k], facts)
  BY <1>1, <1>2, BusyIs DEF TaskOk
<1>5. faults \in Nat /\ phase[o] = "open"
  BY <1>1, BusyIs
<1>6. CASE task[o][f].denied
  <2>1. PICK outcome : outcome = checks[k].onDeny
    OBVIOUS
  <2>2. AnswerIs(o, f, outcome) /\ outcome \in {"no", "NOT_FOUND", "FORBIDDEN"}
    <3>1. CASE ~Guarded(field)
      <4>1. outcome = "no"
        BY <1>3, <2>1, <3>1
      <4> QED
        BY <4>1 DEF AnswerIs
    <3>2. CASE Guarded(field)
      <4>1. PICK use \in UsesOf(field) : Asks(checks[k], use, field)
        BY <1>3, <3>2 DEF Demands
      <4>2. PICK id \in checks[k].targets : Says("no", checks[k], id) \in facts
        BY <1>3, <1>4, <1>6, <3>2 DEF Hearing
      <4>3. LacksUse(field, use, facts)
        BY <4>1, <4>2 DEF Asks, Says, LacksUse
      <4>4. use.onDeny = outcome /\ outcome \in {"NOT_FOUND", "FORBIDDEN"}
        BY <2>1, <4>1 DEF Asks
      <4>5. WasDenied(o, f, outcome)
        BY <1>2, <4>3, <4>4 DEF WasDenied
      <4>6. outcome = "FORBIDDEN" => TypeAnswers(o, f)
        <5>1. CASE use.onType
          BY <1>2, <4>3, <4>4, <5>1 DEF TypeAnswers
        <5>2. CASE ~use.onType
          <6>1. ASSUME NEW other \in UsesOf(field), other.onType
                PROVE  HoldsUse(field, other, facts)
            <7>1. PICK j \in DOMAIN checks : Asks(checks[j], other, field)
              BY <1>3, <3>2 DEF Demands
            <7>2. j < k
              BY <1>3, <3>2, <4>1, <5>2, <6>1, <7>1 DEF Demands, Asks
            <7>3. Granted(checks[j], facts)
              BY <1>2, <1>3, <3>2, <7>2 DEF GrantedBefore
            <7> QED
              BY <7>1, <7>3 DEF Asks, Granted, Says, HoldsUse
          <6> QED
            BY <1>2, <6>1 DEF TypeAnswers
        <5> QED
          BY <5>1, <5>2
      <4> QED
        BY <1>3, <4>4, <4>5, <4>6 DEF AnswerIs
    <3> QED
      BY <3>1, <3>2
  <2>3. Ran(o, f, Ended(task[o][f], outcome))
    BY <1>3, <1>6, <2>1 DEF Proceed
  <2>4. Sent' /\ Becomes(o, f, Ended(task[o][f], outcome))
    BY <1>1, <2>3, RanIs
  <2>5. outcome \notin {"SERVICE_UNAVAILABLE", "INTERNAL_SERVER_ERROR"}
    BY <2>2
  <2>6. AnswerIs(o, f, outcome)
    BY <2>2
  <2>7. task[o][f].pc \in {"user", "load", "ask"} /\ faults' \in Nat /\ faults <= faults'
    BY <1>1, <1>5
  <2> QED
    BY <1>1, <1>3, <2>4, <2>5, <2>6, <2>7, EndKeeps
<1>7. CASE ~task[o][f].denied
  <2>1. PICK n : n = k + 1
    OBVIOUS
  <2>2. n \in Nat /\ n # 0 /\ n <= Len(checks) + 1
    BY <1>3, <2>1
  <2>3. Guarded(field) => Granted(checks[k], facts)
    BY <1>1, <1>3, <1>4, <1>7 DEF Hearing, Granted
  <2>4. Guarded(field) => GrantedBefore(o, f, n)
    <3> SUFFICES ASSUME Guarded(field), NEW i \in DOMAIN checks, i < n
                 PROVE  Granted(checks[i], facts)
      BY <1>2 DEF GrantedBefore
    <3>1. i < k \/ i = k
      BY <1>3, <2>1
    <3>2. i < k => Granted(checks[i], facts)
      <4>1. GrantedBefore(o, f, k)
        BY <1>3
      <4> QED
        BY <1>2, <4>1 DEF GrantedBefore
    <3> QED
      BY <2>3, <3>1, <3>2
  <2>5. Ran(o, f, Turn(o, f, n))
    BY <1>2, <1>7, <2>1 DEF Proceed
  <2>6. task[o][f].pc \in {"user", "load", "ask"}
    BY <1>1
  <2>7. Guarded(app.schema[f]) => Admitted(o, f) /\ GrantedBefore(o, f, n)
    BY <1>2, <1>3, <2>4
  <2>8. n <= Len(Requirement(o, f).permissions) + 1
    BY <1>2, <2>2
  <2> QED
    BY <1>1, <1>3, <2>2, <2>5, <2>6, <2>7, <2>8, TurnKeeps
<1> QED
  BY <1>6, <1>7

(* One answer heard by a task waiting for it.                              *)
LEMMA HeardOk ==
  ASSUME Inv, Idle, faults' \in Nat, faults <= faults',
         NEW o \in Operations, NEW f \in app.requests[o].fields, task[o][f].pc = "ask",
         context'[o].asked = context[o].asked, context'[o].known = context[o].known,
         context'[o].events = context[o].events,
         NEW id \in task[o][f].waits, NEW answer \in Answers \cup {"SERVICE_UNAVAILABLE"},
         answer \in Answers => Says(answer, Check(o, f), id) \in could[o],
         answer = "SERVICE_UNAVAILABLE" => faults < faults',
         NEW t, t = Heard(task[o][f], id, answer), task'[o][f] = t
  PROVE  IsTask(t)' /\ TaskOk(o, f)'
<1>1. PICK old, checks, k, facts :
        /\ old = task[o][f] /\ checks = Requirement(o, f).permissions /\ k = old.k
        /\ facts = could[o]
  OBVIOUS
<1>2. /\ k \in DOMAIN checks /\ checks[k].targets # Nothing /\ Check(o, f) = checks[k]
      /\ Guarded(app.schema[f]) => Admitted(o, f) /\ GrantedBefore(o, f, k)
      /\ context[o].asked = "answered" /\ context[o].known # Anonymous
  BY <1>1, ChecksAre, ChecksWell
<1>3. /\ IsTask(old) /\ faults \in Nat /\ phase[o] = "open" /\ f \in Running(o)
      /\ old.outcome = "none" /\ old.waits \subseteq Named(checks[k])
      /\ Guarded(app.schema[f]) => Hearing(old, checks[k], facts)
  BY <1>1, BusyIs DEF TaskOk
<1>4. UNCHANGED <<model, maxDepth, tuples, app, session, now, connection, phase, could>>
  BY DEF Idle, world
<1>5. CASE answer \in {"yes", "no"}
  <2>1. t = [old EXCEPT !.waits = old.waits \ {id}, !.denied = old.denied \/ answer = "no"]
    BY <1>1, <1>5 DEF Heard
  <2>2. PICK denied : denied = (old.denied \/ answer = "no")
    OBVIOUS
  <2>3. t = [pc |-> "ask", k |-> k, waits |-> old.waits \ {id}, denied |-> denied,
             outcome |-> "none", mark |-> old.mark]
    <3>1. old = [pc |-> "ask", k |-> k, waits |-> old.waits, denied |-> old.denied,
                 outcome |-> "none", mark |-> old.mark]
      BY <1>1, <1>3 DEF IsTask
    <3>2. PICK w, b, m : w = old.waits /\ b = old.denied /\ m = old.mark
      OBVIOUS
    <3>3. old = [pc |-> "ask", k |-> k, waits |-> w, denied |-> b, outcome |-> "none", mark |-> m]
      BY <3>1, <3>2
    <3>4. PICK x : x = [old EXCEPT !.waits = w \ {id}]
      OBVIOUS
    <3>5. x = [pc |-> "ask", k |-> k, waits |-> w \ {id}, denied |-> b,
               outcome |-> "none", mark |-> m]
      BY <3>3, <3>4
    <3>6. t = [x EXCEPT !.denied = denied]
      BY <2>1, <2>2, <3>2, <3>4
    <3>7. t = [pc |-> "ask", k |-> k, waits |-> w \ {id}, denied |-> denied,
               outcome |-> "none", mark |-> m]
      BY <3>5, <3>6
    <3> QED
      BY <3>2, <3>7
  <2>4. /\ t.pc = "ask" /\ t.k = k /\ t.waits = old.waits \ {id} /\ t.outcome = "none"
        /\ t.mark = old.mark
    BY <2>3
  <2>5. t.denied <=> (old.denied \/ answer = "no")
    <3>1. t.denied = denied
      BY <2>3
    <3> QED
      BY <2>2, <3>1
  <2>6. IsTask(t)'
    <3>1. t.mark \in Nat /\ t.mark <= faults'
      BY <1>3, <2>4 DEF IsTask
    <3>2. t = [pc |-> t.pc, k |-> t.k, waits |-> t.waits, denied |-> t.denied,
               outcome |-> t.outcome, mark |-> t.mark]
      BY <2>3
    <3> QED
      BY <2>4, <3>1, <3>2 DEF IsTask
  <2>7. Guarded(app.schema[f]) => Hearing(t, checks[k], facts)
    <3> SUFFICES ASSUME Guarded(app.schema[f]) PROVE Hearing(t, checks[k], facts)
      OBVIOUS
    <3>1. Hearing(old, checks[k], facts)
      BY <1>3
    <3>2. Says(answer, checks[k], id) \in facts
      BY <1>1, <1>2, <1>5 DEF Answers
    <3>3. id \in Named(checks[k])
      BY <1>1, <1>3
    <3>4. t.denied => \E x \in Named(checks[k]) : Says("no", checks[k], x) \in facts
      BY <2>5, <3>1, <3>2, <3>3 DEF Hearing
    <3>5. ~t.denied => \A x \in Named(checks[k]) \ t.waits : Says("yes", checks[k], x) \in facts
      BY <1>5, <2>4, <2>5, <3>1, <3>2 DEF Hearing
    <3> QED
      BY <3>4, <3>5 DEF Hearing
  <2>8. /\ Running(o)' = Running(o) /\ Requirement(o, f)' = Requirement(o, f)
        /\ TokenOf(o)' = TokenOf(o)
    BY <1>4, SameAsked, AskedStays
  <2>9. Guarded(app.schema[f]) => Admitted(o, f)'
    BY <1>2, <1>4, <2>8 DEF Admitted, TypesAdmit
  <2>10. Guarded(app.schema[f]) => \A i \in DOMAIN checks : i < k => Granted(checks[i], facts)
    BY <1>1, <1>2 DEF GrantedBefore
  <2>11. t.waits \subseteq Named(checks[k])
    BY <1>3, <2>4
  <2> QED
    BY <1>1, <1>2, <1>3, <1>4, <2>4, <2>6, <2>7, <2>8, <2>9, <2>10, <2>11 DEF TaskOk
<1>6. CASE answer \notin {"yes", "no"}
  <2>1. PICK outcome : outcome = IF answer = "depth" THEN "PERMISSION_DEPTH" ELSE answer
    OBVIOUS
  <2>2. t = Ended(task[o][f], outcome)
    BY <1>6, <2>1 DEF Heard
  <2>3. outcome \in {"PERMISSION_DEPTH", "ctx", "data", "SERVICE_UNAVAILABLE"}
        /\ (outcome = "SERVICE_UNAVAILABLE" => answer = "SERVICE_UNAVAILABLE")
    BY <1>6, <2>1 DEF Answers
  <2>4. AnswerIs(o, f, outcome)
    BY <2>3 DEF AnswerIs
  <2>5. outcome \in {"SERVICE_UNAVAILABLE", "INTERNAL_SERVER_ERROR"} =>
          context[o].asked = "failed" \/ faults' > task[o][f].mark
    BY <1>1, <1>3, <2>3 DEF IsTask
  <2> QED
    BY <1>3, <2>2, <2>4, <2>5, EndedOk
<1> QED
  BY <1>5, <1>6

(* What a call answers now was true since the request came.                *)
LEMMA AnsweredSays ==
  ASSUME Inv, NEW o \in Operations, phase[o] = "open", TokenOf(o) \in DOMAIN session,
         context[o].known.user = session[TokenOf(o)].user,
         NEW check \in ChecksOf(o), NEW id \in Named(check), NEW answer,
         Answered(o, check, id, answer)
  PROVE  /\ faults' \in Nat /\ faults <= faults'
         /\ answer \in Answers => Says(answer, check, id) \in could[o]
         /\ answer = "SERVICE_UNAVAILABLE" => faults < faults'
<1>1. faults \in Nat /\ None \notin DOMAIN session
  BY DEF Inv, Shapes, AreSessions
<1>2. HeldNow(o, could[o], tuples, session)
  BY DEF Inv, UpToDate, Follows, Operations
<1>3. CASE answer \in CanAsked(tuples, context[o].known.user, check, id) /\ UNCHANGED faults
  <2>1. Says(answer, check, id) \in could[o]
    BY <1>1, <1>2, <1>3 DEF HeldNow, Says
  <2>2. answer \in Answers
    BY <1>3 DEF CanAsked
  <2> QED
    BY <1>1, <1>3, <2>1, <2>2 DEF Answers
<1>4. CASE answer = "SERVICE_UNAVAILABLE" /\ Fails
  BY <1>1, <1>4 DEF Fails, Answers
<1> QED
  BY <1>3, <1>4 DEF Answered

LEMMA AnswerOwnKeeps ==
  ASSUME Inv, NEW o \in Operations, NEW f \in app.requests[o].fields, NEW id \in task[o][f].waits,
         AnswerOwn(o, f, id), UNCHANGED route
  PROVE  Inv'
<1>1. /\ task[o][f].pc = "ask" /\ UNCHANGED <<context, response>> /\ Idle
  BY DEF AnswerOwn
<1>2. PICK answer \in Answers \cup {"SERVICE_UNAVAILABLE"} :
        /\ Answered(o, Check(o, f), id, answer)
        /\ task' = [task EXCEPT ![o][f] = Heard(@, id, answer)]
  BY DEF AnswerOwn
<1>3. /\ TokenOf(o) \in DOMAIN session /\ context[o].known.user = session[TokenOf(o)].user
      /\ Check(o, f) \in ChecksOf(o) /\ context[o].asked = "answered"
  BY <1>1, ChecksAre, ChecksWell
<1>4. phase[o] = "open" /\ task[o][f].waits \subseteq Named(Check(o, f))
  BY <1>1, BusyIs DEF TaskOk, Check
<1>5. PICK check : check = Check(o, f) /\ id \in Named(check)
  BY <1>4
<1>6. /\ faults' \in Nat /\ faults <= faults'
      /\ answer \in Answers => Says(answer, check, id) \in could[o]
      /\ answer = "SERVICE_UNAVAILABLE" => faults < faults'
  BY <1>2, <1>3, <1>4, <1>5, AnsweredSays
<1>7. PICK t : t = Heard(task[o][f], id, answer)
  OBVIOUS
<1>8. Becomes(o, f, t)
  BY <1>2, <1>7 DEF Becomes
<1>9. task'[o][f] = t
  <2>1. /\ task' = [p \in Operations |-> task'[p]]
        /\ task'[o] = [g \in app.requests[o].fields |-> task'[o][g]]
        /\ task'[o][f] = t
        /\ \A g \in app.requests[o].fields \ {f} : task'[o][g] = task[o][g]
        /\ \A p \in Operations \ {o} : task'[p] = task[p]
    BY <1>8, TaskSet DEF Inv
  <2> QED
    BY <2>1
<1>10. IsTask(t)' /\ TaskOk(o, f)'
  BY <1>1, <1>5, <1>6, <1>7, <1>9, HeardOk
<1>11. Sent'
  BY <1>1, SentStays DEF Idle, world
<1> QED
  BY <1>1, <1>3, <1>4, <1>6, <1>8, <1>10, <1>11, OneTask

(* A memo is right about what it holds.                                    *)
MemoSays(o, memo) ==
  \A key \in DOMAIN memo :
    /\ memo[key] = [answer |-> memo[key].answer, check |-> memo[key].check]
    /\ memo[key].check \in ChecksOf(o)
    /\ key[2] \in Named(memo[key].check) /\ key = KeyOf(memo[key].check, key[2])
    /\ phase[o] = "open" /\ ~Streams(o) /\ memo[key].answer \in {"yes", "no"} =>
         <<memo[key].answer, key[3], key[1], key[2]>> \in could[o]

(* The memo moves, and tasks with it.                                      *)
LEMMA MemoMoves ==
  ASSUME Inv, Idle, UNCHANGED route, faults' \in Nat, faults <= faults', NEW o \in Operations,
         task' = [p \in Operations |-> task'[p]],
         task'[o] = [f \in app.requests[o].fields |-> task'[o][f]],
         \A p \in Operations \ {o} : task'[p] = task[p],
         \A f \in app.requests[o].fields :
           task'[o][f] = task[o][f] \/ (IsTask(task[o][f])' /\ TaskOk(o, f)'),
         context[o].asked = "answered", context[o].known # Anonymous,
         NEW memo, Learns(o, [context[o] EXCEPT !.memo = memo]), MemoSays(o, memo), Sent'
  PROVE  Inv'
<1>1. UNCHANGED <<model, maxDepth, tuples, app, session, now, connection, phase, could>>
  BY DEF Idle, world
<1>2. /\ IsContext(context[o]) /\ ContextOk(o)
  BY DEF Inv, Shapes, OperationOk
<1>3. PICK old : old = context[o]
  OBVIOUS
<1>4. PICK c : c = [old EXCEPT !.memo = memo]
  OBVIOUS
<1>5. /\ context' = [p \in Operations |-> context'[p]] /\ context'[o] = c
      /\ \A p \in Operations \ {o} : context'[p] = context[p]
  <2>1. Learns(o, c)
    BY <1>3, <1>4
  <2> QED
    BY <2>1, ContextSet DEF Inv
<1>6. old = [asked |-> old.asked, known |-> old.known, memo |-> old.memo, events |-> old.events]
      /\ old.events \in Nat
  BY <1>2, <1>3 DEF IsContext
<1>7. c = [asked |-> old.asked, known |-> old.known, memo |-> memo, events |-> old.events]
  BY <1>4, <1>6
<1>8. /\ IsContext(c) /\ c.asked = "answered" /\ c.known = old.known /\ c.memo = memo
      /\ c.events = old.events /\ old.asked = "answered" /\ c.known # Anonymous
  BY <1>3, <1>6, <1>7 DEF IsContext
<1>9. /\ Streams(o)' = Streams(o) /\ Running(o)' = Running(o) /\ TokenOf(o)' = TokenOf(o)
      /\ ChecksOf(o)' = ChecksOf(o)
  BY <1>1, <1>3, <1>5, <1>8, SameAsked, AskedStays
<1>10. Knows(o, c.known, could[o])'
  <2>1. Knows(o, c.known, could[o])
    BY <1>2, <1>3, <1>8 DEF ContextOk
  <2>2. PICK known : known = c.known
    OBVIOUS
  <2> QED
    BY <1>1, <1>9, <2>1, <2>2 DEF Knows
<1>11. ContextOk(o)'
  <2>1. phase[o] \in {"new", "open", "idle", "done"} /\ phase[o] # "new"
        /\ (phase[o] = "idle" => Streams(o))
    BY <1>2, <1>3, <1>8 DEF ContextOk
  <2> QED
    BY <1>1, <1>5, <1>8, <1>9, <1>10, <2>1 DEF ContextOk
<1>12. MemoOk(o)'
  BY <1>1, <1>5, <1>8, <1>9 DEF MemoOk, MemoSays
<1>13. /\ context'[o].events = context[o].events
       /\ context[o].asked \in {"answered", "failed"} => context'[o].asked = context[o].asked
       /\ context[o].asked = "asking" => context'[o].asked # "no"
       /\ context[o].asked = "answered" => context'[o].known = context[o].known
       /\ IsContext(context'[o])
  BY <1>3, <1>5, <1>8
<1> QED
  BY <1>5, <1>11, <1>12, <1>13, TasksMove

(* A check asked: what was answered already is not waited for.             *)
Loaded(o, check, t) ==
  [t EXCEPT !.pc = "ask", !.mark = faults,
            !.waits = Named(check) \ (AlreadyAnswered(o, check, "yes")
                                        \cup AlreadyAnswered(o, check, "no")),
            !.denied = AlreadyAnswered(o, check, "no") # {}]

LEMMA AlreadySays ==
  ASSUME Inv, NEW o \in Operations, phase[o] = "open", NEW check, ~Streams(o) \/ SkipsMemo(o, check),
         NEW answer \in {"yes", "no"}, NEW id \in AlreadyAnswered(o, check, answer)
  PROVE  Says(answer, check, id) \in could[o] /\ id \in Named(check)
<1>1. PICK memo : memo = context[o].memo
  OBVIOUS
<1>2. ~SkipsMemo(o, check) /\ ~Streams(o)
  BY DEF AlreadyAnswered
<1>3. PICK key : key = KeyOf(check, id)
  OBVIOUS
<1>4. key \in DOMAIN memo /\ memo[key].answer = answer /\ id \in Named(check)
  BY <1>1, <1>2, <1>3 DEF AlreadyAnswered
<1>5. MemoOk(o)
  BY DEF Inv, OperationOk
<1>6. <<memo[key].answer, key[3], key[1], key[2]>> \in could[o]
  BY <1>1, <1>2, <1>4, <1>5 DEF MemoOk
<1>7. key[1] = check.type /\ key[2] = id /\ key[3] = check.name
  BY <1>3 DEF KeyOf
<1> QED
  BY <1>4, <1>6, <1>7 DEF Says

LEMMA LoadedOk ==
  ASSUME Inv, Idle, faults' = faults, NEW o \in Operations, NEW f \in app.requests[o].fields,
         task[o][f].pc = "load",
         context'[o].asked = context[o].asked, context'[o].known = context[o].known,
         context'[o].events = context[o].events,
         NEW t, t = Loaded(o, Check(o, f), task[o][f]), task'[o][f] = t
  PROVE  IsTask(t)' /\ TaskOk(o, f)'
<1>1. PICK old, checks, k, facts, check :
        /\ old = task[o][f] /\ checks = Requirement(o, f).permissions /\ k = old.k
        /\ facts = could[o] /\ check = Check(o, f)
  OBVIOUS
<1>2. /\ k \in DOMAIN checks /\ checks[k].targets # Nothing /\ check = checks[k]
      /\ Guarded(app.schema[f]) => Admitted(o, f) /\ GrantedBefore(o, f, k)
      /\ context[o].asked = "answered" /\ context[o].known # Anonymous
      /\ Guarded(app.schema[f]) => Demands(app.requires[f], app.schema[f])
      /\ checks = app.requires[f].permissions
  BY <1>1, ChecksAre, ChecksWell
<1>3. /\ IsTask(old) /\ faults \in Nat /\ phase[o] = "open" /\ f \in Running(o)
      /\ old.outcome = "none"
  BY <1>1, BusyIs DEF TaskOk
<1>4. UNCHANGED <<model, maxDepth, tuples, app, session, now, connection, phase, could>>
  BY DEF Idle, world
<1>5. PICK yes, no, waits, denied :
        /\ yes = AlreadyAnswered(o, check, "yes") /\ no = AlreadyAnswered(o, check, "no")
        /\ waits = Named(check) \ (yes \cup no) /\ denied = (no # {})
  OBVIOUS
<1>6. t = [pc |-> "ask", k |-> k, waits |-> waits, denied |-> denied,
           outcome |-> "none", mark |-> faults]
  <2>1. old = [pc |-> old.pc, k |-> k, waits |-> old.waits, denied |-> old.denied,
               outcome |-> "none", mark |-> old.mark]
    BY <1>1, <1>3 DEF IsTask
  <2>2. t = [old EXCEPT !.pc = "ask", !.mark = faults, !.waits = waits, !.denied = denied]
    BY <1>1, <1>5 DEF Loaded
  <2>3. PICK x : x = [old EXCEPT !.pc = "ask"]
    OBVIOUS
  <2>4. x = [pc |-> "ask", k |-> k, waits |-> old.waits, denied |-> old.denied,
             outcome |-> "none", mark |-> old.mark]
    BY <2>1, <2>3
  <2>5. PICK y : y = [x EXCEPT !.mark = faults]
    OBVIOUS
  <2>6. y = [pc |-> "ask", k |-> k, waits |-> old.waits, denied |-> old.denied,
             outcome |-> "none", mark |-> faults]
    BY <2>4, <2>5
  <2>7. PICK z : z = [y EXCEPT !.waits = waits]
    OBVIOUS
  <2>8. z = [pc |-> "ask", k |-> k, waits |-> waits, denied |-> old.denied,
             outcome |-> "none", mark |-> faults]
    BY <2>6, <2>7
  <2>9. t = [z EXCEPT !.denied = denied]
    BY <2>2, <2>3, <2>5, <2>7
  <2> QED
    BY <2>8, <2>9
<1>7. /\ t.pc = "ask" /\ t.k = k /\ t.waits = waits /\ t.outcome = "none" /\ t.mark = faults
      /\ t.denied = denied
  BY <1>6
<1>8. IsTask(t)'
  <2>1. t = [pc |-> t.pc, k |-> t.k, waits |-> t.waits, denied |-> t.denied,
             outcome |-> t.outcome, mark |-> t.mark]
    BY <1>6
  <2> QED
    BY <1>3, <1>7, <2>1 DEF IsTask
<1>9. Guarded(app.schema[f]) => Hearing(t, check, facts)
  <2> SUFFICES ASSUME Guarded(app.schema[f]) PROVE Hearing(t, check, facts)
    OBVIOUS
  <2>1. check.onDeny # "no"
    <3>1. PICK use \in UsesOf(app.schema[f]) : Asks(check, use, app.schema[f])
      BY <1>2 DEF Demands
    <3> QED
      BY <3>1 DEF Asks
  <2>2. ~Streams(o) \/ SkipsMemo(o, check)
    BY <2>1 DEF SkipsMemo
  <2>3. \A id \in yes : Says("yes", check, id) \in facts
    BY <1>1, <1>3, <1>5, <2>2, AlreadySays
  <2>4. \A id \in no : Says("no", check, id) \in facts /\ id \in Named(check)
    BY <1>1, <1>3, <1>5, <2>2, AlreadySays
  <2>5. t.denied <=> no # {}
    BY <1>5, <1>7
  <2> QED
    BY <1>5, <1>7, <2>3, <2>4, <2>5 DEF Hearing
<1>10. /\ Running(o)' = Running(o) /\ Requirement(o, f)' = Requirement(o, f)
       /\ TokenOf(o)' = TokenOf(o)
  BY <1>4, SameAsked, AskedStays
<1>11. Guarded(app.schema[f]) => Admitted(o, f)'
  BY <1>2, <1>4, <1>10 DEF Admitted, TypesAdmit
<1>12. Guarded(app.schema[f]) => \A i \in DOMAIN checks : i < k => Granted(checks[i], facts)
  <2>1. Guarded(app.schema[f]) => GrantedBefore(o, f, k)
    BY <1>2
  <2>2. checks = Requirement(o, f).permissions /\ facts = could[o]
    BY <1>1
  <2> QED
    BY <2>1, <2>2 DEF GrantedBefore
<1>13. t.waits \subseteq Named(checks[k])
  BY <1>2, <1>5, <1>7
<1> QED
  BY <1>1, <1>2, <1>3, <1>4, <1>7, <1>8, <1>9, <1>10, <1>11, <1>12, <1>13 DEF TaskOk

LEMMA LoadKeeps ==
  ASSUME Inv, NEW o \in Operations, NEW f \in app.requests[o].fields, Load(o, f), UNCHANGED route
  PROVE  Inv'
<1>1. task[o][f].pc = "load" /\ Idle
  BY DEF Load
<1>2. PICK checks, k, check : /\ checks = Requirement(o, f).permissions /\ k = task[o][f].k
                              /\ check = Check(o, f)
  OBVIOUS
<1>3. /\ context[o].asked = "answered" /\ context[o].known # Anonymous
      /\ k \in DOMAIN checks /\ check = checks[k] /\ check \in ChecksOf(o)
      /\ Named(check) = check.targets
      /\ Guarded(app.schema[f]) => Demands(app.requires[f], app.schema[f])
      /\ ~Guarded(app.schema[f]) => ~check.load
      /\ checks = app.requires[f].permissions
  BY <1>1, <1>2, ChecksAre, ChecksWell
<1>4. /\ faults \in Nat /\ phase[o] = "open" /\ f \in Running(o) /\ IsTask(task[o][f])
      /\ MemoOk(o)
  BY <1>1, BusyIs
<1>5. CASE /\ check.load /\ Fails
           /\ Ran(o, f, Ended(task[o][f], "INTERNAL_SERVER_ERROR"))
           /\ UNCHANGED context
  <2>1. Sent' /\ Becomes(o, f, Ended(task[o][f], "INTERNAL_SERVER_ERROR"))
    BY <1>1, <1>5, RanIs
  <2>2. AnswerIs(o, f, "INTERNAL_SERVER_ERROR")
    BY DEF AnswerIs
  <2>3. faults' \in Nat /\ faults <= faults' /\ faults' > task[o][f].mark
    BY <1>4, <1>5 DEF Fails, IsTask
  <2> QED
    BY <1>1, <1>3, <1>5, <2>1, <2>2, <2>3, EndKeeps
<1>6. CASE /\ check.load /\ Named(check) \cap app.missing # {}
           /\ Ran(o, f, Ended(task[o][f], "NOT_FOUND"))
           /\ UNCHANGED <<context, faults>>
  <2>1. Sent' /\ Becomes(o, f, Ended(task[o][f], "NOT_FOUND"))
    BY <1>1, <1>6, RanIs
  <2>2. PICK use \in UsesOf(app.schema[f]) : Asks(check, use, app.schema[f])
    BY <1>3, <1>6 DEF Demands
  <2>3. LacksUse(app.schema[f], use, could[o])
    BY <1>3, <1>6, <2>2 DEF Asks, LacksUse
  <2>4. AnswerIs(o, f, "NOT_FOUND")
    BY <2>3 DEF AnswerIs, WasDenied
  <2> QED
    BY <1>1, <1>3, <1>4, <1>6, <2>1, <2>4, EndKeeps
<1>7. CASE /\ Ran(o, f, Loaded(o, check, task[o][f]))
           /\ context' = NowAsked(o, check)
           /\ UNCHANGED faults
  <2>1. PICK t : t = Loaded(o, Check(o, f), task[o][f])
    OBVIOUS
  <2>2. Sent' /\ Becomes(o, f, t)
    BY <1>1, <1>2, <1>7, <2>1, RanIs
  <2>3. /\ task' = [p \in Operations |-> task'[p]]
        /\ task'[o] = [g \in app.requests[o].fields |-> task'[o][g]]
        /\ task'[o][f] = t
        /\ \A g \in app.requests[o].fields \ {f} : task'[o][g] = task[o][g]
        /\ \A p \in Operations \ {o} : task'[p] = task[p]
    BY <2>2, TaskSet DEF Inv
  <2>4. CASE SkipsMemo(o, check)
    <3>1. context' = context
      BY <1>7, <2>4 DEF NowAsked
    <3>2. IsTask(t)' /\ TaskOk(o, f)'
      BY <1>1, <1>7, <2>1, <2>3, <3>1, LoadedOk
    <3> QED
      BY <1>1, <1>3, <1>4, <1>7, <2>2, <3>1, <3>2, OneTask
  <2>5. CASE ~SkipsMemo(o, check)
    <3>1. PICK old, asked : old = context[o].memo /\ asked = {KeyOf(check, id) : id \in Named(check)}
      OBVIOUS
    <3>2. PICK memo : memo = [key \in DOMAIN old \cup asked |->
                                IF key \in DOMAIN old THEN old[key]
                                ELSE [answer |-> "asking", check |-> check]]
      OBVIOUS
    <3>3. Learns(o, [context[o] EXCEPT !.memo = memo])
      BY <1>7, <2>5, <3>1, <3>2 DEF NowAsked, Learns
    <3>4. MemoSays(o, memo)
      <4>1. DOMAIN memo = DOMAIN old \cup asked
        BY <3>2
      <4>2. ASSUME NEW key \in DOMAIN old
            PROVE  /\ memo[key] = [answer |-> memo[key].answer, check |-> memo[key].check]
                   /\ memo[key].check \in ChecksOf(o)
                   /\ key[2] \in Named(memo[key].check) /\ key = KeyOf(memo[key].check, key[2])
                   /\ phase[o] = "open" /\ ~Streams(o) /\ memo[key].answer \in {"yes", "no"} =>
                        <<memo[key].answer, key[3], key[1], key[2]>> \in could[o]
        <5>1. memo[key] = old[key]
          BY <3>2
        <5> QED
          BY <1>4, <3>1, <5>1 DEF MemoOk
      <4>3. ASSUME NEW key \in asked, key \notin DOMAIN old
            PROVE  /\ memo[key] = [answer |-> memo[key].answer, check |-> memo[key].check]
                   /\ memo[key].check \in ChecksOf(o)
                   /\ key[2] \in Named(memo[key].check) /\ key = KeyOf(memo[key].check, key[2])
                   /\ memo[key].answer \notin {"yes", "no"}
        <5>1. PICK x : x = memo[key] /\ x = [answer |-> "asking", check |-> check]
          BY <3>2, <4>3
        <5>2. PICK id \in Named(check) : key = KeyOf(check, id)
          BY <3>1
        <5>3. key[2] = id
          BY <5>2 DEF KeyOf
        <5>4. x.check = check /\ x.answer = "asking"
          BY <5>1
        <5> QED
          BY <1>3, <5>1, <5>2, <5>3, <5>4
      <4> QED
        BY <4>1, <4>2, <4>3 DEF MemoSays
    <3>5. PICK c : c = context[o] /\ Learns(o, [c EXCEPT !.memo = memo])
      BY <3>3
    <3>6. context'[o] = [c EXCEPT !.memo = memo]
      BY <3>5, ContextSet DEF Inv
    <3>7. c = [asked |-> c.asked, known |-> c.known, memo |-> c.memo, events |-> c.events]
      BY <3>5, BusyIs DEF IsContext
    <3>8. /\ context'[o].asked = context[o].asked /\ context'[o].known = context[o].known
          /\ context'[o].events = context[o].events
      <4>1. PICK d : d = [c EXCEPT !.memo = memo]
        OBVIOUS
      <4>2. d = [asked |-> c.asked, known |-> c.known, memo |-> memo, events |-> c.events]
        BY <3>7, <4>1
      <4> QED
        BY <3>5, <3>6, <4>1, <4>2
    <3>9. IsTask(t)' /\ TaskOk(o, f)'
      BY <1>1, <1>7, <2>1, <2>3, <3>8, LoadedOk
    <3>10. \A g \in app.requests[o].fields :
             task'[o][g] = task[o][g] \/ (IsTask(task[o][g])' /\ TaskOk(o, g)')
      <4>1. IsTask(task[o][f])'
        BY <2>3, <3>9 DEF IsTask
      <4> QED
        BY <2>3, <3>9, <4>1
    <3>11. faults' \in Nat /\ faults <= faults'
      BY <1>4, <1>7
    <3> QED
      BY <1>1, <1>3, <2>2, <2>3, <3>3, <3>4, <3>10, <3>11, MemoMoves
  <2> QED
    BY <2>4, <2>5
<1> QED
  <2>1. \/ /\ check.load /\ Fails
           /\ Ran(o, f, Ended(task[o][f], "INTERNAL_SERVER_ERROR"))
           /\ UNCHANGED context
        \/ /\ check.load /\ Named(check) \cap app.missing # {}
           /\ Ran(o, f, Ended(task[o][f], "NOT_FOUND"))
           /\ UNCHANGED <<context, faults>>
        \/ /\ Ran(o, f, Loaded(o, check, task[o][f]))
           /\ context' = NowAsked(o, check)
           /\ UNCHANGED faults
    BY <1>2 DEF Load, Loaded
  <2> QED
    BY <1>5, <1>6, <1>7, <2>1

(* A memo hears an answer: it holds it, or asks again.                     *)
LEMMA MemoHears ==
  ASSUME Inv, NEW o \in Operations, NEW key \in DOMAIN context[o].memo,
         NEW answer,
         phase[o] = "open" /\ answer \in {"yes", "no"} =>
           <<answer, key[3], key[1], key[2]>> \in could[o]
  PROVE  MemoSays(o, Remembered(context[o].memo, key, answer))
<1>1. PICK memo, later : memo = context[o].memo /\ later = Remembered(memo, key, answer)
  OBVIOUS
<1>2. MemoSays(o, memo)
  BY <1>1 DEF Inv, OperationOk, MemoOk, MemoSays
<1>3. CASE answer \in {"yes", "no"}
  <2>1. PICK x : x = [memo[key] EXCEPT !.answer = answer]
    OBVIOUS
  <2>2. later = [memo EXCEPT ![key] = x]
    BY <1>1, <1>3, <2>1 DEF Remembered
  <2>3. PICK old : old = memo[key] /\ old = [answer |-> old.answer, check |-> old.check]
    BY <1>1, <1>2 DEF MemoSays
  <2>4. x = [answer |-> answer, check |-> old.check]
    BY <2>1, <2>3
  <2>5. x.answer = answer /\ x.check = old.check /\ x = [answer |-> x.answer, check |-> x.check]
    BY <2>4
  <2>6. DOMAIN later = DOMAIN memo /\ later[key] = x
        /\ \A other \in DOMAIN memo \ {key} : later[other] = memo[other]
    BY <1>1, <2>2
  <2>7. ASSUME NEW other \in DOMAIN memo
        PROVE  /\ later[other] = [answer |-> later[other].answer, check |-> later[other].check]
               /\ later[other].check \in ChecksOf(o)
               /\ other[2] \in Named(later[other].check)
               /\ other = KeyOf(later[other].check, other[2])
               /\ phase[o] = "open" /\ ~Streams(o) /\ later[other].answer \in {"yes", "no"} =>
                    <<later[other].answer, other[3], other[1], other[2]>> \in could[o]
    <3>1. CASE other = key
      <4>1. later[other] = x /\ memo[other] = old
        BY <2>3, <2>6, <3>1
      <4>2. /\ memo[other].check \in ChecksOf(o) /\ other[2] \in Named(memo[other].check)
            /\ other = KeyOf(memo[other].check, other[2])
        BY <1>2 DEF MemoSays
      <4>3. later[other].check = memo[other].check /\ later[other].answer = answer
            /\ later[other] = [answer |-> later[other].answer, check |-> later[other].check]
        BY <2>5, <4>1
      <4> QED
        BY <3>1, <4>2, <4>3
    <3>2. CASE other # key
      <4>1. later[other] = memo[other]
        BY <2>6, <3>2
      <4> QED
        BY <1>2, <4>1 DEF MemoSays
    <3> QED
      BY <3>1, <3>2
  <2>8. MemoSays(o, later)
    BY <2>6, <2>7 DEF MemoSays
  <2> QED
    BY <1>1, <2>8
<1>4. CASE answer \notin {"yes", "no"}
  <2>1. later = [other \in DOMAIN memo \ {key} |-> memo[other]]
    BY <1>1, <1>4 DEF Remembered
  <2>2. DOMAIN later = DOMAIN memo \ {key}
        /\ \A other \in DOMAIN memo \ {key} : later[other] = memo[other]
    BY <2>1
  <2>3. MemoSays(o, later)
    BY <1>2, <2>2 DEF MemoSays
  <2> QED
    BY <1>1, <2>3
<1> QED
  BY <1>3, <1>4

LEMMA AnswerMemoKeeps ==
  ASSUME Inv, NEW o \in Operations, NEW key \in DOMAIN context[o].memo, AnswerMemo(o, key),
         UNCHANGED route
  PROVE  Inv'
<1>1. response' = response /\ Idle
  BY DEF AnswerMemo
<1>2. PICK memo, check, id :
        memo = context[o].memo /\ check = memo[key].check /\ id = key[2]
  OBVIOUS
<1>3. PICK answer \in Answers \cup {"SERVICE_UNAVAILABLE"} :
        /\ Answered(o, check, id, answer)
        /\ context' = [context EXCEPT ![o].memo = Remembered(@, key, answer)]
        /\ task' = [task EXCEPT ![o] = [f \in DOMAIN @ |->
                      IF Waits(o, f, key) THEN Heard(@[f], key[2], answer) ELSE @[f]]]
  BY <1>2 DEF AnswerMemo
<1>4. ContextOk(o) /\ MemoOk(o) /\ IsContext(context[o]) /\ faults \in Nat
  BY DEF Inv, OperationOk, Shapes
<1>5. /\ check \in ChecksOf(o) /\ id \in Named(check) /\ key = KeyOf(check, id)
  BY <1>2, <1>4 DEF MemoOk
<1>6. /\ context[o].asked = "answered" /\ context[o].known # Anonymous
      /\ TokenOf(o) \in DOMAIN session /\ context[o].known.user = session[TokenOf(o)].user
  <2>1. context[o].known # Anonymous
    BY <1>4 DEF ContextOk
  <2>2. context[o].asked = "answered" /\ Knows(o, context[o].known, could[o])
    BY <1>4, <2>1 DEF ContextOk
  <2> QED
    BY <2>1, <2>2 DEF Knows
<1>7. faults' \in Nat /\ faults <= faults'
  BY <1>3, <1>4 DEF Answered, Fails
<1>8. phase[o] = "open" =>
        /\ answer \in Answers => Says(answer, check, id) \in could[o]
        /\ answer = "SERVICE_UNAVAILABLE" => faults < faults'
  BY <1>3, <1>5, <1>6, AnsweredSays
<1>9. key[1] = check.type /\ key[2] = id /\ key[3] = check.name
  BY <1>5 DEF KeyOf
<1>10. PICK later : later = Remembered(memo, key, answer)
  OBVIOUS
<1>11. MemoSays(o, later)
  <2>1. phase[o] = "open" /\ answer \in {"yes", "no"} =>
          <<answer, key[3], key[1], key[2]>> \in could[o]
    BY <1>8, <1>9 DEF Says, Answers
  <2> QED
    BY <1>2, <1>10, <2>1, MemoHears
<1>12. Learns(o, [context[o] EXCEPT !.memo = later])
  BY <1>2, <1>3, <1>10 DEF Learns
<1>13. PICK old, mine :
         /\ old = task[o]
         /\ mine = [f \in DOMAIN old |->
                      IF Waits(o, f, key) THEN Heard(old[f], id, answer) ELSE old[f]]
  OBVIOUS
<1>14. /\ task = [p \in Operations |-> task[p]]
       /\ old = [f \in app.requests[o].fields |-> old[f]]
  BY <1>13 DEF Inv, Shapes
<1>15. DOMAIN old = app.requests[o].fields
  BY <1>14
<1>16. /\ task' = [p \in Operations |-> task'[p]] /\ task'[o] = mine
       /\ \A p \in Operations \ {o} : task'[p] = task[p]
  <2>1. task' = [task EXCEPT ![o] = mine]
    BY <1>2, <1>3, <1>13, Zenon
  <2>2. PICK next : next = task'
    OBVIOUS
  <2>3. /\ next = [p \in Operations |-> next[p]] /\ next[o] = mine
        /\ \A p \in Operations \ {o} : next[p] = task[p]
    BY <1>14, <2>1, <2>2
  <2> QED
    BY <2>2, <2>3
<1>17. mine = [f \in app.requests[o].fields |-> mine[f]]
       /\ \A f \in app.requests[o].fields :
            mine[f] = IF Waits(o, f, key) THEN Heard(task[o][f], id, answer) ELSE task[o][f]
  <2>1. mine = [f \in app.requests[o].fields |->
                  IF Waits(o, f, key) THEN Heard(old[f], id, answer) ELSE old[f]]
    BY <1>13, <1>15
  <2> QED
    BY <1>13, <2>1
<1>18. /\ context'[o].asked = context[o].asked /\ context'[o].known = context[o].known
       /\ context'[o].events = context[o].events
  <2>1. PICK c, d : c = context[o] /\ d = [c EXCEPT !.memo = later]
    OBVIOUS
  <2>2. Learns(o, d)
    BY <1>12, <2>1
  <2>3. /\ context' = [p \in Operations |-> context'[p]] /\ context'[o] = d
        /\ \A p \in Operations \ {o} : context'[p] = context[p]
    BY <2>2, ContextSet DEF Inv
  <2>4. c = [asked |-> c.asked, known |-> c.known, memo |-> c.memo, events |-> c.events]
    BY <1>4, <2>1 DEF IsContext
  <2>5. d = [asked |-> c.asked, known |-> c.known, memo |-> later, events |-> c.events]
    BY <2>1, <2>4
  <2> QED
    BY <2>1, <2>3, <2>5
<1>19. ASSUME NEW f \in app.requests[o].fields
       PROVE  task'[o][f] = task[o][f] \/ (IsTask(task[o][f])' /\ TaskOk(o, f)')
  <2>1. CASE ~Waits(o, f, key)
    BY <1>16, <1>17, <2>1
  <2>2. CASE Waits(o, f, key)
    <3>1. /\ task[o][f].pc = "ask"
          /\ \E i \in task[o][f].waits : KeyOf(Check(o, f), i) = key
      BY <2>2 DEF Waits
    <3>2. PICK i \in task[o][f].waits : KeyOf(Check(o, f), i) = key
      BY <3>1
    <3>3. PICK mine_check : mine_check = Check(o, f)
      OBVIOUS
    <3>4. /\ mine_check.type = check.type /\ i = id /\ mine_check.name = check.name
      <4>1. <<mine_check.type, i, mine_check.name>> = key
        BY <3>2, <3>3 DEF KeyOf
      <4>2. key[1] = mine_check.type /\ key[2] = i /\ key[3] = mine_check.name
        BY <4>1
      <4> QED
        BY <1>9, <4>2
    <3>5. Says(answer, Check(o, f), id) = Says(answer, check, id)
      BY <3>3, <3>4 DEF Says
    <3>6. phase[o] = "open"
      BY <3>1, BusyIs
    <3>7. PICK t : t = Heard(task[o][f], id, answer)
      OBVIOUS
    <3>8. task'[o][f] = t
      BY <1>16, <1>17, <2>2, <3>7
    <3>9. id \in task[o][f].waits
      BY <3>2, <3>4
    <3>10. IsTask(t)' /\ TaskOk(o, f)'
      BY <1>1, <1>7, <1>8, <1>18, <3>1, <3>5, <3>6, <3>7, <3>8, <3>9, HeardOk
    <3>11. IsTask(task[o][f])'
      BY <3>8, <3>10 DEF IsTask
    <3> QED
      BY <3>10, <3>11
  <2> QED
    BY <2>1, <2>2
<1>20. Sent'
  BY <1>1, SentStays DEF Idle, world
<1>21. task'[o] = [f \in app.requests[o].fields |-> task'[o][f]]
  BY <1>16, <1>17
<1> QED
  BY <1>1, <1>6, <1>7, <1>11, <1>12, <1>16, <1>19, <1>20, <1>21, MemoMoves

-----------------------------------------------------------------------------
(* An operation begins, ends, and hears an event.                          *)

(* A task that was not started knows nothing.                              *)
LEMMA NotStartedOk ==
  ASSUME NEW o, NEW f, task'[o][f] = NotStarted, faults' \in Nat
  PROVE  IsTask(task[o][f])' /\ TaskOk(o, f)'
<1>1. PICK t : t = NotStarted
  OBVIOUS
<1>2. t = [pc |-> "idle", k |-> 0, waits |-> {}, denied |-> FALSE, outcome |-> "none", mark |-> 0]
  BY <1>1 DEF NotStarted
<1>3. t.pc = "idle" /\ t.outcome = "none" /\ t.mark = 0
      /\ t = [pc |-> t.pc, k |-> t.k, waits |-> t.waits, denied |-> t.denied,
              outcome |-> t.outcome, mark |-> t.mark]
  BY <1>2
<1>4. task'[o][f] = t
  BY <1>1
<1> QED
  BY <1>3, <1>4 DEF IsTask, TaskOk

LEMMA FinishKeeps ==
  ASSUME Inv, NEW o \in Operations, Finish(o), UNCHANGED route
  PROVE  Inv'
<1>1. /\ phase[o] = "open" /\ \A f \in Running(o) : task[o][f].pc = "done"
      /\ UNCHANGED <<world, connection, could, context, task, response, faults>>
  BY DEF Finish
<1>2. PICK next \in {"idle", "done"} :
        phase' = [phase EXCEPT ![o] = next] /\ (next = "idle" => Streams(o))
  BY DEF Finish
<1>3. UNCHANGED <<model, maxDepth, tuples, app, session, now, connection, route>>
  BY <1>1 DEF world
<1>4. /\ o \in Requests /\ faults \in Nat /\ IsContext(context[o]) /\ ContextOk(o) /\ MemoOk(o)
      /\ phase = [r \in Requests |-> phase[r]] /\ could = [r \in Requests |-> could[r]]
      /\ context = [p \in Operations |-> context[p]] /\ task = [p \in Operations |-> task[p]]
      /\ task[o] = [f \in app.requests[o].fields |-> task[o][f]]
  BY DEF Operations, Inv, Shapes, OperationOk
<1>5. /\ phase' = [r \in Requests |-> phase'[r]] /\ phase'[o] = next
      /\ \A r \in Requests \ {o} : phase'[r] = phase[r]
  <2>1. PICK later : later = phase' /\ later = [phase EXCEPT ![o] = next]
    BY <1>2
  <2>2. /\ later = [r \in Requests |-> later[r]] /\ later[o] = next
        /\ \A r \in Requests \ {o} : later[r] = phase[r]
    BY <1>4, <2>1
  <2> QED
    BY <2>1, <2>2
<1>6. Onward(o)
  BY <1>1, <1>3, <1>4, OnwardAll DEF Inv, Shapes
<1>7. context[o].asked # "asking"
  BY <1>1, <1>4 DEF ContextOk
<1>8. /\ context[o].asked \in {"no", "asking", "answered", "failed"}
      /\ context[o].asked = "answered" => Knows(o, context[o].known, could[o])
  BY <1>4 DEF IsContext, ContextOk
<1>9. ASSUME NEW f \in app.requests[o].fields PROVE IsTask(task[o][f])' /\ TaskOk(o, f)'
  <2>1. IsTask(task[o][f]) /\ TaskOk(o, f)
    BY BusyIs
  <2>2. task[o][f].pc \in {"idle", "done"}
    BY <1>1, <2>1 DEF TaskOk
  <2>3. IsTask(task[o][f])'
    BY <1>1, <2>1 DEF IsTask
  <2>4. TaskOk(o, f)'
    BY <1>1, <1>5, <1>6, <1>8, <2>1, <2>2, TaskKept DEF Inv
  <2> QED
    BY <2>3, <2>4
<1>10. /\ Streams(o)' = Streams(o) /\ Running(o)' = Running(o) /\ TokenOf(o)' = TokenOf(o)
       /\ ChecksOf(o)' = ChecksOf(o)
  BY <1>1, <1>3, SameAsked, AskedStays
<1>11. Knows(o, context[o].known, could[o]) => Knows(o, context[o].known, could[o])'
  BY <1>1, <1>6, KnowsKept DEF Onward, Knows
<1>12. ContextOk(o)'
  BY <1>1, <1>2, <1>4, <1>5, <1>7, <1>10, <1>11 DEF ContextOk
<1>13. MemoOk(o)'
  BY <1>1, <1>2, <1>4, <1>5, <1>10 DEF MemoOk
<1>14. OperationOk(o)'
  BY <1>3, <1>9, <1>12, <1>13 DEF OperationOk
<1>15. UpToDate(o)'
  BY <1>2, <1>5 DEF UpToDate
<1>16. Sent'
  BY <1>1, <1>3, SentStays
<1>17. connection.state = "new" /\ OnSocket(o) => phase'[o] = "new"
  BY <1>1 DEF Inv, Tokens
<1>18. IsContext(context'[o]) /\ faults' \in Nat /\ faults <= faults'
  BY <1>1, <1>4
<1>19. /\ could' = [r \in Requests |-> could'[r]]
       /\ \A r \in Requests \ {o} : could'[r] = could[r]
       /\ context' = [p \in Operations |-> context'[p]] /\ task' = [p \in Operations |-> task'[p]]
       /\ task'[o] = [f \in app.requests[o].fields |-> task'[o][f]]
       /\ \A p \in Operations \ {o} : context'[p] = context[p] /\ task'[p] = task[p]
  BY <1>1, <1>4
<1> QED
  BY <1>3, <1>5, <1>9, <1>14, <1>15, <1>16, <1>17, <1>18, <1>19, OperationMoves

(* The history of one request begins anew.                                 *)
LEMMA SinceIs ==
  ASSUME Shapes, NEW r \in Requests, NEW next,
         phase' = [phase EXCEPT ![r] = next], could' = Since(r),
         UNCHANGED <<model, maxDepth, tuples, app, session, now, connection>>
  PROVE  /\ phase' = [q \in Requests |-> phase'[q]] /\ could' = [q \in Requests |-> could'[q]]
         /\ phase'[r] = next /\ could'[r] = Truths(r, could[r], tuples, session, now)
         /\ \A q \in Requests \ {r} : phase'[q] = phase[q] /\ could'[q] = could[q]
         /\ UpToDate(r)'
<1>1. phase = [q \in Requests |-> phase[q]] /\ could = [q \in Requests |-> could[q]]
  BY DEF Shapes
<1>2. PICK later : later = phase' /\ later = [phase EXCEPT ![r] = next]
  OBVIOUS
<1>3. /\ later = [q \in Requests |-> later[q]] /\ later[r] = next
      /\ \A q \in Requests \ {r} : later[q] = phase[q]
  BY <1>1, <1>2
<1>4. PICK past, truths, facts :
        /\ past = could /\ truths = Truths(r, could[r], tuples, session, now) /\ facts = could'
  OBVIOUS
<1>5. facts = [past EXCEPT ![r] = truths]
  BY <1>4 DEF Since
<1>6. /\ facts = [q \in Requests |-> facts[q]] /\ facts[r] = truths
      /\ \A q \in Requests \ {r} : facts[q] = past[q]
  BY <1>1, <1>4, <1>5
<1>7. could'[r] = Truths(r, could[r], tuples', session', now')
  BY <1>4, <1>6
<1>8. UpToDate(r)'
  BY <1>7, FollowsOn
<1> QED
  BY <1>2, <1>3, <1>4, <1>6, <1>8

LEMMA BeginKeeps ==
  ASSUME Inv, NEW o \in Operations, Begin(o), UNCHANGED route
  PROVE  Inv'
<1>1. /\ phase[o] = "new" /\ (OnSocket(o) => connection.state = "accepted")
      /\ phase' = [phase EXCEPT ![o] = "open"] /\ could' = Since(o)
      /\ UNCHANGED <<world, connection, context, task, response, faults>>
  BY DEF Begin
<1>2. UNCHANGED <<model, maxDepth, tuples, app, session, now, connection, route>>
  BY <1>1 DEF world
<1>3. /\ o \in Requests /\ faults \in Nat /\ IsContext(context[o]) /\ ContextOk(o)
      /\ context = [p \in Operations |-> context[p]] /\ task = [p \in Operations |-> task[p]]
      /\ task[o] = [f \in app.requests[o].fields |-> task[o][f]]
  BY DEF Operations, Inv, Shapes, OperationOk
<1>4. /\ phase' = [q \in Requests |-> phase'[q]] /\ could' = [q \in Requests |-> could'[q]]
      /\ phase'[o] = "open"
      /\ \A q \in Requests \ {o} : phase'[q] = phase[q] /\ could'[q] = could[q]
      /\ UpToDate(o)'
  BY <1>1, <1>2, <1>3, SinceIs DEF Inv
<1>5. /\ context[o].asked = "no" /\ context[o].known = Anonymous /\ DOMAIN context[o].memo = {}
      /\ \A f \in app.requests[o].fields : task[o][f] = NotStarted
  BY <1>1, <1>3 DEF ContextOk
<1>6. ASSUME NEW f \in app.requests[o].fields PROVE IsTask(task[o][f])' /\ TaskOk(o, f)'
  BY <1>1, <1>3, <1>5, NotStartedOk
<1>7. ContextOk(o)' /\ MemoOk(o)'
  BY <1>1, <1>4, <1>5 DEF ContextOk, MemoOk
<1>8. OperationOk(o)'
  BY <1>2, <1>6, <1>7 DEF OperationOk
<1>9. Sent'
  BY <1>1, <1>2, SentStays
<1>10. connection.state = "new" /\ OnSocket(o) => phase'[o] = "new"
  BY <1>1
<1>11. IsContext(context'[o]) /\ faults' \in Nat /\ faults <= faults'
  BY <1>1, <1>3
<1>12. /\ context' = [p \in Operations |-> context'[p]] /\ task' = [p \in Operations |-> task'[p]]
       /\ task'[o] = [f \in app.requests[o].fields |-> task'[o][f]]
       /\ \A p \in Operations \ {o} : context'[p] = context[p] /\ task'[p] = task[p]
  BY <1>1, <1>3
<1> QED
  BY <1>2, <1>4, <1>6, <1>8, <1>9, <1>10, <1>11, <1>12, OperationMoves

LEMMA EventKeeps ==
  ASSUME Inv, NEW o \in Operations, Event(o), UNCHANGED route
  PROVE  Inv'
<1>1. /\ phase[o] = "idle"
      /\ phase' = [phase EXCEPT ![o] = "open"] /\ could' = Since(o)
      /\ context' = [context EXCEPT ![o].events = @ + 1]
      /\ task' = [task EXCEPT ![o] = [f \in DOMAIN @ |-> NotStarted]]
      /\ UNCHANGED <<world, connection, response, faults>>
  BY DEF Event
<1>2. UNCHANGED <<model, maxDepth, tuples, app, session, now, connection, route>>
  BY <1>1 DEF world
<1>3. /\ o \in Requests /\ faults \in Nat /\ IsContext(context[o]) /\ ContextOk(o) /\ MemoOk(o)
      /\ task = [p \in Operations |-> task[p]]
      /\ task[o] = [f \in app.requests[o].fields |-> task[o][f]]
  BY DEF Operations, Inv, Shapes, OperationOk
<1>4. /\ phase' = [q \in Requests |-> phase'[q]] /\ could' = [q \in Requests |-> could'[q]]
      /\ phase'[o] = "open" /\ could'[o] = Truths(o, could[o], tuples, session, now)
      /\ \A q \in Requests \ {o} : phase'[q] = phase[q] /\ could'[q] = could[q]
      /\ UpToDate(o)'
  BY <1>1, <1>2, <1>3, SinceIs DEF Inv
<1>5. PICK c, d : c = context[o] /\ d = [c EXCEPT !.events = c.events + 1]
  OBVIOUS
<1>6. c = [asked |-> c.asked, known |-> c.known, memo |-> c.memo, events |-> c.events]
      /\ c.events \in Nat /\ c.asked \in {"no", "asking", "answered", "failed"}
  BY <1>3, <1>5 DEF IsContext
<1>7. d = [asked |-> c.asked, known |-> c.known, memo |-> c.memo, events |-> c.events + 1]
  BY <1>5, <1>6
<1>8. IsContext(d) /\ d.asked = c.asked /\ d.known = c.known /\ d.memo = c.memo
  BY <1>6, <1>7 DEF IsContext
<1>9. Learns(o, d)
  BY <1>1, <1>5 DEF Learns
<1>10. /\ context' = [p \in Operations |-> context'[p]] /\ context'[o] = d
       /\ \A p \in Operations \ {o} : context'[p] = context[p]
  BY <1>9, ContextSet DEF Inv
<1>11. PICK mine : mine = [f \in app.requests[o].fields |-> NotStarted]
  OBVIOUS
<1>12. /\ task' = [p \in Operations |-> task'[p]] /\ task'[o] = mine
       /\ \A p \in Operations \ {o} : task'[p] = task[p]
  <2>1. DOMAIN task[o] = app.requests[o].fields
    BY <1>3
  <2>2. task' = [task EXCEPT ![o] = mine]
    BY <1>1, <1>11, <2>1
  <2>3. PICK next : next = task'
    OBVIOUS
  <2>4. /\ next = [p \in Operations |-> next[p]] /\ next[o] = mine
        /\ \A p \in Operations \ {o} : next[p] = task[p]
    BY <1>3, <2>2, <2>3
  <2> QED
    BY <2>3, <2>4
<1>13. /\ task'[o] = [f \in app.requests[o].fields |-> task'[o][f]]
       /\ \A f \in app.requests[o].fields : task'[o][f] = NotStarted
  BY <1>11, <1>12
<1>14. ASSUME NEW f \in app.requests[o].fields PROVE IsTask(task[o][f])' /\ TaskOk(o, f)'
  BY <1>1, <1>3, <1>13, NotStartedOk
<1>15. Streams(o) /\ Streams(o)' = Streams(o) /\ TokenOf(o)' = TokenOf(o)
       /\ ChecksOf(o)' = ChecksOf(o)
  <2>1. Streams(o)
    BY <1>1, <1>3 DEF ContextOk
  <2> QED
    BY <1>2, <2>1, AskedStays DEF Streams
<1>16. c.asked # "asking"
  <2> SUFFICES ASSUME c.asked = "asking" PROVE FALSE
    OBVIOUS
  <2>1. PICK f \in Running(o) : task[o][f].pc = "user"
    BY <1>3, <1>5 DEF ContextOk
  <2>2. f \in app.requests[o].fields
    BY RequestsWired DEF Inv
  <2> QED
    BY <1>1, <2>1, <2>2, BusyIs
<1>17. Knows(o, c.known, could[o]) => Knows(o, c.known, could[o])'
  <2>1. Identity(could[o]) \subseteq could'[o]
    BY <1>4 DEF Truths
  <2>2. ASSUME NEW fact \in could[o], fact[1] \in {"anonymous", "known", "proven"}
        PROVE  fact \in could'[o]
    BY <2>1, <2>2 DEF Identity
  <2>3. PICK known : known = c.known
    OBVIOUS
  <2>4. /\ <<"anonymous">> \in could[o] => <<"anonymous">> \in could'[o]
        /\ <<"known">> \in could[o] => <<"known">> \in could'[o]
    <3>1. <<"anonymous">>[1] = "anonymous" /\ <<"known">>[1] = "known"
      OBVIOUS
    <3> QED
      BY <2>2, <3>1
  <2>5. <<"proven", known.provenAt>> \in could[o] => <<"proven", known.provenAt>> \in could'[o]
    <3>1. <<"proven", known.provenAt>>[1] = "proven"
      OBVIOUS
    <3> QED
      BY <2>2, <3>1
  <2>6. Knows(o, known, could[o]) => Knows(o, known, could[o])'
    BY <1>2, <1>15, <2>4, <2>5 DEF Knows
  <2> QED
    BY <2>3, <2>6
<1>18. ContextOk(o)'
  <2>1. /\ IF c.asked = "answered" THEN Knows(o, c.known, could[o])' ELSE c.known = Anonymous
        /\ c.known = Anonymous => DOMAIN c.memo = {}
    BY <1>3, <1>5, <1>17 DEF ContextOk
  <2>2. PICK known : known = c.known
    OBVIOUS
  <2>3. Knows(o, c.known, could[o])' <=> Knows(o, d.known, could[o])'
    BY <1>8
  <2>4. context'[o].asked # "asking" /\ phase'[o] = "open"
    BY <1>4, <1>8, <1>10, <1>16
  <2> QED
    BY <1>8, <1>10, <2>1, <2>3, <2>4 DEF ContextOk
<1>19. MemoOk(o)'
  <2>1. context'[o].memo = context[o].memo
    BY <1>5, <1>8, <1>10
  <2> QED
    BY <1>3, <1>15, <2>1 DEF MemoOk
<1>20. OperationOk(o)'
  BY <1>2, <1>14, <1>18, <1>19 DEF OperationOk
<1>21. Sent'
  BY <1>1, <1>2, SentStays
<1>22. connection.state = "new" /\ OnSocket(o) => phase'[o] = "new"
  BY <1>1 DEF Inv, Tokens
<1>23. IsContext(context'[o]) /\ faults' \in Nat /\ faults <= faults'
  BY <1>1, <1>3, <1>8, <1>10
<1>24. \A p \in Operations \ {o} : context'[p] = context[p] /\ task'[p] = task[p]
  BY <1>10, <1>12
<1> QED
  BY <1>2, <1>4, <1>10, <1>12, <1>13, <1>14, <1>20, <1>21, <1>22, <1>23, <1>24, OperationMoves

-----------------------------------------------------------------------------
(* The response, and the connection.                                       *)

(* A renewed session is sent to the client that presented it as a cookie.  *)
LEMMA ResentIs ==
  ASSUME NEW sent \in Seq({"own", "renewed"}), NEW request, NEW known
  PROVE  /\ Resent(sent, request, known) \in Seq({"own", "renewed"})
         /\ \/ Resent(sent, request, known) = sent
            \/ /\ sent = <<>> /\ Resent(sent, request, known) = <<"renewed">>
               /\ known.user # None /\ request.cookie = known.token
<1>1. PICK later : later = Resent(sent, request, known)
  OBVIOUS
<1>2. CASE known.user # None /\ known.renewed /\ request.cookie = known.token /\ ~SetsCookie(sent)
  <2>1. sent = <<>>
    BY <1>2 DEF SetsCookie
  <2>2. later = <<"renewed">>
    BY <1>1, <1>2, <2>1 DEF Resent
  <2>3. <<"renewed">> \in Seq({"own", "renewed"})
    OBVIOUS
  <2> QED
    BY <1>1, <1>2, <2>1, <2>2, <2>3
<1>3. CASE ~(known.user # None /\ known.renewed /\ request.cookie = known.token /\ ~SetsCookie(sent))
  <2>1. later = sent
    BY <1>1, <1>3 DEF Resent
  <2> QED
    BY <1>1, <2>1
<1> QED
  BY <1>2, <1>3

LEMMA RenewedOnce ==
  Range(<<"renewed">>) = {"renewed"} /\ Len(<<"renewed">>) = 1
  BY OneListed

LEMMA RespondKeeps ==
  ASSUME Inv, NEW o \in Operations, Respond(o), UNCHANGED route
  PROVE  Inv'
<1>1. PICK http, known, told : /\ http = app.requests[o].http /\ known = context[o].known
                               /\ told = response[http].told \cup {o}
  OBVIOUS
<1>2. PICK sent, later, x : /\ sent = response[http].sent
                            /\ later = Resent(sent, app.requests[o], known)
                            /\ x = [sent |-> later, told |-> told, done |-> TRUE]
  OBVIOUS
<1>3. /\ http # "socket" /\ response' = [response EXCEPT ![http] = x]
      /\ UNCHANGED <<world, connection, phase, could, context, task, faults>>
  BY <1>1, <1>2 DEF Respond
<1>4. UNCHANGED <<model, maxDepth, tuples, app, session, now, connection, route>>
  BY <1>3 DEF world
<1>5. /\ o \in Requests /\ faults \in Nat /\ IsContext(context[o]) /\ ContextOk(o)
      /\ phase = [r \in Requests |-> phase[r]] /\ could = [r \in Requests |-> could[r]]
      /\ context = [p \in Operations |-> context[p]] /\ task = [p \in Operations |-> task[p]]
      /\ task[o] = [f \in app.requests[o].fields |-> task[o][f]]
      /\ response = [h \in Https |-> response[h]] /\ None \notin DOMAIN session
  BY DEF Operations, Inv, Shapes, AreSessions, OperationOk
<1>6. http \in Https /\ ~ByRoute(http)
  <2>1. \A w \in RouteRequests : w # o
    BY DEF Operations, RouteRequests
  <2>2. \A w \in RouteRequests : http = app.requests[w].http => o = w
    BY <1>1, <1>5, <2>1, RequestsWired DEF Inv
  <2> QED
    BY <1>1, <1>5, <2>1, <2>2 DEF Https, ByRoute
<1>7. IsResponse(response[http]) /\ CookieOk(http)
  BY <1>6 DEF Inv, Shapes
<1>8. /\ later \in Seq({"own", "renewed"})
      /\ \/ later = sent
         \/ /\ later = <<"renewed">>
            /\ known.user # None /\ app.requests[o].cookie = known.token
  BY <1>2, <1>7, ResentIs DEF IsResponse
<1>9. /\ response' = [h \in Https |-> response'[h]] /\ response'[http] = x
      /\ \A h \in Https \ {http} : response'[h] = response[h]
  <2>1. PICK next : next = response' /\ next = [response EXCEPT ![http] = x]
    BY <1>3
  <2>2. /\ next = [h \in Https |-> next[h]] /\ next[http] = x
        /\ \A h \in Https \ {http} : next[h] = response[h]
    BY <1>5, <1>6, <2>1
  <2> QED
    BY <2>1, <2>2
<1>10. x.sent = later /\ x.done = TRUE /\ x = [sent |-> x.sent, told |-> x.told, done |-> x.done]
  BY <1>2
<1>11. Https' = Https /\ RouteRequests' = RouteRequests /\ Requests' = Requests
       /\ \A r \in Requests : TokenOf(r)' = TokenOf(r)
  BY <1>4, SameApplication, AskedStays
<1>12. "renewed" \in Range(later) => Len(later) = 1 /\ SentTo(http)
  <2>1. CASE later = sent
    BY <1>2, <1>7, <2>1 DEF CookieOk
  <2>2. CASE /\ later = <<"renewed">>
             /\ known.user # None /\ app.requests[o].cookie = known.token
    <3>1. known # Anonymous
      BY <2>2 DEF Anonymous
    <3>2. context[o].asked = "answered" /\ Knows(o, known, could[o])
      BY <1>1, <1>5, <3>1 DEF ContextOk
    <3>3. TokenOf(o) \in DOMAIN session /\ known.token = TokenOf(o)
      BY <3>1, <3>2 DEF Knows
    <3>4. app.requests[o].cookie = TokenOf(o) /\ app.requests[o].cookie # None
      BY <1>5, <2>2, <3>3
    <3>5. SentTo(http)
      BY <1>1, <1>5, <3>4 DEF SentTo
    <3> QED
      BY <2>2, <3>5, RenewedOnce
  <2> QED
    BY <1>8, <2>1, <2>2
<1>13. CookieOk(http)'
  <2>1. SentTo(http) => SentTo(http)'
    BY <1>4, <1>11 DEF SentTo
  <2>2. \A w \in RouteRequests : app.requests[w].http # http
    BY <1>6 DEF ByRoute
  <2>3. response'[http].sent = later /\ response'[http].done
    BY <1>9, <1>10
  <2> QED
    BY <1>3, <1>4, <1>11, <1>12, <2>1, <2>2, <2>3 DEF CookieOk
<1>14. ASSUME NEW h \in Https PROVE CookieOk(h)' /\ IsResponse(response[h])'
  <2>1. CASE h = http
    BY <1>8, <1>9, <1>10, <1>13, <2>1 DEF IsResponse
  <2>2. CASE h # http
    <3>1. IsResponse(response[h]) /\ CookieOk(h) /\ response'[h] = response[h]
      BY <1>9, <2>2 DEF Inv, Shapes
    <3> QED
      BY <1>4, <1>11, <3>1, CookieKept DEF IsResponse
  <2> QED
    BY <2>1, <2>2
<1>15. Sent'
  BY <1>9, <1>11, <1>14 DEF Sent
<1>16. Onward(o)
  BY <1>3, <1>4, <1>5, OnwardAll DEF Inv, Shapes
<1>17. \A f \in app.requests[o].fields : IsTask(task[o][f]) /\ IsTask(task[o][f])'
  <2> SUFFICES ASSUME NEW f \in app.requests[o].fields
               PROVE  IsTask(task[o][f]) /\ IsTask(task[o][f])'
    OBVIOUS
  <2>1. IsTask(task[o][f])
    BY BusyIs
  <2> QED
    BY <1>3, <2>1 DEF IsTask
<1>18. OperationOk(o)'
  BY <1>3, <1>5, <1>16, <1>17, OperationKept DEF Inv
<1>19. UpToDate(o)'
  BY <1>3, <1>4, <1>5, <1>11, StillFollows DEF Inv
<1>20. connection.state = "new" /\ OnSocket(o) => phase'[o] = "new"
  BY <1>3 DEF Inv, Tokens
<1>21. /\ IsContext(context'[o]) /\ faults' \in Nat /\ faults <= faults'
       /\ phase' = [r \in Requests |-> phase'[r]] /\ could' = [r \in Requests |-> could'[r]]
       /\ \A r \in Requests \ {o} : phase'[r] = phase[r] /\ could'[r] = could[r]
       /\ context' = [p \in Operations |-> context'[p]] /\ task' = [p \in Operations |-> task'[p]]
       /\ task'[o] = [f \in app.requests[o].fields |-> task'[o][f]]
       /\ \A p \in Operations \ {o} : context'[p] = context[p] /\ task'[p] = task[p]
  BY <1>3, <1>5
<1> QED
  BY <1>4, <1>15, <1>17, <1>18, <1>19, <1>20, <1>21, OperationMoves

(* An operation that did not begin knows nothing of who presents what.     *)
LEMMA NewStays ==
  ASSUME Inv, NEW o \in Operations, phase[o] = "new", app' = app, faults' \in Nat,
         phase' = phase, context' = context, task' = task
  PROVE  OperationOk(o)'
<1>1. ContextOk(o)
  BY DEF Inv, OperationOk
<1>2. /\ context[o].asked = "no" /\ context[o].known = Anonymous /\ DOMAIN context[o].memo = {}
      /\ \A f \in app.requests[o].fields : task[o][f] = NotStarted
  BY <1>1 DEF ContextOk
<1>3. ASSUME NEW f \in app.requests[o].fields PROVE TaskOk(o, f)'
  <2>1. task'[o][f] = NotStarted
    BY <1>2
  <2> QED
    BY <2>1, NotStartedOk
<1>4. ContextOk(o)' /\ MemoOk(o)'
  BY <1>2 DEF ContextOk, MemoOk
<1> QED
  BY <1>3, <1>4 DEF OperationOk

LEMMA ConnectKeeps ==
  ASSUME Inv, Connect, UNCHANGED route
  PROVE  Inv'
<1>1. /\ app.socket # None /\ connection.state = "new"
      /\ UNCHANGED <<world, phase, could, context, task, response>>
  BY DEF Connect
<1>2. UNCHANGED <<model, maxDepth, tuples, app, session, now, phase, could, context, task, response, route>>
  BY <1>1 DEF world
<1>3. /\ faults \in Nat /\ faults' \in Nat /\ faults <= faults'
      /\ connection'.state # "new" /\ connection'.credential \in {None, PresentedBySocket}
  <2>1. faults \in Nat
    BY DEF Inv, Shapes
  <2> QED
    BY <2>1 DEF Connect, Fails
<1>4. connection'.credential \in DOMAIN session \cup {None}
  <2>1. /\ app.socket.bearer \in DOMAIN session \cup {None}
        /\ app.socket.cookie \in DOMAIN session \cup {None}
        /\ app.socket.params \in {"garbled", "none"} \cup (DOMAIN session \cup {None})
    BY <1>1 DEF Inv, Tokens
  <2>2. PresentedBySocket \in DOMAIN session \cup {None}
    BY <2>1 DEF PresentedBySocket, PresentedToken
  <2> QED
    BY <1>3, <2>2
<1>5. /\ Requests' = Requests /\ Https' = Https /\ Operations' = Operations
      /\ RouteRequests' = RouteRequests /\ Wired'
  BY <1>2, SameApplication DEF Inv
<1>6. ASSUME NEW r \in Requests, OnSocket(r) PROVE r \in Operations /\ phase[r] = "new"
  <2>1. r \notin RouteRequests
    BY <1>6, RequestsWired DEF Inv
  <2>2. r \in Operations
    BY <2>1 DEF Operations, RouteRequests
  <2> QED
    BY <1>1, <1>6, <2>2 DEF Inv, Tokens
<1>7. ASSUME NEW r \in Requests, ~OnSocket(r) PROVE TokenOf(r)' = TokenOf(r) /\ Onward(r)
  <2>1. TokenOf(r)' = TokenOf(r)
    BY <1>2, <1>7, AskedStays
  <2> QED
    BY <1>2, <1>3, <2>1 DEF Onward, Inv, Shapes
<1>8. ASSUME NEW r \in Requests PROVE UpToDate(r)'
  <2>1. CASE OnSocket(r)
    BY <1>2, <1>6, <2>1 DEF UpToDate
  <2>2. CASE ~OnSocket(r)
    <3>1. UpToDate(r) /\ TokenOf(r)' = TokenOf(r)
      BY <1>7, <2>2 DEF Inv
    <3> QED
      BY <1>2, <3>1, StillFollows
  <2> QED
    BY <2>1, <2>2
<1>9. ASSUME NEW o \in Operations PROVE OperationOk(o)'
  <2>1. o \in Requests /\ OperationOk(o) /\ IsContext(context[o])
        /\ \A f \in app.requests[o].fields : IsTask(task[o][f])
    BY DEF Operations, Inv, Shapes
  <2>2. CASE OnSocket(o)
    BY <1>2, <1>3, <1>6, <2>1, <2>2, NewStays
  <2>3. CASE ~OnSocket(o)
    BY <1>2, <1>7, <2>1, <2>3, OperationKept DEF Inv
  <2> QED
    BY <2>2, <2>3
<1>10. ASSUME NEW w \in RouteRequests PROVE RouteOk(w)' /\ IsRoute(route[w])'
  <2>1. w \in Requests /\ RouteOk(w) /\ IsRoute(route[w]) /\ ~OnSocket(w)
    BY RequestsWired DEF RouteRequests, Inv, Shapes
  <2>2. IsRoute(route[w])'
    BY <1>3, <2>1 DEF IsRoute
  <2> QED
    BY <1>2, <1>7, <2>1, <2>2, RouteKept DEF Inv
<1>11. ASSUME NEW h \in Https PROVE CookieOk(h)' /\ IsResponse(response[h])'
  <2>1. IsResponse(response[h]) /\ CookieOk(h)
    BY DEF Inv, Shapes
  <2> QED
    BY <1>2, <1>7, <2>1, CookieKept DEF IsResponse
<1>12. ASSUME NEW o \in Operations
       PROVE  IsContext(context[o])' /\ \A f \in app.requests[o].fields : IsTask(task[o][f])'
  <2>1. IsContext(context[o]) /\ \A f \in app.requests[o].fields : IsTask(task[o][f])
    BY DEF Inv, Shapes
  <2> QED
    BY <1>2, <1>3, <2>1 DEF IsContext, IsTask
<1>13. Shapes'
  <2>1. AreSessions(session)' /\ now' \in Nat
    BY <1>2 DEF Inv, Shapes, AreSessions
  <2>2. /\ phase' = [r \in Requests |-> phase'[r]] /\ could' = [r \in Requests |-> could'[r]]
        /\ response' = [h \in Https |-> response'[h]]
        /\ context' = [o \in Operations |-> context'[o]] /\ task' = [o \in Operations |-> task'[o]]
        /\ \A o \in Operations : task'[o] = [f \in app.requests[o].fields |-> task'[o][f]]
        /\ route' = [w \in RouteRequests |-> route'[w]]
    BY <1>2 DEF Inv, Shapes
  <2> QED
    BY <1>2, <1>3, <1>5, <1>10, <1>11, <1>12, <2>1, <2>2 DEF Shapes
<1>14. Tokens'
  <2>1. Tokens
    BY DEF Inv
  <2> QED
    BY <1>2, <1>3, <1>4, <1>5, <2>1 DEF Tokens
<1> QED
  BY <1>5, <1>8, <1>9, <1>10, <1>11, <1>13, <1>14 DEF Inv

(* What the operations do keeps the invariant.                             *)
LEMMA OperationsMove ==
  ASSUME Inv, RequestStep, UNCHANGED route
  PROVE  Inv'
<1>1. CASE Connect
  BY <1>1, ConnectKeeps
<1>2. CASE \E o \in Operations : Begin(o) \/ Settle(o) \/ Finish(o) \/ Event(o) \/ Respond(o)
  BY <1>2, BeginKeeps, SettleKeeps, FinishKeeps, EventKeeps, RespondKeeps
<1>3. CASE \E o \in Operations : \E key \in DOMAIN context[o].memo : AnswerMemo(o, key)
  BY <1>3, AnswerMemoKeeps
<1>4. CASE \E o \in Operations : \E f \in app.requests[o].fields :
             Start(o, f) \/ Admit(o, f) \/ Load(o, f) \/ Proceed(o, f)
  BY <1>4, StartKeeps, AdmitKeeps, LoadKeeps, ProceedKeeps
<1>5. CASE \E o \in Operations : \E f \in app.requests[o].fields :
             \E id \in task[o][f].waits : AnswerOwn(o, f, id)
  BY <1>5, AnswerOwnKeeps
<1> QED
  BY <1>1, <1>2, <1>3, <1>4, <1>5 DEF RequestStep

-----------------------------------------------------------------------------
(* A step of one route.                                                    *)

LEMMA RouteMoves ==
  ASSUME Inv, UNCHANGED <<model, maxDepth, tuples, app, now, connection, context, task>>,
         AreSessions(session'), DOMAIN session' = DOMAIN session,
         \A token \in DOMAIN session : session'[token].user = session[token].user,
         faults' \in Nat, faults <= faults', NEW w \in RouteRequests,
         phase' = [r \in Requests |-> phase'[r]], could' = [r \in Requests |-> could'[r]],
         \A r \in Requests \ {w} : phase'[r] = phase[r] /\ could[r] \subseteq could'[r],
         \A r \in Requests : UpToDate(r)',
         route' = [v \in RouteRequests |-> route'[v]],
         \A v \in RouteRequests \ {w} : route'[v] = route[v],
         IsRoute(route[w])', RouteOk(w)', Sent'
  PROVE  Inv'
<1>1. /\ Requests' = Requests /\ Https' = Https /\ Operations' = Operations
      /\ RouteRequests' = RouteRequests /\ Wired'
  BY SameApplication DEF Inv
<1>2. now \in Nat
  BY DEF Inv, Shapes
<1>3. ASSUME NEW r \in Requests, r # w PROVE Onward(r)
  BY <1>2, <1>3, OnwardAll DEF Inv
<1>4. ASSUME NEW o \in Operations
      PROVE  /\ OperationOk(o)' /\ IsContext(context[o])'
             /\ \A f \in app.requests[o].fields : IsTask(task[o][f])'
  <2>1. o \in Requests /\ o # w /\ OperationOk(o) /\ IsContext(context[o])
        /\ \A f \in app.requests[o].fields : IsTask(task[o][f])
    BY DEF Operations, RouteRequests, Inv, Shapes
  <2>2. OperationOk(o)'
    BY <1>3, <2>1, OperationKept DEF Inv
  <2>3. IsContext(context[o])' /\ \A f \in app.requests[o].fields : IsTask(task[o][f])'
    <3>1. faults \in Nat
      BY DEF Inv, Shapes
    <3>2. IsContext(context[o])'
      BY <2>1 DEF IsContext
    <3>3. ASSUME NEW f \in app.requests[o].fields PROVE IsTask(task[o][f])'
      <4>1. PICK t : t = task[o][f]
        OBVIOUS
      <4>2. IsTask(t)
        BY <2>1, <4>1
      <4>3. IsTask(t)'
        BY <3>1, <4>2 DEF IsTask
      <4>4. task'[o][f] = t
        BY <4>1
      <4> QED
        BY <4>3, <4>4 DEF IsTask
    <3> QED
      BY <3>2, <3>3
  <2> QED
    BY <2>2, <2>3
<1>5. ASSUME NEW v \in RouteRequests PROVE RouteOk(v)' /\ IsRoute(route[v])'
  <2>1. CASE v = w
    BY <2>1
  <2>2. CASE v # w
    <3>1. v \in Requests /\ RouteOk(v) /\ IsRoute(route[v]) /\ faults \in Nat
      BY DEF RouteRequests, Inv, Shapes
    <3>2. IsRoute(route[v])'
      BY <2>2, <3>1 DEF IsRoute
    <3> QED
      BY <1>3, <2>2, <3>1, <3>2, RouteKept DEF Inv
  <2> QED
    BY <2>1, <2>2
<1>6. Shapes'
  <2>1. AreSessions(session)' /\ now' \in Nat
    BY <1>2 DEF AreSessions
  <2>2. /\ context' = [o \in Operations |-> context'[o]] /\ task' = [o \in Operations |-> task'[o]]
        /\ \A o \in Operations : task'[o] = [f \in app.requests[o].fields |-> task'[o][f]]
    BY DEF Inv, Shapes
  <2> QED
    BY <1>1, <1>4, <1>5, <2>1, <2>2 DEF Shapes, Sent
<1>7. Tokens'
  <2>1. \A o \in Operations : o # w /\ o \in Requests
    BY DEF Operations, RouteRequests
  <2>2. \A o \in Operations : OnSocket(o)' = OnSocket(o)
    BY DEF OnSocket
  <2>3. Tokens
    BY DEF Inv
  <2> QED
    BY <1>1, <2>1, <2>2, <2>3 DEF Tokens
<1> QED
  BY <1>1, <1>4, <1>5, <1>6, <1>7 DEF Inv, Sent

(* Where a route stands, and the others as they were.                      *)
Stands(w, x) ==
  /\ route' = [v \in RouteRequests |-> route'[v]] /\ route'[w] = x
  /\ \A v \in RouteRequests \ {w} : route'[v] = route[v]

At(pc, known, status, mark) == [pc |-> pc, known |-> known, status |-> status, mark |-> mark]

LEMMA AtIs ==
  ASSUME NEW pc, NEW known, NEW status, NEW mark, NEW x, x = At(pc, known, status, mark)
  PROVE  /\ x.pc = pc /\ x.known = known /\ x.status = status /\ x.mark = mark
         /\ x = [pc |-> x.pc, known |-> x.known, status |-> x.status, mark |-> x.mark]
  BY DEF At

LEMMA RouteSet ==
  ASSUME Inv, NEW w \in RouteRequests, NEW x, route' = [route EXCEPT ![w] = x]
  PROVE  Stands(w, x)
<1>1. route = [v \in RouteRequests |-> route[v]]
  BY DEF Inv, Shapes
<1>2. PICK next : next = route' /\ next = [route EXCEPT ![w] = x]
  OBVIOUS
<1>3. /\ next = [v \in RouteRequests |-> next[v]] /\ next[w] = x
      /\ \A v \in RouteRequests \ {w} : next[v] = route[v]
  BY <1>1, <1>2
<1> QED
  BY <1>2, <1>3 DEF Stands

(* Two fields of a route set.                                              *)
LEMMA AnswerStands ==
  ASSUME Inv, NEW w \in RouteRequests, NEW status, Answer(w, status)
  PROVE  Stands(w, At("resend", route[w].known, status, route[w].mark))
<1>1. PICK old, a, x : /\ old = route[w] /\ a = [old EXCEPT !.pc = "resend"]
                       /\ x = [a EXCEPT !.status = status]
  OBVIOUS
<1>2. old = [pc |-> old.pc, known |-> old.known, status |-> old.status, mark |-> old.mark]
  BY <1>1 DEF Inv, Shapes, IsRoute
<1>3. a = [pc |-> "resend", known |-> old.known, status |-> old.status, mark |-> old.mark]
  BY <1>1, <1>2
<1>4. x = [pc |-> "resend", known |-> old.known, status |-> status, mark |-> old.mark]
  BY <1>1, <1>3
<1>5. route = [v \in RouteRequests |-> route[v]]
  BY DEF Inv, Shapes
<1>6. route' = [route EXCEPT ![w] = x]
  BY <1>1, <1>5 DEF Answer
<1>7. Stands(w, x)
  BY <1>6, RouteSet
<1> QED
  BY <1>1, <1>4, <1>7 DEF At

LEMMA PassesStands ==
  ASSUME Inv, NEW w \in RouteRequests, NEW next, Passes(w, next)
  PROVE  Stands(w, At(next, route[w].known, route[w].status, faults))
<1>1. PICK old, a, x : /\ old = route[w] /\ a = [old EXCEPT !.pc = next]
                       /\ x = [a EXCEPT !.mark = faults]
  OBVIOUS
<1>2. old = [pc |-> old.pc, known |-> old.known, status |-> old.status, mark |-> old.mark]
  BY <1>1 DEF Inv, Shapes, IsRoute
<1>3. a = [pc |-> next, known |-> old.known, status |-> old.status, mark |-> old.mark]
  BY <1>1, <1>2
<1>4. x = [pc |-> next, known |-> old.known, status |-> old.status, mark |-> faults]
  BY <1>1, <1>3
<1>5. route = [v \in RouteRequests |-> route[v]]
  BY DEF Inv, Shapes
<1>6. route' = [route EXCEPT ![w] = x]
  BY <1>1, <1>5 DEF Passes
<1>7. Stands(w, x)
  BY <1>6, RouteSet
<1> QED
  BY <1>1, <1>4, <1>7 DEF At

(* A route whose next middleware runs.                                     *)
LEMMA RoutePassed ==
  ASSUME Inv, NEW w \in RouteRequests, Onward(w), phase[w] = "open", phase'[w] = "open",
         NEW next \in {"fresh", "subject", "can", "handler"}, NEW known, NEW mark \in Nat,
         mark <= faults', Stands(w, At(next, known, 0, mark)), Knows(w, known, could[w]),
         app.requests[w].required => known # Anonymous,
         next # "fresh" /\ app.requests[w].maxAge # NoAge =>
           <<"fresh", app.requests[w].maxAge>> \in could[w],
         next = "can" => app.requests[w].check # None /\ known # Anonymous,
         next = "handler" /\ app.requests[w].check # None =>
           \E id \in app.requests[w].check.targets : Says("yes", app.requests[w].check, id) \in could[w]
  PROVE  IsRoute(route[w])' /\ RouteOk(w)'
<1>1. PICK x, request : x = route'[w] /\ request = app.requests[w]
  OBVIOUS
<1>2. /\ x.pc = next /\ x.known = known /\ x.status = 0 /\ x.mark = mark
      /\ x = [pc |-> x.pc, known |-> x.known, status |-> x.status, mark |-> x.mark]
  BY <1>1, AtIs DEF Stands
<1>3. app'.requests[w] = request /\ could[w] \subseteq could'[w] /\ faults' \in Nat
  BY <1>1 DEF Onward
<1>4. IsRoute(route[w])'
  BY <1>1, <1>2, <1>3 DEF IsRoute
<1>5. Knows(w, known, could[w])'
  BY KnowsKept
<1>6. RouteWasTrue(w)'
  BY <1>1, <1>2 DEF RouteWasTrue
<1>7. Knows(w, x.known, could[w])'
  BY <1>2, <1>5
<1>8. /\ next # "fresh" /\ request.maxAge # NoAge => <<"fresh", request.maxAge>> \in could'[w]
      /\ next = "can" => request.check # None /\ known # Anonymous
      /\ request.required => known # Anonymous
      /\ next = "handler" /\ request.check # None =>
           \E id \in request.check.targets : Says("yes", request.check, id) \in could'[w]
  BY <1>1, <1>3
<1> QED
  BY <1>1, <1>2, <1>3, <1>4, <1>6, <1>7, <1>8 DEF RouteOk

(* What a status says is so now.                                           *)
StatusIs(w, status) ==
  LET request == app.requests[w]
      asks(answer) == request.check # None
                        /\ \E id \in request.check.targets : Says(answer, request.check, id) \in could[w]
  IN  /\ status \in {200, 401, 403, 404, 500, 503}
      /\ status = 200 =>
           /\ request.required => <<"known">> \in could[w]
           /\ request.maxAge # NoAge => <<"fresh", request.maxAge>> \in could[w]
           /\ request.check # None => asks("yes")
      /\ status = 401 => <<"anonymous">> \in could[w]
      /\ status = 403 => (request.maxAge # NoAge /\ Older(w, request.maxAge)) \/ asks("no")
      /\ status = 404 => request.check.targets \cap app.missing # {}
      /\ status \in {500, 503} =>
           faults' > route[w].mark \/ asks("depth") \/ asks("ctx") \/ asks("data")

(* A route answered.                                                       *)
LEMMA RouteAnswered ==
  ASSUME Inv, NEW w \in RouteRequests, Onward(w), phase[w] = "open", phase'[w] = "open",
         NEW pc \in {"resend", "done"}, NEW known, pc = "resend" => Knows(w, known, could[w]),
         NEW status, Stands(w, At(pc, known, status, route[w].mark)), StatusIs(w, status)
  PROVE  IsRoute(route[w])' /\ RouteOk(w)'
<1>1. PICK x, request, facts, mark :
        /\ x = route'[w] /\ request = app.requests[w] /\ facts = could'[w] /\ mark = route[w].mark
  OBVIOUS
<1>2. /\ x.pc = pc /\ x.known = known /\ x.status = status /\ x.mark = mark
      /\ x = [pc |-> x.pc, known |-> x.known, status |-> x.status, mark |-> x.mark]
  BY <1>1, AtIs DEF Stands
<1>3. /\ app'.requests[w] = request /\ could[w] \subseteq facts /\ faults' \in Nat /\ app' = app
      /\ faults \in Nat /\ faults <= faults'
  BY <1>1 DEF Onward
<1>4. mark \in Nat /\ mark <= faults
  BY <1>1 DEF Inv, Shapes, IsRoute
<1>5. IsRoute(route[w])'
  BY <1>1, <1>2, <1>3, <1>4 DEF IsRoute
<1>6. request.maxAge \in Nat
  BY <1>1, RequestsWired DEF Inv
<1>7. status = 403 =>
        \/ request.maxAge # NoAge /\ Older(w, request.maxAge)'
        \/ request.check # None
             /\ \E id \in request.check.targets : Says("no", request.check, id) \in facts
  <2>1. Older(w, request.maxAge) => Older(w, request.maxAge)'
    BY <1>6, OlderKept
  <2> QED
    BY <1>1, <1>3, <2>1 DEF StatusIs
<1>8. Older(w, request.maxAge)' => ProvenBefore(facts, request.maxAge)'
  BY <1>1 DEF Older, ProvenBefore
<1>9. RouteWasTrue(w)'
  <2>0. /\ route'[w].status = status /\ route'[w].mark = mark /\ could'[w] = facts
        /\ app'.requests[w] = request
    BY <1>1, <1>2, <1>3
  <2>1. status = 200 =>
          /\ request.required => <<"known">> \in facts
          /\ request.maxAge # NoAge => <<"fresh", request.maxAge>> \in facts
          /\ request.check # None => \E id \in request.check.targets :
               <<"yes", request.check.name, request.check.type, id>> \in facts
    <3> SUFFICES ASSUME status = 200
                 PROVE  /\ request.required => <<"known">> \in facts
                        /\ request.maxAge # NoAge => <<"fresh", request.maxAge>> \in facts
                        /\ request.check # None => \E id \in request.check.targets :
                             <<"yes", request.check.name, request.check.type, id>> \in facts
      OBVIOUS
    <3>1. request.required => <<"known">> \in facts
      BY <1>1, <1>3 DEF StatusIs
    <3>2. request.maxAge # NoAge => <<"fresh", request.maxAge>> \in facts
      BY <1>1, <1>3 DEF StatusIs
    <3>3. ASSUME request.check # None
          PROVE  \E id \in request.check.targets :
                   <<"yes", request.check.name, request.check.type, id>> \in facts
      BY <1>1, <1>3, <3>3 DEF StatusIs, Says
    <3> QED
      BY <3>1, <3>2, <3>3
  <2>2. status = 401 => <<"anonymous">> \in facts
    BY <1>1, <1>3 DEF StatusIs
  <2>3. status = 403 =>
          \/ request.maxAge # NoAge /\ ProvenBefore(facts, request.maxAge)'
          \/ request.check # None /\ \E id \in request.check.targets :
               <<"no", request.check.name, request.check.type, id>> \in facts
    BY <1>7, <1>8 DEF Says
  <2>4. status = 404 => request.check.targets \cap app'.missing # {}
    BY <1>1, <1>3 DEF StatusIs
  <2>5. status \in {500, 503} =>
          \/ faults' > mark
          \/ request.check # None /\ \E why \in {"depth", "ctx", "data"} :
               \E id \in request.check.targets :
                 <<why, request.check.name, request.check.type, id>> \in facts
    BY <1>1, <1>3 DEF StatusIs, Says
  <2>6. CASE status = 200
    BY <2>0, <2>1, <2>6 DEF RouteWasTrue
  <2>7. CASE status = 401
    BY <2>0, <2>2, <2>7 DEF RouteWasTrue
  <2>8. CASE status = 403
    BY <2>0, <2>3, <2>8 DEF RouteWasTrue
  <2>9. CASE status = 404
    BY <2>0, <2>4, <2>9 DEF RouteWasTrue
  <2>10. CASE status \in {500, 503}
    BY <2>0, <2>5, <2>10 DEF RouteWasTrue
  <2> QED
    BY <2>6, <2>7, <2>8, <2>9, <2>10 DEF StatusIs
<1>10. pc = "resend" => Knows(w, x.known, could[w])'
  BY <1>2, KnowsKept
<1> QED
  BY <1>1, <1>2, <1>3, <1>5, <1>7, <1>9, <1>10 DEF RouteOk

(* The response of a route, and those of others.                           *)
LEMMA RouteCookies ==
  ASSUME Inv, UNCHANGED <<app, connection>>, NEW w \in RouteRequests, NEW x, Stands(w, x),
         response' = [h \in Https |-> response'[h]],
         \A h \in Https \ {app.requests[w].http} : response'[h] = response[h],
         IsResponse(response'[app.requests[w].http]), CookieOk(app.requests[w].http)'
  PROVE  Sent'
<1>1. Https' = Https /\ \A r \in Requests : TokenOf(r)' = TokenOf(r)
  BY SameApplication, AskedStays
<1>2. ASSUME NEW h \in Https PROVE CookieOk(h)' /\ IsResponse(response[h])'
  <2>1. CASE h = app.requests[w].http
    <3>1. IsResponse(response[h])'
      BY <2>1 DEF IsResponse
    <3> QED
      BY <2>1, <3>1
  <2>2. CASE h # app.requests[w].http
    <3>1. IsResponse(response[h]) /\ CookieOk(h) /\ response'[h] = response[h]
      BY <2>2 DEF Inv, Shapes
    <3>2. \A v \in RouteRequests : app.requests[v].http = h => route'[v].pc = route[v].pc
      BY <2>2 DEF Stands
    <3>3. CookieOk(h)'
      BY <1>1, <3>1, <3>2, CookieKept
    <3>4. IsResponse(response[h])'
      BY <3>1 DEF IsResponse
    <3> QED
      BY <3>3, <3>4
  <2> QED
    BY <2>1, <2>2
<1> QED
  BY <1>1, <1>2 DEF Sent

(* The cookies of a route that is not done.                                *)
LEMMA RouteCookieIs ==
  ASSUME Inv, NEW w \in RouteRequests, NEW h, h = app.requests[w].http
  PROVE  /\ h \in Https /\ h # "socket" /\ ByRoute(h)
         /\ IsResponse(response[h]) /\ CookieOk(h)
         /\ \A v \in RouteRequests : app.requests[v].http = h => v = w
         /\ route[w].pc \notin {"resend", "done"} => response[h].sent = <<>>
         /\ route[w].pc = "resend" => response[h].sent \in {<<>>, <<"own">>}
<1>1. w \in Requests /\ ~OnSocket(w)
      /\ \A r \in Requests : app.requests[r].http = app.requests[w].http => r = w
  BY RequestsWired DEF RouteRequests, Inv
<1>2. h \in Https /\ h # "socket" /\ ByRoute(h)
  BY <1>1 DEF Https, OnSocket, ByRoute
<1>3. IsResponse(response[h]) /\ CookieOk(h)
  BY <1>2 DEF Inv, Shapes
<1>4. \A v \in RouteRequests : app.requests[v].http = h => v = w
  BY <1>1 DEF RouteRequests
<1>5. /\ route[w].pc \notin {"resend", "done"} => response[h].sent = <<>>
      /\ route[w].pc = "resend" => response[h].sent \in {<<>>, <<"own">>}
  BY <1>3 DEF CookieOk
<1> QED
  BY <1>2, <1>3, <1>4, <1>5

LEMMA RangesAre ==
  Range(<<>>) = {} /\ Range(<<"own">>) = {"own"} /\ Range(<<"renewed">>) = {"renewed"}
<1>1. DOMAIN <<>> = {}
  OBVIOUS
<1>2. Range(<<>>) = {}
  BY <1>1 DEF Range
<1> QED
  BY <1>2, OneListed

(* A middleware ran: nothing but where its route stands moved.             *)
LEMMA RouteAlone ==
  ASSUME Inv, Unmoved, UNCHANGED <<phase, response, context, task>>,
         faults' \in Nat, faults <= faults',
         NEW w \in RouteRequests, route[w].pc \notin {"resend", "done"},
         NEW x, Stands(w, x), IsRoute(route[w])', RouteOk(w)'
  PROVE  Inv'
<1>1. UNCHANGED <<model, maxDepth, tuples, app, session, now, connection, could>>
  BY DEF Unmoved, world
<1>2. PICK h : h = app.requests[w].http
  OBVIOUS
<1>3. /\ h \in Https /\ h # "socket" /\ ByRoute(h)
      /\ IsResponse(response[h]) /\ CookieOk(h)
      /\ \A v \in RouteRequests : app.requests[v].http = h => v = w
      /\ response[h].sent = <<>>
  BY <1>2, RouteCookieIs
<1>4. CookieOk(h)'
  <2>1. RouteRequests' = RouteRequests
    BY <1>1, SameApplication
  <2>2. PICK sent : sent = response'[h].sent /\ sent = <<>>
    BY <1>3
  <2>3. "renewed" \notin Range(sent)
    BY <2>2, RangesAre
  <2> QED
    BY <1>1, <2>1, <2>2, <2>3 DEF CookieOk
<1>5. response' = [g \in Https |-> response'[g]]
  BY DEF Inv, Shapes
<1>6. Sent'
  BY <1>1, <1>2, <1>3, <1>4, <1>5, RouteCookies
<1>7. ASSUME NEW r \in Requests PROVE UpToDate(r)'
  BY <1>1, AskedStays, StillFollows DEF Inv
<1>8. /\ AreSessions(session') /\ DOMAIN session' = DOMAIN session
      /\ \A token \in DOMAIN session : session'[token].user = session[token].user
  BY <1>1 DEF Inv, Shapes
<1>9. /\ phase' = [r \in Requests |-> phase'[r]] /\ could' = [r \in Requests |-> could'[r]]
      /\ \A r \in Requests \ {w} : phase'[r] = phase[r] /\ could[r] \subseteq could'[r]
  BY <1>1 DEF Inv, Shapes
<1>10. /\ route' = [v \in RouteRequests |-> route'[v]]
       /\ \A v \in RouteRequests \ {w} : route'[v] = route[v]
  BY DEF Stands
<1> QED
  BY <1>1, <1>6, <1>7, <1>8, <1>9, <1>10, RouteMoves

(* What a route knows where it stands.                                     *)
LEMMA RouteIs ==
  ASSUME Inv, NEW w \in RouteRequests
  PROVE  /\ w \in Requests /\ faults \in Nat /\ route[w].mark \in Nat /\ route[w].mark <= faults
         /\ route[w].pc \notin {"session", "done"} =>
              phase[w] = "open" /\ Knows(w, route[w].known, could[w])
         /\ route[w].pc \notin {"resend", "done"} => route[w].status = 0
         /\ route[w].pc \in {"fresh", "subject", "can", "handler"} /\ app.requests[w].required =>
              route[w].known # Anonymous
         /\ route[w].pc \in {"subject", "can", "handler"} /\ app.requests[w].maxAge # NoAge =>
              <<"fresh", app.requests[w].maxAge>> \in could[w]
         /\ route[w].pc = "can" => app.requests[w].check # None /\ route[w].known # Anonymous
         /\ route[w].pc = "handler" /\ app.requests[w].check # None =>
              \E id \in app.requests[w].check.targets :
                Says("yes", app.requests[w].check, id) \in could[w]
<1>1. w \in Requests /\ faults \in Nat /\ IsRoute(route[w]) /\ RouteOk(w)
  BY DEF RouteRequests, Inv, Shapes
<1> QED
  BY <1>1 DEF IsRoute, RouteOk

(* A route that answered, or stopped.                                      *)
LEMMA AnswerKeeps ==
  ASSUME Inv, Unmoved, UNCHANGED <<phase, response, context, task>>,
         faults' \in Nat, faults <= faults',
         NEW w \in RouteRequests, route[w].pc \in {"fresh", "subject", "can", "handler"},
         NEW status, Answer(w, status), StatusIs(w, status)
  PROVE  Inv'
<1>1. UNCHANGED <<model, maxDepth, tuples, app, session, now, connection, could>>
  BY DEF Unmoved, world
<1>2. Stands(w, At("resend", route[w].known, status, route[w].mark))
  BY AnswerStands
<1>3. phase[w] = "open" /\ Knows(w, route[w].known, could[w])
  BY RouteIs
<1>4. Onward(w)
  BY <1>1, OnwardAll DEF Inv, Shapes
<1>5. IsRoute(route[w])' /\ RouteOk(w)'
  BY <1>2, <1>3, <1>4, RouteAnswered
<1> QED
  BY <1>2, <1>5, RouteAlone

LEMMA PassesKeeps ==
  ASSUME Inv, Unmoved, UNCHANGED <<phase, response, context, task, faults>>,
         NEW w \in RouteRequests, route[w].pc \in {"fresh", "subject", "can"},
         NEW next \in {"subject", "can", "handler"}, Passes(w, next),
         app.requests[w].maxAge # NoAge => <<"fresh", app.requests[w].maxAge>> \in could[w],
         next = "can" => app.requests[w].check # None /\ route[w].known # Anonymous,
         next = "handler" /\ app.requests[w].check # None =>
           \E id \in app.requests[w].check.targets : Says("yes", app.requests[w].check, id) \in could[w]
  PROVE  Inv'
<1>1. UNCHANGED <<model, maxDepth, tuples, app, session, now, connection, could>>
  BY DEF Unmoved, world
<1>2. /\ phase[w] = "open" /\ Knows(w, route[w].known, could[w]) /\ faults \in Nat
      /\ route[w].status = 0
      /\ app.requests[w].required => route[w].known # Anonymous
  BY RouteIs
<1>3. PICK known : known = route[w].known
  OBVIOUS
<1>4. Stands(w, At(next, known, 0, faults))
  BY <1>2, <1>3, PassesStands
<1>5. Onward(w)
  BY <1>1, <1>2, OnwardAll DEF Inv, Shapes
<1>6. IsRoute(route[w])' /\ RouteOk(w)'
  <2>1. faults <= faults' /\ phase'[w] = "open"
    BY <1>2
  <2>2. Knows(w, known, could[w]) /\ (app.requests[w].required => known # Anonymous)
        /\ (next = "can" => app.requests[w].check # None /\ known # Anonymous)
    BY <1>2, <1>3
  <2> QED
    BY <1>2, <1>4, <1>5, <2>1, <2>2, RoutePassed
<1> QED
  BY <1>2, <1>4, <1>6, RouteAlone

LEMMA ReceiveKeeps ==
  ASSUME Inv, NEW w \in RouteRequests, Receive(w), UNCHANGED <<context, task>>
  PROVE  Inv'
<1>1. /\ phase[w] = "new" /\ phase' = [phase EXCEPT ![w] = "open"] /\ could' = Since(w)
      /\ UNCHANGED <<world, connection, response, route, faults>>
  BY DEF Receive
<1>2. UNCHANGED <<model, maxDepth, tuples, app, session, now, connection, route>>
  BY <1>1 DEF world
<1>3. /\ w \in Requests /\ faults \in Nat /\ IsRoute(route[w]) /\ RouteOk(w)
      /\ route = [v \in RouteRequests |-> route[v]]
  BY DEF RouteRequests, Inv, Shapes
<1>4. /\ phase' = [q \in Requests |-> phase'[q]] /\ could' = [q \in Requests |-> could'[q]]
      /\ phase'[w] = "open"
      /\ \A q \in Requests \ {w} : phase'[q] = phase[q] /\ could'[q] = could[q]
      /\ UpToDate(w)'
  BY <1>1, <1>2, <1>3, SinceIs DEF Inv
<1>5. ASSUME NEW r \in Requests PROVE UpToDate(r)'
  <2>1. CASE r = w
    BY <1>4, <2>1
  <2>2. CASE r # w
    BY <1>2, <1>4, <2>2, AskedStays, StillFollows DEF Inv
  <2> QED
    BY <2>1, <2>2
<1>6. PICK x : x = route[w]
  OBVIOUS
<1>7. x.pc = "session" /\ x.status = 0
  BY <1>1, <1>3, <1>6 DEF RouteOk
<1>8. RouteOk(w)'
  <2>1. route'[w] = x
    BY <1>1, <1>6
  <2>2. RouteWasTrue(w)'
    BY <1>7, <2>1 DEF RouteWasTrue
  <2> QED
    BY <1>4, <1>7, <2>1, <2>2 DEF RouteOk
<1>9. IsRoute(route[w])'
  BY <1>1, <1>3 DEF IsRoute
<1>10. Sent'
  BY <1>1, <1>2, SentStays
<1>11. /\ AreSessions(session') /\ DOMAIN session' = DOMAIN session
       /\ \A token \in DOMAIN session : session'[token].user = session[token].user
  BY <1>2 DEF Inv, Shapes
<1>12. /\ route' = [v \in RouteRequests |-> route'[v]]
       /\ \A v \in RouteRequests \ {w} : route'[v] = route[v]
       /\ faults' \in Nat /\ faults <= faults'
  BY <1>1, <1>3
<1>13. \A q \in Requests \ {w} : phase'[q] = phase[q] /\ could[q] \subseteq could'[q]
  BY <1>4
<1> QED
  BY <1>2, <1>4, <1>5, <1>8, <1>9, <1>10, <1>11, <1>12, <1>13, RouteMoves

(* session() stopped its route.                                            *)
Stops(w, status) ==
  \/ route' = [route EXCEPT ![w].pc = "done", ![w].status = status]
  \/ route' = [route EXCEPT ![w] = [route[w] EXCEPT !.pc = "done", !.status = status]]

LEMMA StopStands ==
  ASSUME Inv, NEW w \in RouteRequests, NEW status, Stops(w, status)
  PROVE  Stands(w, At("done", route[w].known, status, route[w].mark))
<1>1. PICK old, a, x : /\ old = route[w] /\ a = [old EXCEPT !.pc = "done"]
                       /\ x = [a EXCEPT !.status = status]
  OBVIOUS
<1>2. old = [pc |-> old.pc, known |-> old.known, status |-> old.status, mark |-> old.mark]
  BY <1>1 DEF Inv, Shapes, IsRoute
<1>3. a = [pc |-> "done", known |-> old.known, status |-> old.status, mark |-> old.mark]
  BY <1>1, <1>2
<1>4. x = [pc |-> "done", known |-> old.known, status |-> status, mark |-> old.mark]
  BY <1>1, <1>3
<1>5. route = [v \in RouteRequests |-> route[v]]
  BY DEF Inv, Shapes
<1>6. route' = [route EXCEPT ![w] = x]
  BY <1>1, <1>5 DEF Stops
<1>7. Stands(w, x)
  BY <1>6, RouteSet
<1> QED
  BY <1>1, <1>4, <1>7 DEF At

LEMMA SessionKeeps ==
  ASSUME Inv, NEW w \in RouteRequests, Session(w), UNCHANGED <<context, task>>
  PROVE  Inv'
<1>1. /\ phase[w] = "open" /\ route[w].pc = "session" /\ UNCHANGED <<phase, response>> /\ Unmoved
  BY DEF Session
<1>2. UNCHANGED <<model, maxDepth, tuples, app, session, now, connection, could>>
  BY <1>1 DEF Unmoved, world
<1>3. /\ w \in Requests /\ faults \in Nat /\ route[w].mark \in Nat /\ route[w].mark <= faults
      /\ route[w].status = 0
  BY <1>1, RouteIs
<1>4. PICK old : old = route[w]
  OBVIOUS
<1>5. old = [pc |-> old.pc, known |-> old.known, status |-> old.status, mark |-> old.mark]
  BY <1>4 DEF Inv, Shapes, IsRoute
<1>6. ASSUME NEW known \in Authenticate(session, TokenOf(w)), UNCHANGED faults,
             route' = [route EXCEPT ![w] =
               IF known = Anonymous /\ app.requests[w].required
                 THEN [@ EXCEPT !.pc = "done", !.status = 401]
                 ELSE [@ EXCEPT !.pc = "fresh", !.known = known]]
      PROVE  Inv'
  <2>1. Knows(w, known, could[w])
    BY <1>1, <1>3, KnownFollows
  <2>0. faults' \in Nat /\ faults <= faults' /\ route[w].pc \notin {"resend", "done"}
    BY <1>1, <1>3, <1>6
  <2>2. Onward(w)
    BY <1>2, <1>3, <1>6, OnwardAll DEF Inv, Shapes
  <2>3. CASE known = Anonymous /\ app.requests[w].required
    <3>1. route' = [route EXCEPT ![w] = [@ EXCEPT !.pc = "done", !.status = 401]]
      BY <1>6, <2>3
    <3>2. Stops(w, 401)
      BY <3>1 DEF Stops
    <3>6. Stands(w, At("done", route[w].known, 401, route[w].mark))
      BY <3>2, StopStands
    <3>7. StatusIs(w, 401)
      <4>1. <<"anonymous">> \in could[w]
        BY <2>1, <2>3 DEF Knows, Anonymous
      <4> QED
        BY <4>1 DEF StatusIs
    <3>8. IsRoute(route[w])' /\ RouteOk(w)'
      BY <1>1, <2>2, <3>6, <3>7, RouteAnswered
    <3> QED
      BY <1>1, <2>0, <3>6, <3>8, RouteAlone
  <2>4. CASE ~(known = Anonymous /\ app.requests[w].required)
    <3>1. PICK a, x : a = [old EXCEPT !.pc = "fresh"] /\ x = [a EXCEPT !.known = known]
      OBVIOUS
    <3>2. a = [pc |-> "fresh", known |-> old.known, status |-> old.status, mark |-> old.mark]
      BY <1>5, <3>1
    <3>3. x = [pc |-> "fresh", known |-> known, status |-> old.status, mark |-> old.mark]
      BY <3>1, <3>2
    <3>4. route' = [route EXCEPT ![w] = x]
      BY <1>4, <1>6, <2>4, <3>1
    <3>5. Stands(w, x)
      BY <3>4, RouteSet
    <3>6. PICK mark : mark = old.mark /\ mark \in Nat /\ mark <= faults'
      BY <1>3, <1>4, <1>6
    <3>7. Stands(w, At("fresh", known, 0, mark))
      BY <1>3, <1>4, <3>3, <3>5, <3>6 DEF At
    <3>8. app.requests[w].required => known # Anonymous
      BY <2>4
    <3>9. phase'[w] = "open"
      BY <1>1
    <3>10. IsRoute(route[w])' /\ RouteOk(w)'
      BY <1>1, <2>1, <2>2, <3>6, <3>7, <3>8, <3>9, RoutePassed
    <3> QED
      BY <1>1, <2>0, <3>7, <3>10, RouteAlone
  <2> QED
    BY <2>3, <2>4
<1>7. ASSUME Fails, route' = [route EXCEPT ![w].pc = "done", ![w].status = StatusOf("STORE_FAILED")]
      PROVE  Inv'
  <2>1. faults' \in Nat /\ faults <= faults' /\ faults' > route[w].mark
    BY <1>3, <1>7 DEF Fails
  <2>2. Stops(w, StatusOf("STORE_FAILED"))
    BY <1>7 DEF Stops
  <2>3. StatusOf("STORE_FAILED") = 503
    BY DEF StatusOf
  <2>10. Stands(w, At("done", route[w].known, 503, route[w].mark))
    BY <2>2, <2>3, StopStands
  <2>11. StatusIs(w, 503)
    BY <2>1 DEF StatusIs
  <2>12. Onward(w)
    BY <1>2, <2>1, OnwardAll DEF Inv, Shapes
  <2>13. IsRoute(route[w])' /\ RouteOk(w)'
    BY <1>1, <2>10, <2>11, <2>12, RouteAnswered
  <2>14. route[w].pc \notin {"resend", "done"}
    BY <1>1
  <2> QED
    BY <1>1, <2>1, <2>14, <2>10, <2>13, RouteAlone
<1> QED
  BY <1>6, <1>7 DEF Session

LEMMA FreshEnoughKeeps ==
  ASSUME Inv, NEW w \in RouteRequests, FreshEnough(w), UNCHANGED <<context, task>>
  PROVE  Inv'
<1>1. /\ route[w].pc = "fresh" /\ UNCHANGED <<phase, response, faults>> /\ Unmoved
  BY DEF FreshEnough
<1>2. PICK request, known, facts : request = app.requests[w] /\ known = route[w].known /\ facts = could[w]
  OBVIOUS
<1>3. /\ w \in Requests /\ phase[w] = "open" /\ Knows(w, known, facts) /\ faults \in Nat
  BY <1>1, <1>2, RouteIs
<1>4. request.maxAge \in Nat
  BY <1>2, RequestsWired DEF Inv
<1>5. CASE request.maxAge = NoAge
  <2>1. Passes(w, "subject")
    BY <1>2, <1>5 DEF FreshEnough
  <2> QED
    BY <1>1, <1>2, <1>5, <2>1, PassesKeeps
<1>6. CASE request.maxAge # NoAge /\ known = Anonymous
  <2>1. Answer(w, 401)
    BY <1>2, <1>6 DEF FreshEnough
  <2>2. <<"anonymous">> \in facts
    BY <1>3, <1>6 DEF Knows, Anonymous
  <2>3. StatusIs(w, 401)
    BY <1>2, <2>2 DEF StatusIs
  <2> QED
    BY <1>1, <1>3, <2>1, <2>3, AnswerKeeps
<1>7. CASE request.maxAge # NoAge /\ known # Anonymous
  <2>1. known.provenAt \in Nat /\ <<"proven", known.provenAt>> \in facts
    BY <1>3, <1>7 DEF Knows
  <2>2. CASE Fresh(known.provenAt, request.maxAge, now)
    <3>1. Passes(w, "subject")
      BY <1>2, <1>7, <2>2 DEF FreshEnough
    <3>2. request.maxAge \in AgesOf(w)
      BY <1>2, <1>7 DEF AgesOf, RouteRequests
    <3>3. FreshNow(w, could[w], now)
      BY <1>3 DEF Inv, UpToDate, Follows
    <3>4. <<"fresh", request.maxAge>> \in facts
      BY <1>2, <2>1, <2>2, <3>2, <3>3 DEF FreshNow
    <3> QED
      BY <1>1, <1>2, <3>1, <3>4, PassesKeeps
  <2>3. CASE ~Fresh(known.provenAt, request.maxAge, now)
    <3>1. Answer(w, 403)
      BY <1>2, <1>7, <2>3 DEF FreshEnough, StatusOf
    <3>2. Older(w, request.maxAge)
      <4>1. PICK fact : fact = <<"proven", known.provenAt>>
        OBVIOUS
      <4>2. fact \in could[w] /\ fact[1] = "proven" /\ fact[2] = known.provenAt
        BY <1>2, <2>1, <4>1
      <4> QED
        BY <2>1, <2>3, <4>2 DEF Older
    <3>3. StatusIs(w, 403)
      BY <1>2, <1>7, <3>2 DEF StatusIs
    <3> QED
      BY <1>1, <1>3, <3>1, <3>3, AnswerKeeps
  <2> QED
    BY <2>2, <2>3
<1> QED
  BY <1>5, <1>6, <1>7

LEMMA LoadObjectKeeps ==
  ASSUME Inv, NEW w \in RouteRequests, LoadObject(w), UNCHANGED <<context, task>>
  PROVE  Inv'
<1>1. /\ route[w].pc = "subject" /\ UNCHANGED <<phase, response>> /\ Unmoved
  BY DEF LoadObject
<1>2. PICK request, known, facts : request = app.requests[w] /\ known = route[w].known /\ facts = could[w]
  OBVIOUS
<1>3. /\ w \in Requests /\ phase[w] = "open" /\ Knows(w, known, facts) /\ faults \in Nat
      /\ route[w].mark \in Nat /\ route[w].mark <= faults
      /\ request.maxAge # NoAge => <<"fresh", request.maxAge>> \in facts
  BY <1>1, <1>2, RouteIs
<1>4. CASE request.check = None /\ Passes(w, "handler") /\ UNCHANGED faults
  BY <1>1, <1>2, <1>3, <1>4, PassesKeeps
<1>5. CASE known = Anonymous /\ Answer(w, 401) /\ UNCHANGED faults
  <2>1. <<"anonymous">> \in facts
    BY <1>3, <1>5 DEF Knows, Anonymous
  <2>2. StatusIs(w, 401)
    BY <1>2, <2>1 DEF StatusIs
  <2> QED
    BY <1>1, <1>3, <1>5, <2>2, AnswerKeeps
<1>6. CASE Fails /\ Answer(w, 500)
  <2>1. faults' \in Nat /\ faults <= faults' /\ faults' > route[w].mark
    BY <1>3, <1>6 DEF Fails
  <2>2. StatusIs(w, 500)
    BY <2>1 DEF StatusIs
  <2> QED
    BY <1>1, <1>6, <2>1, <2>2, AnswerKeeps
<1>7. CASE request.check.targets \cap app.missing # {} /\ Answer(w, 404) /\ UNCHANGED faults
  <2>1. StatusIs(w, 404)
    BY <1>2, <1>7 DEF StatusIs
  <2> QED
    BY <1>1, <1>3, <1>7, <2>1, AnswerKeeps
<1>8. CASE request.check # None /\ known # Anonymous /\ Passes(w, "can") /\ UNCHANGED faults
  BY <1>1, <1>2, <1>3, <1>8, PassesKeeps
<1> QED
  BY <1>2, <1>4, <1>5, <1>6, <1>7, <1>8 DEF LoadObject

LEMMA CanRouteKeeps ==
  ASSUME Inv, NEW w \in RouteRequests, CanRoute(w), UNCHANGED <<context, task>>
  PROVE  Inv'
<1>1. /\ route[w].pc = "can" /\ UNCHANGED <<phase, response>> /\ Unmoved
  BY DEF CanRoute
<1>2. PICK request, check, known, facts :
        /\ request = app.requests[w] /\ check = request.check
        /\ known = route[w].known /\ facts = could[w]
  OBVIOUS
<1>3. /\ w \in Requests /\ phase[w] = "open" /\ Knows(w, known, facts) /\ faults \in Nat
      /\ route[w].mark \in Nat /\ route[w].mark <= faults
      /\ request.maxAge # NoAge => <<"fresh", request.maxAge>> \in facts
      /\ check # None /\ known # Anonymous
  BY <1>1, <1>2, RouteIs
<1>4. ASSUME Fails, Answer(w, StatusOf("STORE_FAILED")) PROVE Inv'
  <2>1. faults' \in Nat /\ faults <= faults' /\ faults' > route[w].mark
    BY <1>3, <1>4 DEF Fails
  <2>2. Answer(w, 503)
    BY <1>4 DEF StatusOf
  <2>3. StatusIs(w, 503)
    BY <2>1 DEF StatusIs
  <2> QED
    BY <1>1, <2>1, <2>2, <2>3, AnswerKeeps
<1>5. ASSUME NEW id \in check.targets, NEW answer \in CanAsked(tuples, known.user, check, id),
             UNCHANGED faults,
             CASE answer = "yes"   -> Passes(w, "handler")
               [] answer = "no"    -> Answer(w, 403)
               [] answer = "depth" -> Answer(w, StatusOf("PERMISSION_DEPTH"))
               [] OTHER            -> Answer(w, 500)
      PROVE  Inv'
  <2>1. Says(answer, check, id) \in facts
    <3>1. HeldNow(w, could[w], tuples, session)
      BY <1>3 DEF Inv, UpToDate, Follows
    <3>2. TokenOf(w) # None /\ known.user = session[TokenOf(w)].user
      BY <1>3 DEF Knows, Inv, Shapes, AreSessions
    <3>3. check \in ChecksOf(w)
      BY <1>2, <1>3 DEF ChecksOf, RouteRequests
    <3>4. id \in Named(check)
      <4>1. "nothing" \notin check.targets
        BY <1>2, <1>3, RequestsWired DEF Inv
      <4> QED
        BY <4>1 DEF Named
    <3> QED
      BY <1>2, <1>5, <3>1, <3>2, <3>3, <3>4 DEF HeldNow, Says
  <2>2. answer \in Answers
    BY <1>5 DEF CanAsked
  <2>3. CASE answer = "yes"
    <3>1. Passes(w, "handler")
      BY <1>5, <2>3
    <3>2. \E i \in check.targets : Says("yes", check, i) \in facts
      BY <2>1, <2>3
    <3> QED
      BY <1>1, <1>2, <1>3, <1>5, <3>1, <3>2, PassesKeeps
  <2>4. CASE answer = "no"
    <3>1. Answer(w, 403)
      BY <1>5, <2>4
    <3>2. StatusIs(w, 403)
      BY <1>2, <1>3, <2>1, <2>4 DEF StatusIs
    <3> QED
      BY <1>1, <1>3, <1>5, <3>1, <3>2, AnswerKeeps
  <2>5. CASE answer \in {"depth", "ctx", "data"}
    <3>1. Answer(w, 500)
      BY <1>5, <2>5 DEF StatusOf
    <3>2. StatusIs(w, 500)
      BY <1>2, <1>3, <2>1, <2>5 DEF StatusIs
    <3> QED
      BY <1>1, <1>3, <1>5, <3>1, <3>2, AnswerKeeps
  <2> QED
    BY <2>2, <2>3, <2>4, <2>5 DEF Answers
<1> QED
  BY <1>2, <1>4, <1>5 DEF CanRoute

(* A response with other cookies.                                          *)
LEMMA SentIs ==
  ASSUME NEW old, old = [sent |-> old.sent, told |-> old.told, done |-> old.done],
         NEW sent, NEW x, x = [old EXCEPT !.sent = sent]
  PROVE  x = [sent |-> sent, told |-> old.told, done |-> old.done]
OBVIOUS

(* A route sets its own cookie, once.                                      *)
SetsOwn(h) == response' = [response EXCEPT ![h].sent = Append(@, "own")]

LEMMA RouteSets ==
  ASSUME Inv, NEW w \in RouteRequests, route[w].pc = "handler",
         NEW h, h = app.requests[w].http, response' = response \/ SetsOwn(h)
  PROVE  /\ response' = [g \in Https |-> response'[g]]
         /\ \A g \in Https \ {h} : response'[g] = response[g]
         /\ IsResponse(response'[h]) /\ response'[h].sent \in {<<>>, <<"own">>}
<1>1. /\ h \in Https /\ IsResponse(response[h]) /\ response[h].sent = <<>>
      /\ response = [g \in Https |-> response[g]]
  BY RouteCookieIs DEF Inv, Shapes
<1>2. CASE response' = response
  BY <1>1, <1>2
<1>3. CASE SetsOwn(h)
  <2>1. PICK old : old = response[h]
    OBVIOUS
  <2>2. /\ old = [sent |-> old.sent, told |-> old.told, done |-> old.done]
        /\ old.sent = <<>>
    BY <1>1, <2>1 DEF IsResponse
  <2>3. PICK x : x = [old EXCEPT !.sent = <<"own">>]
    OBVIOUS
  <2>4. x = [sent |-> <<"own">>, told |-> old.told, done |-> old.done]
    BY <2>2, <2>3, SentIs
  <2>5. x.sent = <<"own">> /\ IsResponse(x)
    <3>1. x.sent = <<"own">> /\ x = [sent |-> x.sent, told |-> x.told, done |-> x.done]
      BY <2>4
    <3>2. <<"own">> \in Seq({"own", "renewed"})
      BY OneLong
    <3> QED
      BY <3>1, <3>2 DEF IsResponse
  <2>6. response' = [response EXCEPT ![h] = x]
    <3>1. PICK sent : sent = Append(old.sent, "own")
      OBVIOUS
    <3>2. sent = <<"own">>
      BY <2>2, <3>1
    <3>3. response' = [response EXCEPT ![h] = [old EXCEPT !.sent = sent]]
      BY <1>3, <2>1, <3>1 DEF SetsOwn
    <3> QED
      BY <2>3, <3>2, <3>3
  <2>7. PICK next : next = response' /\ next = [response EXCEPT ![h] = x]
    BY <2>6
  <2>8. /\ next = [g \in Https |-> next[g]] /\ next[h] = x
        /\ \A g \in Https \ {h} : next[g] = response[g]
    BY <1>1, <2>7, Replaced
  <2> QED
    BY <2>5, <2>7, <2>8
<1> QED
  BY <1>2, <1>3

LEMMA HandleKeeps ==
  ASSUME Inv, NEW w \in RouteRequests, Handle(w), UNCHANGED <<context, task>>
  PROVE  Inv'
<1>1. /\ route[w].pc = "handler"
      /\ UNCHANGED <<model, maxDepth, tuples, app, now, changes, connection, phase>>
  BY DEF Handle
<1>2. PICK request, h, token : /\ request = app.requests[w] /\ h = request.http
                               /\ token = TokenOf(w)
  OBVIOUS
<1>3. /\ w \in Requests /\ phase[w] = "open" /\ Knows(w, route[w].known, could[w])
      /\ faults \in Nat /\ route[w].mark \in Nat /\ route[w].mark <= faults
      /\ request.required => route[w].known # Anonymous
      /\ request.maxAge # NoAge => <<"fresh", request.maxAge>> \in could[w]
      /\ request.check # None =>
           \E id \in request.check.targets : Says("yes", request.check, id) \in could[w]
  BY <1>1, <1>2, RouteIs
<1>4. CASE /\ Fails /\ Answer(w, StatusOf("STORE_FAILED"))
           /\ UNCHANGED <<session, could, response>>
  <2>1. faults' \in Nat /\ faults <= faults' /\ faults' > route[w].mark
    BY <1>3, <1>4 DEF Fails
  <2>2. Answer(w, 503)
    BY <1>4 DEF StatusOf
  <2>3. StatusIs(w, 503)
    BY <2>1 DEF StatusIs
  <2>4. Unmoved
    BY <1>1, <1>4 DEF Unmoved, world
  <2> QED
    BY <1>1, <1>4, <2>1, <2>2, <2>3, <2>4, AnswerKeeps
<1>5. ASSUME Answer(w, 200), response' = response \/ SetsOwn(h),
             session' = (IF request.signs = "out" /\ token # None
                           THEN [session EXCEPT ![token].live = FALSE] ELSE session),
             Changed(tuples, session', now), UNCHANGED faults
      PROVE  Inv'
  <2>1. /\ AreSessions(session') /\ DOMAIN session' = DOMAIN session
        /\ \A other \in DOMAIN session : session'[other].user = session[other].user
    <3>1. AreSessions(session) /\ now \in Nat /\ token \in DOMAIN session \cup {None}
      BY <1>2, <1>3, TokenIs DEF Inv, Shapes
    <3>2. CASE request.signs = "out" /\ token # None
      <4>1. PICK s : s = [session[token] EXCEPT !.live = FALSE]
        OBVIOUS
      <4>2. PICK sessions : sessions = [session EXCEPT ![token] = s]
        OBVIOUS
      <4>3. session' = sessions
        BY <1>5, <3>2, <4>1, <4>2
      <4>4. /\ AreSessions(sessions) /\ DOMAIN sessions = DOMAIN session
            /\ \A other \in DOMAIN session : sessions[other].user = session[other].user
        BY <3>1, <3>2, <4>1, <4>2, SessionsStay
      <4> QED
        BY <4>3, <4>4
    <3>3. CASE ~(request.signs = "out" /\ token # None)
      <4>1. session' = session
        BY <1>5, <3>3
      <4> QED
        BY <3>1, <4>1
    <3> QED
      BY <3>2, <3>3
  <2>2. Changed(tuples', session', now')
    BY <1>1, <1>5 DEF Changed
  <2>3. /\ could' = [r \in Requests |-> could'[r]]
        /\ \A r \in Requests : could[r] \subseteq could'[r] /\ UpToDate(r)'
    BY <1>1, <2>2, HistoriesGrow DEF Inv
  <2>4. now \in Nat /\ now' \in Nat /\ now <= now' /\ faults' \in Nat /\ faults <= faults'
    BY <1>1, <1>3, <1>5 DEF Inv, Shapes
  <2>5. Onward(w)
    BY <1>1, <1>3, <2>1, <2>3, <2>4, OnwardAll DEF Inv
  <2>6. PICK x : x = At("resend", route[w].known, 200, route[w].mark)
    OBVIOUS
  <2>7. Stands(w, x)
    BY <1>5, <2>6, AnswerStands
  <2>8. StatusIs(w, 200)
    <3>1. request.required => <<"known">> \in could[w]
      BY <1>3 DEF Knows
    <3> QED
      BY <1>2, <1>3, <3>1 DEF StatusIs
  <2>9. IsRoute(route[w])' /\ RouteOk(w)'
    BY <1>1, <1>3, <2>5, <2>6, <2>7, <2>8, RouteAnswered
  <2>10. /\ response' = [g \in Https |-> response'[g]]
         /\ \A g \in Https \ {h} : response'[g] = response[g]
         /\ IsResponse(response'[h]) /\ response'[h].sent \in {<<>>, <<"own">>}
    BY <1>1, <1>2, <1>5, RouteSets
  <2>11. CookieOk(h)'
    <3>1. /\ RouteRequests' = RouteRequests
          /\ \A v \in RouteRequests : app.requests[v].http = h => v = w
      BY <1>1, <1>2, SameApplication, RouteCookieIs
    <3>2. "renewed" \notin Range(response'[h].sent)
      BY <2>10, RangesAre
    <3>3. route'[w].pc = "resend"
      BY <2>6, <2>7, AtIs DEF Stands
    <3> QED
      BY <1>1, <2>10, <3>1, <3>2, <3>3 DEF CookieOk
  <2>12. Sent'
    BY <1>1, <1>2, <2>7, <2>10, <2>11, RouteCookies
  <2>13. /\ phase' = [r \in Requests |-> phase'[r]]
         /\ \A r \in Requests \ {w} : phase'[r] = phase[r] /\ could[r] \subseteq could'[r]
         /\ route' = [v \in RouteRequests |-> route'[v]]
         /\ \A v \in RouteRequests \ {w} : route'[v] = route[v]
    BY <1>1, <2>3, <2>7 DEF Inv, Shapes, Stands
  <2> QED
    BY <1>1, <2>1, <2>3, <2>4, <2>9, <2>12, <2>13, RouteMoves
<1> QED
  BY <1>2, <1>4, <1>5 DEF Handle, SetsOwn

(* A route renewed what its response does not already set, and is over.     *)
LEMMA ResendStands ==
  ASSUME Inv, NEW w \in RouteRequests, route' = [route EXCEPT ![w].pc = "done"]
  PROVE  Stands(w, At("done", route[w].known, route[w].status, route[w].mark))
<1>1. PICK old, x : old = route[w] /\ x = [old EXCEPT !.pc = "done"]
  OBVIOUS
<1>2. old = [pc |-> old.pc, known |-> old.known, status |-> old.status, mark |-> old.mark]
  BY <1>1 DEF Inv, Shapes, IsRoute
<1>3. x = [pc |-> "done", known |-> old.known, status |-> old.status, mark |-> old.mark]
  BY <1>1, <1>2
<1>4. route' = [route EXCEPT ![w] = x]
  BY <1>1
<1>5. Stands(w, x)
  BY <1>4, RouteSet
<1> QED
  BY <1>1, <1>3, <1>5 DEF At

LEMMA ResendKeeps ==
  ASSUME Inv, NEW w \in RouteRequests, Resend(w), UNCHANGED <<context, task>>
  PROVE  Inv'
<1>0. PICK request, h, known, old :
        /\ request = app.requests[w] /\ h = request.http /\ known = route[w].known
        /\ old = response[h]
  OBVIOUS
<1>x. PICK x : x = At("done", known, route[w].status, route[w].mark)
  OBVIOUS
<1>1. /\ request = app.requests[w] /\ h = request.http /\ known = route[w].known
      /\ old = response[h]
      /\ x = At("done", known, route[w].status, route[w].mark)
  BY <1>0, <1>x
<1>2. PICK sent, y : sent = Resent(old.sent, request, known) /\ y = [old EXCEPT !.sent = sent]
  OBVIOUS
<1>3. /\ route[w].pc = "resend" /\ route' = [route EXCEPT ![w].pc = "done"]
      /\ UNCHANGED <<phase, faults>> /\ Unmoved
  BY DEF Resend
<1>4. UNCHANGED <<model, maxDepth, tuples, app, session, now, connection, could>>
  BY <1>3 DEF Unmoved, world
<1>5. /\ h \in Https /\ h # "socket" /\ ByRoute(h) /\ IsResponse(old)
      /\ \A v \in RouteRequests : app.requests[v].http = h => v = w
      /\ old.sent \in {<<>>, <<"own">>}
      /\ response = [g \in Https |-> response[g]]
  BY <1>1, <1>3, RouteCookieIs DEF Inv, Shapes
<1>6. response' = [response EXCEPT ![h] = y]
  BY <1>0, <1>2 DEF Resend
<1>7. /\ response' = [g \in Https |-> response'[g]] /\ response'[h] = y
      /\ \A g \in Https \ {h} : response'[g] = response[g]
  <2>1. PICK next : next = response' /\ next = [response EXCEPT ![h] = y]
    BY <1>6
  <2>2. /\ next = [g \in Https |-> next[g]] /\ next[h] = y
        /\ \A g \in Https \ {h} : next[g] = response[g]
    BY <1>5, <2>1, Replaced
  <2> QED
    BY <2>1, <2>2
<1>8. Stands(w, x)
  BY <1>1, <1>3, ResendStands
<1>9. /\ w \in Requests /\ faults \in Nat /\ IsRoute(route[w]) /\ RouteOk(w)
      /\ phase[w] = "open" /\ Knows(w, known, could[w])
  <2>1. w \in Requests /\ faults \in Nat /\ IsRoute(route[w]) /\ RouteOk(w)
    BY DEF RouteRequests, Inv, Shapes
  <2> QED
    BY <1>1, <1>3, <2>1 DEF RouteOk
<1>10. /\ sent \in Seq({"own", "renewed"})
       /\ \/ sent = old.sent
          \/ /\ sent = <<"renewed">> /\ known.user # None /\ request.cookie = known.token
  BY <1>2, <1>5, ResentIs DEF IsResponse
<1>11. y.sent = sent /\ IsResponse(y)
  <2>1. old = [sent |-> old.sent, told |-> old.told, done |-> old.done]
    BY <1>5 DEF IsResponse
  <2>2. y = [sent |-> sent, told |-> old.told, done |-> old.done]
    BY <1>2, <2>1
  <2> QED
    BY <1>10, <2>2 DEF IsResponse
<1>12. "renewed" \in Range(sent) => Len(sent) = 1 /\ SentTo(h)
  <2>1. CASE sent = old.sent
    BY <1>5, <2>1, RangesAre
  <2>2. CASE sent = <<"renewed">> /\ known.user # None /\ request.cookie = known.token
    <3>1. known # Anonymous
      BY <2>2 DEF Anonymous
    <3>2. TokenOf(w) \in DOMAIN session /\ known.token = TokenOf(w) /\ None \notin DOMAIN session
      BY <1>9, <3>1 DEF Knows, Inv, Shapes, AreSessions
    <3>3. SentTo(h)
      BY <1>1, <1>9, <2>2, <3>2 DEF SentTo
    <3> QED
      BY <2>2, <3>3, RenewedOnce
  <2> QED
    BY <1>10, <2>1, <2>2
<1>13. Https' = Https /\ RouteRequests' = RouteRequests /\ Requests' = Requests
       /\ \A r \in Requests : TokenOf(r)' = TokenOf(r)
  BY <1>4, SameApplication, AskedStays
<1>14. route'[w].pc = "done" /\ route'[w].known = known /\ route'[w].status = route[w].status
       /\ route'[w].mark = route[w].mark
       /\ route'[w] = [pc |-> route'[w].pc, known |-> route'[w].known,
                       status |-> route'[w].status, mark |-> route'[w].mark]
  BY <1>1, <1>8, AtIs DEF Stands
<1>15. CookieOk(h)'
  <2>1. SentTo(h) => SentTo(h)'
    BY <1>4, <1>13 DEF SentTo
  <2>2. ByRoute(h)'
    BY <1>4, <1>5, <1>13 DEF ByRoute
  <2>3. \A v \in RouteRequests : app.requests[v].http = h => route'[v].pc = "done"
    BY <1>5, <1>14
  <2> QED
    BY <1>4, <1>5, <1>7, <1>11, <1>12, <1>13, <2>1, <2>2, <2>3 DEF CookieOk
<1>16. Sent'
  BY <1>1, <1>4, <1>7, <1>8, <1>11, <1>15, RouteCookies
<1>17. IsRoute(route[w])'
  BY <1>3, <1>9, <1>14 DEF IsRoute
<1>18. RouteOk(w)'
  <2>1. Onward(w)
    BY <1>3, <1>4, <1>9, OnwardAll DEF Inv, Shapes
  <2>2. RouteWasTrue(w)'
    <3>1. RouteWasTrue(w)
      BY <1>9 DEF RouteOk
    <3>2. /\ route'[w].status = route[w].status /\ route'[w].mark = route[w].mark
          /\ app' = app /\ could' = could /\ faults' = faults /\ now' = now
      BY <1>3, <1>4, <1>14
    <3> QED
      BY <3>1, <3>2, TruthStays
  <2>3. Older(w, request.maxAge) => Older(w, request.maxAge)'
    BY <1>4 DEF Older
  <2> QED
    BY <1>1, <1>3, <1>4, <1>9, <1>14, <2>2, <2>3 DEF RouteOk
<1>19. ASSUME NEW r \in Requests PROVE UpToDate(r)'
  BY <1>3, <1>4, AskedStays, StillFollows DEF Inv
<1>20. /\ AreSessions(session') /\ DOMAIN session' = DOMAIN session
       /\ \A token \in DOMAIN session : session'[token].user = session[token].user
  BY <1>4 DEF Inv, Shapes
<1>21. /\ phase' = [r \in Requests |-> phase'[r]] /\ could' = [r \in Requests |-> could'[r]]
       /\ \A r \in Requests \ {w} : phase'[r] = phase[r] /\ could[r] \subseteq could'[r]
       /\ route' = [v \in RouteRequests |-> route'[v]]
       /\ \A v \in RouteRequests \ {w} : route'[v] = route[v]
       /\ faults' \in Nat /\ faults <= faults'
  BY <1>3, <1>4, <1>8, <1>9 DEF Inv, Shapes, Stands
<1> QED
  BY <1>4, <1>16, <1>17, <1>18, <1>19, <1>20, <1>21, RouteMoves

LEMMA CloseKeeps ==
  ASSUME Inv, NEW w \in RouteRequests, Close(w), UNCHANGED <<context, task>>
  PROVE  Inv'
<1>1. PICK h, old, y : /\ h = app.requests[w].http /\ old = response[h]
                       /\ y = [old EXCEPT !.done = TRUE]
  OBVIOUS
<1>2. /\ phase[w] = "open" /\ route[w].pc = "done" /\ phase' = [phase EXCEPT ![w] = "done"]
      /\ response' = [response EXCEPT ![h] = y]
      /\ UNCHANGED <<route, faults>> /\ Unmoved
  BY <1>1 DEF Close
<1>3. UNCHANGED <<model, maxDepth, tuples, app, session, now, connection, could>>
  BY <1>2 DEF Unmoved, world
<1>4. /\ w \in Requests /\ faults \in Nat /\ IsRoute(route[w]) /\ RouteOk(w)
      /\ phase = [r \in Requests |-> phase[r]] /\ could = [r \in Requests |-> could[r]]
      /\ route = [v \in RouteRequests |-> route[v]]
      /\ response = [g \in Https |-> response[g]]
  BY DEF RouteRequests, Inv, Shapes
<1>5. /\ h \in Https /\ h # "socket" /\ ByRoute(h) /\ IsResponse(old) /\ CookieOk(h)
      /\ \A v \in RouteRequests : app.requests[v].http = h => v = w
  BY <1>1, RouteCookieIs
<1>6. /\ response' = [g \in Https |-> response'[g]] /\ response'[h] = y
      /\ \A g \in Https \ {h} : response'[g] = response[g]
  <2>1. PICK next : next = response' /\ next = [response EXCEPT ![h] = y]
    BY <1>2
  <2>2. /\ next = [g \in Https |-> next[g]] /\ next[h] = y
        /\ \A g \in Https \ {h} : next[g] = response[g]
    BY <1>4, <1>5, <2>1
  <2> QED
    BY <2>1, <2>2
<1>7. y.sent = old.sent /\ IsResponse(y)
  <2>1. old = [sent |-> old.sent, told |-> old.told, done |-> old.done]
    BY <1>5 DEF IsResponse
  <2>2. y = [sent |-> old.sent, told |-> old.told, done |-> TRUE]
    BY <1>1, <2>1
  <2> QED
    BY <1>5, <2>2 DEF IsResponse
<1>8. /\ phase' = [r \in Requests |-> phase'[r]] /\ phase'[w] = "done"
      /\ \A r \in Requests \ {w} : phase'[r] = phase[r]
  <2>1. PICK next : next = phase' /\ next = [phase EXCEPT ![w] = "done"]
    BY <1>2
  <2>2. /\ next = [r \in Requests |-> next[r]] /\ next[w] = "done"
        /\ \A r \in Requests \ {w} : next[r] = phase[r]
    BY <1>4, <2>1
  <2> QED
    BY <2>1, <2>2
<1>9. Https' = Https /\ RouteRequests' = RouteRequests /\ Requests' = Requests
      /\ \A r \in Requests : TokenOf(r)' = TokenOf(r)
  BY <1>3, SameApplication, AskedStays
<1>10. CookieOk(h)'
  <2>1. SentTo(h) => SentTo(h)'
    BY <1>3, <1>9 DEF SentTo
  <2>2. ByRoute(h)'
    BY <1>3, <1>5, <1>9 DEF ByRoute
  <2>3. response'[h].sent = response[h].sent
    BY <1>1, <1>6, <1>7
  <2> QED
    BY <1>2, <1>3, <1>5, <1>9, <2>1, <2>2, <2>3 DEF CookieOk
<1>11. PICK x : x = route[w]
  OBVIOUS
<1>12. Stands(w, x)
  BY <1>2, <1>4, <1>11 DEF Stands
<1>13. Sent'
  BY <1>1, <1>3, <1>6, <1>7, <1>10, <1>12, RouteCookies
<1>14. IsRoute(route[w])'
  BY <1>2, <1>4 DEF IsRoute
<1>15. RouteOk(w)'
  <2>1. RouteWasTrue(w)'
    <3>1. RouteWasTrue(w)
      BY <1>2, <1>4 DEF RouteOk
    <3>2. /\ route'[w].status = route[w].status /\ route'[w].mark = route[w].mark
          /\ app' = app /\ could' = could /\ faults' = faults /\ now' = now
      BY <1>2, <1>3
    <3> QED
      BY <3>1, <3>2, TruthStays
  <2>2. Older(w, app.requests[w].maxAge) => Older(w, app.requests[w].maxAge)'
    BY <1>3 DEF Older
  <2>3. route'[w] = route[w] /\ could'[w] = could[w] /\ app'.requests[w] = app.requests[w]
    BY <1>2, <1>3
  <2> QED
    BY <1>2, <1>4, <1>8, <2>1, <2>2, <2>3 DEF RouteOk
<1>16. ASSUME NEW r \in Requests PROVE UpToDate(r)'
  <2>1. phase'[r] = "open" => phase[r] = "open"
    BY <1>8
  <2> QED
    BY <1>3, <2>1, AskedStays, StillFollows DEF Inv
<1>17. /\ AreSessions(session') /\ DOMAIN session' = DOMAIN session
       /\ \A token \in DOMAIN session : session'[token].user = session[token].user
  BY <1>3 DEF Inv, Shapes
<1>18. /\ could' = [r \in Requests |-> could'[r]]
       /\ \A r \in Requests \ {w} : phase'[r] = phase[r] /\ could[r] \subseteq could'[r]
       /\ route' = [v \in RouteRequests |-> route'[v]]
       /\ \A v \in RouteRequests \ {w} : route'[v] = route[v]
       /\ faults' \in Nat /\ faults <= faults'
  BY <1>2, <1>3, <1>4, <1>8
<1> QED
  BY <1>3, <1>8, <1>13, <1>14, <1>15, <1>16, <1>17, <1>18, RouteMoves

(* What the routes do keeps the invariant.                                 *)
LEMMA RoutesMove ==
  ASSUME Inv, RouteStep, UNCHANGED <<context, task>>
  PROVE  Inv'
<1>1. PICK w \in RouteRequests :
        \/ Receive(w) \/ Session(w) \/ FreshEnough(w) \/ LoadObject(w) \/ CanRoute(w)
        \/ Handle(w) \/ Resend(w) \/ Close(w)
  BY DEF RouteStep
<1>2. CASE Receive(w) \/ Session(w) \/ FreshEnough(w) \/ LoadObject(w)
  BY <1>2, ReceiveKeeps, SessionKeeps, FreshEnoughKeeps, LoadObjectKeeps
<1>3. CASE CanRoute(w) \/ Handle(w) \/ Resend(w) \/ Close(w)
  BY <1>3, CanRouteKeeps, HandleKeeps, ResendKeeps, CloseKeeps
<1> QED
  BY <1>1, <1>2, <1>3

-----------------------------------------------------------------------------
(* The first state, and every step.                                        *)

LEMMA StillKeeps ==
  ASSUME Inv, UNCHANGED bindingVars
  PROVE  Inv'
<1>1. UNCHANGED <<model, maxDepth, tuples, app, session, now, connection, phase, response,
                  could, changes, faults, context, task, route>>
  BY DEF bindingVars
<1>2. /\ Requests' = Requests /\ Https' = Https /\ Operations' = Operations
      /\ RouteRequests' = RouteRequests /\ Wired'
  BY <1>1, SameApplication DEF Inv
<1>3. Shapes /\ Tokens /\ now \in Nat /\ faults \in Nat
  BY DEF Inv, Shapes
<1>4. \A r \in Requests : TokenOf(r)' = TokenOf(r) /\ Onward(r)
  BY <1>1, <1>3, AskedStays, OnwardAll
<1>5. \A r \in Requests : UpToDate(r)'
  BY <1>1, <1>4, StillFollows DEF Inv
<1>6. ASSUME NEW o \in Operations PROVE OperationOk(o)'
  <2>1. o \in Requests /\ OperationOk(o)
    BY DEF Operations, Inv
  <2>2. IsContext(context[o]) /\ \A f \in app.requests[o].fields : IsTask(task[o][f])
    BY <1>3 DEF Shapes
  <2> QED
    BY <1>1, <1>4, <2>1, <2>2, OperationKept DEF Inv
<1>7. ASSUME NEW w \in RouteRequests PROVE RouteOk(w)'
  <2>1. w \in Requests /\ RouteOk(w) /\ IsRoute(route[w])
    BY DEF RouteRequests, Inv, Shapes
  <2> QED
    BY <1>1, <1>4, <2>1, RouteKept DEF Inv
<1>8. ASSUME NEW h \in Https PROVE CookieOk(h)'
  BY <1>1, <1>4, CookieKept DEF Inv
<1>9. Shapes'
  <2>1. AreSessions(session)' /\ now' \in Nat /\ faults' \in Nat
    BY <1>1, <1>3 DEF Shapes, AreSessions
  <2>2. \A o \in Operations : IsContext(context[o])' /\ \A f \in app.requests[o].fields : IsTask(task[o][f])'
    BY <1>1, <1>3 DEF Shapes, IsContext, IsTask
  <2>3. (\A w \in RouteRequests : IsRoute(route[w])') /\ \A h \in Https : IsResponse(response[h])'
    BY <1>1, <1>3 DEF Shapes, IsRoute, IsResponse
  <2> QED
    BY <1>1, <1>2, <1>3, <2>1, <2>2, <2>3 DEF Shapes
<1>10. Tokens'
  BY <1>1, <1>2, <1>3 DEF Tokens, OnSocket
<1> QED
  BY <1>2, <1>5, <1>6, <1>7, <1>8, <1>9, <1>10 DEF Inv

LEMMA FirstAnswers ==
  ASSUME NEW given \in Accepted, Serves(given)
  PROVE  Inv
<1>1. given \in Apps /\ app = Served(given) /\ Wired
  BY DEF Accepted, Wired, Serves
<1>2. app.requests = given.requests /\ app.socket = given.socket /\ session = given.sessions
  BY <1>1 DEF Served, Serves
<1>3. /\ connection = [state |-> "new", credential |-> None]
      /\ phase = [r \in Requests |-> "new"]
      /\ response = [h \in Https |-> [sent |-> <<>>, told |-> {}, done |-> FALSE]]
      /\ could = [r \in Requests |-> {}]
      /\ context = [o \in Operations |-> NewContext]
      /\ task = [o \in Operations |-> [f \in app.requests[o].fields |-> NotStarted]]
      /\ route = [w \in RouteRequests |-> NewRoute]
  BY DEF Serves
<1>4. now = 0 /\ faults = 0
  BY DEF Serves
<1>5. AreSessions(session) /\ now \in Nat /\ faults \in Nat
  BY <1>1, <1>2, <1>4, AppsAssumption
<1>6. ASSUME NEW h \in Https
      PROVE  response[h].sent = <<>> /\ IsResponse(response[h])
  <2>1. PICK x : x = [sent |-> <<>>, told |-> {}, done |-> FALSE]
    OBVIOUS
  <2>2. response[h] = x
    BY <1>3, <2>1
  <2>3. x.sent = <<>> /\ x = [sent |-> x.sent, told |-> x.told, done |-> x.done]
    BY <2>1
  <2> QED
    BY <2>2, <2>3 DEF IsResponse
<1>7. ASSUME NEW o \in Operations
      PROVE  /\ context[o].asked = "no" /\ context[o].known = Anonymous
             /\ context[o].memo = <<>> /\ IsContext(context[o])
  <2>1. PICK c : c = [asked |-> "no", known |-> Anonymous, memo |-> <<>>, events |-> 0]
    OBVIOUS
  <2>2. context[o] = c
    BY <1>3, <2>1 DEF NewContext
  <2>3. /\ c.asked = "no" /\ c.known = Anonymous /\ c.memo = <<>> /\ c.events \in Nat
        /\ c = [asked |-> c.asked, known |-> c.known, memo |-> c.memo, events |-> c.events]
    BY <2>1
  <2> QED
    BY <2>2, <2>3 DEF IsContext
<1>8. ASSUME NEW o \in Operations, NEW f \in app.requests[o].fields
      PROVE  task[o][f] = NotStarted /\ IsTask(task[o][f]) /\ TaskOk(o, f)
  <2>1. PICK t : t = [pc |-> "idle", k |-> 0, waits |-> {}, denied |-> FALSE,
                      outcome |-> "none", mark |-> 0]
    OBVIOUS
  <2>2. t = NotStarted
    BY <2>1 DEF NotStarted
  <2>3. task[o][f] = NotStarted
    BY <1>3
  <2>4. /\ t.pc = "idle" /\ t.outcome = "none" /\ t.mark = 0
        /\ t = [pc |-> t.pc, k |-> t.k, waits |-> t.waits, denied |-> t.denied,
                outcome |-> t.outcome, mark |-> t.mark]
    BY <2>1
  <2>5. task[o][f] = t
    BY <2>2, <2>3
  <2>6. IsTask(t)
    BY <1>4, <2>4 DEF IsTask
  <2>7. TaskOk(o, f)
    BY <2>4, <2>5 DEF TaskOk
  <2> QED
    BY <2>3, <2>5, <2>6, <2>7
<1>9. ASSUME NEW w \in RouteRequests
      PROVE  /\ route[w].pc = "session" /\ route[w].status = 0 /\ IsRoute(route[w])
  <2>1. PICK x : x = [pc |-> "session", known |-> Anonymous, status |-> 0, mark |-> 0]
    OBVIOUS
  <2>2. route[w] = x
    BY <1>3, <2>1 DEF NewRoute
  <2>3. /\ x.pc = "session" /\ x.status = 0 /\ x.mark = 0
        /\ x = [pc |-> x.pc, known |-> x.known, status |-> x.status, mark |-> x.mark]
    BY <2>1
  <2>4. x.mark \in Nat /\ x.mark <= faults
    BY <1>4, <2>3
  <2> QED
    BY <2>2, <2>3, <2>4 DEF IsRoute
<1>10. Shapes
  <2>1. /\ phase = [r \in Requests |-> phase[r]] /\ could = [r \in Requests |-> could[r]]
        /\ response = [h \in Https |-> response[h]]
    BY <1>3
  <2>2. /\ context = [o \in Operations |-> context[o]] /\ task = [o \in Operations |-> task[o]]
        /\ route = [w \in RouteRequests |-> route[w]]
    BY <1>3
  <2>3. \A o \in Operations : task[o] = [f \in app.requests[o].fields |-> task[o][f]]
    BY <1>3
  <2> QED
    BY <1>5, <1>6, <1>7, <1>8, <1>9, <2>1, <2>2, <2>3 DEF Shapes
<1>11. \A r \in Requests : phase[r] = "new"
  BY <1>3
<1>12. Tokens
  <2>1. \A r \in Requests : IsRequest(given, r)
    BY <1>1, <1>2, AppsAssumption DEF Requests
  <2>2. \A r \in Requests : /\ app.requests[r].bearer \in DOMAIN session \cup {None}
                            /\ app.requests[r].cookie \in DOMAIN session \cup {None}
    BY <1>2, <2>1 DEF IsRequest
  <2>3. app.socket # None => IsSocket(given, app.socket)
    BY <1>1, <1>2, AppsAssumption
  <2>4. app.socket # None =>
          /\ app.socket.bearer \in DOMAIN session \cup {None}
          /\ app.socket.cookie \in DOMAIN session \cup {None}
          /\ app.socket.params \in {"garbled", "none"} \cup (DOMAIN session \cup {None})
    BY <1>2, <2>3 DEF IsSocket
  <2>5. connection.credential = None
    BY <1>3
  <2>6. \A o \in Operations : phase[o] = "new"
    BY <1>11 DEF Operations
  <2> QED
    BY <2>2, <2>4, <2>5, <2>6 DEF Tokens
<1>13. \A r \in Requests : UpToDate(r)
  BY <1>11 DEF UpToDate
<1>14. ASSUME NEW o \in Operations PROVE OperationOk(o)
  <2>1. phase[o] = "new"
    BY <1>11 DEF Operations
  <2>2. DOMAIN context[o].memo = {}
    <3>1. DOMAIN <<>> = {}
      OBVIOUS
    <3> QED
      BY <1>7, <3>1
  <2>3. ContextOk(o)
    BY <1>7, <1>8, <2>1, <2>2 DEF ContextOk
  <2>4. MemoOk(o)
    BY <2>2 DEF MemoOk
  <2> QED
    BY <1>8, <2>3, <2>4 DEF OperationOk
<1>15. ASSUME NEW w \in RouteRequests PROVE RouteOk(w)
  <2>1. phase[w] = "new"
    BY <1>11 DEF RouteRequests
  <2>2. RouteWasTrue(w)
    BY <1>9 DEF RouteWasTrue
  <2> QED
    BY <1>9, <2>1, <2>2 DEF RouteOk
<1>16. ASSUME NEW h \in Https PROVE CookieOk(h)
  <2>1. PICK sent : sent = response[h].sent /\ sent = <<>>
    BY <1>6
  <2>2. "renewed" \notin Range(sent)
    BY <2>1, RangesAre
  <2>3. \A w \in RouteRequests : route[w].pc = "session"
    BY <1>9
  <2> QED
    BY <2>1, <2>2, <2>3 DEF CookieOk
<1> QED
  BY <1>1, <1>10, <1>12, <1>13, <1>14, <1>15, <1>16 DEF Inv

LEMMA ServesFirst ==
  ServeInit => IInv
<1>1. NoneServed => IInv
  BY DEF NoneServed, IInv
<1>2. (\E given \in Accepted : Serves(given)) => IInv
  BY FirstAnswers DEF IInv
<1> QED
  BY <1>1, <1>2 DEF ServeInit

LEMMA ServesOn ==
  IInv /\ [ServeNext]_bindingVars => IInv'
<1> SUFFICES ASSUME IInv, [ServeNext]_bindingVars PROVE IInv'
  OBVIOUS
<1>1. CASE app = NoApp
  <2>1. app' = NoApp
    BY <1>1 DEF ServeNext, Quiet, bindingVars
  <2> QED
    BY <2>1 DEF IInv, NoApp
<1>2. CASE app # NoApp
  <2>1. Inv
    BY <1>2 DEF IInv
  <2>2. CASE UNCHANGED bindingVars
    BY <2>1, <2>2, StillKeeps DEF IInv
  <2>3. CASE WorldStep /\ UNCHANGED <<context, task, route>>
    BY <2>1, <2>3, OthersMove DEF IInv
  <2>4. CASE RequestStep /\ UNCHANGED route
    BY <2>1, <2>4, OperationsMove DEF IInv
  <2>5. CASE RouteStep /\ UNCHANGED <<context, task>>
    BY <2>1, <2>5, RoutesMove DEF IInv
  <2> QED
    BY <1>2, <2>2, <2>3, <2>4, <2>5 DEF ServeNext
<1> QED
  BY <1>1, <1>2

-----------------------------------------------------------------------------
(* Whatever application is served, whatever is asked of it and however its *)
(* fields, its routes, the stores' changes and their failures interleave,  *)
(* what each request has in hand was true since it came: who it is for     *)
(* (context.ts, session.ts), what its memo holds (memo.ts), and what its   *)
(* guards and middleware passed (guard.ts, enforce.ts; fresh.ts,           *)
(* permission.ts); and no response holds a renewal beside another cookie   *)
(* (renewal.ts).                                                           *)
THEOREM ServesTruly == Serve => []IInv
<1> QED
  BY ServesFirst, ServesOn, PTL DEF Serve

LEMMA AnswersTrue ==
  IInv => AnswersWereTrue
<1> SUFFICES ASSUME Inv PROVE /\ \A o \in Operations : \A f \in Running(o) : FieldWasTrue(o, f)
                              /\ \A w \in RouteRequests : RouteWasTrue(w)
  BY DEF IInv, AnswersWereTrue
<1>1. ASSUME NEW o \in Operations, NEW f \in Running(o) PROVE FieldWasTrue(o, f)
  <2>1. f \in app.requests[o].fields
    BY RequestsWired DEF Inv
  <2>2. TaskOk(o, f)
    BY <2>1 DEF Inv, OperationOk
  <2>3. CASE task[o][f].pc = "done"
    BY <2>2, <2>3 DEF TaskOk
  <2>4. CASE task[o][f].pc # "done"
    <3>1. task[o][f].outcome = "none"
      BY <2>2, <2>4 DEF TaskOk
    <3> QED
      BY <3>1 DEF FieldWasTrue
  <2> QED
    BY <2>3, <2>4
<1>2. \A w \in RouteRequests : RouteWasTrue(w)
  BY DEF Inv, RouteOk
<1> QED
  BY <1>1, <1>2

(* Every answer of a guarded field and of a route was true at some instant *)
(* since the request, or the event, came: what resolved was held then, what*)
(* was denied was not, and an outage follows a failed call.  One can() is  *)
(* one step here: tuples change between its calls, not inside one          *)
(* (memo.ts, guard.ts, enforce.ts; hono session.ts, fresh.ts,              *)
(* permission.ts).                                                         *)
THEOREM AnswersAlwaysTrue == Serve => []AnswersWereTrue
<1> QED
  BY ServesTruly, AnswersTrue, PTL

LEMMA HiddenKept ==
  IInv => HiddenStaysHidden
<1> SUFFICES ASSUME Inv, NEW o \in Operations, NEW f \in Running(o) PROVE HiddenWas(o, f)
  BY DEF IInv, HiddenStaysHidden
<1>1. f \in app.requests[o].fields
  BY RequestsWired DEF Inv
<1>2. TaskOk(o, f)
  BY <1>1 DEF Inv, OperationOk
<1>3. CASE task[o][f].pc = "done"
  BY <1>2, <1>3 DEF TaskOk
<1>4. CASE task[o][f].pc # "done"
  <2>1. task[o][f].outcome = "none"
    BY <1>2, <1>4 DEF TaskOk
  <2> QED
    BY <2>1 DEF HiddenWas
<1> QED
  BY <1>3, <1>4

(* A field's FORBIDDEN tells nothing of an object its type hides: unless   *)
(* the type itself, or the user's type, denied it with FORBIDDEN,          *)
(* everything the type asks was held (directives/read.ts:57-60).           *)
THEOREM HiddenAlwaysHidden == Serve => []HiddenStaysHidden
<1> QED
  BY ServesTruly, HiddenKept, PTL

LEMMA CookieWins ==
  IInv => OwnCookieWins
<1> SUFFICES ASSUME Inv, NEW h \in Https,
                    {i \in DOMAIN response[h].sent : response[h].sent[i] = "renewed"} # {}
             PROVE  Len(response[h].sent) = 1 /\ SentTo(h)
  BY DEF IInv, OwnCookieWins, SentTo
<1>1. "renewed" \in Range(response[h].sent)
  BY DEF Range
<1> QED
  BY <1>1 DEF Inv, CookieOk

(* A renewed session is never set beside a cookie a route or a resolver    *)
(* set, is sent once however many operations share the response, and only  *)
(* to a client that presented that session as a cookie (renewal.ts,        *)
(* session.ts).                                                            *)
THEOREM OwnCookieAlwaysWins == Serve => []OwnCookieWins
<1> QED
  BY ServesTruly, CookieWins, PTL
=============================================================================
