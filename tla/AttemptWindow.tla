--------------------------- MODULE AttemptWindow ---------------------------
(***************************************************************************)
(* The attempts counted in fixed windows of the clock                      *)
(* (packages/janus/src/auth/one-time/window.ts) and the calls that count:  *)
(* sign-ins at one login, which restart the count when they succeed        *)
(* (sign-in-attempts.ts), codes tried at one user's app, whose count a     *)
(* password written does not restart (second-factor/app-code-attempts.ts), *)
(* and e-mails asked for at one address or by one user, counted when they  *)
(* are prepared and issued later (mail-requests.ts, prepared.ts).          *)
(*                                                                         *)
(* A count is a chain of links, tokens of the store of TokenStore: the     *)
(* hash of a link names its window, the lastStep of the user's factor      *)
(* (always 0 for a login) and its place.  An `await` is a step boundary.   *)
(***************************************************************************)
EXTENDS TokenStore, FiniteSets

CONSTANTS Call,
          Modes,       \* what is counted: "carry" a code, "mail" a request, "restart" a sign-in
          limit,       \* CODE_ATTEMPTS, or a throttle's attempts
          MAX_LINKS, MAX_PROBES,
          windowMs,    \* in ticks
          Skew,        \* how far a store's clock runs ahead, in ticks
          Slow,        \* how long a count takes at most, in ticks
          MaxSpent,    \* bound: sign-ins of the first window before those modelled
          MaxLink, MaxStep, MaxTime  \* bounds

Window == 0..MaxTime \div windowMs
Place == 0..MaxLink

ASSUME AttemptWindowAssumption ==
  /\ Hash = Window \X (0..MaxStep) \X Place
  /\ Kind = {"secondFactor"} /\ Cardinality(UserId) = 1 /\ Address = {""}
  /\ IsFiniteSet(Call) /\ Modes \subseteq {"carry", "mail", "restart"}
  /\ limit \in Nat \ {0} /\ MAX_LINKS \in Nat \ {0} /\ MAX_PROBES \in Nat \ {0}
  /\ windowMs \in Nat \ {0} /\ Skew \in Nat /\ Slow \in Nat
  /\ Skew + Slow <= windowMs
  /\ MaxSpent \in Nat /\ MaxLink \in Nat /\ MaxStep \in Nat /\ MaxTime \in Nat
  /\ MaxLink >= 2 * (MaxSpent + Cardinality(Call)) + 2 /\ MaxLink >= MAX_LINKS

VARIABLES mode,   \* what is counted: fixed
          now,
          tokens,
          step,   \* lastStep of the user's factor
          user,   \* they were not deleted
          call

vars == <<mode, now, tokens, step, user, call>>

CallRecord ==
  [pc : {"idle", "count", "insert", "recount", "compare", "spend", "write",
         "prepared", "issuing", "done", "refused", "vanished", "failed"},
   phase : {"guess", "restart"},  \* countSignInAttempt, then restartSignInCount
   started : 0..MaxTime,
   step : 0..MaxStep,
   spent : -1..MaxLink,           \* the last link it saw spent
   absent : Place \cup {None},    \* the first it saw missing
   probes : 0..MAX_PROBES,
   carried : Nat,
   link : Hash \cup {None},       \* the link it restarts
   guess : Hash \cup {None}]      \* history: where its guess was counted, and let through

(* A carried count ends at MAX_LINKS: no call walks past it.               *)
TypeOK ==
  /\ mode \in Modes
  /\ now \in 0..MaxTime
  /\ tokens \in Store
  /\ step \in 0..MaxStep
  /\ user \in BOOLEAN
  /\ call \in [Call -> CallRecord]
  /\ mode # "restart" => \A c \in Call : call[c].spent < MAX_LINKS - 1

WindowOf(at) == at \div windowMs

ExpiresAt(at) == (WindowOf(at) + 2) * windowMs

Link(at, attempts, spentAt) ==
  [kind |-> "secondFactor", userId |-> CHOOSE u \in UserId : TRUE, address |-> "",
   attempts |-> attempts, expiresAt |-> ExpiresAt(at), spentAt |-> spentAt]

NewCall == [pc |-> "idle", phase |-> "guess", started |-> 0, step |-> 0, spent |-> -1,
            absent |-> None, probes |-> 0, carried |-> 0, link |-> None, guess |-> None]

(* A login may have been signed in to before: so many links are spent, and *)
(* the next is counting or not stored yet.                                 *)
Init ==
  /\ mode \in Modes
  /\ now = 0
  /\ \E before \in 0..MaxSpent, counting \in 1..limit \cup {None} :
       /\ mode # "restart" => before = 0 /\ counting = None
       /\ tokens = [h \in Hash |->
            CASE h[1] = 0 /\ h[2] = 0 /\ h[3] < before -> Link(0, 1, 0)
              [] h = <<0, 0, before>> /\ counting # None -> Link(0, counting, None)
              [] OTHER -> None]
  /\ step = 0
  /\ user = TRUE
  /\ call = [c \in Call |-> NewCall]

-----------------------------------------------------------------------------
(* countInWindow.                                                          *)

(* The place the call looks at next.                                       *)
PlaceOf(mine) ==
  CASE mode # "restart" \/ mine.absent = mine.spent + 1 -> mine.spent + 1
    [] mode = "restart" /\ mine.absent = None -> 2 * mine.spent + 2
    [] OTHER -> (mine.spent + mine.absent) \div 2

HashOf(mine) == <<WindowOf(mine.started), mine.step, PlaceOf(mine)>>

Counting(phase, c) ==
  [call[c] EXCEPT !.pc = "count", !.phase = phase, !.started = now, !.step = step]

(* countInWindow returned: what it knew of the links is gone.              *)
Returned(mine, pc) ==
  [NewCall EXCEPT !.pc = pc, !.phase = mine.phase, !.step = mine.step,
                  !.link = mine.link, !.guess = mine.guess]

(* The head of both loops: past MAX_LINKS the attempts are infinite.       *)
GoesOn(mine) ==
  CASE mode # "restart" ->
         IF mine.spent + 1 = MAX_LINKS THEN Returned(mine, "refused")
         ELSE [mine EXCEPT !.pc = "count"]
    [] mode = "restart" /\ mine.probes = MAX_PROBES -> Returned(mine, "vanished")
    [] OTHER -> [mine EXCEPT !.pc = IF mine.absent = mine.spent + 1 THEN "insert" ELSE "count"]

(* An attempt counted: what countSignInAttempt, countAppCodeAttempt and    *)
(* countMail refuse or let through, and what restartSignInCount spends.    *)
Counted(mine, hash, attempts) ==
  CASE mine.phase = "restart" -> [Returned(mine, "spend") EXCEPT !.link = hash]
    [] mine.phase = "guess" /\ attempts <= limit ->
         [Returned(mine, IF mode = "mail" THEN "prepared" ELSE "compare") EXCEPT !.guess = hash]
    [] mine.phase = "guess" /\ attempts > limit -> Returned(mine, "refused")

Probed(mine) == [mine EXCEPT !.probes = IF mode = "restart" THEN @ + 1 ELSE @]

(* Mutant: what a spent link holds is forgotten.                           *)
AfterForgetting(mine, token) ==
  IF token.spentAt = None
    THEN Counted(mine, HashOf(mine), token.attempts)
    ELSE GoesOn([Probed(mine) EXCEPT
           !.spent = PlaceOf(mine),
           !.absent = IF @ # None /\ @ <= PlaceOf(mine) THEN None ELSE @])

(* Mutant: a link spent since it was missing is taken for missing still.   *)
AfterStillAbsent(mine, token) ==
  IF token.spentAt = None
    THEN Counted(mine, HashOf(mine), mine.carried + token.attempts)
    ELSE GoesOn([Probed(mine) EXCEPT
           !.spent = PlaceOf(mine),
           !.carried = IF mode # "restart" THEN @ + token.attempts ELSE @])

(* What a link answered, counted or spent.                                 *)
After(mine, token) ==
  IF token.spentAt = None
    THEN Counted(mine, HashOf(mine), mine.carried + token.attempts)
    ELSE GoesOn([Probed(mine) EXCEPT
           !.spent = PlaceOf(mine),
           !.absent = IF @ # None /\ @ <= PlaceOf(mine) THEN None ELSE @,
           !.carried = IF mode # "restart" THEN @ + token.attempts ELSE @])

Missing(mine) ==
  IF mode # "restart" THEN [mine EXCEPT !.pc = "insert"]
  ELSE GoesOn([Probed(mine) EXCEPT !.absent = PlaceOf(mine)])

CountLink(c) ==
  LET mine == call[c]
      counted == countAttempt(tokens, HashOf(mine), "secondFactor")
      token == Answer(counted, HashOf(mine), "secondFactor")
  IN /\ mine.pc = "count"
     /\ tokens' = counted
     /\ call' = [call EXCEPT ![c] = IF token = None THEN Missing(mine) ELSE After(mine, token)]
     /\ UNCHANGED <<mode, now, step, user>>

InsertLink(c) ==
  /\ call[c].pc = "insert"
  /\ tokens' = insertToken(tokens, HashOf(call[c]), Link(call[c].started, 0, None))
  /\ call' = [call EXCEPT ![c].pc = "recount"]
  /\ UNCHANGED <<mode, now, step, user>>

CountInserted(c) ==
  LET mine == call[c]
      counted == countAttempt(tokens, HashOf(mine), "secondFactor")
      token == Answer(counted, HashOf(mine), "secondFactor")
  IN /\ mine.pc = "recount"
     /\ tokens' = counted
     /\ call' = [call EXCEPT ![c] = IF token = None THEN Returned(mine, "vanished")
                                    ELSE After(mine, token)]
     /\ UNCHANGED <<mode, now, step, user>>

-----------------------------------------------------------------------------
(* The calls that count.                                                   *)

Begin(c) ==
  /\ call[c].pc = "idle"
  /\ call' = [call EXCEPT ![c] = Counting("guess", c)]
  /\ UNCHANGED <<mode, now, tokens, step, user>>

(* A sign-in counts before it looks anybody up.                            *)
BeginSignIn(c) == mode = "restart" /\ Begin(c)

(* A code is counted for the user just read.                               *)
BeginCode(c) == mode = "carry" /\ user /\ Begin(c)

(* A request for an e-mail is counted before anybody is looked up, or for  *)
(* a user who may be gone by now.                                          *)
BeginMail(c) == mode = "mail" /\ Begin(c)

(* The wrong one is refused.  The right password restarts the count; the   *)
(* right code is written, and the lastStep with it.                        *)
Compare(c) ==
  /\ call[c].pc = "compare"
  /\ \/ call' = [call EXCEPT ![c].pc = "refused"]
     \/ mode = "restart" /\ call' = [call EXCEPT ![c] = Counting("restart", c)]
     \/ mode = "carry" /\ call' = [call EXCEPT ![c].pc = "write"]
  /\ UNCHANGED <<mode, now, tokens, step, user>>

(* The request counted answers its send, marked before it issues: a second *)
(* send is a TypeError, and one that failed is prepared, and counted, anew *)
(* (a request sends what it prepares at once).                             *)
Send(c) ==
  /\ call[c].pc = "prepared"
  /\ call' = [call EXCEPT ![c].pc = "issuing"]
  /\ UNCHANGED <<mode, now, tokens, step, user>>

Issued(c) ==
  /\ call[c].pc = "issuing"
  /\ call' = [call EXCEPT ![c].pc = "done"]
  /\ UNCHANGED <<mode, now, tokens, step, user>>

SpendLink(c) ==
  /\ call[c].pc = "spend"
  /\ tokens' = consumeToken(tokens, call[c].link, "secondFactor", now)
  /\ call' = [call EXCEPT ![c].pc = "done"]
  /\ UNCHANGED <<mode, now, step, user>>

(* Under the version read: of two codes accepted at once, one is written.  *)
WriteFactor(c) ==
  LET written == user /\ step = call[c].step
  IN /\ call[c].pc = "write"
     /\ written => step < MaxStep
     /\ step' = IF written THEN step + 1 ELSE step
     /\ call' = [call EXCEPT ![c].pc = IF written THEN "done" ELSE "failed"]
     /\ UNCHANGED <<mode, now, tokens, user>>

(* A call of the store throws.  One that took effect all the same is its   *)
(* action, and then this.                                                  *)
StoreFails(c) ==
  /\ call[c].pc \in {"count", "insert", "recount", "compare", "spend", "write", "issuing"}
  /\ call' = [call EXCEPT ![c] = Returned(@, "failed")]
  /\ UNCHANGED <<mode, now, tokens, step, user>>

-----------------------------------------------------------------------------
(* What else writes the links.  A login's are stored under no user.        *)

(* endWhatThePasswordOpened, of a password written.                        *)
WritePassword ==
  /\ mode = "carry" /\ user
  /\ \E u \in UserId : tokens' = spendUserTokens(tokens, u, "secondFactor", now, {})
  /\ UNCHANGED <<mode, now, step, user, call>>

(* users.delete: the user, then their tokens.                              *)
DeleteUser ==
  /\ mode = "carry" /\ user
  /\ user' = FALSE
  /\ UNCHANGED <<mode, now, tokens, step, call>>

DeleteUserTokens ==
  /\ mode = "carry" /\ ~ user
  /\ \E u \in UserId : tokens' = deleteUserTokens(tokens, u)
  /\ UNCHANGED <<mode, now, step, user, call>>

(* collectExpired, or a store that drops what lapsed by its own clock.     *)
CollectExpired ==
  /\ \E before \in now..now + Skew : tokens' = deleteExpiredTokens(tokens, before)
  /\ UNCHANGED <<mode, now, step, user, call>>

(* No count under way outlasts Slow.                                       *)
Tick ==
  /\ now < MaxTime
  /\ \A c \in Call : call[c].pc \in {"count", "insert", "recount"} => now < call[c].started + Slow
  /\ now' = now + 1
  /\ UNCHANGED <<mode, tokens, step, user, call>>

CallNext(c) ==
  \/ BeginSignIn(c) \/ BeginCode(c) \/ BeginMail(c)
  \/ CountLink(c) \/ InsertLink(c) \/ CountInserted(c)
  \/ Compare(c) \/ Send(c) \/ Issued(c) \/ SpendLink(c) \/ WriteFactor(c)
  \/ StoreFails(c)

Next ==
  \/ \E c \in Call : CallNext(c)
  \/ WritePassword \/ DeleteUser \/ DeleteUserTokens \/ CollectExpired \/ Tick

Spec == Init /\ [][Next]_vars

-----------------------------------------------------------------------------
LetThrough(w) == {c \in Call : call[c].guess # None /\ call[c].guess[1] = w}

CarriedOn ==
  user => \A w \in Window, s \in 0..MaxStep :
            Cardinality({c \in LetThrough(w) : call[c].guess[2] = s}) <= limit

PerRestart ==
  \A w \in Window :
    LET restarts == {c \in Call : call[c].pc = "done" /\ call[c].link[1] = w}
    IN  Cardinality(LetThrough(w)) <= limit * (1 + Cardinality(restarts))

(* No more is compared in a window than the limit: of codes, however many  *)
(* passwords are written meanwhile, until one is accepted (app-code-       *)
(* attempts.ts), for a spent link carries its attempts on to the next; of  *)
(* passwords, as many again for each sign-in that succeeded in it          *)
(* (sign-in-attempts.ts), for racing probes find the one link that counts, *)
(* and no clock drops it before its window ends.  Of e-mails, no more than *)
(* the limit is prepared in a window: a store that forgets nothing before  *)
(* it ends counts them all (mail-requests.ts).                             *)
GuessesWithinLimit == IF mode = "restart" THEN PerRestart ELSE CarriedOn

(* A count only fails by itself when the user was deleted meanwhile: the   *)
(* probes suffice, and no link is gone right after it was stored.          *)
NeverVanishes == \A c \in Call : call[c].pc = "vanished" => mode = "carry" /\ ~ user

=============================================================================
